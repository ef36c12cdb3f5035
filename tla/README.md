# Verification of edsm

TLA+ specifications of edsm, a daemon that lets tasks on a group of computers share memory, mutexes and
barriers over TCP. The modules are translated from the C sources (`src/` and `test/` of the repository; below,
`mutex.c:46` is `src/dobj/mutex.c`, line 46). TLC checks them on small instances, and TLAPS proves theorems
about them for every number of nodes and threads the theorem names.

To repeat a check: `tlc -config MutexPair.cfg MCMutex.tla`; to repeat proofs: `tlapm MutexProofs.tla`, and the same
for every other module `...Proofs.tla`; each takes from half a minute to a few minutes.
`PROJECT.json` lists the runs, and for every definition the lines it stands for.

## 1. The system

### 1.1 Components

| Component | Source | State | Operations |
|---|---|---|---|
| Group | `protocol.c`, `protocol_handshake.c`, `protocol_util.c` | `my_id`, the hash `peers` with a socket per peer, the handlers by message type | `group_join`, the listener's accept and read, `edsm_proto_send` to one peer or (id 0) to all |
| Distributed objects | `dobj/dobj.c` | the hash `objects`; of each object `peers`, `inited`, `ref_count`, a waiter; `_max_obj_id` | `edsm_dobj_create`, `_get`, `_send`, `_test_and_init`; handlers of CREATE, GET, GET_REPLY and object messages |
| Reply waiter | `dobj/reply_waiter.c` | the list `wait_on`, a condition variable | `set_wait_on`, `add_reply`, `wait` |
| Mutex | `dobj/mutex.c` | a Lamport clock, the node's own request, the deferred requests, a waiter, `local_mutex` | `edsm_mutex_get`, `_lock`, `_unlock`; handlers of REQUEST and REPLY |
| Barrier | `dobj/barrier.c` | a waiter | `arm`, `notify`, `wait`; the handler of a notification |
| Memory | `memory/memory.c`, `memory/memory_dobj.c` | regions of pages, a twin for each page being written, page protection, a Lamport timestamp | `region_get`, the page fault handler, `tx_begin`, `tx_end`, the handler of a diff |
| Tasks | `task.c` | the linked tasks by name | `edsm_task_send_up_call`, its handler, which starts a thread |
| Start-up | `edsmd.c` | `running` | listener, group join, handlers, tasks, shutdown |
| Messages, sockets | `message.c`, `socket.c` | byte buffers; file descriptors | read and write; connect, listen |
| Programs | `test/nbody.c`, `test/memory_task.c`, `test/test_task.c` | | what a task does with the objects |

### 1.2 How they interact

Every node runs a *listener thread*, which takes one message at a time from the connections and calls the
handler of its type, and *application threads*: the main thread, and one for each task that was started. Threads
of a node share the state above under several locks. Nodes share nothing but the connections, one between any
two nodes, each reliable and in order. All handlers of a node run in its listener, so a message that waits
behind another one on its connection waits for the whole handler of that one.

An application thread that needs the others sends its message and sleeps in a reply waiter until the listener has
counted a reply from every peer of a list. There are no timeouts, no retries and no persistent state; a connection that
ends stops the listener for good.

### 1.3 What is hard about it

* *Order across messages.* A mutex hands over with a REPLY; what makes the next holder see the memory, or
  the last object id, is only that the diff or the CREATE was sent before on the same connection.
* *Two threads of one node and its listener* race between the critical sections of an operation: a lock is
  several of them, a get is, and `tx_end` makes its diff in one and sends it after that: meanwhile another thread finds nothing
  to send and goes on. Stores of tasks ask for no lock at all; only the protection of a page holds them back.
* *Membership changes under way.* A node that joins a group or gets an object late meets requests that are
  being made; the lists of peers are read more than once in one operation.
* *Counting.* Each wait ends when exactly the expected replies have come; one too few blocks for ever, one too many
  ends a later wait early.

The list `hazards` in `PROJECT.json` names each place, the properties about it, and what no property covers yet.

### 1.4 What makes each component correct

| Component | Correct if |
|---|---|
| Group | running nodes have different ids; joined nodes can reach each other; a join returns |
| Objects | nodes that use an object know each other as its peers, and nobody else; a get returns; ids are new |
| Mutex | one holder at a time, in the order of the requests; every lock returns; the lock survives a join |
| Barrier | each notification is counted once and in its phase; nobody passes early; everybody passes |
| Memory | no stored byte is lost or echoed; copies agree when nothing is on the way; a holder reads the newest value |
| Messages | what a handler is given is what was sent next on the connection; every message is handled |
| Start-up | a start gets into the main loop; the loss of a process ends the others; a signal ends the process |
| Region get | it returns, and so do the locks that other threads of the node wait for meanwhile |

## 2. The modules

An abstract specification and the module that implements it stand on one line.

| Module | Models | Uses |
|---|---|---|
| `Mutex` (implements `LockService`) | lock, unlock and the handler of a mutex whose nodes know each other | |
| `MutexInvariants`, `MutexProofs` | inductive invariants and theorems | `Mutex` |
| `Dobj` | `edsm_dobj_get`, the GET handlers, the peers of an object | |
| `MutexJoin` | a mutex that nodes get while others lock it | `Mutex` and `Dobj` |
| `DobjInvariants`, `DobjProofs` | inductive invariants and theorems about both | `MutexJoin` and `MutexProofs` |
| `ObjectIds` | `edsm_dobj_create` and the CREATE handler | `Mutex` |
| `ObjectIdsProofs` | inductive invariant and theorems | `ObjectIds` and `MutexProofs` |
| `Barrier` (implements `Phases`) | barrier, waiter and the protocol of `nbody.c` | |
| `BarrierProofs` | inductive invariants and theorems | `Barrier` |
| `Memory` | page faults, twins and diffs with their sections | |
| `MemoryInvariants`, `MemoryProofs` | inductive invariants and theorems | `Memory` |
| `LockedMemory` | a shared counter under a mutex | `Mutex` and `Memory` |
| `LockedMemoryProofs` | inductive invariant and theorems | `LockedMemory` and `MutexProofs` |
| `NotifiedMemory` | the same beside a thread that notifies a barrier | `LockedMemory` |
| `RegionGet` | `edsm_memory_region_get` and the locks it holds, beside a mutex and the listener | `Mutex` |
| `Group` | `edsm_proto_group_join` and the handshake | |
| `Startup` | `main`, the signal handler, the listener's loop, the end of a connection | `Group` |
| `StartupProofs` | inductive invariants and theorems | `Startup` |
| `MessageBuffer` | the buffers of `message.c` | |
| `Wire` (implements `Connections`) | encodings, framing, sending and receiving on bounded connections | `MessageBuffer` |
| `WireProofs` | inductive invariant and theorems about both | `Wire` |

`MC...` modules hold the values that a configuration cannot write down. Modules that are composed are instances of
each other's definitions on shared connections: `MutexJoin`, for example, extends `Dobj` and has an instance `M` of `Mutex`
on the variables of its own, and each of its actions is an action of one of them with what the composition adds. What the other module sends on a
connection is the constant `Foreign` of `Mutex`, messages of other types than its own, which the handler of the mutex never meets.

Some definitions are marked as *slips*. Nothing refers to them; each one is a plausible error in the code that the
next definition models. Replaced by its slip, that definition makes the property that `PROJECT.json` names beside it
fail, which shows that the property depends on that code.

### 2.1 Conventions

* A *step* is what runs under one lock (`mutex->lock`, `local_lock`, `region_lock`, the waiter's lock) or, in a
  handler, up to the next point where another thread of the node can see a difference.
* `chan[p][n]` is the sequence of messages on the connection from p to n: TCP with the length-prefixed framing
  of `protocol_util.c:6-48`. Messages are records on connections without a bound: what that abstracts from, the
  bytes, the framing, the send lock and a full connection, is `Wire`, which implements `Connections`.
* `pc` says where each thread is in an operation, named after what it has done.
* Histories (`asked`, `unawaited`, `assigned`, `returned`, `count`) record what happened and guard nothing.
* Counters that the code lets grow are capped by a bound in the guard of the operation that starts things
  (`MaxTime`, `MaxRuns`, `MaxValue`, ...): an operation may not be *begun* beyond it, but runs to its end.

### 2.2 Correspondence

**Mutex.** `LockLocal`, `LockRequest`, `LockWait` are the three parts of `edsm_mutex_lock`: `local_mutex`, the
section under `mutex->lock`, the waiter. `UnlockReply` and `UnlockLocal` are `edsm_mutex_unlock`. `HandleRequest` and
`HandleReply` are the two cases of the handler. A reply goes to *every* peer of the object, because
`edsm_mutex_send_reply` (`mutex.c:15-25`) ignores its parameter `peer_id`. `local_request` keeps the time of the
node's own request, 0 standing for NULL. `LockService` has a set of waiting clients and a set with at most
one holder; a client is a thread of a node.

**Dobj.** `GetFound`, `GetAdd`, `GetArm`, `GetSend`, `GetWait` are the critical sections of `edsm_dobj_get`. The
handler of a GET is two steps, `LookupGet` and `AnswerGet`, because it looks the object up before it takes
`local_lock` (`dobj.c:110-111`): its answer can be out of date.

**MutexJoin.** `MutexGetTest` and `MutexGetInit` are the rest of `edsm_mutex_get`. `LockRequest` becomes two steps,
`LockArm` and `LockSend`, because the listener can add a peer between the snapshot of the peers that the
waiter is armed with and the sending of the request. `DropObjMsg` is the early return of `edsm_dobj_handle_message` for an
object that is unknown or not initialised.

**ObjectIds.** `edsm_dobj_create` is lock, `Increment`, `SendCreate`, unlock and `Return`, which reads `_max_obj_id`
*after* the unlock (`dobj.c:39-41`). `MaxObjId` gives each node its first value: zero, or on the older members of a group
more than on a node that has just joined.

**Barrier.** The waiter's list is a bag, because a node is in it once for each of its tasks. Tasks of a node that
are at the same stage are interchangeable and are counted. The stages and the steps of `main` follow `up_call` and
`run_simulation` of `nbody.c` from arm to arm. `edsm_barrier_notify` is four steps: `TaskTxEnd`, in which `diff_region` takes whatever the
node's tasks have written so far, `SendDiff` if there was anything, `TaskNotify` and `TaskNotifyLocal`. So a task may notify while its own
result is in the hands of another one (`taken`). Results are numbered as their node writes them; `dirty`, `taken`, the DIFFs on a
connection and `seen` are the sets of those that are in twins, in a diff in hand, on their way and in a copy. `Phases` is the computation without threads, messages and barriers: the tasks of each node have all
computed before one writes, and all have written before the results are read.

**Memory.** A page is a function from bytes to values; `memory`, `twins` and `writable` are the page, its twin
and its protection. `Fault` and `TxBegin` are the two sides of the page fault handler (the wait for `region_lock`
lies between them), `Store` an instruction of a task, `DiffRegion` and `SendDiff` the two parts of `edsm_memory_tx_end`, `ReadDiff`
and `ApplyPage` the handler, page by page. `DiffRegion` is one step to begin with, under `region_lock` from then on, two for each twin and
one to end: the page is protected (`Protect`), and then compared and its twin dropped (`Compare`). Stores do not ask for `region_lock`, so they come between
these steps wherever a page is writable; `halfway` is the page that is between the two. Faults and `ApplyPage` wait (`RegionFree`). `Owner` says which node stores to which byte; two nodes never store
to the same byte without a mutex, and that case is `LockedMemory`. A diff has, for each page, the set of its sections: one
for each maximal run of bytes that differ (`DifferentRuns`), with an offset, a length and the bytes. The length is
`contiguous_bytes` and has `Width` bits; a page without sections is one that the diff does not name.

**LockedMemory.** `UnlockTxEnd` is the `edsm_memory_tx_end` in `edsm_mutex_unlock`, under `mutex->lock`; the handler
of the mutex waits for that lock. A holder's thread is "ending" from `DiffBegin` until its diff is sent.

**RegionGet.** `GetLock`, `GetSend` and `GetReturn` are `edsm_memory_region_get` with the get of the region's object inside;
`UnlockBegin` and `UnlockReply` are the two ends of the section under `mutex->lock`, in which `edsm_memory_tx_end` waits for
the lock that `GetLock` has taken. The listener takes a message (`Take`) before it waits for a lock with it, so that what
is behind that message waits too.

**Group.** `GroupJoin`, `ConnectToPeer`, `ReadResponse`, `JoinReturn` are the main thread of a node that joins:
`peer_connect` for the member it was told of and then for each peer it was sent. `AcceptInit` and `AcceptAdd` are
`handle_new_connection`, divided where the answer has been sent and the newcomer is not in the hash yet.
`ListenerTakesResponse` is the listener reading from a peer that the main thread is waiting for, which the
code permits because a listed peer is in the hash from the start. It may get the whole answer, and main waits for one that is gone ("robbed"); or
each of the two may get pieces of it, since each reads size and body by itself from three writes ("garbled"). A process is also garbled when it reads a list
with an id that it knows and something behind it (`Misread`): `read_peerlist_from_message` does not skip the address of a known
id. What a garbled process makes of the bytes is not modelled, only that anything may end it. Nodes join through members whose own join is over.

**Startup.** `stage` is where `main` is outside the join, `listener` where the listener is. Connecting can fail, every process
can be told to stop, and a process that has ended (`Gone`) leaves the ends of its connections to its peers' listeners,
which stop, as `listen_thread` does. Object 0, which `edsm_dobj_init` gets, is reduced to a GET and a REPLY per peer:
enough to see who waits for whom. A GET that comes before `Register` is dropped, as `handle_message` does. Where the code goes
on with freed peers or writes to a closed socket, the process may end (`MainCrash`, `AnswerGone`) or go on.

**MessageBuffer and Wire.** A cell stands for a value that is written and read as a whole. `Write` takes cells from the
tail and resizes a buffer that is too short, `Read` gives cells to the head. `UpCallMessage`, `GetMessage` and so on
are the encodings of `task.c` and `dobj.c`, `ReadUpCall` and `ReadDobj` what the handlers read. `LockPeer` and
`WriteCells` are `edsm_proto_send`; a write stops where the connection is full. `ReadSize`, `ReadCells` and `Handle` are the
listener. Two histories, the messages sent and the last one handled, are what `Connections` talks about.

## 3. What the runs check

Sizes are distinct states. Every configuration switches the deadlock check off: in each of them the program may rightly
stop, when no thread calls an operation any more or the bound is reached. That something goes on when it must
is said by the liveness properties.

### 3.1 Runs that pass

| Run | Instance | States | Shows |
|---|---|---|---|
| `mutex_pair` | 2 nodes, 2 threads each, clocks up to 8 | 1 300 | mutual exclusion, hand-over in the order of timestamps, no lost reply, no cyclic deferral, the assertion of `edsm_mutex_lock`, `LockService`, every lock returns |
| `dobj_three` | 3 nodes, one with 2 threads | 211 000 | nodes that have the object know each other whatever crossed; only holders are known; no get waits in vain |
| `mutex_join` | 2 nodes, 2 threads each, each clock up to 2 | 1 290 000 | while nodes join, two holders are possible only if one locked before it knew the other, or sent a request without waiting for the reply |
| `object_ids` | 2 nodes, 2 threads each, clocks up to 9 | 31 100 | ids assigned under the lock are new; who has the lock has seen every earlier CREATE; copies grow and agree in the end |
| `barrier_pair` | 2 nodes, 2 tasks each, 2 runs | 227 000 | entries in the waiter's list and notifications to come agree at all times; phases do not overlap; results are complete when read, whoever sends them, and at hand in the next run; every run returns |
| `memory_pair` | 2 nodes, 2 threads each, one ends transactions, a page of 3 bytes, lengths of 2 bits, 2 transactions, 2 values | 1 560 000 | exactly the pages with a twin are writable, but for the one that is compared; only the node's own bytes are sent; every published byte arrives |
| `locked_memory` | 2 nodes, 2 threads each | 6 400 | a holder reads the newest value; copies agree when all is quiet |
| `startup` | 3 processes, one start at a time, one signal | 123 000 | unique ids; joined nodes reach each other; the assertions of the handshake hold until a process ends; a start gets into the loop, the end of one process stops the listeners of the others and ends those in their loops, and a signal ends a process, with the exceptions below |
| `region_get` | 2 nodes, 2 threads each, one lock each before they hear from each other | 38 900 | gets of the region and locks return |
| `wire` | 2 nodes with a thread and a listener, connections of 4 cells, 2 sends each | 100 000 | `Connections`; every message is handled |

Some of the liveness properties have exceptions, which are definitions with names and all happen. Those of `startup` do
not speak of a start whose GET was dropped, whose answer was taken by its own listener or during which another process was garbled, ended or was
told to; of a garbled process, which may wait for bytes that never come, so that none of its threads is obliged to go on; of a *deaf* process, whose `main`
has set `running` after its listener stopped and which goes on for ever when all others end; and of a signal that comes before
the main loop. The end of a process stops the listener of one that is still starting too, but nothing obliges its `main` to notice. Those of `region_get` except the one `Cycle` of three locks, and `DeliveredOrStuck` listeners that wait for each
other with full connections. So each of them says that nothing *else* goes wrong; the configurations in 3.3 show the exceptions.

*Are the bounds enough?* Each instance is large enough for the case its properties are about: two requests with
the same timestamp, and repeated rounds with messages of earlier rounds on the way (`mutex_pair`); a get that
finds the other two before, during and after theirs (`dobj_three`); a second local thread that overtakes the
first one's get (`mutex_join`); a list with a node in it twice, a second run with stale entries, and a task that notifies while the other one has its result
in hand (`barrier_pair`); a diff that
arrives in the middle of a fault, a second one behind it, and stores before, between and behind the two steps at a page (`memory_pair`);
a newcomer with two peers, and a third process that may be at any point of its start when one ends (`startup`); messages that are
longer than a connection holds, of two writers to one connection (`wire`). The safety properties of `dobj_three`, `memory_pair`, `wire` and
`startup` are also proved for any number of nodes, and so are those of `mutex_pair` that two nodes only touch (`NoLostReply`,
`DeferredFollow`); those of `mutex_join`, `object_ids` and `locked_memory` for two nodes and any number of threads and steps; those of `barrier_pair` for any number
of nodes, tasks and runs; `ComputesOnSent` says most for two workers, whose results go to each other directly while tasks come from the coordinator, and is
checked for them with `BarrierThree` (3.3). Two nodes are the limit for the modules built on `Mutex`, because with three the mutex is not one (3.2).

`Dobj`, `Memory`, `ObjectIds` (`TypeOK`) and `MutexJoin` (`JoinTypeOK`) define a type invariant that no run checks, because it
never was the interesting part; all four are proved.

### 3.2 Runs that fail, and what they found

Each one checks a single property that the code's own comments, assertions or tests state, and TLC finds a behaviour of
the code that violates it.

| Run | Violated | Why |
|---|---|---|
| `mutex_three` | `MutualExclusion` | A reply goes to all peers and is counted by whoever waits. With three nodes the reply to one requester also releases another one (`mutex.c:15-25`). |
| `group_concurrent` | `AssertionsHold` | The listener of a node that is still joining answers with id 0, and the newcomer aborts (`protocol_handshake.c:98`). |

### 3.3 Further configurations

They are not in the list of runs, but kept, because they answer questions a reader will ask. All but `BarrierThree` end with a violation.

| Configuration, module | Result |
|---|---|
| `MutexJoinLate`, `MCMutexJoin` | `MutualExclusion` fails: a late node's clock is 0, and a holder that never asked it grants its first request (`mutex.c:46`) |
| `MutexJoinCrossed`, `MCMutexJoin` | `AwaitedExclusion` fails: the peers awaited and the peers asked are read at two moments (`mutex.c:90-96`) |
| `MutexJoinDropped`, `MCMutexJoin` | `LockReturns` fails: a node counts as a user of the mutex before it handles messages for it; a REQUEST dropped in between is never sent again (`dobj.c:210`) |
| `ObjectIdsJoiner`, `MCObjectIds` | `AssignedUnique` fails: a node that joins late starts with id 0 (`dobj.c:30`) |
| `MemoryReordered`, `MCMemory` | `NoChangeLost` fails: two threads send their diffs in the opposite order of making them (`memory_dobj.c:134`) |
| `MemoryWholePage`, `MCMemory` | `DiffsReadable`, that a section's length is the number of its bytes, fails for a page one byte longer than a length can count, all of which has changed (`memory_dobj.c:193`). For shorter pages it follows from how a section is built, and is not a property of a run |
| `BarrierThree`, `Barrier` | `ComputesOnSent` holds with 3 nodes, 1 task each and 2 runs (2 420 000 states): a task computes with the earlier results of its own node and the coordinator, on the coordinator with all; those of another worker have at least been sent |
| `BarrierStale`, `Barrier` | `ComputesOnLatest` fails with 3 nodes: only the coordinator waits for a worker's results (`nbody.c:254`), as far as `ComputesOnSent` goes |
| `NotifiedMemory`, itself | `HolderReadsLatest` fails: `tx_end` of another thread takes the holder's twins and its diff is late (`memory_dobj.c:211`) |
| `StartupEarlySignal`, `Startup` | `EverySignalEnds` fails: the signal comes before `main` or the listener sets `running` |
| `StartupFailedJoin`, `Startup` | `NeverAborted` fails: of four processes one fails in its join because a listed peer does not listen yet; the member that it came through has its id in use, another member gives the same id to the next process, and the first member aborts on it (`protocol_handshake.c:151`). With three processes it cannot happen |

These properties fail in the instance of a run, put into its `.cfg` as the only INVARIANT.

| Property, run | Why it fails |
|---|---|
| `ReturnedUnique`, `object_ids` | the id is read after the unlock (`dobj.c:39-41`), and two creators return the same one |
| `NeverStuck`, `wire` | two listeners answer each other on full connections (`protocol_util.c:40`) |
| `NeverDropped`, `startup` | a GET comes before the handlers are registered (`edsmd.c:36`) |
| `NeverDeaf`, `startup` | `main` sets `running` after the listener has stopped (`edsmd.c:78`) |
| `NeverCycle`, `region_get` | the getter of a region, the listener and an unlock wait for each other (`memory.c:48`) |
| `IdsUnique`, `group_concurrent` | two members hand out the same id (`protocol_handshake.c:52`, "TODO: Lock on ID here") |

### 3.4 Fairness

Liveness is stated under fairness of single steps:

* *The listener* handles a message that is there: its loop serves every readable connection in each round of
  `pselect` (`protocol.c:99-113`). In `Mutex`, `ObjectIds` and `Barrier` that is weak fairness per connection; in
  `Dobj` and `Wire`, where messages run out, weak fairness per listener is enough. In `Startup` a message, a new connection
  and the end of one are separate: each round serves all of them. `RegionGet` has a strong
  fairness of `Take` per connection, because there a listener that is busy with a message takes no other.
* *A thread* inside an operation runs on: the operating system schedules it. In `RegionGet` `Unlock` is strongly fair: it waits to
  read-lock the regions, which other threads write-lock again and again, and the default rwlock of Linux prefers readers.
* *A holder* unlocks what it has locked, as the tasks in `test/` do. This is the one assumption on programs.
* Nobody is obliged to lock, get, create, send, start a run, join or send a signal. In `Startup` the listener is
  not obliged to overtake the main thread either, so a robbed join is possible and not certain, and no process has to crash.

## 4. What is proved

### 4.1 The mutex

`MutexProofs` has these theorems. `NodeAssumption` (ids are positive), `ThreadAssumption` (`NoThread` is no thread) and
`MaxTimeAssumption` are the only assumptions on the constants; nodes, threads and bounds are arbitrary otherwise.

| Theorem | Says |
|---|---|
| `TypeCorrect` | `Spec => []TypeOK` |
| `RequestFree` | the assertion in `edsm_mutex_lock` never fails |
| `DeferralOrdered` | a node defers only requests that come after its own |
| `RepliesNotLost` | every awaited reply is still owed |
| `PairMutualExclusion` | with at most two nodes, at most one thread holds the mutex |
| `PairRequestOrder` | with at most two nodes, a lock returns only if its request comes first |
| `PairImplementsLock` | with at most two nodes, `Spec` implements `LockService` |

The last three assume `AtMostTwoNodes`, and must: `mutex_three` refutes them for three nodes.

*The argument.* None of these invariants is inductive. `MutexInvariants` strengthens them in three layers, each checked
by TLC before it was proved.

1. `LocalInv`, about one node: `local_mutex` belongs to the thread that is inside, there is a request exactly while
   that thread waits or holds, and replies are awaited only while it waits. It gives `RequestFree`.
2. `AnswerInv` adds that each awaited reply is owed by somebody, with the request on its way, deferred behind a
   request that precedes it, or answered. The broadcast of replies makes this delicate: an extra reply removes
   an entry from a list, which is harmless here, but can never add one. It holds for any number of nodes.
3. `TwoInv` follows the request of one node at the other one: it is in one place at a time, no message has a time
   its sender has not reached, and once a node has answered, its clock is beyond the request, so that its own next request
   comes behind it (`Ahead`). Two holders would have to precede each other.

The proofs have one lemma for each action, and under it one step for each conjunct that the action can disturb. Facts
about the operators (`Insert`, `Sent`, `Received`, `Clock`) are lemmas of their own. The module ends with what a composition
needs: a step that sends or takes foreign messages only keeps `TwoInv` (`ForeignStep`), and where a holder's reply can be.

### 4.2 The objects

`DobjProofs` has these, for any set of nodes and of threads; `NodeAssumption` and `GetThreadAssumption` are all they assume.

| Theorem | Says |
|---|---|
| `DobjInvariant` | `Spec => []DobjInv`, the inductive invariant, with `TypeOK` |
| `UsersKnowEachOther` | nodes whose gets have returned know each other (`PeersMutual`) |
| `UsersHoldObject` | only holders are known (`PeersHold`) |
| `GetsNotLost` | every reply that a get waits for is underway (`NoGetLost`) |

*The argument.* `PeersMutual` says nothing while a get goes on, and a lookup may be out of date when it is answered. The
invariant has to say what a "no" is worth. If p did not have the object when it was asked by n, it had not sent its own GETs, and n
had the object; so p's GET, when it comes, finds it (`WillFind(p, n)`): it is not sent yet, or it is awaited and
no "no" is on its way, or they know each other already. `PairInv` says that this holds as soon as a "no" exists, and still
when n's get is over; `MessageInv` that a "yes" comes from a node that has already added the asker; `ThreadInv` that
a node asks once. Of two GETs that cross at most one fails.

The second part of `DobjProofs` is about the mutex that such an object is, as `MutexJoin` describes it: gets, lookups and
drops of messages go on while the nodes that have the mutex lock it.

| Theorem | Says |
|---|---|
| `JoinTypeCorrect` | `JoinSpec => []JoinTypeOK`, for any set of nodes |
| `SettledNodesExclude` | with at most two nodes, nodes that have settled exclude each other (`SettledExclusion`) |

*The argument.* `PairMutualExclusion` does not apply: its invariant rests on each node having the other among its peers, and here messages
are lost, requests are sent to peers that are not awaited and locks return without having asked anybody. What is left is an invariant about
*one direction*, `SettledInv(i, j)`: as long as i has never sent j a REQUEST whose reply it did not wait for, there is at most one request of i
on its way to j and at most one reply on its way back (`OneRequest`), the request is on its way, deferred or answered (`InPlace`), or
it was dropped and i waits for ever; and from j's answer on j's clock is beyond the request and every request of j comes behind it (`GrantAhead`).
It does not speak of what j sends when j does not know i. Two holders that are settled have each got the answer of the other (`asked` without
`lock_wait_on`), so that each one's request would come before the other's. What a REQUEST without a wait does to the pair is what
`MutexJoinCrossed` shows: its late reply is taken for that to the next request. `JoinLocalInv` adds, for any number of nodes, that one thread is in
lock or unlock, that replies are awaited only while it waits, and that no node hears from itself. The lemmas about connections are those of
`MutexProofs`, instantiated with the messages of the dobj layer as the foreign ones; `AtMostTwoNodes` is needed for the same reason as there.

### 4.3 Object ids

`ObjectIdsProofs` composes `MutexProofs`: the mutex is not proved again, but instantiated with CREATE as the foreign message. All theorems assume
`AtMostTwoNodes`, as exclusion does, and `StartedTogether`, that the copies of `_max_obj_id` agree at first, which
`ObjectIdsJoiner` shows to be needed. Threads, first values and bounds are arbitrary.

| Theorem | Says |
|---|---|
| `IdsTypeCorrect` | `Spec => []TypeOK` |
| `IdsAssignedOnce` | no id is assigned twice (`AssignedUnique`) |
| `HolderHasSeenAll` | who has got `object_lock` has seen every earlier CREATE (`HolderUpToDate`) |
| `IdsOnlyGrow` | no CREATE takes an id back (`CopyGrows`) |

*The argument.* A holder knows that the other node has replied; it has to follow that no CREATE is behind that reply. `IdsInv` says it
of each connection: CREATEs are in the order of their ids, ahead of a REPLY (`AheadOfReply`) and news to the receiver (`CreatesAreNews`); the
newest id is known, on its way, or still to be sent by its creator (`Catching`); and once the reply has been received,
nothing is on the way (`Heard`). The step that matters is the reply itself, which `UnlockReply` sends behind the CREATE. An assignment is
new because the holder has seen the last one and ids are assigned in order (`AssignedInOrder`).

### 4.4 The memory

`MemoryProofs` has these, for any set of nodes, threads and pages, any size of page and any assignment of bytes to owners.
All of them assume `SmallPages`, that a page is shorter than a section's length can count, which `MemoryWholePage` shows to
be needed (4 KiB pages and 16 bits in the code); those marked with * also assume `OneTxThread`, one thread in each node that
ends transactions, which `MemoryReordered` shows to be needed.

| Theorem | Says |
|---|---|
| `DiffFaithful` | the sections made of a page and its twin, written into the twin, give the page |
| `PagesInvariant`, `MemoryInvariant`* | the inductive invariants `PagesInv` and `MemoryInv` |
| `MemoryTypeCorrect` | `Spec => []TypeOK` |
| `StoresAreTwinned` | a page is writable exactly while it has a twin and is not being compared (`WritableTwinned`) |
| `NothingEchoed` | a diff has bytes of its sender only (`OnlyOwnChanges`) |
| `ChangesArrive`* | no published change is lost or overwritten by an older one (`NoChangeLost`) |

*The argument.* `DiffFaithful` is about one page: each byte that differs lies in exactly one maximal run, which begins behind the
greatest byte before it that does not differ and ends before the least one after it, and with `SmallPages` the length of the run
is not cut off. `PagesInv` adds that a byte of another node is the same in a page and its twin (`TwinsAgree`), because diffs
are applied to both; so a difference is always a change of one's own, and what is underway never touches a byte of its receiver
(`ApplyingForeign`). `DiffsInMaking` is about `diff_region`: as long as a page has a twin, the diff that is made has nothing of it, so that what is compared later
is added once; and since the page is protected before, no store comes between. `ChangesUnderway` follows each byte to each other node: the last diff underway that brings it brings
what its owner has published, counting the diff that is being made or not sent yet as the last one. With two threads between making and sending
that is false, and so is the property.

### 4.5 The memory under a mutex

`LockedMemoryProofs` is built in the same way, with the diffs as the foreign messages, and assumes `AtMostTwoNodes`.

| Theorem | Says |
|---|---|
| `HolderHasNewest` | a holder reads the newest value of the counter (`HolderReadsLatest`) |
| `CopiesAgreeWhenQuiet` | when nothing is underway and nobody is inside, the copies agree (`QuietCopiesAgree`) |

*The argument.* It is the one of the ids, with a value that is first stored, then put into a diff page by page, then sent, then applied in two steps.
`Seen(n)` is the value that n has or will have when it is done with the diff it applies. `LockedInv` adds what the two modules say
about one thread: stores only by the holder (`WritesUnderLock`), a twin only for a holder that has not made its diff and different from
the page exactly when it has stored (`TwinsOfHolder`), and a diff not sent that has nothing in it before the page is compared (`Comparing`) and brings the value of the page
afterwards (`UnsentBrings`). `Heard` here includes that no diff is being applied: the listener takes the REPLY behind a diff only when it is done with it.

### 4.6 The group

`StartupProofs` proves the safety properties of `startup` for any finite set of processes, any of which may fail, be told to stop or crash at
any moment. It assumes `MaxJoining = 1`, one join at a time, which `group_concurrent` shows to be needed.

| Theorem | Says |
|---|---|
| `StartIsGroup` | `Startup` implements a group that grows as `Group` says and loses members (`LossSpec`) |
| `StartTypeCorrect` | `StartSpec => []StartTypeOK`: ids do not run ahead of the number of processes, a connection holds two messages at most |
| `IdsApart` | running processes have different ids (`IdsUnique`) |
| `MembersReachable` | processes whose joins have returned reach each other (`GroupConnected`) |
| `NobodyAborts` | the assertions of the handshake hold until a process ends (`AssertionsHold`) |

*The argument.* The proof goes by `LossSpec`, in which a step is one of `Group`, a node that is lost with all it has, or an INIT of a lost node
that is dropped. No property is inductive, because a join takes many steps and everything is said of its end. `GroupInv` says what holds
in between. While a newcomer has no id, the answer that it is sent names every member under its id, and the member that answers has the newcomer or is about
to (`AnswerComplete`). From then on it has every member among its peers, and those that it has connected to know it or have its INIT
(`JoinerConnects`); when all are connected that is `MembersConnected`. An id is fresh because the one that gives it out knows
every member, and nobody else is joining; `OwnIdApart` says that a node knows no other under its own id. `IdsSmall` counts: ids are at most the number of
processes that have been answered.

Two things are different once a process has ended. Members may have different hashes, so that an id may be given out again; running
processes still have different ids, because the ids of a joining node's peers include those of all members. But a node may be known under an id that
another gets, and then the assertion that no id is in the hash twice fails, as `StartupFailedJoin` shows. So `NobodyAborts` rests on
a second invariant, `NobodyTwice`, for as long as no process has ended: everybody is known under its own id (`KnownRight`), and
nobody that has heard of a node is still to be connected to by it (`InitNew`, `NotTold`).

### 4.7 Messages and connections

`WireProofs` is about any finite set of nodes, any threads on each, any contents of the kinds that the code sends, any capacity of the
connections above 0 and any room that a buffer begins with. These are the assumptions of `Wire`; `ContentAssumption` says no more
than that names, data and ids are made of numbers.

| Theorem | Says |
|---|---|
| `WriteAppends` | `edsm_message_write` leaves a well-formed message whose data is the old data with what was written behind it, also when the buffer had to be replaced |
| `ReadTakes` | `edsm_message_read` succeeds exactly when there is enough data; what it returns and what it leaves make up the old data, and a failed read takes nothing |
| `FramesAreRead` | the size in front of a message is the length of what follows, and the handlers read from it what was sent |
| `WireCorrect` | `Spec => []Inv`, the inductive invariant, with `TypeOK` |
| `WireDelivers` | `Spec => ImplementsConnections`: a handler is given each message once, as it was sent, in the order of the sending |

*The argument.* Writing is three steps: making room keeps the data (`RoomMade`, the case of `Resize` in which the head room stays),
filling changes only cells of the tail room, and `Put` moves the bound over exactly those (`FilledAppends`). The encodings are writes
one behind the other, and each reader takes from the front what a writer has put there (`StringRead`, `MessageRead`, NULL included);
so for each kind of message there is a sequence of cells that its encoding holds, and from any message that holds it the
handler reads what was sent (`EncodedRead`). That includes the clone that a node handles when it sends to itself.

`ImplementsConnections` is not inductive: it says nothing of a message that is half written or half read. `StreamInv` follows the cells. What
the listener has in hand, what is on the connection and what the holder of the send lock has still to write are, in this order, the frames
of the messages that have been written and of the one being written, with nothing between them. Writing and reading move cells from one
of the three to the next and leave the whole as it was; a frame is added behind when the lock is taken, and taken from the front when a message is
handled. `Framed` says that cells are frames by the places where the frames end, because a recursive
definition could not be unfolded in a proof. A listener that has read as many cells as the size says has in hand the first
frame (`CompleteIsFirst`), and that one has been written to its end; so it is the first of `chan`, and `FramesAreRead` says what the handler
gets. Two parts of the invariant keep the three pieces apart: only the holder of the send lock is in the middle of a message to a peer
(`LockInv`), so that frames do not mix, and a listener reads one message at a time, with nothing to send meanwhile, and not beyond its
end (`ListenInv`).

### 4.8 The barriers

`BarrierProofs` is about any set of nodes, any number of threads on each and any number of runs; it assumes what `Barrier` does, that the
coordinator is one of finitely many nodes and that there is at least one thread.

| Theorem | Says |
|---|---|
| `CountsHold`, `ResultsOnTheirWay` | the inductive invariants `CountInv` and `DataInv` |
| `BarrierTypeCorrect` | `Spec => []TypeOK`: no entry is counted off where there is none |
| `NotificationsCounted` | the list of the completion barrier and the notifications to come agree (`NotificationsMatch`) |
| `RunsInPhases` | `Spec` implements `Phases`: the two phases of a run do not overlap |
| `AllResultsRead` | `run_simulation` returns the results of all tasks (`ReadsLatest`) |
| `ComputesOnResultsSent` | a task computes with the earlier results of its own node and the coordinator, on the coordinator with those of all, and the others have been sent (`ComputesOnSent`) |

*The argument.* Nothing in the code says which phase a notification belongs to; it is counted in the phase in which it comes. That it is the right one
is a matter of numbers, and `CountInv` keeps the account of each node. `TasksCounted`: at every stage of `run_simulation` the tasks
of the node, sent, running or waiting, make up the number of its threads. `EntriesMatch`: the coordinator's list has one entry for each notification
that is on its way or has still to be sent in the phase, and when the wait is over none is left to carry over into the next one.
`ClientBarrier`: a task armed the client barrier before it computed, so the barrier is shut until the coordinator's one notification of
the run takes its entry out, and nobody arms it again before the next run, because every task has gone through it by then. `NotificationsMatch` alone is
not inductive: it says nothing of the moment between the waits, nor of the client barrier. `MessagesFit`, that only the coordinator sends tasks and
opens barriers, makes the counts of the connections meaningful.

Each step adds to one term of these sums what it takes from another. Counting on a connection is a cardinality, for which there are three lemmas
(`OccurrencesFinite`, `OccurrencesAppend`, `OccurrencesTail`); the rest is arithmetic, one lemma for each action. The refinement follows: `Turn` and
`Read` are the ends of the two waits, when the sums of all nodes are zero.

`DataInv` follows the results. Each result of a node is in its twins, in a diff in hand, on its way to another node or in that one's copy
(`NothingLost`), and what is in twins or in hand belongs to a task that has still to notify (`DirtyWritten`, `DiffsInHand`): not always to the one that wrote the
result, which may have notified already. So no single notification means that a result has been sent. What the coordinator can rely on is the whole account: its wait
is over only when *every* task of the node has notified, and then nobody is left to have a diff in hand. What is still on the connection is then behind no notification
(`DiffBeforeNotify`: a diff is followed by the notification of the task that sent it), so no diff is left there either (`DiffsTaken`), and the coordinator has
all results. In the other direction the diffs of the coordinator are ahead of the tasks of the next run (`DiffBeforeTask`). Between two other nodes nothing
orders a diff before a task; `ComputesOnResultsSent` says that the diff has left, and `BarrierStale` that it may not have come.

### 4.9 What is only model-checked

* All liveness properties, and with them all that is checked of `RegionGet`: fairness and ENABLED are out of the prover's reach.
* What the configurations of 3.2 and 3.3 show: they are behaviours, which TLC finds, and not theorems.

Every invariant, action property and refinement that a passing run checks is a theorem. Where a theorem has assumptions
on constants that its module does not make (`AtMostTwoNodes`, `StartedTogether`, `SmallPages`, `OneTxThread`, `MaxJoining = 1`), a
configuration of 3.2 or 3.3 shows what happens without it.

## 5. What is not modelled

* *Data races* on the hash `peers`, which no lock protects, and on a waiter that is used before it exists (`mutex.c:73`):
  the code gives no meaning to what follows. The windows themselves are steps of `Group` and `MutexJoin`.
* *Integer widths* other than that of a section's length: clocks and ids are natural numbers, and would need 2^32 locks
  or objects to overflow. Byte order: all nodes have the same one.
* *Failing allocations*: the code does not handle them.
* *Bytes that are read as something else*: what a garbled process does with them, beyond ending or waiting for ever. It needs an answer that two threads of
  one process read from, or two joins at once.
* *`edsm_task_link`*: `dlopen` and symbol lookup. A started task is a thread of `Barrier`, and its message is in `Wire`.
* *The allocation of a region's pages* by `edsm_memory_region_get`, and more than one region: regions share no state.
* *Address conversions* of `socket.c`, `debug.c`, `timing.c`: input and output. `uthash` is vendored; a hash is a set or a function.
* In the test programs, `init_simulation` and the drawing of `nbody.c`, and the unit tests.

## 6. Plan

The order was: the mutex, since everything else rests on it, with its proofs; the objects and the join of a mutex; ids;
barriers; memory, alone and under a mutex; the group; then messages, start-up, the locks of a region get, and the
proofs about memory and objects; then those about ids, memory under a mutex, the group and the barriers, and
last those about the join of a mutex, the encodings and the connections. The plan is carried out; what is open are the
hazards that no property covers, each with its reason in `PROJECT.json`.
