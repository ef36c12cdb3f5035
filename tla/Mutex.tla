------------------------------- MODULE Mutex -------------------------------
(***************************************************************************)
(* The distributed mutex of src/dobj/mutex.c, one mutex object shared by   *)
(* the nodes that hold a reference to it.                                  *)
(*                                                                         *)
(* A thread that calls edsm_mutex_lock takes the node's local_mutex, sends *)
(* a REQUEST stamped with the node's Lamport clock to every peer of the    *)
(* object and waits until each of them has replied.  A node that receives  *)
(* a REQUEST replies at once unless its own request comes first, in which  *)
(* case the request is kept in the list `requests' until edsm_mutex_unlock *)
(* replies to it.  A reply is sent with edsm_dobj_send, which addresses    *)
(* EVERY peer of the object and not only the requester                     *)
(* (edsm_mutex_send_reply ignores its peer_id parameter).                  *)
(*                                                                         *)
(* mutex->lock serialises the handler of the listener thread and the       *)
(* critical parts of lock and unlock, so each of those parts is one step.  *)
(* The dobj layer is seen through `peers' (dobj->peers) and through the    *)
(* channels; module Dobj models how peers come to know each other, and     *)
(* module MutexJoin composes the two.                                      *)
(***************************************************************************)
EXTENDS Integers, Sequences, FiniteSets, Functions

CONSTANTS
  Node,      \* peer ids: positive, because id 0 addresses every peer
  Thread,    \* the application threads of each node
  NoThread,  \* value of local_mutex when no thread holds it
  MaxTime,   \* bound: no thread of n calls lock once n's clock is MaxTime[n]
  Foreign    \* what other modules send on the same connections

ASSUME NodeAssumption == Node \subseteq Nat \ {0}
ASSUME ThreadAssumption == NoThread \notin Thread
ASSUME MaxTimeAssumption == MaxTime \in [Node -> Nat]
ASSUME ForeignAssumption ==
  \A m \in Foreign : m.type \notin {"REQUEST", "REPLY"}

VARIABLES
  peers,          \* peers[n]: the peers of the object known to n
  chan,           \* chan[p][n]: the messages on the connection from p to n
  l_time,         \* Lamport clock of each node's mutex
  local_request,  \* time of the node's own request, NoRequest for NULL
  requests,       \* the deferred requests of other nodes, sorted
  wait_on,        \* waiter->wait_on: the peers whose reply is awaited
  local_mutex,    \* the thread that holds the node's local_mutex
  pc              \* where each thread is in lock and unlock

mutexVars == <<l_time, local_request, requests, wait_on, local_mutex, pc>>
vars == <<peers, chan, mutexVars>>

----------------------------------------------------------------------------
(***************************************************************************)
(* Requests and messages                                                   *)
(***************************************************************************)

\* Clocks start at 0 and tick before a request is stamped, so 0 is no request.
NoRequest == 0

RequestMsg(t) == [type |-> "REQUEST", l_time |-> t]
ReplyMsg(t)   == [type |-> "REPLY", l_time |-> t]

MutexMessage == [type : {"REQUEST", "REPLY"}, l_time : Nat]
AnyMessage   == MutexMessage \cup Foreign
RequestEntry == [l_time : Nat, peer_id : Node]

LocalRequest(n) == [l_time |-> local_request[n], peer_id |-> n]

\* A slip of request_comp: ties go to both sides.
PrecedesTies(a, b) == a.l_time <= b.l_time

\* request_comp(a, b) < 0
Precedes(a, b) ==
  \/ a.l_time < b.l_time
  \/ a.l_time = b.l_time /\ a.peer_id < b.peer_id

\* LL_APPEND then LL_SORT on a list that is already sorted: the new entry
\* goes behind those that do not come after it.
Insert(s, e) ==
  LET before == Cardinality({k \in DOMAIN s : ~ Precedes(e, s[k])})
  IN  [k \in 1 .. Len(s) + 1 |-> IF k <= before THEN s[k]
                                 ELSE IF k = before + 1 THEN e
                                 ELSE s[k - 1]]

\* edsm_dobj_send: the messages ms of n go to every peer of the object.
Sent(c, n, ms) ==
  [c EXCEPT ![n] = [p \in Node |-> IF p \in peers[n] THEN c[n][p] \o ms
                                   ELSE c[n][p]]]

\* The next message of p to n, and the request it makes if it is one.
Message(p, n) == Head(chan[p][n])
Other(p, n)   == [l_time |-> Message(p, n).l_time, peer_id |-> p]

Received(p, n) == [chan EXCEPT ![p][n] = Tail(@)]

\* The clock of n after a message stamped t.
Clock(n, t) == 1 + (IF t > l_time[n] THEN t ELSE l_time[n])

----------------------------------------------------------------------------
MutexInit ==
  /\ l_time        = [n \in Node |-> 0]
  /\ local_request = [n \in Node |-> NoRequest]
  /\ requests      = [n \in Node |-> << >>]
  /\ wait_on       = [n \in Node |-> {}]
  /\ local_mutex   = [n \in Node |-> NoThread]
  /\ pc            = [n \in Node |-> [t \in Thread |-> "idle"]]

\* Every node has finished edsm_mutex_get, so they all know each other.
Init ==
  /\ peers = [n \in Node |-> Node \ {n}]
  /\ chan  = [p \in Node |-> [n \in Node |-> << >>]]
  /\ MutexInit

Goto(n, t, from, to) ==
  /\ pc[n][t] = from
  /\ pc' = [pc EXCEPT ![n][t] = to]

\* A slip of edsm_mutex_lock: peer id 0, the address of all, is awaited too.
AwaitedWithAll(n) == peers[n] \cup {0}

\* The peers whose replies a lock waits for.
Awaited(n) == peers[n]

\* A slip of edsm_mutex_lock: local_mutex is taken whoever holds it.
LockLocalUnguarded(n, t) ==
  /\ l_time[n] < MaxTime[n]
  /\ Goto(n, t, "idle", "locking")
  /\ local_mutex' = [local_mutex EXCEPT ![n] = t]
  /\ UNCHANGED <<peers, chan, l_time, local_request, requests, wait_on>>

(***************************************************************************)
(* edsm_mutex_lock: take local_mutex; then, under mutex->lock, tick, arm   *)
(* the waiter with the peers, send the REQUEST and record it as the local  *)
(* request; then wait for the waiter.                                      *)
(***************************************************************************)
LockLocal(n, t) ==
  /\ l_time[n] < MaxTime[n]
  /\ local_mutex[n] = NoThread
  /\ Goto(n, t, "idle", "locking")
  /\ local_mutex' = [local_mutex EXCEPT ![n] = t]
  /\ UNCHANGED <<peers, chan, l_time, local_request, requests, wait_on>>

LockRequest(n, t) ==
  /\ Goto(n, t, "locking", "waiting")
  /\ l_time' = [l_time EXCEPT ![n] = @ + 1]
  /\ wait_on' = [wait_on EXCEPT ![n] = Awaited(n)]
  /\ chan' = Sent(chan, n, <<RequestMsg(l_time[n] + 1)>>)
  /\ local_request' = [local_request EXCEPT ![n] = l_time[n] + 1]
  /\ UNCHANGED <<peers, requests, local_mutex>>

LockWait(n, t) ==
  /\ wait_on[n] = {}
  /\ Goto(n, t, "waiting", "held")
  /\ UNCHANGED <<peers, chan, l_time, local_request, requests, wait_on,
                 local_mutex>>

\* A slip of edsm_mutex_unlock: the deferred requests are freed unanswered.
RepliesForgotten(n) == << >>

\* One reply, each with a tick, for every deferred request.
Replies(n) == [k \in 1 .. Len(requests[n]) |-> ReplyMsg(l_time[n] + k)]

(***************************************************************************)
(* edsm_mutex_unlock: under mutex->lock one reply, with a tick, for each   *)
(* deferred request; the list is emptied and the local request dropped;    *)
(* then local_mutex is released.                                           *)
(***************************************************************************)
UnlockReply(n, t) ==
  /\ Goto(n, t, "held", "unlocking")
  /\ l_time' = [l_time EXCEPT ![n] = @ + Len(requests[n])]
  /\ chan' = Sent(chan, n, Replies(n))
  /\ requests' = [requests EXCEPT ![n] = << >>]
  /\ local_request' = [local_request EXCEPT ![n] = NoRequest]
  /\ UNCHANGED <<peers, wait_on, local_mutex>>

UnlockLocal(n, t) ==
  /\ Goto(n, t, "unlocking", "idle")
  /\ local_mutex' = [local_mutex EXCEPT ![n] = NoThread]
  /\ UNCHANGED <<peers, chan, l_time, local_request, requests, wait_on>>

\* Slips of the handler: it replies only when it wants nothing itself, or
\* always.
ReplyWhenIdle(n, other) == local_request[n] = NoRequest
ReplyAlways(n, other) == TRUE

\* The handler of n replies at once to the request other.
ReplyAtOnce(n, other) ==
  \/ local_request[n] = NoRequest
  \/ Precedes(other, LocalRequest(n))

(***************************************************************************)
(* edsm_mutex_handle_message, called by the listener thread of n for the   *)
(* next message on the connection from p.                                  *)
(***************************************************************************)
HandleRequest(n, p) ==
  /\ chan[p][n] # << >>
  /\ Message(p, n).type = "REQUEST"
  /\ LET now == Clock(n, Message(p, n).l_time)
     IN  \/ /\ ReplyAtOnce(n, Other(p, n))
            /\ l_time' = [l_time EXCEPT ![n] = now + 1]
            /\ chan' = Sent(Received(p, n), n, <<ReplyMsg(now + 1)>>)
            /\ UNCHANGED requests
         \/ /\ ~ ReplyAtOnce(n, Other(p, n))
            /\ l_time' = [l_time EXCEPT ![n] = now]
            /\ chan' = Received(p, n)
            /\ requests' = [requests EXCEPT ![n] = Insert(@, Other(p, n))]
  /\ UNCHANGED <<peers, local_request, wait_on, local_mutex, pc>>

HandleReply(n, p) ==
  /\ chan[p][n] # << >>
  /\ Message(p, n).type = "REPLY"
  /\ l_time' = [l_time EXCEPT ![n] = Clock(n, Message(p, n).l_time)]
  /\ chan' = Received(p, n)
  /\ wait_on' = [wait_on EXCEPT ![n] = @ \ {p}]
  /\ UNCHANGED <<peers, local_request, requests, local_mutex, pc>>

----------------------------------------------------------------------------
Lock(n, t)   == LockLocal(n, t) \/ LockRequest(n, t) \/ LockWait(n, t)
Unlock(n, t) == UnlockReply(n, t) \/ UnlockLocal(n, t)
Handle(n, p) == HandleRequest(n, p) \/ HandleReply(n, p)

Next ==
  \/ \E n \in Node, t \in Thread : Lock(n, t) \/ Unlock(n, t)
  \/ \E n, p \in Node : Handle(n, p)

Spec == Init /\ [][Next]_vars

(***************************************************************************)
(* Fairness.  The listener loop serves every readable connection in each   *)
(* round of pselect, and threads run; nothing obliges a thread to call     *)
(* lock, but one that holds the mutex is assumed to unlock it, as the      *)
(* tasks of the test directory do.                                         *)
(***************************************************************************)
Fairness ==
  /\ \A n, p \in Node : WF_vars(Handle(n, p))
  /\ \A n \in Node, t \in Thread :
       /\ WF_vars(LockRequest(n, t))
       /\ WF_vars(LockWait(n, t))
       /\ WF_vars(Unlock(n, t))

FairSpec == Spec /\ Fairness

----------------------------------------------------------------------------
(***************************************************************************)
(* Properties                                                              *)
(***************************************************************************)

\* Every variable has its type; requests carry a time of the past.
TypeOK ==
  /\ peers \in [Node -> SUBSET Node]
  /\ chan \in [Node -> [Node -> Seq(AnyMessage)]]
  /\ l_time \in [Node -> Nat]
  /\ local_request \in [Node -> Nat]
  /\ requests \in [Node -> Seq(RequestEntry)]
  /\ wait_on \in [Node -> SUBSET Node]
  /\ local_mutex \in [Node -> Thread \cup {NoThread}]
  /\ pc \in [Node -> [Thread -> {"idle", "locking", "waiting", "held",
                                 "unlocking"}]]

\* At most one thread of one node is between lock and unlock: what "Got
\* mutex!" in test_task.c stands for, and edsm_dobj_create relies on.
MutualExclusion ==
  \A m, n \in Node : \A s, t \in Thread :
    pc[m][s] = "held" /\ pc[n][t] = "held" => m = n /\ s = t

\* The assertion of edsm_mutex_lock: a thread that holds local_mutex and is
\* about to request finds no request of another local thread.
LocalRequestFree ==
  \A n \in Node, t \in Thread :
    pc[n][t] = "locking" => local_request[n] = NoRequest

\* One of the messages s has this type.
Carries(s, type) == \E m \in Range(s) : m.type = type

\* A reply to n can still come from p: the request is under way, or p has
\* deferred it and will unlock, or the reply is under way.
ReplyOwed(n, p) ==
  \/ RequestMsg(local_request[n]) \in Range(chan[n][p])
  \/ /\ \E r \in Range(requests[p]) : r.peer_id = n
     /\ \E t \in Thread : pc[p][t] \in {"waiting", "held"}
  \/ Carries(chan[p][n], "REPLY")

\* No lock waits for a reply that nobody will send any more: between the
\* handler, the deferred list and unlock no request is forgotten.
NoLostReply ==
  \A n \in Node : \A p \in wait_on[n] : ReplyOwed(n, p)

\* A node defers only requests that come after its own, so that deferred
\* requests can never wait for each other in a cycle.
DeferredFollow ==
  \A n \in Node : \A r \in Range(requests[n]) :
    local_request[n] # NoRequest /\ Precedes(LocalRequest(n), r)

\* The mutex is handed over in the order of the requests' timestamps: when a
\* lock returns, its request precedes every other outstanding request.
InRequestOrder ==
  [][\A n, p \in Node : \A t \in Thread :
       /\ n # p /\ pc[n][t] = "waiting" /\ pc'[n][t] = "held"
       /\ local_request[p] # NoRequest
       => Precedes(LocalRequest(n), LocalRequest(p))]_vars

\* The mutex is a lock: to its callers every step is a request, a hand-over of
\* a free lock, a release or nothing at all.
Service ==
  INSTANCE LockService WITH
    Client  <- Node \X Thread,
    waiting <- {c \in Node \X Thread : pc[c[1]][c[2]] = "waiting"},
    holders <- {c \in Node \X Thread : pc[c[1]][c[2]] = "held"}

ImplementsLockService == Service!ServiceSpec

\* Every lock that has sent its request returns.
LockReturns ==
  \A n \in Node, t \in Thread : pc[n][t] = "waiting" ~> pc[n][t] = "held"
============================================================================
