----------------------------- MODULE RegionGet ------------------------------
(***************************************************************************)
(* edsm_memory_region_get beside a mutex: who waits for whom.              *)
(*                                                                         *)
(* A thread that gets a region holds edsm_memory_regions_lock for writing  *)
(* until every peer has answered its GET.  A thread that unlocks a mutex   *)
(* holds mutex->lock while edsm_memory_tx_end waits to read-lock the       *)
(* regions.  The listener takes one message at a time, from any            *)
(* connection, and with a message for the mutex it waits for mutex->lock;  *)
(* what has come behind is not looked at, be it the answer to the GET.     *)
(*                                                                         *)
(* There is one region and one mutex; the diffs that an unlock sends, and  *)
(* the object's peers, are left out: see LockedMemory and Dobj.            *)
(***************************************************************************)
EXTENDS Integers, Sequences, FiniteSets

CONSTANTS Node, Thread, NoThread, MaxTime   \* of Mutex

VARIABLES
  chan, peers, l_time, local_request, requests, wait_on, local_mutex, pc,
  stage,       \* where each thread is in region_get and unlock
  found,       \* the region is in the hash `objects'
  awaited,     \* the waiter of the region
  writer,      \* the thread that has write-locked the regions
  mutex_lock,  \* the unlocking thread that holds mutex->lock
  handling     \* the peer whose message the listener handles, or the node itself

mutexVars == <<peers, l_time, local_request, requests, wait_on, local_mutex, pc>>

locks == <<stage, found, awaited, writer, mutex_lock, handling>>

vars == <<chan, mutexVars, locks>>

GetMsg == [type |-> "GET"]
GetReplyMsg == [type |-> "GET_REPLY"]

M == INSTANCE Mutex WITH Foreign <- {GetMsg, GetReplyMsg}

RegionInit ==
  /\ M!Init
  /\ stage      = [n \in Node |-> [t \in Thread |-> "out"]]
  /\ found      = [n \in Node |-> FALSE]
  /\ awaited    = [n \in Node |-> {}]
  /\ writer     = [n \in Node |-> NoThread]
  /\ mutex_lock = [n \in Node |-> NoThread]
  /\ handling   = [n \in Node |-> n]

Others(n) == Node \ {n}

Goto(n, t, from, to) ==
  /\ stage[n][t] = from
  /\ stage' = [stage EXCEPT ![n][t] = to]

----------------------------------------------------------------------------
(***************************************************************************)
(* edsm_memory_region_get                                                  *)
(***************************************************************************)

\* The regions are write-locked.
GetLock(n, t) ==
  /\ pc[n][t] = "idle"
  /\ writer[n] = NoThread
  /\ Goto(n, t, "out", "locked")
  /\ writer' = [writer EXCEPT ![n] = t]
  /\ UNCHANGED <<chan, mutexVars, found, awaited, mutex_lock, handling>>

\* edsm_dobj_get up to the wait: a GET goes to every peer of the group.
GetSend(n, t) ==
  /\ ~ found[n]
  /\ Goto(n, t, "locked", "waiting")
  /\ found' = [found EXCEPT ![n] = TRUE]
  /\ awaited' = [awaited EXCEPT ![n] = Others(n)]
  /\ chan' = [chan EXCEPT ![n] = [p \in Node |->
                IF p \in Others(n) THEN Append(chan[n][p], GetMsg) ELSE chan[n][p]]]
  /\ UNCHANGED <<mutexVars, writer, mutex_lock, handling>>

\* A slip of edsm_memory_region_get: the lock is kept at a return.
StillLocked(n) == writer

Released(n) == [writer EXCEPT ![n] = NoThread]

\* Both returns: of a region that was there, and of a new one.
GetReturn(n, t) ==
  /\ \/ found[n] /\ Goto(n, t, "locked", "out")
     \/ awaited[n] = {} /\ Goto(n, t, "waiting", "out")
  /\ writer' = Released(n)
  /\ UNCHANGED <<chan, mutexVars, found, awaited, mutex_lock, handling>>

----------------------------------------------------------------------------
(***************************************************************************)
(* edsm_mutex_lock and edsm_mutex_unlock                                   *)
(***************************************************************************)

Lock(n, t) ==
  /\ stage[n][t] = "out"
  /\ M!Lock(n, t)
  /\ UNCHANGED locks

\* mutex->lock is taken ...
UnlockBegin(n, t) ==
  /\ pc[n][t] = "held"
  /\ Goto(n, t, "out", "unlocking")
  /\ mutex_lock' = [mutex_lock EXCEPT ![n] = t]
  /\ UNCHANGED <<chan, mutexVars, found, awaited, writer, handling>>

\* ... and released after edsm_memory_tx_end, which can only read-lock the regions
\* when nobody has write-locked them, and the replies.
UnlockReply(n, t) ==
  /\ writer[n] = NoThread
  /\ Goto(n, t, "unlocking", "out")
  /\ M!UnlockReply(n, t)
  /\ mutex_lock' = [mutex_lock EXCEPT ![n] = NoThread]
  /\ UNCHANGED <<found, awaited, writer, handling>>

UnlockLocal(n, t) ==
  /\ M!UnlockLocal(n, t)
  /\ UNCHANGED locks

----------------------------------------------------------------------------
(***************************************************************************)
(* The listener                                                            *)
(***************************************************************************)

\* It reads a message and calls the handler.
Take(n, p) ==
  /\ handling[n] = n
  /\ chan[p][n] # << >>
  /\ handling' = [handling EXCEPT ![n] = p]
  /\ UNCHANGED <<chan, mutexVars, stage, found, awaited, writer, mutex_lock>>

\* The message it handles is for the mutex.
ForMutex(n) == M!Message(handling[n], n).type \in {"REQUEST", "REPLY"}

Done(n) == handling' = [handling EXCEPT ![n] = n]

HandleMutexMsg(n) ==
  /\ handling[n] # n
  /\ ForMutex(n)
  /\ mutex_lock[n] = NoThread
  /\ M!Handle(n, handling[n])
  /\ Done(n)
  /\ UNCHANGED <<stage, found, awaited, writer, mutex_lock>>

\* A slip of edsm_dobj_handle_get: who does not have the object says nothing.
AnswerIfFound(n, p) ==
  IF found[n] THEN [M!Received(p, n) EXCEPT ![n][p] = Append(@, GetReplyMsg)]
              ELSE M!Received(p, n)

\* edsm_dobj_handle_get answers, whether it has the object or not.
Answer(n, p) == [M!Received(p, n) EXCEPT ![n][p] = Append(@, GetReplyMsg)]

HandleDobjMsg(n) ==
  LET p == handling[n]
  IN  /\ p # n
      /\ \/ /\ M!Message(p, n) = GetMsg
            /\ chan' = Answer(n, p)
            /\ UNCHANGED awaited
         \/ /\ M!Message(p, n) = GetReplyMsg
            /\ chan' = M!Received(p, n)
            /\ awaited' = [awaited EXCEPT ![n] = @ \ {p}]
      /\ Done(n)
      /\ UNCHANGED <<mutexVars, stage, found, writer, mutex_lock>>

----------------------------------------------------------------------------
Get(n, t) == GetLock(n, t) \/ GetSend(n, t) \/ GetReturn(n, t)

Unlock(n, t) == UnlockBegin(n, t) \/ UnlockReply(n, t) \/ UnlockLocal(n, t)

Listen(n) == HandleMutexMsg(n) \/ HandleDobjMsg(n)

Next ==
  \E n \in Node :
    \/ \E t \in Thread : Get(n, t) \/ Lock(n, t) \/ Unlock(n, t)
    \/ \E p \in Node : Take(n, p)
    \/ Listen(n)

Spec == RegionInit /\ [][Next]_vars

(***************************************************************************)
(* Fairness.  As in Mutex; each connection has its turn, since the         *)
(* listener goes through all of them again and again, and a thread that    *)
(* waits to read the regions gets its turn between two writers, since      *)
(* rwlocks prefer readers by default.  Nobody has to get the region.       *)
(***************************************************************************)
Fairness ==
  \A n \in Node :
    /\ WF_vars(Listen(n))
    /\ \A p \in Others(n) : SF_vars(Take(n, p))
    /\ \A t \in Thread :
         /\ WF_vars(GetSend(n, t) \/ GetReturn(n, t))
         /\ SF_vars(Unlock(n, t))
         /\ WF_vars((M!LockRequest(n, t) \/ M!LockWait(n, t)) /\ UNCHANGED locks)

FairSpec == Spec /\ Fairness

----------------------------------------------------------------------------
(***************************************************************************)
(* Properties                                                              *)
(***************************************************************************)

\* At n everybody waits: who gets the region for an answer, which the listener
\* would have to take; the listener for mutex->lock; its holder for the regions.
Cycle(n) ==
  /\ writer[n] # NoThread /\ awaited[n] # {}
  /\ mutex_lock[n] # NoThread
  /\ handling[n] # n /\ ForMutex(n)

\* Every get of the region returns, unless some node is in that cycle.
RegionGetReturns ==
  \A n \in Node, t \in Thread :
    stage[n][t] = "waiting" ~> stage[n][t] = "out" \/ \E m \in Node : Cycle(m)

\* So does every lock that has sent its request.
LockReturns ==
  \A n \in Node, t \in Thread :
    pc[n][t] = "waiting" ~> pc[n][t] = "held" \/ \E m \in Node : Cycle(m)

\* No node is in that cycle.
NeverCycle == \A n \in Node : ~ Cycle(n)
============================================================================
