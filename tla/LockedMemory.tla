---------------------------- MODULE LockedMemory ----------------------------
(***************************************************************************)
(* A counter in a shared region that every thread increments under a       *)
(* mutex: modules Mutex and Memory composed on the same connections.       *)
(*                                                                         *)
(* edsm_mutex_unlock ends the transaction while it holds mutex->lock, and  *)
(* only then replies to the requests it has deferred.  The diff is on its  *)
(* way before the reply, and the next holder's listener applies it before  *)
(* it sees the reply: nothing else makes the next holder read the newest   *)
(* value.                                                                  *)
(***************************************************************************)
EXTENDS Integers, Sequences, FiniteSets

CONSTANTS
  Node, Thread, NoThread, MaxTime,   \* of Mutex
  MaxValue, MaxTxTime                \* bounds of Memory

ASSUME NodeAssumption == Node \subseteq Nat \ {0}
ASSUME ThreadAssumption == NoThread \notin Thread
ASSUME MaxTimeAssumption == MaxTime \in [Node -> Nat]
ASSUME BoundAssumption == MaxValue \in Nat /\ MaxTxTime \in Nat

VARIABLES
  chan, peers, l_time, local_request, requests, wait_on, local_mutex, pc,
  memory, twins, writable, timestamp, faulting, unsent, diffing, halfway, applying,
  stage,   \* what a holder of the mutex has done
  count    \* history: how often the counter was incremented

mutexVars  == <<peers, l_time, local_request, requests, wait_on, local_mutex, pc>>
memoryVars == <<memory, twins, writable, timestamp, faulting, unsent, diffing,
                halfway, applying>>
vars       == <<chan, mutexVars, memoryVars, stage, count>>

\* The region is one page and the counter one byte in it.
Counter == "counter"

Mem == INSTANCE Memory WITH
  MaxTime <- MaxTxTime, TxThread <- Thread,
  Page <- {Counter}, PageSize <- 1, Width <- 16,
  Owner <- [pg \in {Counter} |-> [b \in {0} |-> CHOOSE n \in Node : TRUE]]

M == INSTANCE Mutex WITH Foreign <- Mem!Diff

LockedInit ==
  /\ M!Init
  /\ Mem!Init
  /\ stage = [n \in Node |-> [t \in Thread |-> "in"]]
  /\ count = 0

Goto(n, t, from, to) ==
  /\ stage[n][t] = from
  /\ stage' = [stage EXCEPT ![n][t] = to]

Value(n) == memory[n][Counter][0]

----------------------------------------------------------------------------
Lock(n, t) ==
  /\ M!Lock(n, t)
  /\ UNCHANGED <<memoryVars, stage, count>>

\* The increment, with the page fault that it may take.
Touch(n, t) ==
  /\ pc[n][t] = "held" /\ stage[n][t] = "in"
  /\ Mem!Fault(n, t, Counter) \/ Mem!TxBegin(n, t)
  /\ UNCHANGED <<mutexVars, stage, count>>

Increment(n, t) ==
  /\ pc[n][t] = "held"
  /\ Goto(n, t, "in", "stored")
  /\ Mem!Store(n, t, Counter, 0)
  /\ count' = count + 1
  /\ UNCHANGED mutexVars

(***************************************************************************)
(* edsm_mutex_unlock.  mutex->lock is held from the making of the diff to  *)
(* the replies.                                                            *)
(***************************************************************************)
UnlockTxEnd(n, t) ==
  /\ pc[n][t] = "held"
  /\ \/ Goto(n, t, "stored", "ending") /\ Mem!DiffBegin(n, t)
     \/ /\ Goto(n, t, "ending", "ending")
        /\ Mem!DiffPage(n, t) \/ Mem!DiffEnd(n, t) \/ Mem!SendDiff(n, t)
  /\ UNCHANGED <<mutexVars, count>>

\* A slip of edsm_mutex_unlock: it replies before the diff is sent.
TxUnsent(n, t) == stage[n][t] = "ending"

\* edsm_memory_tx_end has returned.
TxEnded(n, t) == stage[n][t] = "ending" /\ unsent[n][t] = {}

UnlockReply(n, t) ==
  /\ TxEnded(n, t)
  /\ Goto(n, t, "ending", "in")
  /\ M!UnlockReply(n, t)
  /\ UNCHANGED <<memoryVars, count>>

UnlockLocal(n, t) ==
  /\ M!UnlockLocal(n, t)
  /\ UNCHANGED <<memoryVars, stage, count>>

----------------------------------------------------------------------------
(***************************************************************************)
(* The listener: it goes on with the diff it applies before it takes the   *)
(* next message, and waits for mutex->lock with a message for the mutex.   *)
(***************************************************************************)
HandleMutexMsg(n, p) ==
  /\ applying[n] = Mem!NoChanges
  /\ chan[p][n] # << >>
  /\ M!Message(p, n).type # "DIFF"
  /\ \A t \in Thread : stage[n][t] # "ending"
  /\ M!Handle(n, p)
  /\ UNCHANGED <<memoryVars, stage, count>>

HandleDiff(n, p) ==
  /\ \/ /\ chan[p][n] # << >>
        /\ M!Message(p, n).type = "DIFF"
        /\ Mem!ReadDiff(n, p)
     \/ p = n /\ Mem!ApplyPage(n)
  /\ UNCHANGED <<mutexVars, stage, count>>

----------------------------------------------------------------------------
Work(n, t) ==
  \/ Lock(n, t) \/ Touch(n, t) \/ Increment(n, t)
  \/ UnlockTxEnd(n, t) \/ UnlockReply(n, t) \/ UnlockLocal(n, t)

Listen(n) == \E p \in Node : HandleMutexMsg(n, p) \/ HandleDiff(n, p)

Next ==
  \/ \E n \in Node, t \in Thread : Work(n, t)
  \/ \E n \in Node : Listen(n)

Spec == LockedInit /\ [][Next]_vars

----------------------------------------------------------------------------
(***************************************************************************)
(* Properties                                                              *)
(***************************************************************************)

\* Who holds the mutex reads the newest value of what it protects, on whichever
\* node it was written, and keeps it until it writes itself: no update is lost.
HolderReadsLatest ==
  \A n \in Node, t \in Thread :
    pc[n][t] = "held" /\ stage[n][t] = "in" => Value(n) = count

\* While the mutex is free and nothing is on the way, the copies agree.
QuietCopiesAgree ==
  (\A n, p \in Node : chan[n][p] = << >> /\ applying[n] = Mem!NoChanges)
  /\ (\A n \in Node, t \in Thread : pc[n][t] # "held" /\ unsent[n][t] = {})
  => \A n \in Node : Value(n) = count
============================================================================
