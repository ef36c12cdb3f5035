--------------------------- MODULE NotifiedMemory ---------------------------
(***************************************************************************)
(* The counter of LockedMemory beside a thread that does not touch it: the *)
(* thread notifies a barrier now and then, and edsm_barrier_notify ends    *)
(* the transaction of its whole process, also that of a holder.            *)
(***************************************************************************)
EXTENDS LockedMemory

CONSTANT Notifier   \* the threads that notify; the others lock

\* The edsm_memory_tx_end(NULL) of edsm_barrier_notify.
NotifyTxEnd(n, t) ==
  /\ Mem!TxEnd(n, t)
  /\ UNCHANGED <<mutexVars, stage, count>>

NotifiedNext ==
  \/ \E n \in Node, t \in Thread \ Notifier : Work(n, t)
  \/ \E n \in Node, t \in Notifier : NotifyTxEnd(n, t)
  \/ \E n \in Node : Listen(n)

NotifiedSpec == LockedInit /\ [][NotifiedNext]_vars

NotifiedMaxTime == [n \in Node |-> 9]
============================================================================
