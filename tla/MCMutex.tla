------------------------------ MODULE MCMutex ------------------------------
(***************************************************************************)
(* Instances of Mutex for TLC.  Node ids are numbers because request_comp  *)
(* breaks ties with them.  MaxTime says how late each node may still call  *)
(* lock: one whose bound is above the clock it has after a round locks     *)
(* again while the replies and requests of earlier rounds may still be on  *)
(* their way.                                                              *)
(***************************************************************************)
EXTENDS MutexInvariants

PairMaxTime  == [n \in Node |-> 8]
ThreeMaxTime == [n \in Node |-> 2]
============================================================================
