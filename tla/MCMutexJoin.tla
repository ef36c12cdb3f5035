---------------------------- MODULE MCMutexJoin ----------------------------
(***************************************************************************)
(* Instances of MutexJoin for TLC.                                         *)
(***************************************************************************)
EXTENDS MutexJoin

\* Any thread may get the mutex.
JoinGetThread == [n \in Node |-> Thread]

\* Each node can lock twice before it hears from the other.
JoinMaxTime == [n \in Node |-> 2]

\* Node 2 locks once, node 1 several times.
LateMaxTime == [n \in Node |-> IF n = 1 THEN 5 ELSE 1]
============================================================================
