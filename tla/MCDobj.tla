------------------------------- MODULE MCDobj -------------------------------
(***************************************************************************)
(* Instances of Dobj for TLC.                                              *)
(***************************************************************************)
EXTENDS DobjInvariants

CONSTANTS t1, t2

\* Two threads of node 1 and one of every other node.
OneNodeTwice == [n \in Node |-> IF n = 1 THEN {t1, t2} ELSE {t1}]
============================================================================
