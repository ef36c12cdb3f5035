---------------------------- MODULE MCObjectIds ----------------------------
(***************************************************************************)
(* Instances of ObjectIds for TLC.                                         *)
(***************************************************************************)
EXTENDS ObjectIds

\* Five and more ids, created in turn or by one node.
IdsMaxTime == [n \in Node |-> 9]

\* A group that starts together, and one that node 2 joins after node 1 has
\* created an object.
FreshIds == [n \in Node |-> 0]
JoinerIds == [n \in Node |-> IF n = 1 THEN 1 ELSE 0]
============================================================================
