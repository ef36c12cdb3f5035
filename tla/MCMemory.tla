------------------------------ MODULE MCMemory ------------------------------
(***************************************************************************)
(* Instances of Memory for TLC.                                            *)
(***************************************************************************)
EXTENDS MemoryInvariants

\* One page: the last byte is node 2's, the others are node 1's.
OnePageOwner == [pg \in Page |-> [b \in Byte |-> IF b = PageSize - 1 THEN 2 ELSE 1]]

\* One page of one node.
WholePageOwner == [pg \in Page |-> [b \in Byte |-> 1]]
=============================================================================
