--------------------------- MODULE MCLockedMemory ---------------------------
(***************************************************************************)
(* Instances of LockedMemory for TLC.                                      *)
(***************************************************************************)
EXTENDS LockedMemory

LockedMaxTime == [n \in Node |-> 9]
============================================================================
