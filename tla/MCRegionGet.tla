---------------------------- MODULE MCRegionGet -----------------------------
(***************************************************************************)
(* Instances of RegionGet for TLC.                                         *)
(***************************************************************************)
EXTENDS RegionGet

\* Each node can lock once, before it hears from the other.
RegionMaxTime == [n \in Node |-> 1]
=============================================================================
