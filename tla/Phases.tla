------------------------------- MODULE Phases -------------------------------
(***************************************************************************)
(* What a parallel computation in two phases promises its user: the tasks  *)
(* of a run all compute before the first of them writes its result, and    *)
(* all have written before the run's caller reads the results.             *)
(***************************************************************************)
EXTENDS Naturals

CONSTANTS
  Node,       \* where the tasks of a run are
  TaskCount   \* how many of them each node has

VARIABLES
  phase,      \* what the run is at
  computing,  \* how many tasks of each node have still to compute
  writing     \* how many tasks of each node have still to write

vars == <<phase, computing, writing>>

None == [n \in Node |-> 0]
All  == [n \in Node |-> TaskCount]

Init == phase = "idle" /\ computing = None /\ writing = None

Start ==
  /\ phase = "idle"
  /\ phase' = "compute"
  /\ computing' = All
  /\ writing' = All

Compute(n) ==
  /\ phase = "compute"
  /\ computing[n] > 0
  /\ computing' = [computing EXCEPT ![n] = @ - 1]
  /\ UNCHANGED <<phase, writing>>

Turn ==
  /\ phase = "compute"
  /\ computing = None
  /\ phase' = "write"
  /\ UNCHANGED <<computing, writing>>

Write(n) ==
  /\ phase = "write"
  /\ writing[n] > 0
  /\ writing' = [writing EXCEPT ![n] = @ - 1]
  /\ UNCHANGED <<phase, computing>>

Read ==
  /\ phase = "write"
  /\ writing = None
  /\ phase' = "read"
  /\ UNCHANGED <<computing, writing>>

Return ==
  /\ phase = "read"
  /\ phase' = "idle"
  /\ UNCHANGED <<computing, writing>>

Next ==
  \/ Start \/ Turn \/ Read \/ Return
  \/ \E n \in Node : Compute(n) \/ Write(n)

Spec == Init /\ [][Next]_vars
============================================================================
