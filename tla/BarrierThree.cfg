SPECIFICATION Spec
CONSTANTS
  Node = {1, 2, 3}
  Coordinator = 1
  ThreadsPerNode = 1
  MaxRuns = 2
INVARIANTS ComputesOnSent
CHECK_DEADLOCK FALSE
