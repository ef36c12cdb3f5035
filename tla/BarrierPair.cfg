SPECIFICATION FairSpec
CONSTANTS
  Node = {1,2}
  Coordinator = 1
  ThreadsPerNode = 2
  MaxRuns = 2
INVARIANTS TypeOK NotificationsMatch ReadsLatest ComputesOnSent
PROPERTIES ImplementsPhases RunReturns
CHECK_DEADLOCK FALSE
