SPECIFICATION FairSpec
CONSTANTS
  Node = {1, 2}
  Thread = {t1, t2}
  NoThread = NoThread
  MaxTime <- RegionMaxTime
PROPERTIES RegionGetReturns LockReturns
CHECK_DEADLOCK FALSE
