SPECIFICATION Spec
CONSTANTS
  Node = {1, 2}
  Thread = {t1, t2}
  NoThread = NoThread
  MaxTime <- LockedMaxTime
  MaxValue = 6
  MaxTxTime = 8
INVARIANTS HolderReadsLatest QuietCopiesAgree
CHECK_DEADLOCK FALSE
