SPECIFICATION NotifiedSpec
CONSTANTS
  Node = {1, 2}
  Thread = {t1, t2}
  NoThread = NoThread
  MaxTime <- NotifiedMaxTime
  MaxValue = 6
  MaxTxTime = 8
  Notifier = {t2}
INVARIANTS HolderReadsLatest
CHECK_DEADLOCK FALSE
