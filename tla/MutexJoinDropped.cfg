SPECIFICATION JoinFairSpec
CONSTANTS
  Node = {1, 2}
  Thread = {t1}
  GetThread <- JoinGetThread
  NoThread = NoThread
  MaxTime <- JoinMaxTime
PROPERTIES LockReturns
CHECK_DEADLOCK FALSE
