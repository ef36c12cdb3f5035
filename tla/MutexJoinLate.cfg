SPECIFICATION JoinSpec
CONSTANTS
  Node = {1, 2}
  Thread = {t1}
  GetThread <- JoinGetThread
  NoThread = NoThread
  MaxTime <- JoinMaxTime
INVARIANTS MutualExclusion
CHECK_DEADLOCK FALSE
