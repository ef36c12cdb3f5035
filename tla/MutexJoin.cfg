SPECIFICATION JoinSpec
CONSTANTS
  Node = {1, 2}
  Thread = {t1, t2}
  GetThread <- JoinGetThread
  NoThread = NoThread
  MaxTime <- JoinMaxTime
INVARIANTS SettledExclusion
CHECK_DEADLOCK FALSE
