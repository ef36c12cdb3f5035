SPECIFICATION JoinSpec
CONSTANTS
  Node = {1, 2}
  Thread = {t1}
  GetThread <- JoinGetThread
  NoThread = NoThread
  MaxTime <- LateMaxTime
INVARIANTS AwaitedExclusion
CHECK_DEADLOCK FALSE
