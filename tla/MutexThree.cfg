SPECIFICATION Spec
CONSTANTS
  Node = {1, 2, 3}
  Thread = {t1}
  NoThread = NoThread
  Foreign = {}
  MaxTime <- ThreeMaxTime
INVARIANT MutualExclusion
CHECK_DEADLOCK FALSE
