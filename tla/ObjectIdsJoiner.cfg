SPECIFICATION Spec
CONSTANTS
  Node = {1, 2}
  Thread = {t1}
  NoThread = NoThread
  MaxTime <- IdsMaxTime
  MaxObjId <- JoinerIds
INVARIANTS AssignedUnique
CHECK_DEADLOCK FALSE
