SPECIFICATION FairSpec
CONSTANTS
  Node = {1, 2}
  Thread = {t1, t2}
  NoThread = NoThread
  MaxTime <- IdsMaxTime
  MaxObjId <- FreshIds
INVARIANTS AssignedUnique HolderUpToDate
PROPERTIES CopyGrows CopiesConverge
CHECK_DEADLOCK FALSE
