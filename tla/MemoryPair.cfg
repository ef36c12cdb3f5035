SPECIFICATION Spec
CONSTANTS
  Node = {1, 2}
  Thread = {t1, t2}
  TxThread = {t1}
  Page = {page}
  PageSize = 3
  Width = 2
  Owner <- OnePageOwner
  MaxValue = 2
  MaxTime = 2
INVARIANTS WritableTwinned OnlyOwnChanges NoChangeLost
CHECK_DEADLOCK FALSE
