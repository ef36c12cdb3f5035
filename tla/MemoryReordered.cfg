SPECIFICATION Spec
CONSTANTS
  Node = {1, 2}
  Thread = {t1, t2}
  TxThread = {t1, t2}
  Page = {page}
  PageSize = 2
  Width = 16
  Owner <- OnePageOwner
  MaxValue = 2
  MaxTime = 2
INVARIANTS NoChangeLost
CHECK_DEADLOCK FALSE
