SPECIFICATION Spec
CONSTANTS
  Node = {1, 2}
  Thread = {t1, t2}
  TxThread = {t1}
  Page = {page}
  PageSize = 4
  Width = 2
  Owner <- WholePageOwner
  MaxValue = 1
  MaxTime = 2
INVARIANT DiffsReadable
CHECK_DEADLOCK FALSE
