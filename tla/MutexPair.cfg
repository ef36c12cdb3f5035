SPECIFICATION FairSpec
CONSTANTS
  Node = {1, 2}
  Thread = {t1, t2}
  NoThread = NoThread
  Foreign = {}
  MaxTime <- PairMaxTime
INVARIANTS TypeOK MutualExclusion LocalRequestFree NoLostReply DeferredFollow
PROPERTIES InRequestOrder ImplementsLockService LockReturns
CHECK_DEADLOCK FALSE
