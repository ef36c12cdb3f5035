SPECIFICATION FairSpec
CONSTANTS
  Node = {1, 2, 3}
  Thread = {t1, t2}
  t1 = t1
  t2 = t2
  GetThread <- OneNodeTwice
INVARIANTS PeersMutual PeersHold NoGetLost
PROPERTIES GetReturns
CHECK_DEADLOCK FALSE
