SPECIFICATION StartFairSpec
CONSTANTS
  Node = {a, b, c}
  Founder = a
  MaxJoining = 1
  MaxSignals = 1
  SignalStage = {"loop"}
INVARIANTS StartTypeOK IdsUnique GroupConnected AssertionsHold
PROPERTIES StartReturns LossSpreads ShutdownEnds
CHECK_DEADLOCK FALSE
