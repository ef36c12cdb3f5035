SPECIFICATION StartFairSpec
CONSTANTS
  Node = {a, b, c}
  Founder = a
  MaxJoining = 1
  MaxSignals = 1
  SignalStage = {"started", "registered", "waiting", "loop"}
PROPERTIES EverySignalEnds
CHECK_DEADLOCK FALSE
