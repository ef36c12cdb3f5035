SPECIFICATION StartSpec
CONSTANTS
  Node = {a, b, c, d}
  Founder = a
  MaxJoining = 1
  MaxSignals = 0
  SignalStage = {"loop"}
INVARIANTS NeverAborted
CHECK_DEADLOCK FALSE
