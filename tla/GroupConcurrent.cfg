SPECIFICATION Spec
CONSTANTS
  Node = {a, b, c, d}
  Founder = a
  MaxJoining = 2
INVARIANTS AssertionsHold
CHECK_DEADLOCK FALSE
