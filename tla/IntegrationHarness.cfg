SPECIFICATION Spec
CONSTANTS
  Ports = {p1, p2, p3}
  Attempts = 2
INVARIANTS
  PassIsEarned
  NoProcessLeft
PROPERTY TestEnds
CHECK_DEADLOCK FALSE
