SPECIFICATION Spec
CONSTANTS
  Ports = {p1, p2, p3}
  Attempts = 2
PROPERTY EarlyExitReported
CHECK_DEADLOCK FALSE
