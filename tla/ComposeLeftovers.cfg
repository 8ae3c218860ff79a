SPECIFICATION SmokeSpec
CONSTANTS
  Bound = 2
  HealthTimeout = 4
  DegradedTimeout = 3
INVARIANT PassRemovesEverything
CHECK_DEADLOCK FALSE
