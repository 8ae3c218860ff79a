SPECIFICATION SmokeSpec
CONSTANTS
  Bound = 2
  HealthTimeout = 4
  DegradedTimeout = 3
INVARIANTS
  PassIsEarned
  LeftoversExplained
PROPERTY ScriptEnds
CHECK_DEADLOCK FALSE
