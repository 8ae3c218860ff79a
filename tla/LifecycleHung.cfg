SPECIFICATION StopSpec
CONSTANTS
  Conns = {c1, c2}
  ShutdownTimeout = 2
  HeaderTimeout = 2
  NewGrace = 1
  HandlerMax = 1
  HandlersEnd = FALSE
  PollMax = 2
  Grace = 2
INVARIANTS
  CleanExitCutsNobody
  KillIsLastResort
PROPERTIES
  StopsWhenTold
  FailureStops
\* The process ends.
CHECK_DEADLOCK FALSE
