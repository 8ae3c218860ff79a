SPECIFICATION StopSafety
CONSTANTS
  Conns = {c1, c2, c3}
  ShutdownTimeout = 6
  HeaderTimeout = 2
  NewGrace = 1
  HandlerMax = 2
  HandlersEnd = TRUE
  PollMax = 1
  Grace = 6
SYMMETRY Interchangeable
INVARIANTS
  TypeOK
  ServerFailureReported
  NoSilentExit
  SizedShutdownIsClean
  SizedIsNotKilled
\* The process ends.
CHECK_DEADLOCK FALSE
