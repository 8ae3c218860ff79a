SPECIFICATION Safety
CONSTANTS
  Requests = {r1, r2}
  MLTimeout = 1
  WriteTimeout = 2
  MaxIdle = 2
  Answers <- TellingAnswers
SYMMETRY Interchangeable
INVARIANTS
  TypeOK
  HealthyIsEarned
  DegradedHasCause
  ResponseOutlivesCall
  DegradedIsReported
PROPERTY
  KeepsSafeContract
