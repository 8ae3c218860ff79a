SPECIFICATION Safety
CONSTANTS
  Requests = {r1}
  MLTimeout = 2
  WriteTimeout = 2
  MaxIdle = 1
  Answers <- TellingAnswers
INVARIANT
  DegradedIsReported
