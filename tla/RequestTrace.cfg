SPECIFICATION Spec
CONSTANTS
  MaxLen = 2
  Requests = {r1, r2}
  Calls = {q1}
  Headers <- FewTexts
  Statuses = {200, 404}
  MaxDocs = 1
  AppStatuses = {200}
SYMMETRY Interchangeable
INVARIANTS
  TypeOK
  SameIdEverywhere
  AccessLogTruth
  OneRecord
  PanicAnswered
  DistinctIds
  LogTruth
  SingleStart
\* Every slot carries one request.
CHECK_DEADLOCK FALSE
