SPECIFICATION RoutesSpec
CONSTANTS
  MaxLen = 2
  Requests = {r1, r2}
  Headers <- TwoTexts
  Statuses = {200, 404, 405, 500}
  MaxDocs = 2
SYMMETRY Interchangeable
INVARIANTS
  OneDocument
  ErrorsCarryId
\* Every slot carries one request.
CHECK_DEADLOCK FALSE
