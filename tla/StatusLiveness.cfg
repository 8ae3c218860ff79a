SPECIFICATION Spec
CONSTANTS
  Requests = {r1}
  MLTimeout = 2
  WriteTimeout = 3
  MaxIdle = 1
  Answers <- EveryAnswer
PROPERTIES
  EveryProbeEnds
  OutageVisible
  KeepsContract
