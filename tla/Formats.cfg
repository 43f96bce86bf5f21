CONSTANTS
  Instance <- MCInstance
  Overlapping <- MCOverlapping
  Node <- MCNode
  Request <- MCRequest
  Interval <- MCInterval
SPECIFICATION Spec
INVARIANT TypeOK
INVARIANT StartMatchesReport
INVARIANT StartRateOffered
PROPERTY FormatHonoured
PROPERTY RateHonoured
