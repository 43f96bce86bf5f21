CONSTANTS
  MaxVideo = 2
  MaxImage = 3
  Shared = TRUE
  Faults = TRUE
SPECIFICATION FairSpec
INVARIANT TypeOK
INVARIANT GateRests
INVARIANT BusRests
INVARIANT UpdateExclusive
INVARIANT SentIsInstalled
PROPERTY WriteEnds
CHECK_DEADLOCK FALSE
