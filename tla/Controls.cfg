CONSTANTS
  t1 = t1
  t2 = t2
  depth = depth
  rgb = rgb
  Nobody = nobody
  Thread <- TwoThreads
  Inst <- TwoInst
  Opened <- MCOpened
  Calls <- MCCalls
  Faults = TRUE
SPECIFICATION FairSpec
INVARIANT TypeOK
INVARIANT LockReleased
PROPERTY ImplementsService
PROPERTY ControlReturns
CHECK_DEADLOCK FALSE
