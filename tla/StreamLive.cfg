CONSTANTS
  depth = depth
  rgb = rgb
  c1 = c1
  c2 = c2
  bad = bad
  none = none
  Inst <- TwoInst
  Streams <- OneInst
  Resetters <- OneInst
  ReadyReg <- MCReadyReg
  Vc <- MCVc
  Cfg <- BadToo
  BadCfg <- OnlyBad
  NoCfg = none
  DataType <- MCDataType
  NReg = 1
  Faults = FALSE
  MaxReset = 2
  NPipe = 2
  AnyPipe = TRUE
  ReleaseFaults = FALSE
  Retries = 1
  Overlap = TRUE
SPECIFICATION DriverFairSpec
INVARIANT NoPipeLeak
PROPERTY ImplementsReset
PROPERTY ResetReturns
PROPERTY CallReturns
