CONSTANTS
  depth = depth
  rgb = rgb
  c1 = c1
  c2 = c2
  bad = bad
  none = none
  Inst <- TwoInst
  Streams <- OneInst
  Resetters <- OneInst
  ReadyReg <- MCReadyReg
  Vc <- MCVc
  Cfg <- BadToo
  BadCfg <- OnlyBad
  NoCfg = none
  DataType <- MCDataType
  NReg = 2
  Faults = TRUE
  MaxReset = 2
  NPipe = 2
  AnyPipe = TRUE
  ReleaseFaults = TRUE
  Retries = 1
  Overlap = FALSE
SPECIFICATION DriverSpec
INVARIANT FlagAgrees
INVARIANT CacheCoherent
INVARIANT NoPipeLeak
INVARIANT PipeForEveryone
PROPERTY ResetPromise
PROPERTY CooldownAfterSuccess
