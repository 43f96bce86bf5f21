CONSTANTS
  depth = depth
  rgb = rgb
  c1 = c1
  c2 = c2
  bad = bad
  none = none
  Inst <- OneInst
  Streams <- OneInst
  Resetters <- OneInst
  ReadyReg <- MCReadyReg
  Vc <- MCVc
  Cfg <- OneCfg
  BadCfg <- Nobody
  NoCfg = none
  DataType <- MCDataType
  NReg = 1
  Faults = TRUE
  MaxReset = 1
  NPipe = 2
  AnyPipe = TRUE
  ReleaseFaults = FALSE
  Retries = 1
  Overlap = FALSE
SPECIFICATION DriverSpec
PROPERTY TimedOutStartFails
