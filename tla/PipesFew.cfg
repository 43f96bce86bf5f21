CONSTANTS
  depth = depth
  rgb = rgb
  c1 = c1
  c2 = c2
  bad = bad
  none = none
  Inst <- TwoInst
  Streams <- TwoInst
  Resetters <- Nobody
  ReadyReg <- MCSharedReg
  Vc <- MCSameVc
  Cfg <- TwoCfg
  BadCfg <- Nobody
  NoCfg = none
  DataType <- MCDataType
  NReg = 1
  Faults = FALSE
  MaxReset = 0
  NPipe = 1
  AnyPipe = TRUE
  ReleaseFaults = FALSE
  Retries = 0
  Overlap = FALSE
SPECIFICATION DriverSpec
INVARIANT PipeExclusive
SYMMETRY Symmetry
