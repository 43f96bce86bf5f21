CONSTANTS
  depth = depth
  rgb = rgb
  c = c
  none = none
  Inst <- MCInst
  Resetters <- MCInst
  ReadyReg <- MCShared
  Cfg <- MCCfg
  BadCfg <- MCNone
  NoCfg = none
  NReg = 1
  Faults = FALSE
  MaxReset = 2
SPECIFICATION Spec
PROPERTY ResetPromise
