CONSTANTS
  a1 = a1
  a2 = a2
  b = b
  c = c
  None = none
  Freed = freed
  Inst <- MCInst
  Ser <- MCSer
  Dser <- MCDser
  NSlot = 2
  NDser = 1
SPECIFICATION Spec
INVARIANT NotReadyDefers
