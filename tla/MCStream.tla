------------------------------- MODULE MCStream -------------------------------
(* Small instances of D4xxStream.  rgb has a control-status register of its   *)
(* own.  Configurations c1 and c2 differ in their data type; bad is one the   *)
(* firmware rejects.                                                          *)
EXTENDS D4xxStream, TLC

CONSTANTS depth, rgb, c1, c2, bad, none

OneInst == {depth}
TwoInst == {depth, rgb}
Nobody == {}
MCReadyReg == [i \in Inst |-> IF i = rgb THEN "rgb_cs" ELSE "depth_cs"]
MCSharedReg == [i \in Inst |-> "depth_cs"]
MCVc == [i \in Inst |-> IF i = depth THEN 0 ELSE 1]
MCSameVc == [i \in Inst |-> 0]
MCDataType == [c \in Cfg |-> c]
OneCfg == {c1}
TwoCfg == {c1, c2}
BadToo == {c1, bad}
OnlyBad == {bad}

\* With one virtual channel and one control-status register for all, nothing
\* tells the instances apart, and nothing tells the good configurations apart.
Symmetry == Permutations(Inst) \cup Permutations(Cfg)
=============================================================================
