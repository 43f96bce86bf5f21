------------------------------- MODULE MCReset -------------------------------
(* Depth and rgb of one camera, whose resets use the same control-status      *)
(* register for the readiness handshake.                                     *)
EXTENDS D4xxReset

CONSTANTS depth, rgb, c, none

MCInst == {depth, rgb}
MCShared == [i \in Inst |-> "depth_cs"]
MCCfg == {c}
MCNone == {}
=============================================================================
