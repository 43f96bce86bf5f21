----------------------------- MODULE MCControls -----------------------------
(* Two client threads on two instances of one camera.  One makes every call,  *)
(* the other those that differ in what they do to a neighbour: with and       *)
(* without state->lock, leaving it locked, in two parts.                      *)
EXTENDS D4xxControls, TLC

CONSTANTS t1, t2, depth, rgb

TwoThreads == {t1, t2}
TwoInst == {depth, rgb}
\* Both clients use one node, or each its own.
MCOpened == {[t \in Thread |-> depth],
             [t \in Thread |-> IF t = t1 THEN depth ELSE rgb]}
MCCalls == [t \in Thread |->
  IF t = t1 THEN Op ELSE {"ewb", "rwset", "rwget", "fetch", "open"}]
=============================================================================
