------------------------------- MODULE MCProbe -------------------------------
(* Three cameras behind two deserializers: a with two instances and b share   *)
(* one, c has the other.                                                      *)
EXTENDS D4xxProbe, TLC

CONSTANTS a1, a2, b, c

MCInst == {a1, a2, b, c}
MCSer == [i \in Inst |-> IF i \in {a1, a2} THEN "sa" ELSE IF i = b THEN "sb" ELSE "sc"]
MCDser == [i \in Inst |-> IF i = c THEN "d2" ELSE "d1"]

Symmetry == Permutations({a1, a2})
=============================================================================
