---------------------------- MODULE MCFuzzLoop ----------------------------
(* Instances of FuzzLoop for TLC: see the .cfg files.                      *)
EXTENDS FuzzLoop

CONSTANTS p1, p2

TwoPlans == {p1, p2}
EveryWay == {"kill", "stop_fuzzing"}
KillOnly == {"kill"}
=============================================================================
