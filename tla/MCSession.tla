----------------------------- MODULE MCSession -----------------------------
(* Instances of Session for TLC: see the .cfg files.                       *)
EXTENDS Session

CONSTANTS p1, p2, p3

TwoPlans == {p1, p2}
ThreePlans == {p1, p2, p3}
KillOnly == {"kill"}
=============================================================================
