---------------------------- MODULE MCFuzzEngine ----------------------------
(* Instances of FuzzEngine for TLC: see the .cfg files.                    *)
EXTENDS FuzzEngine

BothSpeeds == BOOLEAN
NormalSpeed == {FALSE}
TwoHashes == {1, 2}
=============================================================================
