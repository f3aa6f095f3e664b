---------------------------- MODULE MCGenerators ----------------------------
(* Instances of Generators for TLC: see Generate.cfg.                      *)
EXTENDS Generators, TLC

\* The stock strategies, and a plan that makes for calls and jumps.
MCPlans ==
  {[weights |-> <<>>],
   [weights |-> ("createCall" :> 100) @@ ("jump" :> 100) @@ ("jumpdest" :> 90)
                  @@ ("mload" :> 0) @@ ("push" :> 0)],
   [weights |-> ("unknown" :> 1)]}
MCSeedLens  == {0, 7}
MCSliceLens == {0, 3}
MCLengths   == {9}
MCRandomPcs == {30}
MCKeyReads  == {<<32>>, <<0, 40>>}
MCForks     == {"Istanbul", "Shanghai", "Osaka"}
=============================
