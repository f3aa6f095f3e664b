----------------------------- MODULE MCBatchVM -----------------------------
(* Instances of BatchVM for TLC: see the .cfg files.                       *)
EXTENDS BatchVM

TwoTests == {1, 2}
AllBatchers == {"geth", "besu", "eels", "nimbus", "nethermind", "erigon"}
OneBatcher == {"besu"}
AllRequests == {"trace", "speed", "root"}
SkipTraceThenFlaw == {"speed", "trace"}

\* Test 1 fails in a subcall (the operation is printed twice) and goes on at the
\* same pc of the caller's code; test 2 fails at its second operation, with a
\* deep stack.
Op(d, p, o, s, fails) ==
  [depth |-> d, pc |-> p, op |-> o, gas |-> 9 - p, stack |-> s, fails |-> fails]
Execution ==
  << <<Op(1, 1, 241, <<1>>, FALSE), Op(2, 1, 254, <<>>, TRUE), Op(1, 2, STOP, <<1>>, FALSE)>>,
     <<Op(1, 0, 96, <<1, 2, 3, 4, 5, 6, 7>>, FALSE), Op(1, 2, 254, <<2>>, TRUE)>> >>
=============================================================================
