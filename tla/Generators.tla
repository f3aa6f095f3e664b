----------------------------- MODULE Generators -----------------------------
(***************************************************************************)
(* The programs that make tests: FuzzyVM's generator, FuzzyVM's workers    *)
(* storing what they generated, the supervisor that restarts FuzzyVM, and  *)
(* goevmlab's factories.  A behaviour is one of one of them: they share no *)
(* state.                                                                  *)
(***************************************************************************)
EXTENDS Generator, Programs, Storage, Baseline

VARIABLE tool  \* the one that runs

vars == <<tool, genVars, progVars, storeVars, baseVars>>

Init ==
  /\ tool \in {"generator", "factory", "workers", "baseline"}
  /\ GenInit /\ ProgInit /\ StoreInit /\ BaseInit

Ended ==
  /\ \/ tool = "generator" /\ GenEnded
     \/ tool = "factory" /\ ProgEnded
     \/ tool = "baseline" /\ BaseEnded
  /\ UNCHANGED vars

Next ==
  \/ tool = "generator" /\ GenNext /\ UNCHANGED <<tool, progVars, storeVars, baseVars>>
  \/ tool = "factory" /\ ProgNext /\ UNCHANGED <<tool, genVars, storeVars, baseVars>>
  \/ tool = "workers" /\ StoreNext /\ UNCHANGED <<tool, genVars, progVars, baseVars>>
  \/ tool = "baseline" /\ BaseNext /\ UNCHANGED <<tool, genVars, progVars, storeVars>>
  \/ Ended

Spec == Init /\ [][Next]_vars

=============================================================================
