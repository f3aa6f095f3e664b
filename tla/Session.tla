------------------------------ MODULE Session ------------------------------
(***************************************************************************)
(* A session of launch_fuzz.sh: the generation loop in --no-diff mode      *)
(* (FuzzLoop) and the sweep that shadows it (PosthocSweep), which share    *)
(* the corpus below out/llm_guided and nothing else.                       *)
(***************************************************************************)
EXTENDS FuzzLoop

CONSTANTS
  Jobs,     \* -j of the sweep, the size of its xargs pool
  ByHand    \* the sweep is run by hand beside the loop, not by launch_fuzz.sh

ASSUME SessionAssumption == Jobs \in Nat \ {0} /\ ByHand \in BOOLEAN

VARIABLES wrapper, mode, todo, working, seen, recent, logged, failed, diffs

Sweep == INSTANCE PosthocSweep WITH loopAlive <- ~Dead

sweepVars == <<wrapper, mode, todo, working, seen, recent, logged, failed, diffs>>
sessionVars == <<vars, sweepVars>>

SessionInit == Init /\ Sweep!SweepInit

LoopActs  == Next /\ UNCHANGED sweepVars
SweepActs == UNCHANGED <<loopVars, batchVars, stopVars, corpusVars, outcomes>> /\ Sweep!SweepNext

SessionNext == LoopActs \/ SweepActs

SessionSpec == SessionInit /\ [][SessionNext]_sessionVars

\* The loop's fairness, and a worker ends, a pass goes on, the wrapper wakes up.
SessionFairness ==
  /\ WF_sessionVars(SupStep /\ UNCHANGED sweepVars)
  /\ WF_sessionVars(BatchStep /\ UNCHANGED sweepVars)
  /\ WF_sessionVars(StopStep /\ UNCHANGED sweepVars)
  /\ WF_sessionVars(Tick /\ UNCHANGED sweepVars)
  /\ WF_sessionVars(SweepActs)
FairSessionSpec == SessionSpec /\ SessionFairness

-----------------------------------------------------------------------------
(* Properties.                                                             *)

SessionTypeOK == LoopTypeOK /\ Sweep!SweepTypeOK

\* "Defer dirs still being written so a partial batch is not marked done"
\* (posthoc_diff.sh): the diff of a report listed all files of its batch, unless
\* FuzzyVM went on after the end of the loop.
NoPartialReport == ReportComplete

\* "Diff each exactly once" (posthoc_diff.sh), as long as the passes skip
\* existing reports.
DiffedOnceByPasses == mode = "skip" => \A p \in Plans : diffs[p] <= 1

\* The sweep leaves nothing behind: when it exits every batch with a test has
\* its report, whenever the loop was stopped.  What a worker failed on is tried
\* again by the next pass; only a failure in the last one stays, in its log.
SweepCatchesUp ==
  wrapper = "exited" => \A p \in Plans : files[p] > 0 => p \in reported \cup failed \cup loose

\* The wrapper ends after the loop.
SweepEnds == Dead ~> wrapper = "exited"

\* Every batch with a test gets a report, or a line of a failed worker in the
\* log, though the loop may never end.
EveryBatchDiffed == \A p \in Plans : files[p] > 0 ~> p \in reported \cup failed \cup loose

=============================================================================
