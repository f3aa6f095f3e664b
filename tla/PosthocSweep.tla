---------------------------- MODULE PosthocSweep ----------------------------
(***************************************************************************)
(* The post-hoc differential sweep: the wrapper that launch_fuzz.sh leaves *)
(* running beside the generation loop, the passes of posthoc_diff.sh it    *)
(* starts, and their workers (orchestrator/differential.py).  The corpus   *)
(* (dirs, files, age) belongs to somebody else; loopAlive says whether     *)
(* `kill -0` finds the loop's supervisor.                                  *)
(***************************************************************************)
EXTENDS Naturals, FiniteSets, Feedback

CONSTANTS
  Plans,      \* plan ids
  Grace,      \* ticks for which a directory is left alone
  DiffFails,  \* a diff may end early, or without a report
  Jobs,       \* -j, the size of the xargs pool
  ByHand      \* one run of posthoc_diff.sh without --skip-existing

VARIABLES
  loopAlive, dirs, files, age,   \* the environment's
  reported, covered,             \* reports and the number of files in their glob
  written, found,                \* their order, those with a divergence
  wrapper,   \* wrapper: check, scan, work, sleep, exited
  mode,      \* of the current pass: "skip" (--skip-existing) or "resume"
  todo,      \* directories the pass has still to start on
  working,   \* directories a worker is on
  seen,      \* per directory a worker is on: files its glob expanded to
  recent,    \* directories whose report is newer than the last POSTHOC START
  logged,    \* the log holds a POSTHOC START
  failed,    \* directories the current pass's log gives an rc= for, no report written
  diffs      \* history: diffs finished per directory

ownVars == <<wrapper, mode, todo, working, seen, recent, logged, failed, diffs>>
reportVars == <<reported, covered, written, found>>
envVars == <<loopAlive, dirs, files, age>>

SweepInit ==
  /\ wrapper = "check"
  /\ mode = "skip"
  /\ todo = {} /\ working = {} /\ recent = {} /\ failed = {}
  /\ seen = [p \in Plans |-> 0]
  /\ logged = FALSE
  /\ diffs = [p \in Plans |-> 0]

IgnoreLoop == "skip"

\* while kill -0 "$loop_pid": a pass that skips existing reports as long as the
\* loop lives, then a last one without --skip-existing, as by hand.
ModeNow == IF loopAlive /\ ~ByHand THEN "skip" ELSE "resume"

Check ==
  /\ wrapper = "check"
  /\ mode' = ModeNow
  /\ wrapper' = "scan"
  /\ UNCHANGED <<todo, working, seen, recent, logged, failed, diffs, reportVars>>

AnyAge(p)  == p \notin reported
AgeOnly(p) == age[p] >= Grace
Ripe(p)    == p \notin reported /\ age[p] >= Grace

\* With --skip-existing: directories without a report that nobody has made or
\* touched lately.  Otherwise: all but those reported since the log's START.
Selected(p) ==
  IF mode = "skip" THEN Ripe(p) ELSE ~(logged /\ p \in recent)

\* One pass makes its list, and a START in a fresh log if there is work.  While
\* no plan has a directory the root stands in for the list: it has no tests, and
\* what its worker reports is no plan's, but a START may be logged.
Scan ==
  LET list == {p \in dirs : Selected(p)} IN
  /\ wrapper = "scan"
  /\ wrapper' = "work"
  /\ todo' = list
  /\ failed' = {}
  /\ \/ list = {} /\ UNCHANGED <<recent, logged>>
     \/ (list # {} \/ dirs = {}) /\ recent' = {} /\ logged' = TRUE
  /\ UNCHANGED <<mode, working, seen, diffs, reportVars>>

\* A worker takes a directory; runtest expands the glob.
WorkerStart(p) ==
  /\ wrapper = "work"
  /\ p \in todo
  /\ Cardinality(working) < Jobs
  /\ todo' = todo \ {p}
  /\ working' = working \cup {p}
  /\ seen' = [seen EXCEPT ![p] = files[p]]
  /\ UNCHANGED <<wrapper, mode, recent, logged, failed, diffs, reportVars>>

NoReport(p)    == UNCHANGED reported
WriteReport(p) == reported' = reported \cup {p}

\* runtest has ended, whatever its exit code: the report is written.
WorkerDone(p) ==
  /\ p \in working
  /\ working' = working \ {p}
  /\ WriteReport(p)
  /\ covered' = [covered EXCEPT ![p] = seen[p]]
  /\ written' = Rewritten(written, p)
  /\ found' \in Results(found, p, seen[p] > covered[p], DiffFails)
  /\ recent' = recent \cup {p}
  /\ diffs' = [diffs EXCEPT ![p] = @ + 1]
  /\ UNCHANGED <<wrapper, mode, todo, seen, logged, failed>>

\* differential.py ends without a report: the worker logs its exit code, and
\* nothing is tried again in this pass.
WorkerFails(p) ==
  /\ DiffFails
  /\ p \in working
  /\ working' = working \ {p}
  /\ failed' = failed \cup {p}
  /\ UNCHANGED <<wrapper, mode, todo, seen, recent, logged, diffs, reportVars>>

\* The pass is over: sleep and start again, or exit after the last one.
PassEnd ==
  /\ wrapper = "work"
  /\ todo = {} /\ working = {}
  /\ wrapper' = IF mode = "skip" THEN "sleep" ELSE "exited"
  /\ UNCHANGED <<mode, todo, working, seen, recent, logged, failed, diffs, reportVars>>

WakeUp ==
  /\ wrapper = "sleep"
  /\ wrapper' = "check"
  /\ UNCHANGED <<mode, todo, working, seen, recent, logged, failed, diffs, reportVars>>

SweepNext ==
  /\ \/ Check \/ Scan \/ PassEnd \/ WakeUp
     \/ \E p \in Plans : WorkerStart(p) \/ WorkerDone(p) \/ WorkerFails(p)
  /\ UNCHANGED envVars

SweepTypeOK ==
  /\ wrapper \in {"check", "scan", "work", "sleep", "exited"}
  /\ mode \in {"skip", "resume"}
  /\ todo \subseteq dirs
  /\ working \subseteq dirs /\ failed \subseteq dirs
  /\ seen \in [Plans -> Nat]
  /\ recent \subseteq reported
  /\ logged \in BOOLEAN
  /\ diffs \in [Plans -> Nat]

=============================================================================
