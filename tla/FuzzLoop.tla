------------------------------ MODULE FuzzLoop ------------------------------
(***************************************************************************)
(* The generation loop: the bash supervisor of scripts/start_llm_loop.sh,  *)
(* the run_batch.py process it starts per batch (orchestrator), the        *)
(* FuzzyVM process group run_batch starts in a session of its own, and the *)
(* two ways to stop the loop: `kill <pid>` (by hand or by the timer of     *)
(* --duration) and scripts/stop_fuzzing.sh.                                *)
(*                                                                         *)
(* Bash runs a trap at the end of the foreground command, between two      *)
(* commands, or at once while it is in `wait`.  Time passes in ticks: only *)
(* the order of Duration + KillTime and Grace matters.  Definitions with a *)
(* bug in them (NoKill, ...) are used by no action; substituted for the    *)
(* definition after them they show that a property can fail.               *)
(***************************************************************************)
EXTENDS Naturals, FiniteSets, Feedback

CONSTANTS
  Plans,       \* plan ids, the hash of the plan's content
  NoPlan,      \* no plan
  MaxBatches,  \* bound: batches the supervisor starts
  MaxFiles,    \* bound: test files written per plan
  Duration,    \* ticks of run_batch --duration
  KillTime,    \* ticks from SIGTERM to the final SIGKILL of the group
  Grace,       \* ticks after which the age of a directory is not told apart
  RunDiff,     \* run_batch --diff (start_llm_loop.sh without --no-diff)
  DiffFails,   \* a diff may end early, or without a report
  RotateK,     \* run_batch --rotate-if-plateau
  ReusePlans,  \* the LLM may emit a plan it has emitted before
  StopWays     \* subset of {"kill", "stop_fuzzing"}

ASSUME LoopAssumption ==
  /\ NoPlan \notin Plans
  /\ MaxBatches \in Nat /\ MaxFiles \in Nat
  /\ RotateK \in Nat
  /\ Duration \in Nat /\ KillTime \in Nat /\ Grace \in Nat
  /\ RunDiff \in BOOLEAN /\ DiffFails \in BOOLEAN /\ ReusePlans \in BOOLEAN
  /\ StopWays \subseteq {"kill", "stop_fuzzing"}

Batches == 1 .. MaxBatches

VARIABLES
  sup,       \* supervisor: the command it is at, or "dead"
  term,      \* a SIGTERM of the supervisor is pending
  batchNo,   \* number of run_batch processes started
  batch,     \* the last run_batch process: [st, plan, elapsed, glob, asked]
  fuzzyvm,   \* per run_batch started: plan of its FuzzyVM group while it lives
  stop,      \* stop_fuzzing.sh: control state
  tree,      \* its snapshot of the supervisor's descendants
  dirs,      \* plans with a directory <plan>/out
  files,     \* number of test files in it
  age,       \* ticks since the mtime of <plan>/out, at most Grace
  reported,  \* plans with a diff_report.json
  covered,   \* number of files in the glob of its last report
  written,   \* plans by the mtime of their report
  found,     \* plans whose report lists a divergence
  outcomes,  \* history: per report of the loop, its plan and whether it is clean
  loose      \* history: plans written to after the supervisor's end

loopVars   == <<sup, term, batchNo>>
batchVars  == <<batch, fuzzyvm>>
stopVars   == <<stop, tree>>
corpusVars == <<dirs, files, age, loose>>
reportVars == <<reported, covered, written, found, outcomes>>
vars == <<loopVars, batchVars, stopVars, corpusVars, reportVars>>

NoBatch == [st |-> "none", plan |-> NoPlan, elapsed |-> 0, glob |-> 0,
            asked |-> FALSE]
NoTree  == [batch |-> 0, vm |-> 0]

Init ==
  /\ sup = "delay"
  /\ term = FALSE
  /\ batchNo = 0
  /\ batch = NoBatch
  /\ fuzzyvm = [b \in Batches |-> NoPlan]
  /\ stop = "idle"
  /\ tree = NoTree
  /\ dirs = {}
  /\ files = [p \in Plans |-> 0]
  /\ age = [p \in Plans |-> 0]
  /\ reported = {}
  /\ covered = [p \in Plans |-> 0]
  /\ written = <<>> /\ found = {} /\ outcomes = <<>>
  /\ loose = {}

BatchRuns == batch.st # "none"
Dead == sup = "dead"

-----------------------------------------------------------------------------
(* The supervisor.                                                         *)

\* The wait for --start-at is over.
DelayDone ==
  /\ sup = "delay"
  /\ ~term
  /\ sup' = "llama"
  /\ UNCHANGED <<term, batchNo, batchVars, stopVars, corpusVars, reportVars>>

\* A foreground command ends (start_llama_server.sh, sleep): a pending trap
\* runs first.  Its child_pid is empty: nothing to kill.
Foreground(cmd, next) ==
  /\ sup = cmd
  /\ sup' = IF term THEN "dead" ELSE next
  /\ UNCHANGED <<term, batchNo, batchVars, stopVars, corpusVars, reportVars>>

\* python3 run_batch.py ... &
Spawn ==
  /\ sup = "spawn"
  /\ ~term
  /\ batchNo < MaxBatches
  /\ sup' = "forked"
  /\ batchNo' = batchNo + 1
  /\ batch' = [NoBatch EXCEPT !.st = "start"]
  /\ UNCHANGED <<term, fuzzyvm, stopVars, corpusVars, reportVars>>

\* child_pid=$!, wait
NotePid ==
  /\ sup = "forked"
  /\ ~term
  /\ sup' = "wait"
  /\ UNCHANGED <<term, batchNo, batchVars, stopVars, corpusVars, reportVars>>

WaitDone ==
  /\ sup = "wait"
  /\ ~term
  /\ ~BatchRuns
  /\ sup' = "sleep"
  /\ UNCHANGED <<term, batchNo, batchVars, stopVars, corpusVars, reportVars>>

TrapWithoutExit == sup' = IF sup = "wait" THEN "sleep" ELSE sup
TrapExit == sup' = "dead"

\* The trap: kill run_batch if its pid is known, exit.  SIGTERM ends run_batch,
\* which has no handler, and reaches nothing of the FuzzyVM session.
Trap ==
  /\ term
  /\ sup \in {"delay", "spawn", "forked", "wait"}
  /\ TrapExit
  /\ batch' = IF sup = "wait" THEN NoBatch ELSE batch
  /\ UNCHANGED <<term, batchNo, fuzzyvm, stopVars, corpusVars, reportVars>>

-----------------------------------------------------------------------------
(* run_batch.py and FuzzyVM.                                               *)

\* rotate_resolve, with --diff only: after a plateau the LLM is asked for
\* another objective.
Consult ==
  /\ batch.st = "start"
  /\ batch' = [batch EXCEPT !.st = "llm",
                           !.asked = RunDiff /\ DetectPlateau(written, found, RotateK)]
  /\ UNCHANGED <<loopVars, fuzzyvm, stopVars, corpusVars, reportVars>>

\* The LLM is down, or its answer is not a valid plan.
BatchFails ==
  /\ batch.st = "llm"
  /\ batch' = NoBatch
  /\ UNCHANGED <<loopVars, fuzzyvm, stopVars, corpusVars, reportVars>>

\* A valid plan: make its directory, unless an identical plan has made it
\* before, and start FuzzyVM in a new session.
StartFuzz(p) ==
  /\ batch.st = "llm"
  /\ ReusePlans \/ p \notin dirs
  /\ dirs' = dirs \cup {p}
  /\ age' = IF p \in dirs THEN age ELSE [age EXCEPT ![p] = 0]
  /\ batch' = [NoBatch EXCEPT !.st = "fuzz", !.plan = p]
  /\ fuzzyvm' = [fuzzyvm EXCEPT ![batchNo] = p]
  /\ UNCHANGED <<loopVars, stopVars, files, loose, reportVars>>

\* A fuzz worker stores a new test in a subdirectory of out/, whose own mtime
\* does not change.
Write(b) ==
  LET p == fuzzyvm[b] IN
  /\ p # NoPlan
  /\ files[p] < MaxFiles
  /\ files' = [files EXCEPT ![p] = @ + 1]
  /\ loose' = IF Dead THEN loose \cup {p} ELSE loose
  /\ UNCHANGED <<loopVars, batchVars, stopVars, dirs, age, reportVars>>

\* The duration is over: SIGTERM to the group.
Timeout ==
  /\ batch.st = "fuzz"
  /\ batch.elapsed >= Duration
  /\ batch' = [batch EXCEPT !.st = "term"]
  /\ UNCHANGED <<loopVars, fuzzyvm, stopVars, corpusVars, reportVars>>

NoKill    == UNCHANGED fuzzyvm
KillGroup == fuzzyvm' = [fuzzyvm EXCEPT ![batchNo] = NoPlan]

\* FuzzyVM has exited (of itself, after the SIGTERM, or KillTime is over): the
\* whole group gets a SIGKILL "before diff scans the output dir".
Reap ==
  /\ batch.st \in {"fuzz", "term"}
  /\ KillGroup
  /\ batch' = IF RunDiff THEN [batch EXCEPT !.st = "diff"] ELSE NoBatch
  /\ UNCHANGED <<loopVars, stopVars, corpusVars, reportVars>>

\* run_diff: runtest expands the glob ...
DiffStart ==
  /\ batch.st = "diff"
  /\ batch' = [batch EXCEPT !.st = "diffing", !.glob = files[batch.plan]]
  /\ UNCHANGED <<loopVars, fuzzyvm, stopVars, corpusVars, reportVars>>

\* ... and the report is written when it has ended, whatever its exit code.
DiffDone ==
  /\ batch.st = "diffing"
  /\ reported' = reported \cup {batch.plan}
  /\ covered' = [covered EXCEPT ![batch.plan] = batch.glob]
  /\ written' = Rewritten(written, batch.plan)
  /\ found' \in Results(found, batch.plan, batch.glob > covered[batch.plan], DiffFails)
  /\ outcomes' = Append(outcomes, [plan |-> batch.plan, clean |-> batch.plan \notin found'])
  /\ batch' = NoBatch
  /\ UNCHANGED <<loopVars, fuzzyvm, stopVars, corpusVars>>

\* run_diff raises before runtest has started (a client's binary is missing):
\* "differential skipped", an older report stays as it is.
DiffSkipped ==
  /\ DiffFails
  /\ batch.st = "diff"
  /\ batch' = NoBatch
  /\ UNCHANGED <<loopVars, fuzzyvm, stopVars, corpusVars, reportVars>>

\* A FuzzyVM that nobody waits for may end by itself, on a crasher.
OrphanExits(b) ==
  /\ fuzzyvm[b] # NoPlan
  /\ b # batchNo \/ ~BatchRuns
  /\ fuzzyvm' = [fuzzyvm EXCEPT ![b] = NoPlan]
  /\ UNCHANGED <<loopVars, batch, stopVars, corpusVars, reportVars>>

\* Time passes; run_batch reacts to its deadlines before the next tick.
NeverDue == batch.elapsed + 1
Deadline ==
  CASE batch.st = "fuzz" -> Duration
    [] batch.st = "term" -> Duration + KillTime
    [] OTHER             -> batch.elapsed + 1
Tick ==
  /\ batch.elapsed < Deadline
  /\ age' = [p \in Plans |-> IF p \in dirs /\ age[p] < Grace THEN age[p] + 1 ELSE age[p]]
  /\ batch' = IF batch.st \in {"fuzz", "term"} THEN [batch EXCEPT !.elapsed = @ + 1] ELSE batch
  /\ UNCHANGED <<loopVars, fuzzyvm, stopVars, dirs, files, loose, reportVars>>

-----------------------------------------------------------------------------
(* Stopping the loop.                                                      *)

\* kill $(cat out/llm_loop.pid), or the timer of --duration and --stop-at.
Kill ==
  /\ "kill" \in StopWays
  /\ ~Dead /\ ~term
  /\ term' = TRUE
  /\ UNCHANGED <<sup, batchNo, batchVars, stopVars, corpusVars, reportVars>>

\* stop_fuzzing.sh: list the descendants of the supervisor, if it is alive.
StopList ==
  /\ "stop_fuzzing" \in StopWays
  /\ stop = "idle"
  /\ IF Dead
       THEN stop' = "killed" /\ UNCHANGED tree
       ELSE /\ stop' = "listed"
            /\ tree' = IF BatchRuns
                         THEN [batch |-> batchNo,
                               vm |-> IF fuzzyvm[batchNo] # NoPlan THEN batchNo ELSE 0]
                         ELSE NoTree
  /\ UNCHANGED <<loopVars, batchVars, corpusVars, reportVars>>

\* SIGTERM to the supervisor.
StopTerm ==
  /\ stop = "listed"
  /\ stop' = "termed"
  /\ term' = (~Dead \/ term)
  /\ UNCHANGED <<sup, batchNo, batchVars, tree, corpusVars, reportVars>>

\* The supervisor is gone or four seconds have passed: SIGKILL to the processes
\* of the list, supervisor last.
StopKill ==
  /\ stop = "termed"
  /\ stop' = "killed"
  /\ sup' = "dead"
  /\ batch' = IF tree.batch = batchNo THEN NoBatch ELSE batch
  /\ fuzzyvm' = [b \in Batches |-> IF b = tree.vm THEN NoPlan ELSE fuzzyvm[b]]
  /\ UNCHANGED <<term, batchNo, tree, corpusVars, reportVars>>

NoBackstop == fuzzyvm
Backstop   == [b \in Batches |-> NoPlan]

\* The backstop: SIGKILL to every go-fuzz process found by name.
StopSweep ==
  /\ stop = "killed"
  /\ stop' = "done"
  /\ fuzzyvm' = Backstop
  /\ UNCHANGED <<loopVars, batch, tree, corpusVars, reportVars>>

-----------------------------------------------------------------------------
SupStep ==
  \/ DelayDone
  \/ Foreground("llama", "spawn")
  \/ Foreground("sleep", "llama")
  \/ Spawn \/ NotePid \/ WaitDone \/ Trap
BatchStep ==
  \/ Consult \/ BatchFails \/ Timeout \/ Reap \/ DiffStart \/ DiffDone \/ DiffSkipped
  \/ \E p \in Plans : StartFuzz(p)
StopStep == StopTerm \/ StopKill \/ StopSweep

Next ==
  \/ SupStep \/ BatchStep \/ StopStep
  \/ \E b \in Batches : Write(b) \/ OrphanExits(b)
  \/ Tick \/ Kill \/ StopList

Spec == Init /\ [][Next]_vars

\* Processes are scheduled and time passes; neither FuzzyVM nor whoever stops
\* the loop owes anybody a step.
Fairness == WF_vars(SupStep) /\ WF_vars(BatchStep) /\ WF_vars(StopStep) /\ WF_vars(Tick)
FairSpec == Spec /\ Fairness

-----------------------------------------------------------------------------
(* Properties.                                                             *)

LoopTypeOK ==
  /\ sup \in {"delay", "llama", "spawn", "forked", "wait", "sleep", "dead"}
  /\ term \in BOOLEAN
  /\ batchNo \in 0 .. MaxBatches
  /\ batch \in [st : {"none", "start", "llm", "fuzz", "term", "diff", "diffing"},
                plan : Plans \cup {NoPlan}, elapsed : 0 .. Duration + KillTime,
                glob : 0 .. MaxFiles, asked : BOOLEAN]
  /\ fuzzyvm \in [Batches -> Plans \cup {NoPlan}]
  /\ stop \in {"idle", "listed", "termed", "killed", "done"}
  /\ tree \in [batch : 0 .. MaxBatches, vm : 0 .. MaxBatches]
  /\ dirs \subseteq Plans
  /\ files \in [Plans -> 0 .. MaxFiles]
  /\ age \in [Plans -> 0 .. Grace]
  /\ reported \subseteq Plans
  /\ covered \in [Plans -> 0 .. MaxFiles]
  /\ ToSet(written) = reported /\ Len(written) = Cardinality(reported)
  /\ found \subseteq reported
  /\ outcomes \in Seq([plan : Plans, clean : BOOLEAN])
  /\ loose \subseteq Plans

Alive(b) == fuzzyvm[b] # NoPlan

\* While the supervisor lives only the batch it waits for has a FuzzyVM: no
\* straggler of an earlier batch shares the machine and the corpus with it.
NoStraggler == \A b \in Batches : Alive(b) /\ ~Dead => b = batchNo /\ BatchRuns

\* The fuzz workers do not race with the diff of their batch (run_batch.py).
DiffUndisturbed ==
  batch.st \in {"diff", "diffing"} => \A b \in Batches : fuzzyvm[b] # batch.plan

\* No file was written after the diff of a report had listed its batch, unless
\* FuzzyVM went on after the end of the supervisor.
ReportComplete == \A p \in reported : files[p] = covered[p] \/ p \in loose

\* "If the last K LLM-guided batches all produced zero divergences" (rotate.py):
\* the LLM is asked for another objective only then.  A divergence among the
\* last K reports is passed over in one case only: a batch of the same plan came
\* later and wrote its report, from a runtest that may have failed, over it.
Replaced(i) == \E j \in i + 1 .. Len(outcomes) : outcomes[j].plan = outcomes[i].plan
RotatesOnPlateau ==
  batch.asked =>
    /\ Len(outcomes) >= RotateK
    /\ \A i \in Len(outcomes) - RotateK + 1 .. Len(outcomes) : outcomes[i].clean \/ Replaced(i)

\* When stop_fuzzing.sh is done the supervisor is gone, and nothing fuzzes
\* unless a run_batch got away that was forked after the snapshot and before
\* the supervisor had noted its pid.
StopComplete ==
  stop = "done" =>
    /\ Dead
    /\ (\E b \in Batches : Alive(b)) => BatchRuns /\ tree.batch # batchNo

\* A signal ends the supervisor, whatever it is doing.
TermEnds == term ~> Dead

\* "The supervisor trap kills run_batch, which killpgs FuzzyVM": after a signal
\* to the supervisor nothing fuzzes any more.
TermEndsFuzzing == term ~> (Dead /\ \A b \in Batches : ~Alive(b))

=============================================================================
