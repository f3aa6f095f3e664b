# EVML in TLA+

EVML is an LLM-guided differential fuzzer for Ethereum virtual machines. A generation loop asks a language model for
a *plan*, runs the generator FuzzyVM on it, and gives the state tests that come out to goevmlab's `runtest`, which
executes each test on several EVM clients and looks for one that disagrees. This directory holds TLA+ models of its
protocols and of the algorithms that make, compare and shrink tests, TLC configurations that check them on small
instances, and TLAPS proofs, for all parameters, of every safety property the passing runs check and of the refinement of
the engine's abstract specification. Paths below are relative to the root of the repository.

    tlc -workers 4 -config FuzzGeneric.cfg MCFuzzEngine     # a run: the module of each run is listed below
    tlapm FuzzVerdict_proofs.tla                            # a proof module

Contents: [1 inventory](#1-inventory), [2 models](#2-models-and-code), [3 runs](#3-runs),
[4 fairness](#4-fairness), [5 proofs](#5-proofs), [6 where the code departs from its documents](#6-findings),
[7 not modelled](#7-not-modelled), [8 plan](#8-plan).

## 1 Inventory

### Components, their state and operations

| Component | Where | State | Operations |
|---|---|---|---|
| Differential fuzzing engine | `goevmlab/common/utils.go` (`ExecuteFuzzer`, `startTestFactories`, `fuzzingLoop`, `readResults`, `vmLoop`, `cleanupLoop`, `handleConsensusFlaw`), entered by `cmd/runtest` and `cmd/generic-fuzzer` | channels `testCh`, `resultCh`, `consensusCh`, `cleanCh`, one task channel per client; the `executing` map; the `ready` queue; `abort`, `numTests` | deliver a file, dispatch it, run it, read and compare results, dispose of it, stop |
| Batch clients | `goevmlab/evms/*batcher.go` | `cmd` and the pipes of a master process, a lock | `RunStateTest`, `GetStateRoot`, `Close` |
| Trace normalisation and comparison | `goevmlab/evms/*.go`, `evms.go`, `marshalling.go`, `jsonl_scanner.go` | the element decoded into, geth's pending line | `copyUntilEnd` per client, `CustomMarshal`, `CompareFiles` |
| Single-test runners | `goevmlab/common/utils.go` (`RunSingleTest`, `RootsEqual`, `TestSpeed`), `cmd/repro`, `cmd/checkslow` | none | run one file on all clients, compare traces or roots |
| Minimizer | `goevmlab/cmd/minimizer` | the test in memory, `<test>.min`, a mutator's cursor and last code | shrink authorizations, gas, accounts, code, storage while the clients still disagree |
| Test factories of goevmlab | `goevmlab/fuzzing`, `ops`, `program` | the depth of the stack they believe in | produce a random state test of a fork |
| FuzzyVM generation | `FuzzyVM/generator`, `filler` | the filler's pointer, the bucket map, the jump table, `recursionLevel` | turn bytes into a program |
| FuzzyVM corpus and storage | `FuzzyVM/fuzzer`, `cmd/fuzzyvm` | corpus and output directories | fuzz, store, minimise |
| Generation loop | `scripts/start_llm_loop.sh`, `stop_fuzzing.sh`, `orchestrator/run_batch.py` | supervisor, its child, the FuzzyVM process group, directories per plan, pid file | next batch, timeout, kill, diff, stop |
| Feedback and rotation | `orchestrator/rotate.py`, `run_batch.py` | mtimes and contents of reports | detect a plateau, change the objective |
| Post-hoc sweep | `scripts/launch_fuzz.sh`, `posthoc_diff.sh`, `orchestrator/differential.py` | list of a pass, worker pool, log, `diff_report.json` per plan | pass, worker, report, last pass |
| Baseline run | `scripts/start_baseline.sh`, `crasher_watcher.sh` | supervisor, FuzzyVM, crashers in `testdata` and saved | wipe, restart, save, stop |
| Dashboard | `orchestrator/dashboard` | cache of a scan, pid of a sweep | scan, start and stop a sweep |
| RAG and prompts, trace viewers, metrics | `orchestrator/rag*`, `goevmlab/traces`, `ui`, `cmd/traceview`, `cmd/tracediff`, `scripts/metrics.py` | an index; files to display | retrieve, show, plot |

### How they interact

`launch_fuzz.sh` starts two processes that share nothing but the corpus directory: the loop of `start_llm_loop.sh`
and a sweep that shadows it. The loop starts one `run_batch.py` at a time; this starts FuzzyVM in a *session of its
own* and kills that process group when the batch is over. FuzzyVM writes tests; the sweep judges by the age of a
directory whether a batch is finished, and runs `runtest` on its files through `differential.py`. Inside `runtest`
the engine is a web of goroutines: factories fill `testCh`; the loop takes a file, collects results until enough
clients are ready, and dispatches; a `vmLoop` per client runs a file and returns the task on `resultCh`; decided
files go to a cleanup goroutine or, flawed, to `consensusCh`. A batch client hides behind `RunStateTest` a master
process that serves all tests over one pair of pipes. Whatever a client prints goes through its `copyUntilEnd`, so that
the files compared differ only where the executions do. The reports of the sweep are the feedback of the loop:
`rotate.py` reads in them whether the last batches found anything.

### What is hard, and what makes each component correct

* **Engine.** Results of several files interleave on one channel. One goroutine is at the same time the consumer of
  results, the owner of the ready queue and the only receiver of flaws. Correct means: a verdict depends on the set
  of results of its file and not on their order (`VerdictSound`); no client is given two tasks (`ReadyPartition`);
  no result meets a deleted map entry (`ResultHasEntry`); no file somebody needs is deleted (`OnlyAgreedRemoved`);
  the investigation has the clients to itself (`InvestigatesAlone`); the loop neither blocks on its own channel
  (`FlawSendNeverBlocks`) nor waits for nobody (`NeverWaitsForNobody`); after an abort everything ends
  (`AbortEnds`), with every file accounted for (`AllAccounted`); a disagreement reaches the investigation
  (`DisagreementInvestigated`).
* **Batch clients.** Nothing but a root line separates the output of two tests, and the process may die. A call must
  get the canonical trace of its own file, from every client (`OwnOutput`), leave nothing for the next
  (`NothingLeftOver`) and return (`CallReturns`).
* **Traces.** Clients repeat a failing operation, print summaries and banners, decode into an element that keeps what
  a line leaves out. Two traces must be equal exactly when the executions are (`VerdictExact`).
* **Minimizer.** Accepted and refused changes alternate over copies, a binary search and a map that is iterated while it
  changes; the `.min` file is truncated before it is written, and the minimizer may be stopped anywhere. What is left
  must still show the flaw (`KeptFails`), with memory and file in step (`MinFileCurrent`), and the patience of the
  mutators must come to an end (`MinimizerEnds`).
* **Generation loop.** Signals arrive between any two commands; processes are killed by walking a tree that changes; the
  group that matters most is outside that tree's signal path. No batch may share the machine with the remains of another
  (`NoStraggler`), no diff may read a directory that is written (`DiffUndisturbed`), and stopping must stop
  (`StopComplete`, `TermEnds`). The objective is rotated after a plateau only, as far as reports that repeated plans
  write over each other can tell (`RotatesOnPlateau`).
* **Sweep.** "Finished" is a guess from an mtime, and a worker may fail. No partial batch may be marked done
  (`NoPartialReport`), none diffed twice by the passes (`DiffedOnceByPasses`), none forgotten (`SweepCatchesUp`,
  `EveryBatchDiffed`).
* **Baseline.** The supervisor deletes what the watcher, a command of its own, polls for; a go test outlives the FuzzyVM
  that started it. No crasher may fall between them while both run (`CrashersKept`).
* **FuzzyVM.** The filler starts over in two ways (`UsedUpExact`); jumps are connected to destinations from a list that
  shrinks while it is searched (`DestsUsedOnce`); weights become buckets in a byte (`WeightsHonoured`); workers share a directory without a lock and are killed (`TornOnlyByKill`).
* **Factories.** A simulated stack depth must agree with the real one, under jumps and nested creations, for fourteen
  fillers (`NonErroring`).

`PROJECT.json` lists under `hazards` each of these at its line, with the properties that would catch it.

## 2 Models and code

| Module | Models | Extended or instantiated by |
|---|---|---|
| `FuzzEngine` | the engine: all goroutines of `ExecuteFuzzer` except the one that prints statistics | `MCFuzzEngine`, the proof modules |
| `DiffTest` | abstract specification: the life of a test file, without goroutines | `FuzzEngine` (`Promise == INSTANCE DiffTest WITH ...`) |
| `FuzzEngine_proofs`, `FuzzVerdict_proofs` | proofs about `FuzzEngine`: the bookkeeping; verdicts and the refinement | |
| `TraceFilter` | `copyUntilEnd` of each client, `CustomMarshal`, `CompareFiles`, over what clients print (external) | `BatchVM`, `SingleTest` |
| `BatchVM` | the six batch clients and their (external) master process | `MCBatchVM` |
| `SingleTest` | `RunSingleTest`, `RootsEqual` on the outcomes of all clients | `Minimizer` |
| `OpTable` | the operations, forks and instruction iterator of `goevmlab/ops` | `Minimizer`, `Programs` |
| `Minimizer` | `cmd/minimizer`: every reduction, the search for the gas, the three code mutators | `MCMinimizer` |
| `Feedback` | what reports say of earlier batches (`rotate.py`) | `FuzzLoop`, `PosthocSweep` |
| `FuzzLoop` | supervisor, `run_batch.py`, FuzzyVM group, the ways to stop them | `Session`, `MCFuzzLoop` |
| `PosthocSweep` | the sweep's wrapper, passes and workers, over an environment that writes the corpus | `Session` |
| `Session` | `FuzzLoop` and `PosthocSweep` on one corpus, as `launch_fuzz.sh` starts them | `MCSession`, `Session_proofs` |
| `Generator` | FuzzyVM's filler, plans and buckets, strategies, jump table, nested programs | `Generators` |
| `Programs` | goevmlab's factories: fourteen fillers, the code they build, the transaction, the fill | `Generators` |
| `Storage` | FuzzyVM's workers storing tests while they are killed and restarted | `Generators` |
| `Baseline` | the baseline supervisor and the crasher watcher | `Generators` |
| `Generators` | the choice of one of these four programs (`tool`) | `MCGenerators`, `Generators_proofs` |
| `Session_proofs` | proofs about `FuzzLoop`, `PosthocSweep` and `Session` | |
| `TraceFilter_proofs`, `BatchVM_proofs`, `Minimizer_proofs` | proofs about the modules of these names; the last two use the first | |
| `Generators_proofs` | proofs about `Generator`, `Programs`, `Storage` and `Baseline`, for the specification of `Generators` | |
| `Induction_proofs` | lemmas: induction over the naturals, recursive functions and folds as traces, `FlattenSeq` | `TraceFilter_proofs`, `Generators_proofs` |

Definitions with a bug in them (`SameFile` before `NextFile`, `NoKill` before `KillGroup`, ...) are used by no
action. Put in place of the definition that follows, each makes a property fail, which shows that the property
constrains the code and is not true by the shape of the model; `PROJECT.json` pairs them under `mutants`.

### FuzzEngine

A goroutine is a process with a control variable (`factory`, `loop`, `task`/`vmExited`, `cleaner`, `main`). A
buffered channel is a sequence with a capacity. An *unbuffered* channel is a rendezvous, one step of sender and
receiver together; so `resultCh`, `cleanCh` and the task channels are no variables. `readResults(n)` is inlined
where it is called: `need` counts what is left of `n`, `cur` is the file the loop will start afterwards (`NoTest`
while draining), and the loop's location `settle` is the point between reading the last result of a file and
handing over its verdict, where the code may block.

| Code | Action |
|---|---|
| factory goroutine: provide, `testCh <-`, exit and close | `Provide`, `Ship`, `FactoryExit`, `TestChClosed` |
| `for testfile := range testCh`, then `readResults(clientCount - len(ready))` | `TakeTest`, `Missing` |
| `vmLoop`'s `resultCh <- t` with `readResults`' receive | `Rendezvous` in `ReadError`, `ReadResult` |
| comparison with the first result, `waiting`, the verdict | `WithResult`, `LastResult`, `SettleFlaw`, `SettleClean` |
| `if meta.abort.Load() { continue }` | `Shortcut` |
| new `executing` entry and the loop over `clientCount` clients | `StartTest`, `Dispatch` |
| end of the range: close task channels, drain, look at `consensusCh`, return | `CloseTaskChannels`, `PickFlaw`, `LoopReturn` |
| panics of `handleConsensusFlaw` | `InvestigatePanics` |
| `cleanupLoop` | `CleanTask`, `CleanerExit` |
| signals, cancelled context, `wg.Wait` | `Signal`, `MainEnd`, `Return` |

Abstractions: a file is the number of its delivery (names are unique: `Provide` maps the atomic counter of
`runtest` and the index in the names of generated tests). An output hash is a member of `Hashes`; all that is
done with hashes is comparing them. A run of a client may return any hash, and an error if `VMErrors`; it
may be deemed slow if `SlowRuns` says so. `verdict`, `observed` and `skipped` are history variables.

### DiffTest and the refinement

`DiffTest` says what the engine promises per file: new, delivered, then skipped or executing, then decided *once*,
when `Quorum` different clients have reported; `flaw` exactly if the reports differ; deleted only if they agree.
`FuzzEngine` maps to it with `Phase(t)` computed from `produced`, `verdict`, `skipped`, `executing` and `settling`,
`results <- observed`, `deleted <- removed`. `PromiseKept` is `DiffTest`'s specification under this mapping; it is
checked by run FuzzRuntest and proved as `EngineKeepsPromise`.

### TraceFilter, SingleTest, BatchVM

A printed line is a record: an operation line has the fields it *sets* (`UnmarshalJSON(line, elem)` keeps the others,
which is where decoding into one element or into a new one differs), other lines are summaries, roots, banners or
text. `TraceTexts(c, exec, root, chatty)` is what client `c` prints for an execution (external, read off the filters and
their tests): geth and nimbus repeat a failing operation, chatty clients add what they may. `Next1` is one line
through the filter of a client, `After` several, `Ended1` the end of output, `Filtered` a whole output; `IsExecution` is
what a trace is assumed to be; `Canonical` is the reference:
the operations other than STOP in `CustomMarshal`'s fields, then the root. Only `depth`, `pc`, `gas`, `op`, the last
six stack items and the root exist.

In `BatchVM`, `cmd` is `evm.cmd` together with the mode the master was started in, `stdin`, `writing`, `pipe` the data
under way, `call.buf` the scanner's buffer, `call.copy` the state of `copyUntilEnd`. `Kept` is the reuse of a running
master; `Eof` the end of output when it has died, with the empty root and the nil error; `Close` follows
`GetStateRoot` in `RootsEqual`. nimbus, nethermind and erigon decode one JSON array in speed mode (`Decoded`). The
master is modelled from how the client uses it.

`SingleTest` evaluates one test on all clients: which exit codes are an error of which client, what each of
`RunSingleTest` and `RootsEqual` concludes, in their order, with clients that do not start or print no root.

### OpTable, Minimizer

`OpTable` holds the table of `operations.go` by sets of bytes, the forks of `forks.go`, and `Instructions(code)`,
the iterator of `disassembly.go`. The minimizer works on `[auths, gas, pre]`, codes being real bytes. An action is
one candidate: change, write to `<test>.tmp`, run all clients through `SingleTest`, keep or undo. Keeping truncates
`<test>.min` (`Accept`: `saving` is what is being written) and `Save` completes it before the next candidate; `Stops`, a
kill or a failed write, may come anywhere and leaves the file as it is. Gas limits are uint64s and the bound of the
search is an int (`Int64`), both scaled down by `MaxInt`, which is 2^63 - 1 in the code. `at` is where the reduction is:
the index of the authorization, the bounds of the gas search, the keys an iteration over a map has still to visit (in any
order; one undone may be met again, as Go allows for keys added during a range), and the mutator's cursor, its last
code and its patience. Outcomes of clients come from `MCMinimizer`: five kinds of flaws that depend on what is left of
the test.

### Generator, Programs, Storage, Baseline

`Generator` keeps *how far* the filler is read and *how long* the code is. What a strategy reads is a sequence of
items with alternatives; `Consume` runs it through `Byte` (wraps at the end) and `ByteSlice` (restarts). `strategies` is
the bucket map, `makeMap` or `makeMapNormalized` of a plan; `frames` are the nested programs of `createCall`, which
share the process-wide `recursionLevel`. At the end of a program `InsertJumps` folds over the jumps and the shrinking
list of destinations, and `ended` keeps what it was given, what it made of it, and the filler with the last reads of
`CreateGstMaker`, for the properties.

`Programs` reduces a code to what running it does to the stack: `net` effects of operations from `OpTable`, pieces put
together on purpose, and `wild` from the first random operation on. `codes` is a stack because creations nest.

`Storage` interleaves `stat`, `open` with O_TRUNC and `encode` of several workers with kills of the group; `Baseline`
has the clock of the watcher (`nap`) and that of the supervisor's pause (`left`). The trap of the supervisor kills
FuzzyVM but not its `go test`, which becomes one of the `orphans` and may store a crasher whenever it ends; the watcher
is started by hand, at any time or not at all, and ends when `out/baseline.pid` (`pidFile`) names no live process.
`exposed` are the crashers the watcher was not there for (section 3). The four share no state; `Generators` chooses one,
so that one run covers them.

### FuzzLoop, PosthocSweep, Session

`sup` is the command the supervisor is at. Bash runs its trap between commands, at the end of a foreground command
(`Foreground`), or at once in `wait` (`Trap`); the window between the fork of `run_batch` and `child_pid=$!` is the
location `forked`. `fuzzyvm[b]` is the process group of batch `b`: it survives its parent, because it has a
session of its own. `StopList`, `StopTerm`, `StopKill`, `StopSweep` are the four phases of `stop_fuzzing.sh`, which
works on a snapshot (`tree`). `Tick` lets time pass; `run_batch` reacts to a deadline before the next tick. `age`
is the time since the mtime of `<plan>/out`, counted up to `Grace`; writing tests, which happens in a
subdirectory, does not change it.

`Consult` is `rotate_resolve`: `written` orders the plans by the mtime of their report, `found` are those whose report
lists a divergence, `outcomes` is the history the mtimes stand for. `Results` is what a new report may do to `found`: a
`runtest` that runs to its end finds what it found before, and more only among more tests; one that could not start, was
killed or gave up (`DiffFails`) leaves a report of what its log shows so far, down to no divergence at all. A diff may
also end without any report: `DiffSkipped` in `run_batch`, `WorkerFails` in a sweep, which notes it in its log
(`failed`).

`PosthocSweep` has the environment's variables (`dirs`, `files`, `age`, `loopAlive`) as parameters. `Scan` makes the
list of a pass with `Ripe` (`--skip-existing`) or the resume rule of the log, and while there is no plan directory takes
the root in its place; up to `Jobs` workers run at once; a worker's glob is fixed when it starts (`seen`) and its report
counts that many files (`covered`). `Session` interleaves the two over one corpus, with `loopAlive <- ~Dead`.

## 3 Runs

All are complete searches but the violations. Sizes are distinct states.

| Run (module) | Instance | Shows |
|---|---|---|
| FuzzGeneric (`MCFuzzEngine`), 220k | 3 clients, 2 per file, 3 files, 2 hashes, cleanup on, `consensusCh` 2 | the safety of the bookkeeping with results of two files interleaving: `TypeOK`, `ReadyPartition`, `ResultHasEntry`, `VerdictSound`, `OnlyAgreedRemoved`, `InvestigatesAlone`, `FlawSendNeverBlocks`; `DisagreementInvestigated` while no client fails |
| FuzzRuntest (`MCFuzzEngine`), 173k | 3 clients, all on each file, 2 files, `testCh` 1, clients may fail or be slow, a signal at any time | `AllAccounted`, `NeverWaitsForNobody`, `AbortEnds`, `Terminates`: however signals, errors and flaws fall, the program ends and can account for each file; `PromiseKept`: it implements `DiffTest` |
| LoopStop (`MCFuzzLoop`), 672k | 2 plans that may repeat, 3 batches, 1 file per plan, in-loop diffs that may fail, rotation after 2, `kill` and `stop_fuzzing.sh` at any time | `LoopTypeOK`, `NoStraggler`, `DiffUndisturbed`, `StopComplete`, `RotatesOnPlateau`, `TermEnds` |
| SessionSweep (`MCSession`), 171k | 2 plans, 2 batches, 2 workers that may fail, duration and kill time 1 + 1 tick, grace 3 | `SessionTypeOK`, `NoPartialReport`, `DiffedOnceByPasses`, `SweepCatchesUp`, `SweepEnds`, `EveryBatchDiffed` |
| BatchCalls (`MCBatchVM`), 44k | 6 clients, 2 tests with failing operations and a deep stack, 4 calls of every kind, chatty or not, the master may die once | `TypeOK`, `OwnOutput`, `NothingLeftOver`, `CallReturns` |
| Minimize (`MCMinimizer`), 2.6k | 3 tests, 5 kinds of flaws, 3 modes, all 8 clients, patience 2, `MaxInt` 3, a stop anywhere | `KeptFails`, `MinFileCurrent`, `VerdictExact`, `MinimizerEnds` |
| Generate (`MCGenerators`), 65k | the four makers of tests, bounds below | `UsedUpExact`, `DestsUsedOnce`, `WeightsHonoured`, `NonErroring`, `TornOnlyByKill`, `CrashersKept` |
| FuzzOneVM, FuzzLostFlaw, LoopOrphan, SweepRotation, BatchTrace | | one violation each: section 6 |

**Why these bounds.** FuzzGeneric has one client more than a file needs: the smallest instance in which a second file
starts before the first is decided, and with three files a deletion, which comes one task late, meets a delivery.
`consensusCh` is cut to 2 = 3 - 2 + 1, the limit of `FlawSendNeverBlocks`; the code has 4. Two hashes suffice, because
the code only compares a hash with the first one. Two files and a `testCh` of 1 make a factory block in its send, also
after an abort; with the code's 4 that takes more files. With two factories (`NumThreads = 3`, the last one out closes
`testCh`) the properties of FuzzRuntest hold as well; the run keeps one, because the second doubles the states of the
liveness check. Three batches in LoopStop are one more than the plans, so that a plan repeats; a straggler needs two, a
plateau of two a third to notice it. One file per plan is enough there: what matters of files is that there are some,
and that there are more than a report has seen. In SessionSweep only the order of duration + kill time and grace matters
(in the code 90 s + 25 s < 120 s). One death of the master is enough in BatchCalls, since nothing restarts it; four
calls give two before and two after it.

Minimize has codes with a PUSH whose argument is cut off, with an operation that fails, and of two bytes, so that every
mutator meets its edge. The gas of one test is above `MaxInt`, so that the bound of its search is negative; the others
have a search of two steps. `Patience` 2 and one revisit of an undone key make the counters reach both ends. Generate:
seeds of 0 and 7 bytes (the empty one becomes one byte; both wraps occur within seven), slices of 0 and 3, pieces of 9
bytes, which with `minJumpDistance` 10 makes labels both near and distant, `Limit` 20, four rounds, one level of
nesting; plans: none, one that weighs calls and jumps and sets two strategies to 0, one with an unknown name, which is
rejected. The factories run in Istanbul, Shanghai and Osaka: before PUSH0, after it, and with the last precompiles; four
operations, three pieces and two contracts per code, one nested creation. Two workers on two tests, one kill; two
crashers, two launches (so that an orphaned go test meets the next FuzzyVM), a watcher at any time, the pause 2 ticks of
the watcher's sleep (5 s against 1 s). All bounds are CONSTANTs: `NumTests`, `MaxBatches`, `MaxFiles`, `MaxCalls`,
`MaxCrashes`, `Revisits`, `MaxInt`, `MaxRounds`, `MaxPairs`, `MaxTests`, `MaxOps`, `MaxPieces`, `MaxContracts`,
`MaxDepth`, `MaxKills`, `MaxLaunches`.

**Assumptions of runs.** SessionSweep takes plans that do not repeat (`ReusePlans = FALSE`): `posthoc_diff.sh:77` says
of plan directories that they are "write-once". The plan id is a hash of the plan's content, so that a model which emits
the same plan twice makes FuzzyVM write into a directory that is old or reported already. With `ReusePlans = TRUE` TLC
finds `NoPartialReport` violated: a pass lists the directory in the middle of the second batch, or a report made before
it counts for the new files as well. SessionSweep stops the loop by `kill` only, the way `launch_fuzz.sh` documents, and
properties on reports exempt the plans in `loose`: those an orphaned FuzzyVM wrote to after the end of the loop (finding
LoopOrphan). `SweepCatchesUp` and `EveryBatchDiffed` also exempt a batch on which a worker failed in the pass they speak
of (`failed`): in a pass before the last this is made good by the next one, and after the last by nobody (section 6).
`RotatesOnPlateau` exempts a divergence whose report was written over by a later batch of the same plan (`Replaced`).
`KeptFails` and `MinFileCurrent` say which `.min` files and gas limits they speak of: a torn file is one that a stop has
interrupted, and the gas exception is for limits above `MaxInt` only. `MinimizerEnds` exempts one state that does recur
for ever: on a code of a single instruction the balanced mutator's loop `for removed == 0` (`codemutator.go:51-61`)
finds no cut point and removes nothing (`SingleInstruction`). `CallReturns` exempts the trace calls on a nimbus,
nethermind or erigon master that was started for speed (`Mismatched`): their reader passes over the array and waits for
a trace. `CrashersKept` speaks of what a FuzzyVM stores that the supervisor waits for, while a watcher runs. Exposed,
and maybe wiped by a launch or restart (`start_baseline.sh:122`), are crashers stored without a watcher, those of an
orphaned go test, which may come a moment before the wipe, and those unsaved when the supervisor ends, as the watcher
then exits without a last look; they are exposed only until a watcher's next round has moved them.

Deadlock is checked in every run; a model that may stop has an explicit final step (`Ended`), or time that passes.

## 4 Fairness

* `FuzzEngine!Fairness`: weak fairness of every goroutine (each factory, each `vmLoop`'s exit, the loop together with
  the results it receives, the cleanup, main). The Go scheduler runs every goroutine that can run, and the runs of
  clients are assumed to end; a client that hangs for ever would hang the engine, which sets no timeout on it. No
  fairness for `Signal`. That the loop chooses among results in any order is not restricted.
* `FuzzLoop!Fairness`: the supervisor, `run_batch`, a running `stop_fuzzing.sh`, and time. None for FuzzyVM, which
  need not write nor exit by itself, nor for whoever stops the loop. The supervisor's foreground commands end
  (`start_llama_server.sh` has a timeout of its own).
* `Session!SessionFairness`: the same, and the sweep goes on: passes, workers and the wrapper's sleep end. A worker
  ends because `runtest` ends, see `Terminates`.
* `BatchVM!FairSpec`: the reader runs, and a master that lives answers. It may always die instead.
* `Minimizer!FairSpec`: the minimizer is one sequential program that runs (`Continues`; nothing makes it stop before its
  end), and every run of a client ends. An undone key that is met again in a range over a map is bounded (`Revisits`).
* `Generators` has no liveness property.

## 5 Proofs

All theorems hold for every value of the constants that satisfies the assumptions of the module, which TLC evaluates in
the runs:

| Assumption | Says |
|---|---|
| `EngineAssumption` | at least one client, channel capacities of at least one, any number of factories, files and hashes |
| `LoopAssumption`, `SessionAssumption` | any plans, batches, durations, ways to stop; diffs may fail or not; any positive number of workers |
| `BatchAssumption` | `Exec[t]` is an execution (`IsExecution`: no operation, STOPs aside, comes twice in a row with the same depth and pc), and a test is not the missing root |
| `MinimizerAssumption` | input tests have authorizations, accounts and a gas limit that is a uint64 (`IsTest`: up to 2 `MaxInt` + 1); at least one client |
| `GeneratorAssumption`, `PlansAssumption` | any lengths and bounds; lengths of emitted code are positive; weights of a plan are integers (`Plan.Weights` is a map to `int`) |
| `ProgramsAssumption` | forks of the table of `forks.go`, at least one contract, any bounds |
| `StorageAssumption`, `BaselineAssumption` | any number of kills, launches, any pause |

| Theorem | Module | States |
|---|---|---|
| `Inductive`, `TypeCorrect` | `FuzzEngine_proofs` | `[]IInv`, `[]TypeOK` |
| `ClientsPartitioned`, `ResultsFindEntry` | `FuzzEngine_proofs` | `[]ReadyPartition`, `[]ResultHasEntry` |
| `VerdictsInductive` | `FuzzVerdict_proofs` | `[]Verdicts` |
| `VerdictsSound`, `RemovalSafe`, `InvestigationAlone` | `FuzzVerdict_proofs` | `[]VerdictSound`, `[]OnlyAgreedRemoved`, `[]InvestigatesAlone` |
| `FlawSendsNeverBlock` | `FuzzVerdict_proofs` | `NumVMs - ClientCount + 1` slots in `consensusCh` are enough for the loop never to block |
| `NeverStuck` | `FuzzVerdict_proofs` | with `ClientCount <= NumVMs` the loop never waits for nobody |
| `EngineKeepsPromise` | `FuzzVerdict_proofs` | `Spec => PromiseKept`, the refinement of `DiffTest` |
| `NoFileLost` | `FuzzVerdict_proofs` | `[]AllAccounted` |
| `ProcessesInductive` | `Session_proofs` | `[]ProcessInv` |
| `NoStragglers`, `DiffsUndisturbed`, `StopsCompletely` | `Session_proofs` | `[]NoStraggler`, `[]DiffUndisturbed`, `[]StopComplete`, with plans that repeat and every way to stop |
| `RotationJustified` | `Session_proofs` | `[]RotatesOnPlateau`, with diffs that fail and reports that write over others |
| `LoopTypeCorrect`, `SessionTypeCorrect` | `Session_proofs` | `[]LoopTypeOK`, `[]SessionTypeOK` |
| `SessionInductive` | `Session_proofs` | `[]SessionInv`: `ProcessInv` beside the sweep, `CorpusInv`, `PassInv` |
| `PassesDiffOnce` | `Session_proofs` | `[]DiffedOnceByPasses` |
| `NothingLeftBehind` | `Session_proofs` | `[]SweepCatchesUp` for the wrapper of `launch_fuzz.sh` (`~ByHand`): only a worker's failure in the last pass leaves a batch without report |
| `ReportsComplete` | `Session_proofs` | `[]NoPartialReport`, if `Duration + KillTime < Grace`, plans do not repeat and the loop itself does not diff |
| `FilterCanonical` | `TraceFilter_proofs` | for every client and execution the filter makes `Canonical` out of what the client prints |
| `CompareExact` | `TraceFilter_proofs` | `CompareFiles` finds any number of files of any length equal exactly if they are |
| `BatchInductive`, `BatchTypeCorrect` | `BatchVM_proofs` | `[]BatchInv`, `[]TypeOK` |
| `CallsDeliverOwnOutput`, `CallsLeaveNothing` | `BatchVM_proofs` | `[]OwnOutput`, `[]NothingLeftOver` |
| `MinimizerInductive` | `Minimizer_proofs` | `[]MinInv` |
| `MinimizedStillFails`, `MinFileIsCurrent` | `Minimizer_proofs` | `[]KeptFails`, `[]MinFileCurrent`, stopped anywhere, for every uint64 gas |
| `VerdictIsExact` | `Minimizer_proofs` | `Spec /\ []ClientsExecute => []VerdictExact`: if what clients do is an execution, the verdict on it is exact |
| `SeedUsedUp` | `Generators_proofs` | `[]UsedUpExact` |
| `DestinationsUsedOnce` | `Generators_proofs` | `[]DestsUsedOnce` |
| `PlansHonoured` | `Generators_proofs` | `[]WeightsHonoured` |
| `ProgramsNonErroring` | `Generators_proofs` | `[]NonErroring` |
| `FilesTornOnlyByKill` | `Generators_proofs` | `[]TornOnlyByKill` |
| `CrashersAreKept` | `Generators_proofs` | `[]CrashersKept`, if the pause is at least two of the watcher's sleeps, with any number of orphaned go tests |

**The engine.** None of these properties is inductive. `ReadyPartition` needs to know that a result comes from a
client at work; that a client's file is still in the map (`ResultHasEntry`) needs that the entry waits for at least
as many results as clients are at work on the file *or still to be dispatched to*; and that a fresh entry does not
overwrite a live one needs that a file is delivered once. So the invariant is built in two layers.

1. `IInv` = `TypeOK`, `ControlInv` (what the locations imply about the file in hand; once draining, `need` and
   the queue add up to all clients), `ReadyPartition`, `ReadyCount` (queue and busy clients add up to `NumVMs`),
   `FreshFiles` (a file that is on its way is in one place only and nothing has been done with it), `EntryInv`
   (an entry waits for `BusyOn(t)` and what is left to dispatch, and has counted none of these clients).
2. `Verdicts` = `IInv`, `ResultInv` (`SumsUp`: an entry summarises the results observed; `waiting` plus reporters make
   `ClientCount` until the verdict), `DisposalInv` (what is with the cleanup was agreed on, what is in `consensusCh`
   flawed), `NeedInv` (while collecting before a file, `need` is what is missing), `RoomInv` (each file at a
   client can become one flaw: those in `consensusCh` and those running are at most `NumVMs - ClientCount + 1`, since
   nothing starts after the first).

`Verdicts` implies each safety property in a few lines. The refinement adds `SkipInv` (a skipped file was delivered
and never started), so that the cases of `Phase` exclude each other; one lemma per action then shows the step of
`DiffTest` it makes, or that it makes none. `NoFileLost` adds `LocatedInv` (a delivered file is with a factory, in
`testCh`, at the loop, started or skipped), `CountInv` (`numTests` against the verdicts), `WaitInv` (while no client
fails, an entry waits for *exactly* the clients at work) and `EndInv`.

`FlawSendsNeverBlock` tells how far the constant 4 in the code goes: `runtest`, where all clients run each file, needs
one slot for any number of clients; `generic-fuzzer`, with two per file, is safe up to five clients, and with six a
fifth flaw can block the loop for ever. `NeverStuck` shows that the missing argument check of finding FuzzOneVM is the
only cause of that hang.

**The loop.** `NoStraggler` is not inductive: that a new batch meets no FuzzyVM needs that the supervisor starts it only
when no `run_batch` runs, and that a FuzzyVM without its `run_batch` exists only when the supervisor is dead. `ProcessInv`
adds what each location of the supervisor says about its child (`OneBatch`), that only the last batch can have a group
and has none before its start and after its reaping (`OneGroup`), and what `stop_fuzzing.sh` has achieved in each of its
phases (`StopInv`; a `run_batch` that its snapshot missed is the exception the property names). `OneGroup` also gives
`DiffUndisturbed` when the supervisor is gone and an orphaned `run_batch` goes on.

**The session.** `PassInv` counts: while passes skip reports, what is on the list or at a worker was never diffed, and
what was diffed has a report. `LastPassInv`: the pass that does not skip starts only when the loop is dead; a batch is
then on its list, at a worker, reported or failed, and afterwards a file is new only in a directory in `loose`. For
complete reports, `TimeInv` bounds the age of the directory of a running FuzzyVM by the time its batch has taken, and
that by the deadlines; so when a pass lists a directory that is `Grace` old, nobody writes to it (`SettledInv`), and a
new FuzzyVM only goes to a new directory.

**The plateau and the types.** That the last `K` batches found nothing cannot be read off the reports when a plan
repeats: its report is replaced and moves to the end of the order. `PlateauInv` says what is left of a batch that found
something and is the last of its plan that was diffed: a report, of its plan, that still says so, behind which there are
no more reports than diffs since. It rests on two lemmas about `Rewritten` (each plan has one place, and the others keep
their order), on which the type invariants of `FuzzLoop` and `Session` rest as well: `written` has no repetition, so its
length is bounded.

**Traces.** `Filtered` is a recursive function over the lines, so the proof goes by induction over the execution. The
claim for a beginning of it (`HasRead`) is that everything read is written, except that for geth and nimbus the last
real operation may be `Pending`: it is kept in `prev` until the next line shows whether it is a repetition. That a
pending operation is written exactly once rests on `IsExecution`, since the filters take an equal depth and pc for a
repetition; that no field leaks from an earlier line rests on the fact that operation lines set them all. Two more
lemmas, on lines of any content, are for the batch clients: the filter only adds to its output (`Grows`), and a root
stays.

**The batch clients.** `OwnOutput` is not inductive, as it speaks of finished calls. `BatchInv` follows one call's output
through the `Channel`: what the filter has had, the scanner's buffer, the pipe, and what the master has still to print add
up, in this order, to the output for the file of the call in progress; between calls all of them are empty, and a master
that was started for traces has only served traces. When the root line is met nothing is left, since it
is the last line of each output; when the master dies, what was read is a beginning of the output.

**The minimizer.** The test last kept is what is being written, or else what the `.min` file holds, or else the input
(`Current`). `MinInv`: it shows the flaw, and so does the `.min` file if it is complete; outside the gas search it is
the test in memory. During the search (`GasInv`) the test in memory is the last probe, and what was kept is the test
with the gas at the upper end; this is what the final assignment of the gas restores. A gas above `MaxInt` makes a
negative upper end, with which the search is over at once and the gas becomes 0: the one case in which memory and file
differ. Nothing is assumed about outcomes but that they depend on the test. `VerdictIsExact` joins `FilterCanonical` and
`CompareExact`; it assumes that what the clients execute are executions, which the outcomes of `MCMinimizer` are.

**FuzzyVM.** `Well` relates the filler's pointer, its history and `usedUp`; `Byte` and `ByteSlice` keep it, hence every
strategy does. For the jump table, `Sound` is kept by the step of the fold in `InsertJumps`: a jump
without a link suited nothing that was left, and each destination is in the list or in a link as often as it was
there. For plans, the ends of the blocks of strategies are prefix sums of shares, each of which is rounded down: they sum
to at most 256 before the last strategy, which takes the rest and so gets no less than its share.

**goevmlab's factories.** `SoundCode`: no code has met an operation without its arguments, and while simpleops and
memops count a depth, the stack is at least as high. Pieces are sequences of operations; `Moves(ops, n, d)` says that
from every height of at least `n` each operation finds its arguments and the stack ends higher by `d - n`; it is closed
under concatenation, and each piece built in `program.go` moves the stack by what its callers rely on. `Emit` is a fold,
so a step of it is an induction over the operations emitted.

**Storage and baseline.** A worker that truncates a file another has completed will complete it again: every incomplete
file has a writer at `encode`. `Guarded` are the crashers that the watcher is there for and has not moved. `WatchInv`:
there are some only from the end of a FuzzyVM to the next round of a running watcher, and during the pause it wakes up
before the pause is over (`left > nap`). The theorems are about the specification of `Generators`: `OneTool` says that
its behaviours are behaviours of each of the four programs.

**Induction.** The library states its induction theorems for an operator, which the provers do not instantiate.
`Induction_proofs` derives from the theorem on minimal elements (`WFMin`) an induction for a property given as a *set*
(`SetInduction`), and from it that a recursive function or a fold is the last element of a trace (`IterTrace`), along
which a set is kept (`TraceInduction`), and how `FlattenSeq` meets `Append`. That is why
the models recurse with recursive functions (`After`) and folds (`Emit`, `InsertJumps`, `Sum`, `Consume`).

**Only model-checked**, on the instances above: liveness (`AbortEnds`, `Terminates`, `DisagreementInvestigated`,
`TermEnds`, `SweepEnds`, `EveryBatchDiffed`, `CallReturns`, `MinimizerEnds`), because fairness and ENABLED are out of
the prover's reach. All other properties of the passing runs, invariants and the refinement, are proved.

## 6 Findings

Runs in which TLC violates what a document, comment or message of the repository says; details in `PROJECT.json`.

* **FuzzOneVM** (`utils.go:822`). One client passes the check "need at least one vm"; `generic-fuzzer` then waits
  for a second for ever, and signals no longer end it.
* **FuzzLostFlaw** (`utils.go:769`). When a third client fails on a file two others disagree on, the entry is never
  completed: the flaw is logged, but never investigated, against `final_report.md:108`.
* **LoopOrphan** (`start_llm_loop.sh:205`). SIGTERM to the supervisor, by hand or by the timer of `--duration`, kills
  `run_batch.py`, which has no handler; FuzzyVM goes on, against the comment in `stop_fuzzing.sh:45`.
* **SweepRotation** (`rotate.py:50`). A sweep writes each report anew, and `detect_plateau` orders batches by the mtime of
  the report: it takes old batches for the last ones and rotates the objective although a recent one found a divergence.
* **BatchTrace** (`besubatcher.go:67`). With `--skiptrace` the running batch master prints no trace, so that the
  investigation of a flaw dumps none.

While reading the code for the models we also noted the following, which no run refutes because nothing in the repository
says otherwise, or because it is outside the models:

* *Sweep and loop.* The "final catch-up pass over batches it finished last" (`launch_fuzz.sh:148`) diffs again every batch
  already diffed by earlier passes, as the wrapper leaves out `--skip-existing`. With `ReusePlans = TRUE` see section 3.
  A report of a `runtest` that could not start or was killed counts as a batch without divergence (`rotate.py:59`): with
  K = 2, a batch of plan B that found nothing, one of plan A that did, and A again with a failed `runtest` make a
  plateau, which is at odds with `rotate.py:3` like SweepRotation. What holds is `RotatesOnPlateau` with `Replaced`. A
  batch on which a worker fails in the last pass (`posthoc_diff.sh:117`) stays without report, which only the log tells.
  The rotated objective is never stored: the loop passes the same `--objective` to the next batch. `STOP_FILE`, the note
  of the time a session is going to stop, is removed before the check for a live pid (`start_llm_loop.sh:175-182`); two
  launches at once both start. A relaunch of `launch_fuzz.sh` does not wait for the deferred trap of the session it
  stops and can end with nothing running.
* *Array clients* started with `--skiptrace` hang in the investigation of a flaw (`Mismatched`).
* *Minimizer.* A stop between the truncation and the write of `<test>.min` (`main.go:160`) leaves a torn file; the test
  is in `<test>.tmp`. A gas limit of 2^63 or more makes the bound of the search negative, and "restore the gas again"
  (`main.go:195`) sets 0 though no candidate had that gas. Besides the endless loop of section 3: `codemutator.go:67`
  puts the balancing operation back at the end, and `rand.Intn(0)` panics when only an incomplete PUSH is left (action
  `Panic`).
* *FuzzyVM.* `ByteSlice(n)` is not n times `Byte()` after a wrap. Banned operations are still emitted by other strategies.
  `jumpdestGenerator` notes a label and emits no JUMPDEST. Conditions of three bytes
  and more are never filled. An importance that is small against the sum gets no bucket (`plan.go:172-174`).
  `recursionLevel` is never decreased, so that corpus creation uses up the nesting of the whole process.
  `createTest` returns a midpoint it has not tried. `minimizeCorpus` reads names relative to the working directory and
  deletes both of two equal files. A torn file of `storeTest` makes its test a "duplicate" for ever.
* *goevmlab.* `LookupChainConfig` has no case for Cancun. `specialElement` draws from 3 where it has 5 cases.
* *Baseline.* The trap kills FuzzyVM's own pid only (`start_baseline.sh:119`): its `go test` goes on, beside the next
  launch, and what it stores may be wiped unseen. The watcher exits without a last look at `testdata`. `run_batch.py`
  wipes the `testdata` a parallel baseline run shares.

## 7 Not modelled

* The statistics goroutine of the engine and everything that only prints, logs or plots; `TestSpeed` and `cmd/checkslow`,
  which measure time; clients' command lines and versions.
* Plan generation by the LLM, RAG retrieval, prompts (with `gather_recent_findings`, which only fills one): no protocol,
  arbitrary data. `FuzzLoop` takes any plan.
* The pid file of the launchers, two launches at the same time, reuse of process ids, file-system errors outside
  `Storage` and `Minimizer`; `--force` of `posthoc_diff.sh`, `posthoc_diff_llm.sh`, `diff_one_plan.sh`, parsing of logs into reports. A
  report is one step: the fact that it exists, how many files it saw, whether it lists a divergence. (A report read while it is
  written makes `detect_plateau` say no, and a torn one is left by a kill.)
* A `<test>.min` of an earlier run of the minimizer, which the first accepted change truncates; a kill of the crasher
  watcher; builds and the parking of FuzzyVM's corpus in `start_baseline.sh`.
* The dashboard: its only protocol is the start and stop of a sweep, a check-then-start race and a SIGKILL by name
  (hazards).
* In FuzzyVM: which operations a strategy emits (only their reads and lengths), the run of geth that
  `MinimizeProgram` searches with, the corpus's search for a seed length. In goevmlab: the input data of precompiles
  (curve points, field elements), values in storage, the contents of authorizations.
* Trace viewers, reader and call analysis: display of recorded traces by a sequential reader.

## 8 Plan

In order of importance for the system; 1 to 7 are written, and of 8 the safety properties.

1. `FuzzEngine`, `DiffTest`, their runs, the inductive invariant, safety and refinement theorems.
2. `FuzzLoop`, `PosthocSweep`, composed in `Session`, with `Feedback`.
3. `TraceFilter`, `BatchVM`: every client's output, whole and line by line.
4. `SingleTest`, `OpTable`, `Minimizer`.
5. `Generator`: filler, plan, strategies, jump table.
6. `Programs`: goevmlab's factories.
7. `Storage`, `Baseline`.
8. Proofs. Done: every invariant of the passing runs and the refinement of `DiffTest`. Left: the verdict of `RootsEqual`
   (in `roots` mode the minimizer relies on it), step properties such as that a report is never withdrawn
   and that a passing `Consult` changes nothing, the safety part of the liveness properties (variants that decrease),
   abstract specifications of a batch client (a function from files to outputs) and of the sweep.
9. The launcher's pid file and the dashboard's start and stop of a sweep, composed with `Session`.
