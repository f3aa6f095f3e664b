----------------------------- MODULE FuzzEngine -----------------------------
(***************************************************************************)
(* The differential fuzzing engine of goevmlab/common/utils.go: test       *)
(* factories deliver test files on a buffered channel, the fuzzing loop    *)
(* hands each file to a number of clients (EVMs), collects and compares    *)
(* their results, a cleanup goroutine disposes of the files, and the main  *)
(* goroutine waits for a signal or for the loop and then for everybody.    *)
(*                                                                         *)
(* Goroutines are processes with a control state each.  An unbuffered      *)
(* channel is a rendezvous: the send and the receive are one step.  A test *)
(* file is the number of its delivery, an output hash a member of Hashes.  *)
(*                                                                         *)
(* Some definitions are preceded by a variant with a bug in it (SameFile   *)
(* for NextFile, ...).  No action uses a variant: substituted for the      *)
(* definition after it, it shows that a property can fail.                 *)
(***************************************************************************)
EXTENDS Naturals, Sequences, FiniteSets

CONSTANTS
  NumVMs,        \* number of clients started by InitVMs
  AllClients,    \* runtest: TRUE; generic-fuzzer: FALSE
  NumThreads,    \* the --parallel flag
  CleanupFiles,  \* the --cleanupFiles flag (runtest passes false)
  TestChCap,     \* capacity of testCh
  ConsensusCap,  \* capacity of consensusCh
  NumTests,      \* bound: files the provider can deliver
  Hashes,        \* output hashes the clients can produce
  SlowRuns,      \* {FALSE}, or BOOLEAN when a run may be deemed slow
  VMErrors       \* whether RunStateTest may return an error

ASSUME EngineAssumption ==
  /\ NumVMs \in Nat \ {0}           \* otherwise ExecuteFuzzer returns an error
  /\ AllClients \in BOOLEAN
  /\ CleanupFiles \in BOOLEAN
  /\ VMErrors \in BOOLEAN
  /\ NumThreads \in Nat
  /\ NumTests \in Nat
  /\ TestChCap \in Nat \ {0}
  /\ ConsensusCap \in Nat \ {0}
  /\ Hashes \subseteq Nat \ {0}
  /\ SlowRuns \subseteq BOOLEAN

VMs         == 1 .. NumVMs
Tests       == 1 .. NumTests
NoTest      == 0
ClientCount == IF AllClients THEN NumVMs ELSE 2
Factories   == 1 .. (NumThreads + 1) \div 2

\* What a run of a client on a file reports unless it fails; 0 is no hash.
Results == [hash : Hashes, slow : SlowRuns]

VARIABLES
  abort,         \* meta.abort
  produced,      \* number of files the provider has handed out
  factory,       \* per factory: control state and the file in hand
  testCh,        \* meta.testCh
  loop,          \* fuzzing loop: control state
  cur,           \* the file of the current iteration over testCh
  need,          \* results still to read, or clients still to dispatch to
  settling,      \* file whose last result was read, its verdict not sent yet
  ready,         \* queue of clients ready to take a test
  task,          \* per client: the file its vmLoop works on, NoTest if it waits
  vmExited,      \* clients whose vmLoop has returned
  executing,     \* keys of the executing map
  entry,         \* values of the executing map
  numTests,      \* meta.numTests
  consensusCh,   \* meta.consensusCh
  investigated,  \* file given to handleConsensusFlaw
  cleaner,       \* cleanup goroutine: control state, its task, toRemove
  removed,       \* files deleted from disk
  slowCopies,    \* files copied to slowtest-<file>
  main,          \* main goroutine: "select", "wait", "returned"
  cancelled,     \* the context is cancelled
  crashed,       \* a goroutine panicked: the process is gone
  verdict,       \* history: verdict the loop sent for each file
  observed,      \* history: <<client, hash>> results read for each file
  skipped        \* history: files received after the abort and not executed

feedVars  == <<produced, factory, testCh>>
loopVars  == <<loop, cur, need, settling, ready, executing, entry, numTests,
               consensusCh, investigated>>
vmVars    == <<task, vmExited>>
cleanVars == <<cleaner, removed, slowCopies>>
mainVars  == <<main, cancelled, crashed>>
histVars  == <<verdict, observed, skipped>>
vars == <<abort, feedVars, loopVars, vmVars, cleanVars, mainVars, histVars>>

NoEntry    == [waiting |-> 0, ids |-> {}, hash |-> 0, slow |-> FALSE, flaw |-> FALSE]
FreshEntryShort ==
  [waiting |-> ClientCount - 1, ids |-> {}, hash |-> 0, slow |-> FALSE, flaw |-> FALSE]
FreshEntry ==
  [waiting |-> ClientCount, ids |-> {}, hash |-> 0, slow |-> FALSE, flaw |-> FALSE]
NoClean    == [slow |-> NoTest, remove |-> NoTest]

Init ==
  /\ abort = FALSE
  /\ produced = 0
  /\ factory = [f \in Factories |-> [st |-> "loop", file |-> NoTest]]
  /\ testCh = <<>>
  /\ loop = "range"
  /\ cur = NoTest
  /\ need = 0
  /\ settling = NoTest
  /\ ready = [i \in 1 .. NumVMs |-> i]
  /\ task = [v \in VMs |-> NoTest]
  /\ vmExited = {}
  /\ executing = {}
  /\ entry = [t \in Tests |-> NoEntry]
  /\ numTests = 0
  /\ consensusCh = <<>>
  /\ investigated = NoTest
  /\ cleaner = [st |-> "recv", task |-> NoClean, toRemove |-> NoTest]
  /\ removed = {}
  /\ slowCopies = {}
  /\ main = "select"
  /\ cancelled = FALSE
  /\ crashed = FALSE
  /\ verdict = [t \in Tests |-> "none"]
  /\ observed = [t \in Tests |-> {}]
  /\ skipped = {}

-----------------------------------------------------------------------------
(* Test factories (startTestFactories).                                    *)

\* File names are unique: glob matches handed out through an atomic counter,
\* or index and thread id in the name of a generated test.
SameFile == 1
NextFile == produced + 1

\* The provider returns the next file: a glob match, or a generated test
\* that storeTest has written to disk.
Provide(f) ==
  /\ factory[f].st = "loop"
  /\ ~abort
  /\ produced < NumTests
  /\ produced' = produced + 1
  /\ factory' = [factory EXCEPT ![f] = [st |-> "send", file |-> NextFile]]
  /\ UNCHANGED <<abort, testCh, loopVars, vmVars, cleanVars, mainVars, histVars>>

\* The blocking send on testCh.
Ship(f) ==
  /\ factory[f].st = "send"
  /\ Len(testCh) < TestChCap
  /\ testCh' = Append(testCh, factory[f].file)
  /\ factory' = [factory EXCEPT ![f] = [st |-> "loop", file |-> NoTest]]
  /\ UNCHANGED <<abort, produced, loopVars, vmVars, cleanVars, mainVars, histVars>>

\* The factory ends on abort, on io.EOF (no file left) or, for a generator,
\* on an error of storeTest.  The last one out closes testCh.
FactoryExit(f) ==
  /\ factory[f].st = "loop"
  /\ abort \/ produced = NumTests \/ ~AllClients
  /\ factory' = [factory EXCEPT ![f].st = "exited"]
  /\ UNCHANGED <<abort, produced, testCh, loopVars, vmVars, cleanVars, mainVars, histVars>>

FactoriesGone == \A f \in Factories : factory[f].st = "exited"

\* factories.Add(-1) == 0 closes the channel; without a factory nobody does.
NeverClosed  == FALSE
TestChClosed == Factories # {} /\ FactoriesGone

-----------------------------------------------------------------------------
(* The fuzzing loop (fuzzingLoop) and its rendezvous with the vmLoops.     *)

\* Results to read before ClientCount clients are ready.
MissingOneMore == IF ClientCount >= Len(ready) THEN ClientCount - Len(ready) + 1 ELSE 0
Missing == IF ClientCount > Len(ready) THEN ClientCount - Len(ready) ELSE 0

\* for testfile := range testCh: take a file, then make sure of the clients.
TakeTest ==
  /\ loop = "range"
  /\ testCh # <<>>
  /\ cur' = Head(testCh)
  /\ testCh' = Tail(testCh)
  /\ need' = Missing
  /\ loop' = "collect"
  /\ UNCHANGED <<abort, produced, factory, settling, ready, vmVars, executing, entry, numTests,
                 consensusCh, investigated, cleanVars, mainVars, histVars>>

\* A result is compared with the first one reported.
DiffersAlsoFirst(e, r) == e.hash # r.hash
DiffersButLast(e, r) == e.ids # {} /\ e.waiting > 1 /\ e.hash # r.hash
Differs(e, r) == e.ids # {} /\ e.hash # r.hash

\* The record of a file after one more result; the first one sets the hash.
WithResult(e, v, r) ==
  [waiting |-> e.waiting - 1,
   ids     |-> e.ids \cup {v},
   hash    |-> IF e.ids = {} THEN r.hash ELSE e.hash,
   slow    |-> e.slow \/ r.slow,
   flaw    |-> e.flaw \/ Differs(e, r)]

\* No more results in the pipeline.
LastButOne(e) == e.waiting <= 1
LastResult(e) == e.waiting = 0

\* A vmLoop ends its run and hands the task back on the unbuffered resultCh:
\* the client is ready again.
Rendezvous(v) ==
  /\ loop = "collect"
  /\ need > 0
  /\ task[v] # NoTest
  /\ need' = need - 1
  /\ ready' = Append(ready, v)
  /\ task' = [task EXCEPT ![v] = NoTest]
  /\ UNCHANGED vmExited

\* readResults, t.err != nil: the engine aborts, the client's share of the test
\* is dropped.
ReadError(v) ==
  /\ VMErrors
  /\ Rendezvous(v)
  /\ abort' = TRUE
  /\ UNCHANGED <<feedVars, loop, cur, settling, executing, entry, numTests, consensusCh,
                 investigated, cleanVars, mainVars, histVars>>

\* readResults otherwise: record and compare; the last result of a file ends
\* its execution and the loop turns to handing over the verdict.
ReadResult(v, r) ==
  LET t == task[v]
      e == WithResult(entry[t], v, r)
  IN
  /\ Rendezvous(v)
  /\ entry' = [entry EXCEPT ![t] = e]
  /\ observed' = [observed EXCEPT ![t] = @ \cup {<<v, r.hash>>}]
  /\ IF LastResult(e)
       THEN /\ executing' = executing \ {t}
            /\ numTests' = numTests + 1
            /\ settling' = t
            /\ loop' = "settle"
       ELSE UNCHANGED <<loop, settling, executing, numTests>>
  /\ UNCHANGED <<abort, feedVars, cur, consensusCh, investigated, cleanVars, mainVars,
                 verdict, skipped>>

\* A consensus flaw outweighs slowness.
FlawUnlessSlow(e) == e.flaw /\ ~e.slow
IsFlaw(e) == e.flaw

\* The verdict of a flawed file goes to consensusCh (a send that blocks when
\* the channel is full) and aborts the engine.
SettleFlaw ==
  /\ loop = "settle"
  /\ IsFlaw(entry[settling])
  /\ Len(consensusCh) < ConsensusCap
  /\ consensusCh' = Append(consensusCh, settling)
  /\ abort' = TRUE
  /\ verdict' = [verdict EXCEPT ![settling] = "flaw"]
  /\ settling' = NoTest
  /\ loop' = "collect"
  /\ UNCHANGED <<feedVars, cur, need, ready, vmVars, executing, entry, numTests, investigated,
                 cleanVars, mainVars, observed, skipped>>

\* Any other verdict is a task for the cleanup goroutine (rendezvous).
SettleClean ==
  LET slow == entry[settling].slow IN
  /\ loop = "settle"
  /\ ~IsFlaw(entry[settling])
  /\ cleaner.st = "recv"
  /\ cleaner' = [cleaner EXCEPT !.st = "work",
                   !.task = IF slow THEN [NoClean EXCEPT !.slow = settling]
                                    ELSE [NoClean EXCEPT !.remove = settling]]
  /\ verdict' = [verdict EXCEPT ![settling] = IF slow THEN "slow" ELSE "agree"]
  /\ settling' = NoTest
  /\ loop' = "collect"
  /\ UNCHANGED <<abort, feedVars, cur, need, ready, vmVars, executing, entry, numTests,
                 consensusCh, investigated, removed, slowCopies, mainVars, observed, skipped>>

\* All results asked for were read: shortcut on abort, else start the test.
Shortcut ==
  /\ loop = "collect"
  /\ need = 0
  /\ cur # NoTest
  /\ abort
  /\ loop' = "range"
  /\ cur' = NoTest
  /\ skipped' = skipped \cup {cur}
  /\ UNCHANGED <<abort, feedVars, need, settling, ready, vmVars, executing, entry, numTests,
                 consensusCh, investigated, cleanVars, mainVars, verdict, observed>>

MayStartAlways == TRUE
MayStart == ~abort

StartTest ==
  /\ loop = "collect"
  /\ need = 0
  /\ cur # NoTest
  /\ MayStart
  /\ executing' = executing \cup {cur}
  /\ entry' = [entry EXCEPT ![cur] = FreshEntry]
  /\ need' = ClientCount
  /\ loop' = "dispatch"
  /\ UNCHANGED <<abort, feedVars, cur, settling, ready, vmVars, numTests, consensusCh,
                 investigated, cleanVars, mainVars, histVars>>

KeepReady == UNCHANGED ready
TakeReady == ready' = Tail(ready)

\* taskChannels[ready[0]] <- task: a rendezvous with an idle vmLoop.
Dispatch ==
  /\ loop = "dispatch"
  /\ ready # <<>>
  /\ task[Head(ready)] = NoTest
  /\ task' = [task EXCEPT ![Head(ready)] = cur]
  /\ TakeReady
  /\ need' = need - 1
  /\ IF need > 1
       THEN UNCHANGED <<loop, cur>>
       ELSE loop' = "range" /\ cur' = NoTest
  /\ UNCHANGED <<abort, feedVars, settling, vmExited, executing, entry, numTests,
                 consensusCh, investigated, cleanVars, mainVars, histVars>>

NoDrain == 0
ToDrain == NumVMs - Len(ready)

\* testCh is closed and empty: close the task channels, then drain the results
\* of the clients still at work (cur = NoTest: nothing to start afterwards).
CloseTaskChannels ==
  /\ loop = "range"
  /\ testCh = <<>>
  /\ TestChClosed
  /\ need' = ToDrain
  /\ loop' = "collect"
  /\ UNCHANGED <<abort, feedVars, cur, settling, ready, vmVars, executing, entry, numTests,
                 consensusCh, investigated, cleanVars, mainVars, histVars>>

Draining == loop \in {"collect", "settle"} /\ cur = NoTest
TaskChannelsClosed == Draining \/ loop \in {"investigate", "exit"}

\* The non-blocking receive on consensusCh: at most one flaw is investigated.
PickFlaw ==
  /\ loop = "collect"
  /\ need = 0
  /\ cur = NoTest
  /\ consensusCh # <<>>
  /\ investigated' = Head(consensusCh)
  /\ consensusCh' = Tail(consensusCh)
  /\ loop' = "investigate"
  /\ UNCHANGED <<abort, feedVars, cur, need, settling, ready, vmVars, executing, entry, numTests,
                 cleanVars, mainVars, histVars>>

NoCancel == UNCHANGED cancelled
Cancel   == cancelled' = TRUE

\* fuzzingLoop returns: cleanCh is closed, the context cancelled.
LoopReturn ==
  /\ \/ loop = "collect" /\ need = 0 /\ cur = NoTest /\ consensusCh = <<>>
     \/ loop = "investigate"
  /\ loop' = "exit"
  /\ Cancel
  /\ UNCHANGED <<abort, feedVars, cur, need, settling, ready, vmVars, executing, entry, numTests,
                 consensusCh, investigated, cleanVars, main, crashed, histVars>>

\* handleConsensusFlaw runs the file on every client itself and panics when a
\* run fails.
InvestigatePanics ==
  /\ loop = "investigate"
  /\ VMErrors
  /\ crashed' = TRUE
  /\ UNCHANGED <<abort, feedVars, loopVars, vmVars, cleanVars, main, cancelled, histVars>>

-----------------------------------------------------------------------------
(* vmLoop returns when its task channel is closed.                         *)

VMExit(v) ==
  /\ task[v] = NoTest
  /\ v \notin vmExited
  /\ TaskChannelsClosed
  /\ vmExited' = vmExited \cup {v}
  /\ UNCHANGED <<abort, feedVars, loopVars, task, cleanVars, mainVars, histVars>>

-----------------------------------------------------------------------------
(* cleanupLoop.                                                            *)

\* One task: copy a slow file, delete the file remembered before, remember
\* this one.  The deletion is one task late, "so we keep the most recent".
CleanTask ==
  /\ cleaner.st = "work"
  /\ slowCopies' = slowCopies \cup ({cleaner.task.slow} \ {NoTest})
  /\ removed' = removed \cup ({cleaner.toRemove} \ {NoTest})
  /\ cleaner' = [st |-> "recv", task |-> NoClean,
                 toRemove |-> IF CleanupFiles THEN cleaner.task.remove ELSE NoTest]
  /\ UNCHANGED <<abort, feedVars, loopVars, vmVars, mainVars, histVars>>

CleanerExit ==
  /\ cleaner.st = "recv"
  /\ loop = "exit"
  /\ cleaner' = [cleaner EXCEPT !.st = "exited"]
  /\ UNCHANGED <<abort, feedVars, loopVars, vmVars, removed, slowCopies, mainVars, histVars>>

-----------------------------------------------------------------------------
(* ExecuteFuzzer: the main and the statistics goroutines.                  *)

\* SIGINT, SIGTERM or the cancelled context end the select; SIGNAL is an
\* action of the environment.
Interrupted ==
  /\ main' = "wait"
  /\ abort' = TRUE
  /\ cancelled' = TRUE
  /\ UNCHANGED <<feedVars, loopVars, vmVars, cleanVars, crashed, histVars>>

Signal  == main = "select" /\ Interrupted
MainEnd == main = "select" /\ cancelled /\ Interrupted

\* meta.wg.Wait
Return ==
  /\ main = "wait"
  /\ FactoriesGone
  /\ loop = "exit"
  /\ vmExited = VMs
  /\ cleaner.st = "exited"
  /\ main' = "returned"
  /\ UNCHANGED <<abort, feedVars, loopVars, vmVars, cleanVars, cancelled, crashed, histVars>>

Ended == (crashed \/ main = "returned") /\ UNCHANGED vars

-----------------------------------------------------------------------------
FactoryStep(f) == Provide(f) \/ Ship(f) \/ FactoryExit(f)
ReadStep(v)    == ReadError(v) \/ \E r \in Results : ReadResult(v, r)
LoopStep ==
  \/ TakeTest \/ SettleFlaw \/ SettleClean \/ Shortcut \/ StartTest \/ Dispatch
  \/ CloseTaskChannels \/ PickFlaw \/ LoopReturn \/ InvestigatePanics
CleanStep   == CleanTask \/ CleanerExit
MainStep    == MainEnd \/ Return

Next ==
  \/ /\ ~crashed
     /\ \/ \E f \in Factories : FactoryStep(f)
        \/ \E v \in VMs : ReadStep(v) \/ VMExit(v)
        \/ LoopStep
        \/ CleanStep
        \/ MainStep
        \/ Signal
  \/ Ended

Spec == Init /\ [][Next]_vars

\* Every goroutine that can run is scheduled, and every run of a client ends.
Fairness ==
  /\ \A f \in Factories : WF_vars(~crashed /\ FactoryStep(f))
  /\ \A v \in VMs : WF_vars(~crashed /\ VMExit(v))
  /\ WF_vars(~crashed /\ (LoopStep \/ \E v \in VMs : ReadStep(v)))
  /\ WF_vars(~crashed /\ CleanStep)
  /\ WF_vars(~crashed /\ MainStep)

FairSpec == Spec /\ Fairness

-----------------------------------------------------------------------------
(* Properties.                                                             *)

Elems(s)    == {s[i] : i \in DOMAIN s}
Distinct(s) == \A i, j \in DOMAIN s : s[i] = s[j] => i = j

Busy        == {v \in VMs : task[v] # NoTest}
BusyOn(t)   == {v \in VMs : task[v] = t}
Reporters(t) == {p[1] : p \in observed[t]}
Disagreement(t) == \E p, q \in observed[t] : p[2] # q[2]
Flawed      == {t \in Tests : verdict[t] = "flaw"}

TestOrNone == Tests \cup {NoTest}
Entries == [waiting : 0 .. ClientCount, ids : SUBSET VMs, hash : Hashes \cup {0},
            slow : BOOLEAN, flaw : BOOLEAN]

TypeOK ==
  /\ abort \in BOOLEAN
  /\ produced \in 0 .. NumTests
  /\ factory \in [Factories -> [st : {"loop", "send", "exited"}, file : TestOrNone]]
  /\ testCh \in Seq(Tests)
  /\ loop \in {"range", "collect", "settle", "dispatch", "investigate", "exit"}
  /\ cur \in TestOrNone
  /\ need \in Nat
  /\ settling \in TestOrNone
  /\ ready \in Seq(VMs)
  /\ task \in [VMs -> TestOrNone]
  /\ vmExited \subseteq VMs
  /\ executing \subseteq Tests
  /\ entry \in [Tests -> Entries]
  /\ numTests \in Nat
  /\ consensusCh \in Seq(Tests)
  /\ investigated \in TestOrNone
  /\ cleaner \in [st : {"recv", "work", "exited"},
                  task : [slow : TestOrNone, remove : TestOrNone], toRemove : TestOrNone]
  /\ removed \subseteq Tests
  /\ slowCopies \subseteq Tests
  /\ main \in {"select", "wait", "returned"}
  /\ cancelled \in BOOLEAN
  /\ crashed \in BOOLEAN
  /\ verdict \in [Tests -> {"none", "agree", "slow", "flaw"}]
  /\ observed \in [Tests -> SUBSET (VMs \X Hashes)]
  /\ skipped \subseteq Tests

\* A client is in the ready queue exactly once or at work, never both: no task
\* is dispatched to a client that cannot take it (Dispatch never blocks).
ReadyPartition ==
  /\ Distinct(ready)
  /\ Elems(ready) = VMs \ Busy

\* A client at work has a live entry in the executing map that waits for it and
\* has not counted it yet (line 771 would dereference nil otherwise).
ResultHasEntry ==
  \A v \in Busy : /\ task[v] \in executing
                  /\ v \notin entry[task[v]].ids
                  /\ entry[task[v]].waiting >= Cardinality(BusyOn(task[v]))

\* A verdict rests on the results of ClientCount different clients, and it is
\* "flaw" exactly when two of these results differ, in whatever order they came.
VerdictSound ==
  \A t \in Tests : verdict[t] # "none" =>
    /\ Cardinality(Reporters(t)) = ClientCount
    /\ Cardinality(observed[t]) = ClientCount
    /\ verdict[t] = "flaw" <=> Disagreement(t)

\* A file is deleted only after its clients agreed on it at normal speed, and
\* never while somebody still needs it.
OnlyAgreedRemoved ==
  \A t \in removed :
    /\ verdict[t] = "agree"
    /\ t \notin executing /\ t # cleaner.toRemove /\ BusyOn(t) = {}
    /\ t \notin Elems(testCh) \cup Elems(consensusCh)

\* handleConsensusFlaw uses the clients itself: their vmLoops have nothing in
\* hand then, and the file is a flawed one that is still on disk.
InvestigatesAlone ==
  loop = "investigate" =>
    /\ Busy = {}
    /\ verdict[investigated] = "flaw"
    /\ investigated \notin removed

\* The send of a flawed file on consensusCh finds a free slot: only the loop
\* itself receives from that channel, so a full one would block it for ever.
FlawSendHasRoom ==
  loop = "settle" /\ entry[settling].flaw => Len(consensusCh) < ConsensusCap

\* At the first flaw at most NumVMs - ClientCount other tests are running, and
\* nothing new is started after it: with that many slots there always is room.
FlawSendNeverBlocks == NumVMs - ClientCount + 1 <= ConsensusCap => FlawSendHasRoom

\* The loop never waits for a result when no client is at work.
NeverWaitsForNobody == loop = "collect" /\ need > 0 => Busy # {}

\* When ExecuteFuzzer returns every delivered file has a verdict, was skipped
\* after an abort, or lost a client to an error; and the counter is right.
AllAccounted ==
  main = "returned" =>
    /\ \A t \in 1 .. produced : verdict[t] # "none" \/ t \in skipped \/ t \in executing
    /\ executing # {} => VMErrors
    /\ numTests = Cardinality({t \in Tests : verdict[t] # "none"})

\* Once aborted (signal, flaw or client error) the program ends.
AbortEnds == abort ~> (main = "returned" \/ crashed)

\* A disagreement of two clients on a file leads to an investigation.
DisagreementInvestigated ==
  (\E t \in Tests : Disagreement(t)) ~> (investigated # NoTest)

\* runtest with a finite list of files ends by itself.
Terminates == <>(main = "returned" \/ crashed)

-----------------------------------------------------------------------------
(* The inductive invariant behind these properties (FuzzEngine_proofs).    *)

\* Every client is counted once: in the queue or at work.
ReadyCount == Len(ready) + Cardinality(Busy) = NumVMs

\* What the control state of the loop and of the factories says of the file
\* in hand.
ControlInv ==
  /\ \A f \in Factories : (factory[f].st = "send") <=> (factory[f].file # NoTest)
  /\ (loop = "settle") <=> (settling # NoTest)
  /\ loop \notin {"collect", "settle", "dispatch"} => cur = NoTest
  /\ loop = "dispatch" => cur # NoTest /\ need > 0
  /\ loop = "investigate" => investigated # NoTest
  /\ TaskChannelsClosed => testCh = <<>> /\ FactoriesGone
  /\ loop \in {"investigate", "exit"} => need = 0
  /\ Draining \/ loop \in {"investigate", "exit"} => need + Len(ready) = NumVMs

\* Nothing has been done with the file yet.
Untouched(t) ==
  /\ t \notin executing /\ t # settling
  /\ entry[t] = NoEntry /\ observed[t] = {} /\ verdict[t] = "none" /\ t \notin skipped

\* Files are delivered once: a file not delivered yet, in a factory's hands, in
\* testCh or taken from it is in one of these places only, and untouched.
Arriving == loop # "dispatch" /\ cur # NoTest
FreshFiles ==
  /\ \A t \in Tests : t > produced => Untouched(t)
  /\ \A f \in Factories : factory[f].file # NoTest =>
       /\ factory[f].file <= produced
       /\ Untouched(factory[f].file)
       /\ factory[f].file \notin Elems(testCh) \cup {cur}
       /\ \A g \in Factories : factory[g].file = factory[f].file => g = f
  /\ Distinct(testCh)
  /\ \A t \in Elems(testCh) : t <= produced /\ t # cur /\ Untouched(t)
  /\ cur # NoTest => cur <= produced
  /\ Arriving => Untouched(cur)

\* The map entry of a file agrees with the clients at work on it.
EntryInv ==
  \A t \in Tests :
    LET toGo == IF loop = "dispatch" /\ t = cur THEN need ELSE 0 IN
    /\ t \in executing => entry[t].waiting > 0
    /\ BusyOn(t) # {} \/ toGo > 0 => t \in executing
    /\ entry[t].waiting >= Cardinality(BusyOn(t)) + toGo
    /\ BusyOn(t) \cap entry[t].ids = {}
    /\ toGo > 0 => entry[t].ids = {}

IInv == TypeOK /\ ControlInv /\ ReadyPartition /\ ReadyCount /\ FreshFiles /\ EntryInv

\* The map entry of a file sums up the results read for it.
SumsUp(e, obs) ==
  /\ e.ids = {p[1] : p \in obs}
  /\ \A p, q \in obs : p[1] = q[1] => p = q
  /\ e.ids # {} => \E p \in obs : p[2] = e.hash
  /\ e.flaw <=> \E p \in obs : p[2] # e.hash

\* A file that is executed or was executed still waits for the clients that have
\* not reported; once it waits for none it is being decided, then decided.
Started(t) == t \in executing \/ t = settling \/ verdict[t] # "none"
ResultInv ==
  \A t \in Tests :
    /\ SumsUp(entry[t], observed[t])
    /\ Started(t) => entry[t].waiting + Cardinality(entry[t].ids) = ClientCount
    /\ t = settling \/ verdict[t] # "none" => entry[t].waiting = 0 /\ t \notin executing
    /\ t = settling => verdict[t] = "none"
    /\ verdict[t] # "none" => (verdict[t] = "flaw" <=> entry[t].flaw)

\* What is handed to the cleanup goroutine or to consensusCh was decided so.
ToDelete == {cleaner.task.remove, cleaner.toRemove} \ {NoTest}
DisposalInv ==
  /\ \A t \in removed \cup ToDelete : verdict[t] = "agree"
  /\ cleaner.toRemove \notin removed
  /\ cleaner.task.remove \notin removed
  /\ cleaner.task.remove = cleaner.toRemove => cleaner.toRemove = NoTest
  /\ \A t \in Elems(consensusCh) : verdict[t] = "flaw"
  /\ loop = "investigate" => verdict[investigated] = "flaw"

\* Files that are at a client or being decided, the one being dispatched apart:
\* each of them can become a flaw, next to those already in consensusCh.
Running == {t \in Tests : BusyOn(t) # {}} \cup ({settling} \ {NoTest})
Dispatching == IF loop = "dispatch" THEN {cur} ELSE {}
RoomInv ==
  /\ ~abort => consensusCh = <<>>
  /\ loop = "dispatch" => consensusCh = <<>>
  /\ Len(consensusCh) + Cardinality(Running \ Dispatching) + Cardinality(Dispatching)
       <= NumVMs - ClientCount + 1

\* While results are read before a test, the clients still missing are counted.
NeedInv ==
  Arriving /\ loop # "range" =>
    /\ need + Len(ready) >= ClientCount
    /\ need > 0 => need + Len(ready) = ClientCount

-----------------------------------------------------------------------------
(* The promise of the engine, DiffTest, and the mapping under which the    *)
(* engine implements it.                                                   *)

Phase(t) ==
  CASE t > produced           -> "new"
    [] verdict[t] # "none"    -> verdict[t]
    [] t \in skipped          -> "skipped"
    [] t \in executing \/ t = settling -> "executing"
    [] OTHER                  -> "delivered"

Promise == INSTANCE DiffTest WITH
  VMs     <- VMs,
  Quorum  <- ClientCount,
  phase   <- [t \in Tests |-> Phase(t)],
  results <- observed,
  deleted <- removed

PromiseKept == Promise!Spec

=============================================================================
