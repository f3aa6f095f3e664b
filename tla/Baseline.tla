------------------------------ MODULE Baseline ------------------------------
(***************************************************************************)
(* The baseline run: the supervisor of start_baseline.sh, which wipes the  *)
(* crashers of go test and starts FuzzyVM again whenever it has ended, and *)
(* crasher_watcher.sh, which somebody starts by hand to save the crashers  *)
(* first.  Time passes in ticks of the watcher's sleep; what the watcher   *)
(* does between two sleeps takes less than one.                            *)
(***************************************************************************)
EXTENDS Naturals, FiniteSets

CONSTANTS
  Crashers,     \* crashing inputs, by the hash that is their file name
  RestartPause, \* ticks between the end of FuzzyVM and its restart
  MaxLaunches   \* bound: runs of start_baseline.sh

ASSUME BaselineAssumption == RestartPause \in Nat /\ MaxLaunches \in Nat

VARIABLES
  boss,      \* the supervisor: off, wipe, launch, wait, ended, pause
  stopping,  \* a SIGTERM waits for the end of a foreground command
  left,      \* ticks of its pause that are left
  orphans,   \* go tests that have outlived FuzzyVM and the supervisor
  testdata,  \* crashers in testdata/fuzz/FuzzVMBasic
  saved,     \* crashers in out/crashers
  nap,       \* ticks of the watcher's sleep that are left
  watches,   \* the watcher runs
  launches,  \* runs of start_baseline.sh
  pidFile,   \* out/baseline.pid: none, new (start_baseline.sh may remove it), kept
  exposed,   \* history: crashers that the watcher was not there for, see below
  lost       \* history: others, wiped and not saved

bossVars == <<boss, stopping, left, launches, pidFile>>
watchVars == <<nap, watches>>
crashVars == <<testdata, saved, exposed, lost>>
baseVars == <<bossVars, watchVars, orphans, crashVars>>

BaseInit ==
  /\ boss = "off" /\ stopping = FALSE
  /\ left = 0 /\ nap = 0 /\ orphans = 0
  /\ testdata = {} /\ saved = {}
  /\ watches = FALSE
  /\ launches = 0 /\ pidFile = "none"
  /\ exposed = {} /\ lost = {}

\* start_baseline.sh, unless out/baseline.pid names a live process.
Launch ==
  /\ boss = "off"
  /\ launches < MaxLaunches
  /\ launches' = launches + 1
  /\ boss' = "wipe"
  /\ pidFile' = "new"
  /\ UNCHANGED <<stopping, left, orphans, watchVars, crashVars>>

\* rm -f of the crashers, or their replay "bricks the fuzzer".
Wipe ==
  /\ boss = "wipe"
  /\ testdata' = {} /\ exposed' = {}
  /\ lost' = lost \cup ((testdata \ saved) \ exposed)
  /\ boss' = "launch"
  /\ UNCHANGED <<stopping, left, launches, pidFile, orphans, saved, watchVars>>

StartFuzzyVM ==
  /\ boss = "launch"
  /\ boss' = "wait"
  /\ UNCHANGED <<stopping, left, launches, pidFile, orphans, watchVars, crashVars>>

\* A go test stores the input that crashed it, or fails without one.
Stores == {{}} \cup {{c} : c \in Crashers}

\* FuzzyVM ends with its go test.
FuzzyVMEnds ==
  /\ boss = "wait"
  /\ boss' = "ended"
  /\ \E found \in Stores :
       /\ testdata' = testdata \cup found
       /\ exposed' = IF watches THEN exposed \ found ELSE exposed \cup found
  /\ UNCHANGED <<stopping, left, launches, pidFile, orphans, saved, lost, watchVars>>

\* An orphan ends, maybe beside the FuzzyVM of the next launch.
OrphanEnds ==
  /\ orphans > 0
  /\ orphans' = orphans - 1
  /\ \E found \in Stores :
       /\ testdata' = testdata \cup found
       /\ exposed' = exposed \cup (found \ testdata)
  /\ UNCHANGED <<bossVars, saved, lost, watchVars>>

NoPause == 0
Pause   == RestartPause

\* The pause is longer than the three seconds after which start_baseline.sh looks.
StartPause ==
  /\ boss = "ended"
  /\ boss' = "pause"
  /\ left' = Pause
  /\ pidFile' = "kept"
  /\ UNCHANGED <<stopping, launches, orphans, watchVars, crashVars>>

Ends == boss' = "off" /\ stopping' = FALSE /\ exposed' = exposed \cup (testdata \ saved)

\* sleep 5 is over; a trap that has waited for it runs.
PauseOver ==
  /\ boss = "pause"
  /\ left = 0
  /\ IF stopping THEN Ends ELSE boss' = "wipe" /\ UNCHANGED <<stopping, exposed>>
  /\ UNCHANGED <<left, launches, pidFile, orphans, testdata, saved, lost, watchVars>>

\* kill $(cat out/baseline.pid), by hand or by the timer of --duration, while a
\* sleep is in the foreground.
StopLater ==
  /\ boss = "pause"
  /\ stopping' = TRUE
  /\ UNCHANGED <<boss, left, launches, pidFile, orphans, watchVars, crashVars>>

\* Otherwise the trap kills FuzzyVM, whose go test is a process of its own and
\* goes on.  (Within three seconds of its start: start_baseline.sh finds the
\* supervisor dead and removes the pid file.)
Stop ==
  /\ boss \notin {"off", "pause"}
  /\ Ends
  /\ orphans' \in {orphans} \cup (IF boss = "wait" THEN {orphans + 1} ELSE {})
  /\ pidFile' \in {pidFile} \cup (IF pidFile = "new" THEN {"none", "kept"} ELSE {})
  /\ UNCHANGED <<left, launches, testdata, saved, lost, watchVars>>

\* crasher_watcher.sh is started by hand, before, with or after the supervisor.
StartWatcher ==
  /\ ~watches
  /\ watches' = TRUE /\ nap' = 0
  /\ UNCHANGED <<bossVars, orphans, crashVars>>

\* A round of the watcher: it exits if the supervisor of the pid file is gone;
\* otherwise all crashers are moved away, those it has already dropped.
Poll ==
  /\ watches /\ nap = 0
  /\ IF pidFile # "none" /\ boss = "off"
       THEN watches' = FALSE /\ UNCHANGED <<testdata, saved, exposed, nap>>
       ELSE /\ saved' = saved \cup testdata
            /\ testdata' = {} /\ exposed' = {}
            /\ nap' = 1
            /\ UNCHANGED watches
  /\ UNCHANGED <<bossVars, orphans, lost>>

\* A watcher that has slept enough goes on before the next tick.
Tock ==
  /\ watches => nap > 0
  /\ left > 0 \/ nap > 0
  /\ left' = IF left > 0 THEN left - 1 ELSE 0
  /\ nap' = IF nap > 0 THEN nap - 1 ELSE 0
  /\ UNCHANGED <<boss, stopping, launches, pidFile, watches, orphans, crashVars>>

BaseEnded == boss = "off" /\ launches = MaxLaunches /\ ~watches /\ orphans = 0

BaseNext ==
  \/ Launch \/ Wipe \/ StartFuzzyVM \/ FuzzyVMEnds \/ OrphanEnds \/ StartPause \/ PauseOver
  \/ StopLater \/ Stop \/ StartWatcher \/ Poll \/ Tock

BaseSpec == BaseInit /\ [][BaseNext]_baseVars

-----------------------------------------------------------------------------
(* Property.                                                               *)

\* "Preserve crasher inputs before the baseline supervisor wipes them": what a
\* FuzzyVM stores that the supervisor waits for, while the watcher runs, is saved
\* before the wipe, whichever go tests are still about.  Exposed, and maybe wiped,
\* are only crashers stored without a watcher, by an orphan, and those not yet
\* moved when the supervisor ends (the watcher then exits without looking).
CrashersKept == lost = {}

=============================================================================
