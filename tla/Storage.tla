------------------------------ MODULE Storage ------------------------------
(***************************************************************************)
(* How FuzzyVM stores tests.  The workers of "go test --fuzz --parallel"   *)
(* are processes that share only the output directory.  Each generates,    *)
(* minimises and fills a test, and stores it under the hash of its content *)
(* unless a file of that name exists.  The batch runner may kill the       *)
(* process group at any time; the same plan uses the same directory again. *)
(***************************************************************************)
EXTENDS Naturals, FiniteSets

CONSTANTS
  Workers,  \* fuzzing workers
  Tests,    \* tests, by their hash
  MaxKills  \* bound: kills of the process group

ASSUME StorageAssumption == MaxKills \in Nat

VARIABLES
  running,  \* the process group is up
  at,       \* [pc, test] of each worker
  file,     \* test -> "none", "partial" (opened, not written to its end), "full"
  torn,     \* history: tests whose file was partial when its writer was killed or failed
  kills     \* number of kills

storeVars == <<running, at, file, torn, kills>>

Idle == [pc |-> "idle", test |-> {}]
AtStep(w, pc) == running /\ at[w].pc = pc
Go(w, pc) == at' = [at EXCEPT ![w].pc = pc]
Return(w) == at' = [at EXCEPT ![w] = Idle]

StoreInit ==
  /\ running = TRUE
  /\ at = [w \in Workers |-> Idle]
  /\ file = [t \in Tests |-> "none"]
  /\ torn = {}
  /\ kills = 0

\* GenerateProgram, MinimizeProgram and the hash of the test.
Generate(w) ==
  /\ AtStep(w, "idle")
  /\ \E t \in Tests : at' = [at EXCEPT ![w] = [pc |-> "fill", test |-> {t}]]
  /\ UNCHANGED <<running, file, torn, kills>>

\* Fill, or an error or a panic (recovered) that skips the test.
FillTest(w) ==
  /\ AtStep(w, "fill")
  /\ Go(w, "stat") \/ Return(w)
  /\ UNCHANGED <<running, file, torn, kills>>

\* storeTest: a file of that name makes the test a duplicate, whatever it holds.
Stat(w) ==
  /\ AtStep(w, "stat")
  /\ \E t \in at[w].test : IF file[t] # "none" THEN Return(w) ELSE Go(w, "open")
  /\ UNCHANGED <<running, file, torn, kills>>

\* Not what storeTest does: open, then look whether the file was there.
OpenThenLook(w) ==
  /\ AtStep(w, "open")
  /\ \E t \in at[w].test :
       /\ file' = [file EXCEPT ![t] = "partial"]
       /\ IF file[t] # "none" THEN Return(w) ELSE Go(w, "encode")
  /\ UNCHANGED <<running, torn, kills>>

\* O_TRUNC: empties what another worker has stored since this one looked.
OpenFile(w) ==
  /\ AtStep(w, "open")
  /\ \E t \in at[w].test : file' = [file EXCEPT ![t] = "partial"]
  /\ Go(w, "encode")
  /\ UNCHANGED <<running, torn, kills>>

Encode(w) ==
  /\ AtStep(w, "encode")
  /\ \E t \in at[w].test :
       \/ file' = [file EXCEPT ![t] = "full"] /\ UNCHANGED torn
       \* Encode fails (no space): the panic is recovered, the file stays.
       \/ UNCHANGED file /\ torn' = IF file[t] = "partial" THEN torn \cup {t} ELSE torn
  /\ Return(w)
  /\ UNCHANGED <<running, kills>>

\* SIGTERM or SIGKILL to the process group (external).
Kill ==
  /\ running /\ kills < MaxKills
  /\ running' = FALSE
  /\ at' = [w \in Workers |-> Idle]
  /\ torn' = torn \cup {t \in Tests : file[t] = "partial"}
  /\ kills' = kills + 1
  /\ UNCHANGED file

Restart ==
  /\ ~running
  /\ running' = TRUE
  /\ UNCHANGED <<at, file, torn, kills>>

Work(w) == Generate(w) \/ FillTest(w) \/ Stat(w) \/ OpenFile(w) \/ Encode(w)
StoreNext == Kill \/ Restart \/ \E w \in Workers : Work(w)
StoreSpec == StoreInit /\ [][StoreNext]_storeVars

-----------------------------------------------------------------------------
(* Property.                                                               *)

\* Although workers look before they open, and one can truncate what another
\* has just stored, a file is incomplete only while somebody writes it, unless
\* a kill or a failed write tore it.  (A torn file makes its test a duplicate for
\* ever, so only those may be lost.)
TornOnlyByKill ==
  \A t \in Tests :
    file[t] = "partial" => t \in torn \/ \E w \in Workers : at[w] = [pc |-> "encode", test |-> {t}]

=============================================================================
