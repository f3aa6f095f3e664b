---------------------------- MODULE Session_proofs ----------------------------
(* Proofs about FuzzLoop and about Session, which extends it: what lives      *)
(* together and what the sweep may take, for any number of plans, batches and *)
(* workers, any durations, and whenever and however the loop is stopped.      *)
EXTENDS Session, TLAPS, FiniteSetTheorems

-----------------------------------------------------------------------------
(* The loop.                                                               *)

\* The types the argument needs.
ProcessType ==
  /\ sup \in {"delay", "llama", "spawn", "forked", "wait", "sleep", "dead"}
  /\ batchNo \in 0 .. MaxBatches
  /\ batch \in [st : {"none", "start", "llm", "fuzz", "term", "diff", "diffing"},
                plan : Plans \cup {NoPlan}, elapsed : Nat, glob : Nat, asked : BOOLEAN]
  /\ fuzzyvm \in [Batches -> Plans \cup {NoPlan}]
  /\ stop \in {"idle", "listed", "termed", "killed", "done"}
  /\ files \in [Plans -> Nat]

\* The supervisor has one run_batch at most, and none between two of them.
OneBatch ==
  /\ BatchRuns => batchNo \in Batches
  /\ sup \in {"delay", "llama", "spawn", "sleep"} => ~BatchRuns
  /\ batch.st \in {"fuzz", "term", "diff", "diffing"} => batch.plan \in Plans

\* Only the last batch can have a FuzzyVM, and only between its start and its
\* reaping; without its run_batch only when the supervisor is gone too.
OneGroup ==
  /\ \A b \in Batches : Alive(b) => b = batchNo
  /\ \A b \in Batches : Alive(b) /\ ~Dead => BatchRuns
  /\ batch.st \in {"start", "llm", "diff", "diffing"} => \A b \in Batches : ~Alive(b)

\* What stop_fuzzing.sh has achieved after its SIGKILLs and after its backstop.
StopInv ==
  /\ stop = "idle" => tree.batch = 0
  /\ stop \in {"killed", "done"} => Dead /\ (tree.batch = batchNo => ~BatchRuns)
  /\ stop = "done" => \A b \in Batches : Alive(b) => BatchRuns

ProcessInv == ProcessType /\ OneBatch /\ OneGroup /\ StopInv

\* The supervisor's steps: a batch is started only when none runs, so that the
\* number of the last batch changes only when no FuzzyVM lives.
LEMMA SupStepKeeps == ASSUME ProcessInv, SupStep PROVE ProcessInv'
<1> USE DEF ProcessInv, ProcessType, OneBatch, OneGroup, StopInv, BatchRuns, Dead, Alive
<1>1. CASE DelayDone
  BY <1>1 DEF DelayDone, batchVars, stopVars, corpusVars
<1>2. ASSUME NEW cmd \in {"llama", "sleep"}, NEW next \in {"spawn", "llama"}, Foreground(cmd, next)
      PROVE  ProcessInv'
  BY <1>2 DEF Foreground, batchVars, stopVars, corpusVars
<1>3. CASE Spawn
  <2>1. \A b \in Batches : ~Alive(b)
    BY <1>3 DEF Spawn
  <2>2. batchNo' \in Batches /\ batchNo' \in 0 .. MaxBatches
    BY <1>3, LoopAssumption DEF Spawn, Batches
  <2>3. batch' \in [st : {"none", "start", "llm", "fuzz", "term", "diff", "diffing"},
                    plan : Plans \cup {NoPlan}, elapsed : Nat, glob : Nat, asked : BOOLEAN]
        /\ batch'.st = "start"
    BY <1>3 DEF Spawn, NoBatch
  <2>4. stop' \notin {"killed", "done"}
    BY <1>3 DEF Spawn, stopVars
  <2> QED
    BY <1>3, <2>1, <2>2, <2>3, <2>4 DEF Spawn, stopVars, corpusVars
<1>4. CASE NotePid
  BY <1>4 DEF NotePid, batchVars, stopVars, corpusVars
<1>5. CASE WaitDone
  BY <1>5 DEF WaitDone, batchVars, stopVars, corpusVars
<1>6. CASE Trap
  BY <1>6 DEF Trap, TrapExit, NoBatch, stopVars, corpusVars
<1> QED
  BY <1>1, <1>2, <1>3, <1>4, <1>5, <1>6 DEF SupStep

\* The steps of run_batch: it starts one FuzzyVM, and has killed the group
\* before it goes on to the diff.
LEMMA BatchStepKeeps == ASSUME ProcessInv, BatchStep PROVE ProcessInv'
<1> USE DEF ProcessInv, ProcessType, OneBatch, OneGroup, StopInv, BatchRuns, Dead, Alive
<1>1. CASE Consult
  BY <1>1, LoopAssumption DEF Consult, DetectPlateau, loopVars, stopVars, corpusVars
<1>2. CASE BatchFails
  BY <1>2 DEF BatchFails, NoBatch, loopVars, stopVars, corpusVars
<1>3. CASE Timeout
  BY <1>3 DEF Timeout, loopVars, stopVars, corpusVars
<1>4. CASE Reap
  <2>1. \A b \in Batches : fuzzyvm'[b] = NoPlan
    BY <1>4 DEF Reap, KillGroup
  <2>2. fuzzyvm' \in [Batches -> Plans \cup {NoPlan}]
    BY <1>4 DEF Reap, KillGroup
  <2>3. batch' = NoBatch \/ batch' = [batch EXCEPT !.st = "diff"]
    BY <1>4 DEF Reap
  <2> QED
    BY <1>4, <2>1, <2>2, <2>3 DEF Reap, NoBatch, loopVars, stopVars, corpusVars
<1>5. CASE DiffStart
  BY <1>5 DEF DiffStart, loopVars, stopVars, corpusVars
<1>6. CASE DiffDone
  BY <1>6 DEF DiffDone, NoBatch, loopVars, stopVars, corpusVars
<1>8. CASE DiffSkipped
  BY <1>8 DEF DiffSkipped, NoBatch, loopVars, stopVars, corpusVars
<1>7. ASSUME NEW p \in Plans, StartFuzz(p) PROVE ProcessInv'
  <2>1. batchNo \in Batches /\ \A b \in Batches : fuzzyvm[b] = NoPlan
    BY <1>7 DEF StartFuzz
  <2>2. fuzzyvm' = [fuzzyvm EXCEPT ![batchNo] = p] /\ batch'.st = "fuzz" /\ batch'.plan = p
    BY <1>7 DEF StartFuzz, NoBatch
  <2>3. batch' \in [st : {"none", "start", "llm", "fuzz", "term", "diff", "diffing"},
                    plan : Plans \cup {NoPlan}, elapsed : Nat, glob : Nat, asked : BOOLEAN]
    BY <1>7 DEF StartFuzz, NoBatch
  <2>4. UNCHANGED <<sup, batchNo, stop, tree, files>>
    BY <1>7 DEF StartFuzz, loopVars, stopVars
  <2> QED
    BY <1>7, <2>1, <2>2, <2>3, <2>4 DEF StartFuzz
<1> QED
  BY <1>1, <1>2, <1>3, <1>4, <1>5, <1>6, <1>7, <1>8 DEF BatchStep

\* The steps of stop_fuzzing.sh.
LEMMA StopStepKeeps == ASSUME ProcessInv, StopStep \/ StopList PROVE ProcessInv'
<1> USE DEF ProcessInv, ProcessType, OneBatch, OneGroup, StopInv, BatchRuns, Dead, Alive
<1>1. CASE StopTerm
  BY <1>1 DEF StopTerm, batchVars, corpusVars
<1>2. CASE StopKill
  <2>1. batch' = NoBatch \/ (batch' = batch /\ tree.batch # batchNo)
    BY <1>2 DEF StopKill
  <2>2. \A b \in Batches : fuzzyvm'[b] = fuzzyvm[b] \/ fuzzyvm'[b] = NoPlan
    BY <1>2 DEF StopKill
  <2>3. fuzzyvm' \in [Batches -> Plans \cup {NoPlan}]
    BY <1>2 DEF StopKill
  <2> QED
    BY <1>2, <2>1, <2>2, <2>3 DEF StopKill, NoBatch, corpusVars
<1>3. CASE StopSweep
  BY <1>3 DEF StopSweep, Backstop, loopVars, corpusVars
<1>4. CASE StopList
  BY <1>4, LoopAssumption DEF StopList, Batches, loopVars, batchVars, corpusVars
<1> QED
  BY <1>1, <1>2, <1>3, <1>4 DEF StopStep

\* FuzzyVM's own steps, time, and the signal.
LEMMA OtherStepKeeps ==
  ASSUME ProcessInv, Tick \/ Kill \/ \E b \in Batches : Write(b) \/ OrphanExits(b)
  PROVE  ProcessInv'
<1> USE DEF ProcessInv, ProcessType, OneBatch, OneGroup, StopInv, BatchRuns, Dead, Alive
<1>1. CASE Tick
  <2>1. /\ batch' \in [st : {"none", "start", "llm", "fuzz", "term", "diff", "diffing"},
                       plan : Plans \cup {NoPlan}, elapsed : Nat, glob : Nat, asked : BOOLEAN]
        /\ batch'.st = batch.st /\ batch'.plan = batch.plan
    BY <1>1 DEF Tick
  <2> QED
    BY <1>1, <2>1 DEF Tick, loopVars, stopVars
<1>2. CASE Kill
  BY <1>2 DEF Kill, batchVars, stopVars, corpusVars
<1>3. ASSUME NEW b \in Batches, Write(b) PROVE ProcessInv'
  BY <1>3 DEF Write, loopVars, batchVars, stopVars
<1>4. ASSUME NEW b \in Batches, OrphanExits(b) PROVE ProcessInv'
  BY <1>4 DEF OrphanExits, loopVars, stopVars, corpusVars
<1> QED
  BY <1>1, <1>2, <1>3, <1>4

\* ProcessInv speaks of the processes and the files only.
LEMMA ProcessesFrame ==
  ASSUME ProcessInv, UNCHANGED <<loopVars, batchVars, stopVars, corpusVars>>
  PROVE  ProcessInv'
BY DEF loopVars, batchVars, stopVars, corpusVars, ProcessInv, ProcessType, OneBatch,
   OneGroup, StopInv, BatchRuns, Dead, Alive

LEMMA ProcessesInit == Init => ProcessInv
BY LoopAssumption DEF Init, NoBatch, NoTree, ProcessInv, ProcessType, OneBatch, OneGroup, StopInv,
   BatchRuns, Dead, Alive

LEMMA ProcessesNext == ASSUME ProcessInv, Next PROVE ProcessInv'
BY SupStepKeeps, BatchStepKeeps, StopStepKeeps, OtherStepKeeps DEF Next

\* The invariant of the processes: one supervisor, one run_batch, one FuzzyVM.
THEOREM ProcessesInductive == Spec => []ProcessInv
<1>1. ProcessInv /\ [Next]_vars => ProcessInv'
  BY ProcessesNext, ProcessesFrame DEF vars
<1> QED
  BY <1>1, ProcessesInit, PTL DEF Spec

\* NoStraggler: a batch never shares the machine with the FuzzyVM of another,
\* because run_batch kills the group before it ends and the supervisor waits.
THEOREM NoStragglers == Spec => []NoStraggler
<1>1. ProcessInv => NoStraggler
  BY DEF ProcessInv, OneGroup, NoStraggler
<1> QED
  BY <1>1, ProcessesInductive, PTL

\* DiffUndisturbed: no FuzzyVM writes the directory a batch's diff reads, even
\* when the run_batch has outlived its supervisor.
THEOREM DiffsUndisturbed == Spec => []DiffUndisturbed
<1>1. ProcessInv => DiffUndisturbed
  BY LoopAssumption DEF ProcessInv, OneBatch, OneGroup, Alive, DiffUndisturbed
<1> QED
  BY <1>1, ProcessesInductive, PTL

\* StopComplete: stop_fuzzing.sh leaves nothing that fuzzes but what a run_batch
\* starts that it did not see.
THEOREM StopsCompletely == Spec => []StopComplete
<1>1. ProcessInv => StopComplete
  BY DEF ProcessInv, OneGroup, StopInv, StopComplete
<1> QED
  BY <1>1, ProcessesInductive, PTL

-----------------------------------------------------------------------------
(* Reports and rotation.                                                   *)

\* Each plan has one place in the order.
Once(w) == \A i, j \in DOMAIN w : w[i] = w[j] => i = j

\* n is the order w after the report of p is written: p comes last, the plans
\* between the place of another plan and the end are at most one more.
MovedToEnd(w, p, n) ==
  /\ n \in Seq(Plans) /\ n # <<>> /\ n[Len(n)] = p
  /\ Once(n)
  /\ ToSet(n) = ToSet(w) \cup {p}
  /\ Len(n) = IF p \in ToSet(w) THEN Len(w) ELSE Len(w) + 1
  /\ \A k \in DOMAIN w : w[k] # p =>
       \E j \in DOMAIN n : n[j] = w[k] /\ Len(n) - j <= Len(w) - k + 1

\* A report that is written again moves to the end of the order.
LEMMA RewrittenOrder ==
  ASSUME NEW w \in Seq(Plans), NEW p \in Plans, Once(w)
  PROVE  MovedToEnd(w, p, Rewritten(w, p))
<1> DEFINE n == Rewritten(w, p)
<1> DEFINE r == RemoveFirst(w, p)
<1>1. CASE \E i \in 1 .. Len(w) : w[i] = p
  <2> DEFINE m == SelectInSeq(w, LAMBDA v : v = p)
  <2>1. m \in 1 .. Len(w) /\ w[m] = p
    <3>1. PICK i \in 1 .. Len(w) : w[i] = p
      BY <1>1
    <3>2. {j \in 1 .. Len(w) : w[j] = p} = {i}
      BY <3>1 DEF Once
    <3>3. m = Min({i})
      BY <3>2 DEF SelectInSeq
    <3>4. Min({i}) = i
      BY DEF Min
    <3> QED
      BY <3>1, <3>3, <3>4
  <2>2. r = SubSeq(w, 1, m - 1) \o SubSeq(w, m + 1, Len(w))
    BY <1>1 DEF RemoveFirst, RemoveAt
  <2> HIDE DEF m
  <2>3. /\ r \in Seq(Plans) /\ Len(r) = Len(w) - 1
        /\ \A j \in 1 .. Len(w) - 1 : r[j] = IF j < m THEN w[j] ELSE w[j + 1]
    <3> DEFINE a == SubSeq(w, 1, m - 1)
               b == SubSeq(w, m + 1, Len(w))
    <3>1. a \in Seq(Plans) /\ Len(a) = m - 1 /\ \A j \in 1 .. m - 1 : a[j] = w[j]
      BY <2>1
    <3>2. b \in Seq(Plans) /\ Len(b) = Len(w) - m /\ \A j \in 1 .. Len(w) - m : b[j] = w[m + j]
      BY <2>1
    <3>3. r = a \o b
      BY <2>2
    <3> HIDE DEF a, b, r
    <3>4. r \in Seq(Plans) /\ Len(r) = Len(w) - 1
      BY <2>1, <3>1, <3>2, <3>3
    <3>5. ASSUME NEW j \in 1 .. Len(w) - 1
          PROVE  r[j] = IF j < m THEN w[j] ELSE w[j + 1]
      <4>1. r[j] = IF j <= Len(a) THEN a[j] ELSE b[j - Len(a)]
        BY <2>1, <3>1, <3>2, <3>3
      <4>2. CASE j < m
        BY <2>1, <3>1, <4>1, <4>2
      <4>3. CASE j >= m
        <5>1. j - (m - 1) \in 1 .. Len(w) - m
          BY <2>1, <4>3
        <5> QED
          BY <2>1, <3>1, <3>2, <4>1, <4>3, <5>1
      <4> QED
        BY <2>1, <4>2, <4>3
    <3> QED
      BY <3>4, <3>5
  <2> HIDE DEF r
  <2>4. n \in Seq(Plans) /\ Len(n) = Len(w) /\ n[Len(w)] = p
    BY <2>3 DEF Rewritten, r
  <2>5. \A j \in 1 .. Len(w) - 1 : n[j] = IF j < m THEN w[j] ELSE w[j + 1]
    BY <2>3 DEF Rewritten, r
  <2> HIDE DEF n
  <2>6. ASSUME NEW i \in DOMAIN n, NEW j \in DOMAIN n, n[i] = n[j] PROVE i = j
    <3> DEFINE at(x) == IF x = Len(w) THEN m ELSE IF x < m THEN x ELSE x + 1
    <3>1. i \in 1 .. Len(w) /\ j \in 1 .. Len(w)
      BY <2>4
    <3>2. ASSUME NEW x \in 1 .. Len(w) PROVE at(x) \in DOMAIN w /\ n[x] = w[at(x)]
      <4>1. CASE x = Len(w)
        BY <2>1, <2>4, <4>1
      <4>2. CASE x # Len(w)
        <5>1. x \in 1 .. Len(w) - 1
          BY <4>2
        <5> QED
          BY <2>1, <2>5, <4>2, <5>1
      <4> QED
        BY <4>1, <4>2
    <3>3. at(i) = at(j)
      <4>1. w[at(i)] = w[at(j)] /\ at(i) \in DOMAIN w /\ at(j) \in DOMAIN w
        BY <2>6, <3>1, <3>2
      <4> HIDE DEF at
      <4> QED
        BY <4>1 DEF Once
    <3> QED
      BY <2>1, <3>1, <3>3
  <2>7. \A k \in DOMAIN w : w[k] # p =>
          \E j \in DOMAIN n : n[j] = w[k] /\ Len(n) - j <= Len(w) - k + 1
    <3> TAKE k \in DOMAIN w
    <3> HAVE w[k] # p
    <3>1. CASE k < m
      <4>1. k \in 1 .. Len(w) - 1 /\ k \in DOMAIN n
        BY <2>1, <2>4, <3>1
      <4>2. n[k] = w[k]
        BY <2>5, <3>1, <4>1
      <4>3. Len(n) - k <= Len(w) - k + 1
        BY <2>1, <2>4, <4>1
      <4> QED
        BY <4>1, <4>2, <4>3
    <3>2. CASE k > m
      <4>1. k - 1 \in 1 .. Len(w) - 1 /\ k - 1 \in DOMAIN n /\ ~(k - 1 < m) /\ (k - 1) + 1 = k
        BY <2>1, <2>4, <3>2
      <4>2. n[k - 1] = w[k] /\ Len(n) - (k - 1) <= Len(w) - k + 1
        BY <2>4, <2>5, <4>1
      <4> QED
        BY <4>1, <4>2
    <3> QED
      BY <2>1, <3>1, <3>2
  <2>8. ToSet(n) = ToSet(w) \cup {p}
    <3>1. ASSUME NEW j \in DOMAIN n PROVE n[j] \in ToSet(w)
      <4>1. \E x \in DOMAIN w : n[j] = w[x]
        <5>1. j \in 1 .. Len(w)
          BY <2>4
        <5>2. CASE j = Len(w)
          BY <2>1, <2>4, <5>2
        <5>3. CASE j # Len(w)
          <6>1. j \in 1 .. Len(w) - 1 /\ j \in DOMAIN w /\ j + 1 \in DOMAIN w
            BY <5>1, <5>3
          <6> QED
            BY <2>5, <6>1
        <5> QED
          BY <5>2, <5>3
      <4> QED
        BY <4>1 DEF ToSet
    <3>2. \A k \in DOMAIN w : w[k] \in ToSet(n)
      BY <2>1, <2>4, <2>7 DEF ToSet
    <3> QED
      BY <2>1, <3>1, <3>2 DEF ToSet
  <2>9. p \in ToSet(w)
    BY <2>1 DEF ToSet
  <2> QED
    BY <2>1, <2>4, <2>6, <2>7, <2>8, <2>9 DEF n, Once, MovedToEnd
<1>2. CASE ~ \E i \in 1 .. Len(w) : w[i] = p
  <2>1. n = Append(w, p)
    BY <1>2 DEF Rewritten, RemoveFirst
  <2>2. p \notin ToSet(w)
    BY <1>2 DEF ToSet
  <2>3. n \in Seq(Plans) /\ Len(n) = Len(w) + 1 /\ n[Len(n)] = p /\ \A j \in DOMAIN w : n[j] = w[j]
    BY <2>1
  <2> HIDE DEF n
  <2>4. ToSet(n) = ToSet(w) \cup {p}
    BY <2>3 DEF ToSet
  <2>5. \A i, j \in DOMAIN n : n[i] = n[j] => i = j
    BY <1>2, <2>3 DEF Once
  <2> QED
    <3>1. \A k \in DOMAIN w : w[k] # p =>
            \E j \in DOMAIN n : n[j] = w[k] /\ Len(n) - j <= Len(w) - k + 1
      BY <2>3
    <3> QED
      BY <2>2, <2>3, <2>4, <2>5, <3>1 DEF n, Once, MovedToEnd
<1> QED
  BY <1>1, <1>2

Outcome == [plan : Plans, clean : BOOLEAN]

\* Reports and their order: each plan has one place, that of its last report.
ReportInv ==
  /\ IsFiniteSet(reported) /\ reported \subseteq Plans
  /\ written \in Seq(Plans) /\ ToSet(written) = reported
  /\ Once(written)
  /\ Len(written) = Cardinality(reported)
  /\ found \subseteq reported
  /\ outcomes \in Seq(Outcome)

\* A batch that found something left a report that still says so, unless a later
\* batch of its plan has replaced it, and the report has at most as many after it
\* as batches were diffed since.  A batch is asked to rotate only before it is
\* started.
PlateauInv ==
  /\ Len(written) <= Len(outcomes)
  /\ \A i \in DOMAIN outcomes :
       ~outcomes[i].clean /\ ~Replaced(i) =>
         \E k \in DOMAIN written :
           /\ written[k] = outcomes[i].plan /\ written[k] \in found
           /\ Len(written) - k <= Len(outcomes) - i
  /\ batch.asked => batch.st = "llm" /\ RotatesOnPlateau

\* A report that is written keeps the order, whoever writes it.
LEMMA ReportWritten ==
  ASSUME ReportInv, NEW p \in Plans, NEW more, NEW fails, outcomes' \in Seq(Outcome),
         reported' = reported \cup {p}, written' = Rewritten(written, p),
         found' \in Results(found, p, more, fails)
  PROVE  ReportInv'
<1>1. /\ written' \in Seq(Plans) /\ ToSet(written') = reported'
      /\ Once(written')
      /\ Len(written') = IF p \in reported THEN Len(written) ELSE Len(written) + 1
  <2>1. MovedToEnd(written, p, written')
    BY RewrittenOrder DEF ReportInv
  <2> QED
    BY <2>1 DEF MovedToEnd, ReportInv
<1>2. IsFiniteSet(reported') /\ Cardinality(reported')
        = IF p \in reported THEN Cardinality(reported) ELSE Cardinality(reported) + 1
  BY FS_AddElement DEF ReportInv
<1>3. found' \subseteq reported'
  BY DEF ReportInv, Results
<1> QED
  BY <1>1, <1>2, <1>3 DEF ReportInv

\* DiffDone adds a batch and moves its plan to the end.
LEMMA PlateauDiff ==
  ASSUME ProcessInv, ReportInv, PlateauInv, DiffDone
  PROVE  PlateauInv'
<1> DEFINE p == batch.plan
<1>1. p \in Plans
  BY DEF ProcessInv, OneBatch, DiffDone
<1>2. /\ reported' = reported \cup {p} /\ written' = Rewritten(written, p)
      /\ found' \in Results(found, p, batch.glob > covered[p], DiffFails)
      /\ outcomes' = Append(outcomes, [plan |-> p, clean |-> p \notin found'])
      /\ batch' = NoBatch
  BY DEF DiffDone
<1> HIDE DEF p
<1>4. /\ written' \in Seq(Plans) /\ written' # <<>> /\ written'[Len(written')] = p
      /\ Len(written') <= Len(written) + 1
      /\ \A k \in DOMAIN written : written[k] # p =>
           \E j \in DOMAIN written' :
             written'[j] = written[k] /\ Len(written') - j <= Len(written) - k + 1
  <2>1. MovedToEnd(written, p, written')
    BY <1>1, <1>2, RewrittenOrder DEF ReportInv
  <2>2. Len(written) \in Nat
    BY DEF ReportInv
  <2> QED
    BY <2>1, <2>2 DEF MovedToEnd
<1>5. found \ {p} \subseteq found'
  BY <1>2 DEF Results
<1>6. /\ outcomes' \in Seq(Outcome) /\ Len(outcomes') = Len(outcomes) + 1
      /\ \A i \in DOMAIN outcomes : outcomes'[i] = outcomes[i]
      /\ outcomes'[Len(outcomes) + 1] = [plan |-> p, clean |-> p \notin found']
  <2>1. [plan |-> p, clean |-> p \notin found'] \in Outcome
    <3>1. (p \notin found') \in BOOLEAN
      OBVIOUS
    <3> QED
      BY <1>1, <3>1 DEF Outcome
  <2> QED
    BY <1>2, <2>1 DEF ReportInv
<1>7. ASSUME NEW i \in DOMAIN outcomes', ~outcomes'[i].clean, ~Replaced(i)'
      PROVE  \E k \in DOMAIN written' :
               /\ written'[k] = outcomes'[i].plan /\ written'[k] \in found'
               /\ Len(written') - k <= Len(outcomes') - i
  <2>0. Len(outcomes) \in Nat /\ DOMAIN outcomes = 1 .. Len(outcomes)
        /\ DOMAIN outcomes' = 1 .. Len(outcomes) + 1
    BY <1>6 DEF ReportInv
  <2>1. Len(written') \in DOMAIN written'
    BY <1>4
  <2>2. CASE i = Len(outcomes) + 1
    <3>1. outcomes'[i].plan = p /\ p \in found'
      <4> DEFINE o == [plan |-> p, clean |-> p \notin found']
      <4>1. o.plan = p /\ (o.clean <=> p \notin found')
        OBVIOUS
      <4>2. outcomes'[i] = o
        BY <1>6, <2>2
      <4> HIDE DEF o
      <4> QED
        BY <1>7, <4>1, <4>2
    <3>2. Len(outcomes') - i = 0 /\ Len(written') - Len(written') <= 0
      BY <1>4, <1>6, <2>0, <2>2
    <3> QED
      BY <1>4, <2>1, <3>1, <3>2
  <2>3. CASE i \in DOMAIN outcomes
    <3>1. outcomes'[i] = outcomes[i] /\ ~outcomes[i].clean
      BY <1>6, <1>7, <2>3
    <3>5. outcomes[i].plan # p
      BY <1>6, <1>7, <2>0, <2>3, <3>1 DEF Replaced
    <3>6. ~Replaced(i)
      <4> SUFFICES ASSUME NEW j \in i + 1 .. Len(outcomes), outcomes[j].plan = outcomes[i].plan
                   PROVE  FALSE
        BY DEF Replaced
      <4>1. j \in DOMAIN outcomes /\ j \in i + 1 .. Len(outcomes')
        BY <1>6, <2>0, <2>3
      <4>2. outcomes'[j].plan = outcomes'[i].plan
        BY <1>6, <3>1, <4>1
      <4> QED
        BY <1>7, <4>1, <4>2 DEF Replaced
    <3>2. PICK k \in DOMAIN written :
            /\ written[k] = outcomes[i].plan /\ written[k] \in found
            /\ Len(written) - k <= Len(outcomes) - i
      BY <2>3, <3>1, <3>6 DEF PlateauInv
    <3>3. written[k] # p /\ written[k] \in found'
      BY <1>5, <3>2, <3>5
    <3>4. PICK j \in DOMAIN written' :
            written'[j] = written[k] /\ Len(written') - j <= Len(written) - k + 1
      BY <1>4, <3>3
    <3> QED
      BY <1>4, <1>6, <2>0, <2>3, <3>1, <3>2, <3>3, <3>4 DEF ReportInv
  <2> QED
    BY <2>0, <2>2, <2>3
<1>8. Len(written') <= Len(outcomes')
  BY <1>4, <1>6 DEF PlateauInv, ReportInv
<1>9. ~batch'.asked
  BY <1>2 DEF NoBatch
<1> QED
  BY <1>7, <1>8, <1>9 DEF PlateauInv

\* Of the loop only DiffDone writes a report.
LEMMA OnlyDiffReports == ASSUME Next, ~DiffDone PROVE UNCHANGED reportVars
<1>1. CASE SupStep
  BY <1>1 DEF SupStep, DelayDone, Foreground, Spawn, NotePid, WaitDone, Trap
<1>2. CASE Consult \/ BatchFails \/ Timeout \/ Reap \/ DiffStart \/ DiffSkipped
  BY <1>2 DEF Consult, BatchFails, Timeout, Reap, DiffStart, DiffSkipped
<1>3. ASSUME NEW p \in Plans, StartFuzz(p) PROVE UNCHANGED reportVars
  BY <1>3 DEF StartFuzz
<1>4. CASE StopStep \/ StopList
  BY <1>4 DEF StopStep, StopTerm, StopKill, StopSweep, StopList
<1>5. CASE Tick \/ Kill \/ \E b \in Batches : Write(b) \/ OrphanExits(b)
  BY <1>5 DEF Tick, Kill, Write, OrphanExits
<1> QED
  BY <1>1, <1>2, <1>3, <1>4, <1>5 DEF Next, BatchStep

LEMMA ReportFrame == ASSUME ReportInv, UNCHANGED reportVars PROVE ReportInv'
BY DEF ReportInv, Once, reportVars

LEMMA ReportNext == ASSUME ProcessInv, ReportInv, Next PROVE ReportInv'
<1>1. CASE DiffDone
  <2>1. batch.plan \in Plans
    BY <1>1 DEF ProcessInv, OneBatch, DiffDone
  <2>2. outcomes' \in Seq(Outcome)
    <3>1. (batch.plan \notin found') \in BOOLEAN
      OBVIOUS
    <3>2. [plan |-> batch.plan, clean |-> batch.plan \notin found'] \in Outcome
      BY <2>1, <3>1 DEF Outcome
    <3> QED
      BY <1>1, <3>2 DEF DiffDone, ReportInv
  <2>3. /\ reported' = reported \cup {batch.plan} /\ written' = Rewritten(written, batch.plan)
        /\ found' \in Results(found, batch.plan, batch.glob > covered[batch.plan], DiffFails)
    BY <1>1 DEF DiffDone
  <2> QED
    BY <2>1, <2>2, <2>3, ReportWritten
<1> QED
  BY <1>1, OnlyDiffReports, ReportFrame

LEMMA ReportInit == Init => ReportInv
BY FS_EmptySet DEF Init, ReportInv, ToSet, Once

\* A plateau of reports is one of batches.
LEMMA PlateauReal ==
  ASSUME ReportInv, PlateauInv, DetectPlateau(written, found, RotateK)
  PROVE  /\ Len(outcomes) >= RotateK
         /\ \A i \in Len(outcomes) - RotateK + 1 .. Len(outcomes) :
              outcomes[i].clean \/ Replaced(i)
<1>1. RotateK > 0 /\ Len(written) >= RotateK /\ RotateK \in Nat
  BY LoopAssumption DEF DetectPlateau, EnoughBatches
<1>2. Len(written) \in Nat /\ Len(outcomes) \in Nat /\ Len(outcomes) >= RotateK
  BY <1>1 DEF ReportInv, PlateauInv
<1>3. ASSUME NEW i \in Len(outcomes) - RotateK + 1 .. Len(outcomes),
             ~outcomes[i].clean, ~Replaced(i)
      PROVE  FALSE
  <2>1. i \in DOMAIN outcomes
    <3>1. i \in 1 .. Len(outcomes)
      BY <1>1, <1>2, <1>3
    <3> QED
      BY <3>1 DEF ReportInv
  <2>2. PICK k \in DOMAIN written :
          written[k] \in found /\ Len(written) - k <= Len(outcomes) - i
    BY <1>3, <2>1 DEF PlateauInv
  <2> DEFINE m == IF Len(written) > RotateK THEN Len(written) - RotateK + 1 ELSE 1
             latest == MostRecent(written, RotateK)
  <2>3. k \in m .. Len(written) /\ m \in 1 .. Len(written)
    <3>1. i >= Len(outcomes) - RotateK + 1 /\ i \in Int
      BY <1>1, <1>2, <1>3
    <3>2. k \in 1 .. Len(written)
      BY <2>2 DEF ReportInv
    <3>3. Len(written) - k <= RotateK - 1
      <4>1. Len(written) - k <= Len(outcomes) - i
        BY <2>2
      <4> QED
        BY <1>1, <1>2, <3>1, <3>2, <4>1
    <3> QED
      BY <1>1, <1>2, <3>2, <3>3
  <2>4. latest = SubSeq(written, m, Len(written))
    BY DEF MostRecent
  <2> HIDE DEF m, latest
  <2>5. k - m + 1 \in DOMAIN latest /\ latest[k - m + 1] = written[k]
    <3>1. /\ Len(latest) = Len(written) - m + 1
          /\ \A j \in 1 .. Len(written) - m + 1 : latest[j] = written[m + j - 1]
          /\ DOMAIN latest = 1 .. Len(latest)
      BY <1>2, <2>3, <2>4 DEF ReportInv
    <3>2. k - m + 1 \in 1 .. Len(written) - m + 1 /\ m + (k - m + 1) - 1 = k
      BY <1>2, <2>3
    <3> QED
      BY <3>1, <3>2
  <2>6. written[k] \in ToSet(latest)
    BY <2>5 DEF ToSet
  <2> QED
    BY <2>2, <2>6 DEF latest, DetectPlateau
<1> QED
  BY <1>2, <1>3 DEF ReportInv

\* The other steps leave reports and outcomes alone.
LEMMA PlateauNext ==
  ASSUME ProcessInv, ReportInv, PlateauInv, Next
  PROVE  PlateauInv'
<1> USE DEF PlateauInv, RotatesOnPlateau, Replaced
<1>1. ASSUME UNCHANGED reportVars, batch' = batch \/ ~batch'.asked PROVE PlateauInv'
  BY <1>1 DEF reportVars
<1>2. CASE SupStep
  BY <1>1, <1>2 DEF SupStep, DelayDone, Foreground, Spawn, NotePid, WaitDone, Trap, NoBatch, batchVars
<1>3. CASE Consult
  <2>1. batch'.st = "llm"
    BY <1>3 DEF Consult, ProcessInv, ProcessType
  <2>2. batch'.asked => DetectPlateau(written, found, RotateK)
    BY <1>3 DEF Consult, ProcessInv, ProcessType
  <2>3. UNCHANGED reportVars
    BY <1>3 DEF Consult
  <2> HIDE DEF RotatesOnPlateau
  <2>4. batch'.asked => RotatesOnPlateau'
    BY <2>2, <2>3, PlateauReal DEF RotatesOnPlateau, reportVars
  <2> QED
    BY <2>1, <2>3, <2>4 DEF reportVars
<1>4. CASE DiffDone
  BY <1>4, PlateauDiff
<1>5. CASE BatchFails \/ Timeout \/ Reap \/ DiffStart \/ DiffSkipped
  <2>1. CASE BatchFails
    BY <1>1, <2>1 DEF BatchFails, NoBatch
  <2>2. CASE Timeout
    BY <1>1, <2>2 DEF Timeout, ProcessInv, ProcessType
  <2>3. CASE Reap
    BY <1>1, <2>3 DEF Reap, NoBatch, ProcessInv, ProcessType
  <2>4. CASE DiffStart
    BY <1>1, <2>4 DEF DiffStart, ProcessInv, ProcessType
  <2>5. CASE DiffSkipped
    BY <1>1, <2>5 DEF DiffSkipped, NoBatch
  <2> QED
    BY <1>5, <2>1, <2>2, <2>3, <2>4, <2>5
<1>9. ASSUME NEW p \in Plans, StartFuzz(p) PROVE PlateauInv'
  BY <1>1, <1>9 DEF StartFuzz, NoBatch
<1>6. CASE StopStep \/ StopList
  BY <1>1, <1>6 DEF StopStep, StopTerm, StopKill, StopSweep, StopList, NoBatch, batchVars
<1>7. CASE Tick
  <2>1. UNCHANGED reportVars
    BY <1>7 DEF Tick
  <2>2. batch' = batch \/ ~batch'.asked
    BY <1>7 DEF Tick, ProcessInv, ProcessType
  <2> QED
    BY <1>1, <2>1, <2>2
<1>8. CASE Kill \/ \E b \in Batches : Write(b) \/ OrphanExits(b)
  BY <1>1, <1>8 DEF Kill, Write, OrphanExits, batchVars
<1> QED
  BY <1>2, <1>3, <1>4, <1>5, <1>6, <1>7, <1>8, <1>9 DEF Next, BatchStep

LEMMA PlateauInductive == Spec => [](ReportInv /\ PlateauInv)
<1>1. Init => ReportInv /\ PlateauInv
  BY ReportInit DEF Init, PlateauInv, NoBatch
<1>2. ProcessInv /\ ReportInv /\ PlateauInv /\ [Next]_vars => ReportInv' /\ PlateauInv'
  <2>1. ASSUME ReportInv, PlateauInv, UNCHANGED vars PROVE ReportInv' /\ PlateauInv'
    BY <2>1, ReportFrame DEF vars, batchVars, reportVars, PlateauInv, RotatesOnPlateau, Replaced
  <2> QED
    BY <2>1, ReportNext, PlateauNext
<1> QED
  BY <1>1, <1>2, ProcessesInductive, PTL DEF Spec

\* RotatesOnPlateau: the LLM is asked for another objective only when the last
\* RotateK batches listed nothing, also when a plan came twice and its report was
\* written over, so that the reports do not tell how many batches there were, and
\* when runtest failed.  What is lost is what the later batch of the same plan
\* did not find again.
THEOREM RotationJustified == Spec => []RotatesOnPlateau
<1>1. PlateauInv => RotatesOnPlateau
  BY DEF PlateauInv, RotatesOnPlateau
<1> QED
  BY <1>1, PlateauInductive, PTL

-----------------------------------------------------------------------------
(* Types.                                                                  *)


\* What LoopTypeOK says, in parts a step disturbs one or two of.
BatchRecord == [st : {"none", "start", "llm", "fuzz", "term", "diff", "diffing"},
                plan : Plans \cup {NoPlan}, elapsed : 0 .. Duration + KillTime,
                glob : 0 .. MaxFiles, asked : BOOLEAN]
SupType ==
  /\ sup \in {"delay", "llama", "spawn", "forked", "wait", "sleep", "dead"}
  /\ term \in BOOLEAN
  /\ batchNo \in 0 .. MaxBatches
BatchType == batch \in BatchRecord /\ fuzzyvm \in [Batches -> Plans \cup {NoPlan}]
StopType ==
  /\ stop \in {"idle", "listed", "termed", "killed", "done"}
  /\ tree \in [batch : 0 .. MaxBatches, vm : 0 .. MaxBatches]
CorpusType ==
  /\ dirs \subseteq Plans
  /\ files \in [Plans -> 0 .. MaxFiles]
  /\ age \in [Plans -> 0 .. Grace]
  /\ loose \subseteq Plans
ReportType ==
  /\ reported \subseteq Plans
  /\ covered \in [Plans -> 0 .. MaxFiles]
  /\ ToSet(written) = reported /\ Len(written) = Cardinality(reported)
  /\ found \subseteq reported
  /\ outcomes \in Seq(Outcome)

LEMMA LoopTypeParts ==
  /\ LoopTypeOK <=> SupType /\ BatchType /\ StopType /\ CorpusType /\ ReportType
  /\ LoopTypeOK' <=> SupType' /\ BatchType' /\ StopType' /\ CorpusType' /\ ReportType'
BY DEF LoopTypeOK, SupType, BatchType, BatchRecord, StopType, CorpusType, ReportType, Outcome

\* A part keeps its type when its variables keep their values.
LEMMA LoopTypeFrame ==
  /\ SupType /\ UNCHANGED loopVars => SupType'
  /\ BatchType /\ UNCHANGED batchVars => BatchType'
  /\ StopType /\ UNCHANGED stopVars => StopType'
  /\ CorpusType /\ UNCHANGED corpusVars => CorpusType'
  /\ ReportType /\ UNCHANGED reportVars => ReportType'
<1>1. SupType /\ UNCHANGED loopVars => SupType'
  BY DEF SupType, loopVars
<1>2. BatchType /\ UNCHANGED batchVars => BatchType'
  BY DEF BatchType, batchVars
<1>3. StopType /\ UNCHANGED stopVars => StopType'
  BY DEF StopType, stopVars
<1>4. CorpusType /\ UNCHANGED corpusVars => CorpusType'
  BY DEF CorpusType, corpusVars
<1>5. ReportType /\ UNCHANGED reportVars => ReportType'
  BY DEF ReportType, reportVars
<1> QED
  BY <1>1, <1>2, <1>3, <1>4, <1>5

LEMMA NoBatchType == NoBatch \in BatchRecord
<1>1. 0 \in 0 .. Duration + KillTime /\ 0 \in 0 .. MaxFiles
  BY LoopAssumption
<1> QED
  BY <1>1 DEF NoBatch, BatchRecord

LEMMA SupStepType == ASSUME LoopTypeOK, SupStep PROVE LoopTypeOK'
<1> USE LoopTypeParts, LoopTypeFrame
<1>1. ASSUME NEW cmd, NEW next \in {"spawn", "llama"}, Foreground(cmd, next) PROVE LoopTypeOK'
  <2>1. SupType'
    BY <1>1 DEF Foreground, SupType
  <2> QED
    BY <1>1, <2>1 DEF Foreground
<1>2. CASE DelayDone \/ NotePid \/ WaitDone
  <2>1. SupType'
    BY <1>2 DEF DelayDone, NotePid, WaitDone, SupType
  <2>2. UNCHANGED <<batchVars, stopVars, corpusVars, reportVars>>
    BY <1>2 DEF DelayDone, NotePid, WaitDone
  <2> QED
    BY <2>1, <2>2
<1>3. CASE Spawn
  <2>1. SupType'
    BY <1>3, LoopAssumption DEF Spawn, SupType
  <2>2. BatchType'
    BY <1>3, NoBatchType DEF Spawn, BatchType, BatchRecord
  <2> QED
    BY <1>3, <2>1, <2>2 DEF Spawn
<1>4. CASE Trap
  <2>1. SupType'
    BY <1>4 DEF Trap, TrapExit, SupType
  <2>2. BatchType'
    BY <1>4, NoBatchType DEF Trap, BatchType
  <2> QED
    BY <1>4, <2>1, <2>2 DEF Trap
<1> QED
  BY <1>1, <1>2, <1>3, <1>4 DEF SupStep

LEMMA BatchStepType == ASSUME ProcessInv, LoopTypeOK, ReportInv', BatchStep PROVE LoopTypeOK'
<1> USE LoopTypeParts, LoopTypeFrame
<1>1. CASE Consult
  <2>1. BatchType'
    BY <1>1, LoopAssumption DEF Consult, DetectPlateau, BatchType, BatchRecord
  <2> QED
    BY <1>1, <2>1 DEF Consult
<1>2. CASE BatchFails
  <2>1. BatchType'
    BY <1>2, NoBatchType DEF BatchFails, BatchType
  <2> QED
    BY <1>2, <2>1 DEF BatchFails
<1>3. CASE Timeout
  <2>1. BatchType'
    BY <1>3 DEF Timeout, BatchType, BatchRecord
  <2> QED
    BY <1>3, <2>1 DEF Timeout
<1>4. CASE Reap
  <2>1. [batch EXCEPT !.st = "diff"] \in BatchRecord
    BY DEF BatchType, BatchRecord
  <2>2. BatchType'
    BY <1>4, <2>1, NoBatchType DEF Reap, KillGroup, BatchType
  <2> QED
    BY <1>4, <2>2 DEF Reap
<1>5. CASE DiffStart
  <2>1. files[batch.plan] \in 0 .. MaxFiles
    BY <1>5 DEF DiffStart, ProcessInv, OneBatch, CorpusType
  <2>2. BatchType'
    BY <1>5, <2>1 DEF DiffStart, BatchType, BatchRecord
  <2> QED
    BY <1>5, <2>2 DEF DiffStart
<1>6. CASE DiffDone
  <2>1. BatchType'
    BY <1>6, NoBatchType DEF DiffDone, BatchType
  <2>2. covered' \in [Plans -> 0 .. MaxFiles]
    BY <1>6 DEF DiffDone, ReportType, BatchType, BatchRecord
  <2>3. ReportType'
    BY <2>2 DEF ReportInv, ReportType
  <2> QED
    BY <1>6, <2>1, <2>3 DEF DiffDone
<1>8. CASE DiffSkipped
  <2>1. BatchType'
    BY <1>8, NoBatchType DEF DiffSkipped, BatchType
  <2> QED
    BY <1>8, <2>1 DEF DiffSkipped
<1>7. ASSUME NEW p \in Plans, StartFuzz(p) PROVE LoopTypeOK'
  <2>1. BatchType'
    BY <1>7, NoBatchType DEF StartFuzz, BatchType, BatchRecord
  <2>2. 0 \in 0 .. Grace
    BY LoopAssumption
  <2>3. CorpusType'
    BY <1>7, <2>2 DEF StartFuzz, CorpusType
  <2> QED
    BY <1>7, <2>1, <2>3 DEF StartFuzz
<1> QED
  BY <1>1, <1>2, <1>3, <1>4, <1>5, <1>6, <1>7, <1>8 DEF BatchStep

LEMMA StopStepType == ASSUME LoopTypeOK, StopStep \/ StopList \/ Kill PROVE LoopTypeOK'
<1> USE LoopTypeParts, LoopTypeFrame
<1>1. CASE StopTerm
  <2>1. SupType' /\ StopType'
    BY <1>1 DEF StopTerm, SupType, StopType, Dead
  <2> QED
    BY <1>1, <2>1 DEF StopTerm
<1>2. CASE StopKill
  <2>1. SupType' /\ StopType'
    BY <1>2 DEF StopKill, SupType, StopType
  <2>2. BatchType'
    BY <1>2, NoBatchType DEF StopKill, BatchType
  <2> QED
    BY <1>2, <2>1, <2>2 DEF StopKill
<1>3. CASE StopSweep
  <2>1. StopType' /\ BatchType'
    BY <1>3 DEF StopSweep, Backstop, StopType, BatchType
  <2> QED
    BY <1>3, <2>1 DEF StopSweep
<1>4. CASE StopList
  <2>1. batchNo \in 0 .. MaxBatches /\ 0 \in 0 .. MaxBatches
    BY LoopAssumption DEF SupType
  <2>2. tree' \in [batch : 0 .. MaxBatches, vm : 0 .. MaxBatches]
    BY <1>4, <2>1 DEF StopList, NoTree, StopType
  <2>3. StopType'
    BY <1>4, <2>2 DEF StopList, StopType
  <2> QED
    BY <1>4, <2>3 DEF StopList
<1>5. CASE Kill
  <2>1. SupType'
    BY <1>5 DEF Kill, SupType
  <2> QED
    BY <1>5, <2>1 DEF Kill
<1> QED
  BY <1>1, <1>2, <1>3, <1>4, <1>5 DEF StopStep

LEMMA LoopTypeNext == ASSUME ProcessInv, LoopTypeOK, ReportInv', Next PROVE LoopTypeOK'
<1> USE LoopTypeParts, LoopTypeFrame
<1>1. CASE Tick
  <2>1. batch.st \in {"fuzz", "term"} => batch.elapsed + 1 \in 0 .. Duration + KillTime
    BY <1>1, LoopAssumption DEF Tick, Deadline, BatchType, BatchRecord
  <2>2. BatchType'
    BY <1>1, <2>1 DEF Tick, BatchType, BatchRecord
  <2>3. age' \in [Plans -> 0 .. Grace]
    BY <1>1, LoopAssumption DEF Tick, CorpusType
  <2>4. CorpusType'
    BY <1>1, <2>3 DEF Tick, CorpusType
  <2> QED
    BY <1>1, <2>2, <2>4 DEF Tick
<1>2. ASSUME NEW b \in Batches, Write(b) PROVE LoopTypeOK'
  <2>1. fuzzyvm[b] \in Plans
    BY <1>2 DEF Write, BatchType
  <2>2. CorpusType'
    BY <1>2, <2>1, LoopAssumption DEF Write, CorpusType
  <2> QED
    BY <1>2, <2>2 DEF Write
<1>3. ASSUME NEW b \in Batches, OrphanExits(b) PROVE LoopTypeOK'
  <2>1. BatchType'
    BY <1>3 DEF OrphanExits, BatchType
  <2> QED
    BY <1>3, <2>1 DEF OrphanExits
<1> QED
  BY <1>1, <1>2, <1>3, SupStepType, BatchStepType, StopStepType DEF Next

LEMMA LoopTypeInit == Init => LoopTypeOK
<1> SUFFICES ASSUME Init PROVE LoopTypeOK
  OBVIOUS
<1>1. SupType
  <2>1. 0 \in 0 .. MaxBatches
    BY LoopAssumption
  <2> QED
    BY <2>1 DEF Init, SupType
<1>2. BatchType
  BY NoBatchType DEF Init, BatchType
<1>3. StopType
  BY LoopAssumption DEF Init, StopType, NoTree
<1>4. CorpusType
  BY LoopAssumption DEF Init, CorpusType
<1>5. ReportType
  BY LoopAssumption, FS_EmptySet DEF Init, ReportType, ToSet
<1> QED
  BY <1>1, <1>2, <1>3, <1>4, <1>5, LoopTypeParts

\* LoopTypeOK: every variable of the loop keeps its type and its bounds; among
\* the rest a batch is never older than its deadlines.
THEOREM LoopTypeCorrect == Spec => []LoopTypeOK
<1>1. ProcessInv /\ LoopTypeOK /\ ReportInv' /\ [Next]_vars => LoopTypeOK'
  <2>1. LoopTypeOK /\ UNCHANGED vars => LoopTypeOK'
    BY LoopTypeParts, LoopTypeFrame DEF vars
  <2> QED
    BY <2>1, LoopTypeNext
<1> QED
  BY <1>1, LoopTypeInit, ProcessesInductive, PlateauInductive, PTL DEF Spec

-----------------------------------------------------------------------------
(* The sweep against a loop that goes on.                                  *)

\* What the corpus says of the FuzzyVM groups.
CorpusInv ==
  /\ dirs \subseteq Plans
  /\ age \in [Plans -> Nat]
  /\ \A b \in Batches : Alive(b) => fuzzyvm[b] \in dirs
  /\ \A p \in Plans : files[p] > 0 => p \in dirs

\* A pass is made of directories taken once; a pass that does not skip is the
\* last one, and while passes skip, what was diffed has a report.
PassInv ==
  /\ wrapper \in {"check", "scan", "work", "sleep", "exited"}
  /\ mode \in {"skip", "resume"}
  /\ todo \subseteq Plans /\ working \subseteq Plans /\ todo \cap working = {}
  /\ recent \subseteq reported
  /\ seen \in [Plans -> Nat]
  /\ diffs \in [Plans -> Nat]
  /\ wrapper # "work" => todo = {} /\ working = {}
  /\ mode = "resume" => wrapper \in {"scan", "work", "exited"}
  /\ mode = "skip" =>
       \A p \in Plans : /\ p \in todo \cup working => diffs[p] = 0
                        /\ diffs[p] <= 1
                        /\ diffs[p] > 0 => p \in reported

SessionInv == ProcessInv /\ CorpusInv /\ PassInv

\* A report is never taken back, and the supervisor does not come back.
LEMMA LoopGrows ==
  ASSUME Next
  PROVE  reported \subseteq reported' /\ (Dead => Dead')
<1> USE DEF loopVars, reportVars, Dead
<1>1. CASE SupStep
  BY <1>1 DEF SupStep, DelayDone, Foreground, Spawn, NotePid, WaitDone, Trap, TrapExit
<1>2. CASE BatchStep
  BY <1>2 DEF BatchStep, Consult, BatchFails, Timeout, Reap, DiffStart, DiffDone, DiffSkipped, StartFuzz
<1>3. CASE StopStep \/ StopList
  BY <1>3 DEF StopStep, StopTerm, StopKill, StopSweep, StopList
<1>4. CASE Tick \/ Kill \/ \E b \in Batches : Write(b) \/ OrphanExits(b)
  BY <1>4 DEF Tick, Kill, Write, OrphanExits
<1> QED
  BY <1>1, <1>2, <1>3, <1>4 DEF Next

\* Only a run_batch makes a directory, and its FuzzyVM writes below it.
LEMMA CorpusNext == ASSUME ProcessInv, CorpusInv, Next PROVE CorpusInv'
<1> USE DEF ProcessInv, ProcessType, OneGroup, CorpusInv, Alive
<1>1. CASE SupStep
  BY <1>1 DEF SupStep, DelayDone, Foreground, Spawn, NotePid, WaitDone, Trap, TrapExit,
              batchVars, corpusVars
<1>2. ASSUME NEW p \in Plans, StartFuzz(p) PROVE CorpusInv'
  <2>1. \A b \in Batches : fuzzyvm'[b] = fuzzyvm[b] \/ fuzzyvm'[b] = p
    BY <1>2 DEF StartFuzz
  <2> QED
    BY <1>2, <2>1 DEF StartFuzz
<1>3. CASE Reap
  <2>1. \A b \in Batches : fuzzyvm'[b] = fuzzyvm[b] \/ fuzzyvm'[b] = NoPlan
    BY <1>3 DEF Reap, KillGroup
  <2> QED
    BY <1>3, <2>1 DEF Reap, corpusVars
<1>4. CASE Consult \/ BatchFails \/ Timeout \/ DiffStart \/ DiffDone \/ DiffSkipped
  BY <1>4 DEF Consult, BatchFails, Timeout, DiffStart, DiffDone, DiffSkipped, corpusVars
<1>5. CASE StopStep \/ StopList
  BY <1>5 DEF StopStep, StopTerm, StopKill, StopSweep, Backstop, StopList, batchVars, corpusVars
<1>6. CASE Tick
  BY <1>6 DEF Tick
<1>7. ASSUME NEW b \in Batches, Write(b) PROVE CorpusInv'
  BY <1>7 DEF Write, batchVars
<1>8. ASSUME NEW b \in Batches, OrphanExits(b) PROVE CorpusInv'
  BY <1>8 DEF OrphanExits, corpusVars
<1>9. CASE Kill
  BY <1>9 DEF Kill, batchVars, corpusVars
<1> QED
  BY <1>1, <1>2, <1>3, <1>4, <1>5, <1>6, <1>7, <1>8, <1>9 DEF Next, BatchStep

\* Steps of the sweep.
LEMMA PassNext == ASSUME SessionInv, SweepActs PROVE PassInv'
<1> USE DEF SessionInv, CorpusInv, PassInv, ProcessInv, ProcessType
<1> SUFFICES ASSUME Sweep!SweepNext, UNCHANGED <<files, dirs>> PROVE PassInv'
  BY DEF SweepActs, corpusVars
<1>1. CASE Sweep!Check
  BY <1>1 DEF Sweep!Check, Sweep!ModeNow, Sweep!reportVars
<1>2. CASE Sweep!Scan
  <2>1. todo' \subseteq Plans /\ working' = {} /\ wrapper' = "work"
    BY <1>2 DEF Sweep!Scan
  <2>2. mode = "skip" => \A p \in todo' : p \notin reported
    BY <1>2 DEF Sweep!Scan, Sweep!Selected, Sweep!Ripe
  <2>3. recent' \subseteq reported'
    BY <1>2 DEF Sweep!Scan, Sweep!reportVars
  <2>4. mode = "skip" => \A p \in todo' : diffs[p] = 0
    BY <2>1, <2>2
  <2> QED
    BY <1>2, <2>1, <2>3, <2>4 DEF Sweep!Scan, Sweep!reportVars
<1>3. CASE Sweep!PassEnd
  BY <1>3 DEF Sweep!PassEnd, Sweep!reportVars
<1>4. CASE Sweep!WakeUp
  BY <1>4 DEF Sweep!WakeUp, Sweep!reportVars
<1>5. ASSUME NEW p \in Plans, Sweep!WorkerStart(p) PROVE PassInv'
  BY <1>5 DEF Sweep!WorkerStart, Sweep!reportVars
<1>6. ASSUME NEW p \in Plans, Sweep!WorkerDone(p) PROVE PassInv'
  BY <1>6 DEF Sweep!WorkerDone, Sweep!WriteReport
<1>7. ASSUME NEW p \in Plans, Sweep!WorkerFails(p) PROVE PassInv'
  BY <1>7 DEF Sweep!WorkerFails, Sweep!reportVars
<1> QED
  BY <1>1, <1>2, <1>3, <1>4, <1>5, <1>6, <1>7 DEF Sweep!SweepNext

LEMMA SessionInit1 == SessionInit => SessionInv
<1>1. SessionInit => CorpusInv
  BY DEF SessionInit, Init, CorpusInv, Alive
<1>2. SessionInit => PassInv
  BY DEF SessionInit, Init, Sweep!SweepInit, PassInv
<1> QED
  BY <1>1, <1>2, ProcessesInit DEF SessionInit, SessionInv

LEMMA SessionNext1 == ASSUME SessionInv, [SessionNext]_sessionVars PROVE SessionInv'
<1>1. CASE LoopActs
  <2>1. ProcessInv' /\ CorpusInv'
    BY <1>1, ProcessesNext, CorpusNext DEF LoopActs, SessionInv
  <2>2. PassInv'
    BY <1>1, LoopGrows DEF LoopActs, SessionInv, PassInv, sweepVars
  <2> QED
    BY <2>1, <2>2 DEF SessionInv
<1>2. CASE SweepActs
  <2>1. ProcessInv'
    BY <1>2, ProcessesFrame DEF SweepActs, SessionInv
  <2>2. CorpusInv'
    BY <1>2 DEF SweepActs, SessionInv, CorpusInv, Alive, corpusVars, batchVars
  <2> QED
    BY <1>2, <2>1, <2>2, PassNext DEF SessionInv
<1>3. CASE UNCHANGED sessionVars
  <2>1. ProcessInv'
    BY <1>3, ProcessesFrame DEF SessionInv, sessionVars, vars
  <2>2. CorpusInv' /\ PassInv'
    BY <1>3 DEF sessionVars, vars, sweepVars, SessionInv, CorpusInv, PassInv, Alive, corpusVars,
                batchVars, reportVars
  <2> QED
    BY <2>1, <2>2 DEF SessionInv
<1> QED
  BY <1>1, <1>2, <1>3 DEF SessionNext

\* The loop and the sweep together keep ProcessInv, and passes are orderly.
THEOREM SessionInductive == SessionSpec => []SessionInv
BY SessionInit1, SessionNext1, PTL DEF SessionSpec

\* DiffedOnceByPasses: as long as passes skip what has a report, nothing is
\* diffed twice, although passes of several workers overlap with the loop.
THEOREM PassesDiffOnce == SessionSpec => []DiffedOnceByPasses
<1>1. SessionInv => DiffedOnceByPasses
  BY DEF SessionInv, PassInv, DiffedOnceByPasses
<1> QED
  BY <1>1, SessionInductive, PTL

-----------------------------------------------------------------------------
(* The last pass.                                                          *)

\* The pass that does not skip starts when the loop is dead, and then covers
\* every directory with tests but those an orphan writes to: each is on the list,
\* with a worker, reported, or in the log as failed.
LastPassInv ==
  /\ mode = "resume" => Dead
  /\ wrapper = "exited" => mode = "resume"
  /\ mode = "resume" /\ wrapper \in {"work", "exited"} =>
       \A p \in Plans : files[p] > 0 => p \in reported \cup failed \cup loose \cup todo \cup working

\* What is written after the end of the supervisor is known to be.
LEMMA LateWrites ==
  ASSUME ProcessInv, Next
  PROVE  /\ loose \subseteq loose'
         /\ \A p \in Plans : files'[p] = files[p] \/ (Dead /\ p \in loose')
                                \/ (~Dead /\ \E b \in Batches : fuzzyvm[b] = p)
<1> USE DEF ProcessInv, ProcessType, corpusVars, Dead
<1>1. CASE SupStep
  BY <1>1 DEF SupStep, DelayDone, Foreground, Spawn, NotePid, WaitDone, Trap
<1>2. CASE BatchStep
  BY <1>2 DEF BatchStep, Consult, BatchFails, Timeout, Reap, DiffStart, DiffDone, DiffSkipped, StartFuzz
<1>3. CASE StopStep \/ StopList
  BY <1>3 DEF StopStep, StopTerm, StopKill, StopSweep, StopList
<1>4. CASE Tick \/ Kill \/ \E b \in Batches : OrphanExits(b)
  BY <1>4 DEF Tick, Kill, OrphanExits
<1>5. ASSUME NEW b \in Batches, Write(b)
      PROVE  /\ loose \subseteq loose'
             /\ \A p \in Plans : files'[p] = files[p] \/ (Dead /\ p \in loose')
                                    \/ (~Dead /\ \E c \in Batches : fuzzyvm[c] = p)
  BY <1>5 DEF Write
<1> QED
  BY <1>1, <1>2, <1>3, <1>4, <1>5 DEF Next

LEMMA LastPassNext ==
  ASSUME ~ByHand, SessionInv, LastPassInv, [SessionNext]_sessionVars
  PROVE  LastPassInv'
<1> USE DEF LastPassInv
<1>1. CASE LoopActs
  BY <1>1, LoopGrows, LateWrites DEF LoopActs, sweepVars, SessionInv
<1>2. CASE SweepActs
  <2> USE DEF SessionInv, PassInv, CorpusInv, Dead
  <2> SUFFICES ASSUME Sweep!SweepNext, UNCHANGED <<files, dirs, loose, sup>> PROVE LastPassInv'
    BY <1>2 DEF SweepActs, corpusVars, loopVars
  <2>1. CASE Sweep!Check
    BY <2>1 DEF Sweep!Check, Sweep!ModeNow, Sweep!reportVars
  <2>2. CASE Sweep!Scan
    BY <2>2 DEF Sweep!Scan, Sweep!Selected, Sweep!reportVars
  <2>3. CASE Sweep!PassEnd
    BY <2>3 DEF Sweep!PassEnd, Sweep!reportVars
  <2>4. CASE Sweep!WakeUp
    BY <2>4 DEF Sweep!WakeUp, Sweep!reportVars
  <2>5. ASSUME NEW p \in Plans, Sweep!WorkerStart(p) PROVE LastPassInv'
    BY <2>5 DEF Sweep!WorkerStart, Sweep!reportVars
  <2>6. ASSUME NEW p \in Plans, Sweep!WorkerDone(p) PROVE LastPassInv'
    BY <2>6 DEF Sweep!WorkerDone, Sweep!WriteReport
  <2>7. ASSUME NEW p \in Plans, Sweep!WorkerFails(p) PROVE LastPassInv'
    BY <2>7 DEF Sweep!WorkerFails, Sweep!reportVars
  <2> QED
    BY <2>1, <2>2, <2>3, <2>4, <2>5, <2>6, <2>7 DEF Sweep!SweepNext
<1>3. CASE UNCHANGED sessionVars
  BY <1>3 DEF sessionVars, vars, sweepVars, corpusVars, loopVars, reportVars, Dead
<1> QED
  BY <1>1, <1>2, <1>3 DEF SessionNext

LEMMA LastPass == ASSUME ~ByHand PROVE SessionSpec => [](SessionInv /\ LastPassInv)
<1>1. SessionInit => LastPassInv
  BY DEF SessionInit, Sweep!SweepInit, LastPassInv
<1> QED
  BY <1>1, LastPassNext, SessionInductive, PTL DEF SessionSpec

\* SweepCatchesUp: whenever and however the loop is stopped, the wrapper that
\* launch_fuzz.sh leaves behind exits only when every batch has its report, but
\* those a worker of the last pass failed on; a failure before it is made good.
THEOREM NothingLeftBehind == ASSUME ~ByHand PROVE SessionSpec => []SweepCatchesUp
<1>1. SessionInv /\ LastPassInv => SweepCatchesUp
  BY DEF SessionInv, PassInv, LastPassInv, SweepCatchesUp
<1> QED
  BY <1>1, LastPass, PTL

-----------------------------------------------------------------------------
(* Complete reports.                                                       *)

\* A FuzzyVM that run_batch waits for works on a directory that is not older
\* than the batch, and the batch is not older than its deadlines allow.
TimeInv ==
  /\ batch.st \notin {"diff", "diffing"}
  /\ batch.st \in {"fuzz", "term"} =>
       /\ \A b \in Batches : Alive(b) => fuzzyvm[b] = batch.plan
       /\ age[batch.plan] <= batch.elapsed
       /\ batch.elapsed <= Duration + KillTime

\* Nobody writes where the sweep is or was, except after the end of the loop.
SettledInv ==
  /\ reported \subseteq Plans
  /\ covered \in [Plans -> Nat]
  /\ ~Dead => \A p \in todo \cup working \cup reported :
                p \in dirs /\ \A b \in Batches : fuzzyvm[b] # p
  /\ \A p \in working : seen[p] = files[p] \/ p \in loose
  /\ \A p \in reported : covered[p] = files[p] \/ p \in loose

LEMMA TimeNext ==
  ASSUME ~ReusePlans, ~RunDiff, ProcessInv, CorpusInv, TimeInv, Next
  PROVE  TimeInv'
<1> USE LoopAssumption DEF ProcessInv, ProcessType, OneBatch, OneGroup, CorpusInv, TimeInv, Alive,
    BatchRuns
<1>1. CASE SupStep
  BY <1>1 DEF SupStep, DelayDone, Foreground, Spawn, NotePid, WaitDone, Trap, NoBatch,
              batchVars, corpusVars
<1>2. ASSUME NEW p \in Plans, StartFuzz(p) PROVE TimeInv'
  <2>1. /\ batch'.st = "fuzz" /\ batch'.plan = p /\ batch'.elapsed = 0
        /\ age' = [age EXCEPT ![p] = 0]
    BY <1>2 DEF StartFuzz, NoBatch
  <2>2. \A b \in Batches : fuzzyvm'[b] \in {NoPlan, p}
    BY <1>2 DEF StartFuzz
  <2>3. age'[p] = 0
    BY <2>1
  <2> QED
    BY <2>1, <2>2, <2>3
<1>3. CASE Reap
  BY <1>3 DEF Reap, NoBatch
<1>4. CASE Timeout
  BY <1>4 DEF Timeout, corpusVars
<1>5. CASE Consult \/ BatchFails \/ DiffStart \/ DiffDone \/ DiffSkipped
  <2>1. batch'.st \in {"llm", "none"}
    <3>1. CASE Consult
      BY <3>1 DEF Consult
    <3>2. CASE BatchFails
      BY <3>2 DEF BatchFails, NoBatch
    <3>3. ~DiffStart /\ ~DiffDone /\ ~DiffSkipped
      BY DEF DiffStart, DiffDone, DiffSkipped
    <3> QED
      BY <1>5, <3>1, <3>2, <3>3
  <2> QED
    BY <2>1
<1>6. CASE StopStep \/ StopList
  <2>1. /\ batch' = NoBatch \/ batch' = batch
        /\ \A b \in Batches : fuzzyvm'[b] = fuzzyvm[b] \/ fuzzyvm'[b] = NoPlan
        /\ age' = age
    BY <1>6 DEF StopStep, StopTerm, StopKill, StopSweep, Backstop, StopList, batchVars, corpusVars
  <2> QED
    BY <2>1 DEF NoBatch
<1>7. CASE Tick
  <2>1. CASE batch.st \in {"fuzz", "term"}
    <3>1. /\ batch'.st = batch.st /\ batch'.plan = batch.plan
          /\ batch'.elapsed = batch.elapsed + 1
      BY <1>7, <2>1 DEF Tick
    <3>2. batch.elapsed < Duration + KillTime
      BY <1>7, <2>1 DEF Tick, Deadline
    <3>3. age'[batch.plan] <= age[batch.plan] + 1
      BY <1>7, <2>1 DEF Tick
    <3> QED
      BY <1>7, <2>1, <3>1, <3>2, <3>3 DEF Tick
  <2>2. CASE batch.st \notin {"fuzz", "term"}
    BY <1>7, <2>2 DEF Tick
  <2> QED
    BY <2>1, <2>2
<1>8. ASSUME NEW b \in Batches, Write(b) \/ OrphanExits(b) PROVE TimeInv'
  BY <1>8 DEF Write, OrphanExits, batchVars, corpusVars
<1>9. CASE Kill
  BY <1>9 DEF Kill, batchVars, corpusVars
<1> QED
  BY <1>1, <1>2, <1>3, <1>4, <1>5, <1>6, <1>7, <1>8, <1>9 DEF Next, BatchStep

\* In --no-diff mode the loop writes no report.
LEMMA LoopReports ==
  ASSUME TimeInv, Next
  PROVE  UNCHANGED <<reported, covered>>
<1> USE DEF reportVars, TimeInv
<1>1. CASE SupStep
  BY <1>1 DEF SupStep, DelayDone, Foreground, Spawn, NotePid, WaitDone, Trap
<1>2. CASE BatchStep
  BY <1>2 DEF BatchStep, Consult, BatchFails, Timeout, Reap, DiffStart, DiffDone, DiffSkipped, StartFuzz
<1>3. CASE StopStep \/ StopList
  BY <1>3 DEF StopStep, StopTerm, StopKill, StopSweep, StopList
<1>4. CASE Tick \/ Kill \/ \E b \in Batches : Write(b) \/ OrphanExits(b)
  BY <1>4 DEF Tick, Kill, Write, OrphanExits
<1> QED
  BY <1>1, <1>2, <1>3, <1>4 DEF Next

\* A FuzzyVM is started on a directory that is new, and no other moves.
LEMMA LoopGroups ==
  ASSUME ~ReusePlans, ProcessInv, Next
  PROVE  /\ dirs \subseteq dirs'
         /\ \A b \in Batches : fuzzyvm'[b] \in {fuzzyvm[b], NoPlan} \/ fuzzyvm'[b] \notin dirs
<1> USE DEF ProcessInv, ProcessType, batchVars, corpusVars
<1>1. CASE SupStep
  BY <1>1 DEF SupStep, DelayDone, Foreground, Spawn, NotePid, WaitDone, Trap
<1>2. CASE BatchStep
  BY <1>2 DEF BatchStep, Consult, BatchFails, Timeout, Reap, KillGroup, DiffStart, DiffDone,
              DiffSkipped, StartFuzz
<1>3. CASE StopStep \/ StopList
  BY <1>3 DEF StopStep, StopTerm, StopKill, StopSweep, Backstop, StopList
<1>4. CASE Tick \/ Kill \/ \E b \in Batches : Write(b) \/ OrphanExits(b)
  BY <1>4 DEF Tick, Kill, Write, OrphanExits
<1> QED
  BY <1>1, <1>2, <1>3, <1>4 DEF Next

LEMMA SettledNext ==
  ASSUME ~ByHand, ~ReusePlans, Duration + KillTime < Grace,
         SessionInv, LastPassInv, TimeInv, SettledInv, SessionNext
  PROVE  SettledInv'
<1> USE DEF SettledInv
<1>1. CASE LoopActs
  <2>1. Next /\ UNCHANGED <<todo, working, seen, reported, covered>>
    BY <1>1, LoopReports DEF LoopActs, sweepVars
  <2>2. ~Dead' => ~Dead
    BY <2>1, LoopGrows
  <2>3. ASSUME ~Dead', NEW p \in todo \cup working \cup reported, NEW b \in Batches
        PROVE  p \in dirs' /\ fuzzyvm'[b] # p
    <3>1. p \in Plans /\ p \in dirs /\ fuzzyvm[b] # p
      BY <2>2, <2>3 DEF SessionInv, PassInv
    <3> QED
      BY <3>1, <2>1, LoopGroups, LoopAssumption DEF SessionInv
  <2>4. ASSUME NEW p \in working \cup reported
        PROVE  p \in loose => p \in loose'
    BY <2>1, LateWrites DEF SessionInv
  <2>5. ASSUME NEW p \in working \cup reported
        PROVE  files'[p] = files[p] \/ p \in loose'
    <3>1. p \in Plans
      BY DEF SessionInv, PassInv
    <3> QED
      BY <3>1, <2>1, LateWrites DEF SessionInv
  <2>6. ~Dead' => \A p \in todo \cup working \cup reported : p \in dirs'
    BY <2>1, <2>2, LoopGroups DEF SessionInv
  <2> QED
    BY <2>1, <2>3, <2>4, <2>5, <2>6
<1>2. CASE SweepActs
  <2> USE DEF SessionInv, PassInv, CorpusInv, ProcessInv, ProcessType
  <2>0. Sweep!SweepNext /\ UNCHANGED <<files, dirs, loose, sup, fuzzyvm>>
    BY <1>2 DEF SweepActs, corpusVars, loopVars, batchVars
  <2>1. CASE Sweep!Check \/ Sweep!PassEnd \/ Sweep!WakeUp
    BY <2>0, <2>1 DEF Sweep!Check, Sweep!PassEnd, Sweep!WakeUp, Sweep!reportVars, Dead
  <2>2. CASE Sweep!Scan
    <3>1. ASSUME ~Dead, NEW p \in todo', NEW b \in Batches
          PROVE  p \in dirs /\ fuzzyvm[b] # p
      <4>1. p \in dirs /\ age[p] >= Grace
        BY <2>2, <3>1 DEF Sweep!Scan, Sweep!Selected, Sweep!Ripe, LastPassInv
      <4>2. ASSUME fuzzyvm[b] = p PROVE FALSE
        <5>1. Alive(b)
          BY <4>1, <4>2, LoopAssumption DEF Alive
        <5>2. batch.st \in {"fuzz", "term"}
          BY <3>1, <5>1 DEF OneGroup, BatchRuns
        <5>3. age[p] <= batch.elapsed /\ batch.elapsed <= Duration + KillTime
          BY <4>2, <5>1, <5>2 DEF TimeInv
        <5> QED
          BY <4>1, <5>3, LoopAssumption
      <4> QED
        BY <4>1, <4>2
    <3>2. ~Dead => \A p \in todo' : p \in dirs
      BY <2>2 DEF Sweep!Scan
    <3> QED
      BY <2>0, <2>2, <3>1, <3>2 DEF Sweep!Scan, Sweep!reportVars, Dead
  <2>3. ASSUME NEW p \in Plans, Sweep!WorkerStart(p) PROVE SettledInv'
    BY <2>0, <2>3 DEF Sweep!WorkerStart, Sweep!reportVars, Dead
  <2>4. ASSUME NEW p \in Plans, Sweep!WorkerDone(p) PROVE SettledInv'
    BY <2>0, <2>4 DEF Sweep!WorkerDone, Sweep!WriteReport, Dead
  <2>5. ASSUME NEW p \in Plans, Sweep!WorkerFails(p) PROVE SettledInv'
    BY <2>0, <2>5 DEF Sweep!WorkerFails, Sweep!reportVars, Dead
  <2> QED
    BY <2>0, <2>1, <2>2, <2>3, <2>4, <2>5 DEF Sweep!SweepNext
<1> QED
  BY <1>1, <1>2 DEF SessionNext

\* NoPartialReport: in launch_fuzz.sh's session no partial batch is marked done,
\* if the grace period is longer than a batch with its kill time can be, and no
\* plan comes twice.
THEOREM ReportsComplete ==
  ASSUME ~ByHand, ~ReusePlans, ~RunDiff, Duration + KillTime < Grace
  PROVE  SessionSpec => []NoPartialReport
<1> DEFINE Inv == TimeInv /\ SettledInv
<1>1. SessionInit => Inv
  BY DEF SessionInit, Init, NoBatch, Sweep!SweepInit, TimeInv, SettledInv
<1>2. SessionInv /\ LastPassInv /\ Inv /\ [SessionNext]_sessionVars => Inv'
  <2> SUFFICES ASSUME SessionInv, LastPassInv, Inv, [SessionNext]_sessionVars PROVE Inv'
    OBVIOUS
  <2>1. CASE SessionNext
    <3>1. CASE LoopActs
      BY <2>1, <3>1, TimeNext, SettledNext DEF LoopActs, SessionInv
    <3>2. CASE SweepActs
      BY <2>1, <3>2, SettledNext DEF SweepActs, TimeInv, Alive, batchVars, corpusVars
    <3> QED
      BY <2>1, <3>1, <3>2 DEF SessionNext
  <2>2. CASE UNCHANGED sessionVars
    BY <2>2 DEF sessionVars, vars, sweepVars, loopVars, batchVars, corpusVars, reportVars, TimeInv,
                SettledInv, Alive, Dead
  <2> QED
    BY <2>1, <2>2
<1>3. Inv => NoPartialReport
  BY DEF SettledInv, NoPartialReport, ReportComplete
<1> QED
  BY <1>1, <1>2, <1>3, LastPass, PTL DEF SessionSpec

-----------------------------------------------------------------------------
(* Types.                                                                  *)

\* What SessionTypeOK needs beyond SessionInv: the workers saw as many files as
\* there can be, and directories do not go away.
SessionTypeInv ==
  /\ LoopTypeOK /\ ReportInv
  /\ seen \in [Plans -> 0 .. MaxFiles]
  /\ todo \subseteq dirs /\ working \subseteq dirs /\ failed \subseteq dirs
  /\ logged \in BOOLEAN

\* Directories are made, never removed.
LEMMA DirsStay == ASSUME Next PROVE dirs \subseteq dirs'
<1> USE DEF corpusVars
<1>1. CASE SupStep
  BY <1>1 DEF SupStep, DelayDone, Foreground, Spawn, NotePid, WaitDone, Trap
<1>2. CASE BatchStep
  <2>1. CASE Consult \/ BatchFails \/ Timeout \/ Reap \/ DiffStart \/ DiffDone \/ DiffSkipped
    BY <2>1 DEF Consult, BatchFails, Timeout, Reap, DiffStart, DiffDone, DiffSkipped
  <2>2. ASSUME NEW p \in Plans, StartFuzz(p) PROVE dirs \subseteq dirs'
    BY <2>2 DEF StartFuzz
  <2> QED
    BY <1>2, <2>1, <2>2 DEF BatchStep
<1>3. CASE StopStep \/ StopList
  BY <1>3 DEF StopStep, StopTerm, StopKill, StopSweep, StopList
<1>4. CASE Tick \/ Kill \/ \E b \in Batches : Write(b) \/ OrphanExits(b)
  BY <1>4 DEF Tick, Kill, Write, OrphanExits
<1> QED
  BY <1>1, <1>2, <1>3, <1>4 DEF Next

\* The sweep reads and writes the order of reports as the loop does.
LEMMA SameFeedback ==
  ASSUME NEW w, NEW p, NEW f, NEW more, NEW fails
  PROVE  /\ Sweep!Rewritten(w, p) = Rewritten(w, p)
         /\ Sweep!Results(f, p, more, fails) = Results(f, p, more, fails)
<1>1. Sweep!SelectInSeq(w, LAMBDA v : v = p) = SelectInSeq(w, LAMBDA v : v = p)
  BY DEF Sweep!SelectInSeq, SelectInSeq, Sweep!Min, Min
<1>2. Sweep!RemoveFirst(w, p) = RemoveFirst(w, p)
  BY <1>1 DEF Sweep!RemoveFirst, RemoveFirst, Sweep!RemoveAt, RemoveAt
<1> QED
  BY <1>2 DEF Sweep!Rewritten, Rewritten, Sweep!Results, Results

\* A worker's report, with as many files as the worker saw.
LEMMA WorkerDoneType ==
  ASSUME SessionInv, SessionTypeInv, SweepActs, NEW p \in Plans, Sweep!WorkerDone(p)
  PROVE  SessionTypeInv'
<1>1. ReportInv'
  <2>1. outcomes' \in Seq(Outcome)
    BY DEF SweepActs, SessionTypeInv, ReportInv
  <2>2. /\ reported' = reported \cup {p} /\ written' = Rewritten(written, p)
        /\ found' \in Results(found, p, seen[p] > covered[p], DiffFails)
    BY SameFeedback DEF Sweep!WorkerDone, Sweep!WriteReport
  <2> QED
    BY <2>1, <2>2, ReportWritten DEF SessionTypeInv
<1>2. covered' \in [Plans -> 0 .. MaxFiles]
  BY DEF Sweep!WorkerDone, SessionTypeInv, LoopTypeOK
<1>3. ReportType'
  BY <1>1, <1>2 DEF ReportType, ReportInv
<1>4. LoopTypeOK'
  BY <1>3, LoopTypeParts, LoopTypeFrame DEF SweepActs, SessionTypeInv
<1> QED
  BY <1>1, <1>4 DEF Sweep!WorkerDone, SweepActs, SessionTypeInv, corpusVars

LEMMA SweepType ==
  ASSUME SessionInv, SessionTypeInv, SweepActs
  PROVE  SessionTypeInv'
<1>1. ASSUME NEW p \in Plans, Sweep!WorkerDone(p) PROVE SessionTypeInv'
  BY <1>1, WorkerDoneType
<1>2. ASSUME UNCHANGED Sweep!reportVars PROVE LoopTypeOK' /\ ReportInv' /\ UNCHANGED <<files, dirs>>
  <2>1. UNCHANGED reportVars
    BY <1>2 DEF Sweep!reportVars, reportVars, SweepActs
  <2> QED
    BY <2>1, LoopTypeParts, LoopTypeFrame, ReportFrame DEF SweepActs, SessionTypeInv, corpusVars
<1>3. CASE Sweep!Check \/ Sweep!PassEnd \/ Sweep!WakeUp
  <2>1. UNCHANGED <<seen, todo, working, logged, failed, Sweep!reportVars>>
    BY <1>3 DEF Sweep!Check, Sweep!PassEnd, Sweep!WakeUp
  <2> QED
    BY <1>2, <2>1 DEF SessionTypeInv
<1>4. CASE Sweep!Scan
  <2>1. /\ UNCHANGED <<seen, working, Sweep!reportVars>>
        /\ todo' \subseteq dirs /\ failed' = {} /\ logged' \in BOOLEAN
    BY <1>4 DEF Sweep!Scan, SessionTypeInv
  <2> QED
    BY <1>2, <2>1 DEF SessionTypeInv
<1>5. ASSUME NEW p \in Plans, Sweep!WorkerStart(p) PROVE SessionTypeInv'
  <2>1. files[p] \in 0 .. MaxFiles
    BY DEF SessionTypeInv, LoopTypeOK
  <2>2. /\ UNCHANGED Sweep!reportVars /\ logged' = logged /\ failed' = failed
        /\ seen' \in [Plans -> 0 .. MaxFiles]
        /\ todo' \subseteq dirs /\ working' \subseteq dirs
    BY <1>5, <2>1 DEF Sweep!WorkerStart, SessionTypeInv
  <2> QED
    BY <1>2, <2>2 DEF SessionTypeInv
<1>6. ASSUME NEW p \in Plans, Sweep!WorkerFails(p) PROVE SessionTypeInv'
  <2>1. /\ UNCHANGED <<seen, todo, logged, Sweep!reportVars>>
        /\ working' \subseteq dirs /\ failed' \subseteq dirs
    BY <1>6 DEF Sweep!WorkerFails, SessionTypeInv
  <2> QED
    BY <1>2, <2>1 DEF SessionTypeInv
<1> QED
  BY <1>1, <1>3, <1>4, <1>5, <1>6 DEF SweepActs, Sweep!SweepNext

LEMMA SessionTypeNext ==
  ASSUME SessionInv, SessionTypeInv, [SessionNext]_sessionVars
  PROVE  SessionTypeInv'
<1>1. CASE LoopActs
  <2>1. ReportInv'
    BY <1>1, ReportNext DEF LoopActs, SessionInv, SessionTypeInv
  <2>2. LoopTypeOK'
    BY <1>1, <2>1, LoopTypeNext DEF LoopActs, SessionInv, SessionTypeInv
  <2> QED
    BY <1>1, <2>1, <2>2, DirsStay DEF LoopActs, sweepVars, SessionTypeInv
<1>2. CASE SweepActs
  BY <1>2, SweepType
<1>3. CASE UNCHANGED sessionVars
  <2>1. LoopTypeOK' /\ ReportInv' /\ UNCHANGED <<dirs, seen, todo, working, logged, failed>>
    BY <1>3, LoopTypeParts, LoopTypeFrame, ReportFrame
       DEF sessionVars, vars, sweepVars, SessionTypeInv, corpusVars
  <2> QED
    BY <2>1 DEF SessionTypeInv
<1> QED
  BY <1>1, <1>2, <1>3 DEF SessionNext

\* SessionTypeOK: also with the sweep writing reports between the steps of the
\* loop, each plan with a report has one place in the order of reports, every
\* report counts files that existed, and passes work on directories that exist.
THEOREM SessionTypeCorrect == SessionSpec => []SessionTypeOK
<1>1. SessionInit => SessionTypeInv
  <2>1. 0 \in 0 .. MaxFiles
    BY LoopAssumption
  <2> QED
    BY <2>1, LoopTypeInit, ReportInit DEF SessionInit, Sweep!SweepInit, SessionTypeInv
<1>2. SessionInv /\ SessionTypeInv => SessionTypeOK
  BY LoopAssumption DEF SessionInv, PassInv, SessionTypeInv, SessionTypeOK, Sweep!SweepTypeOK
<1> QED
  BY <1>1, <1>2, SessionTypeNext, SessionInductive, PTL DEF SessionSpec

=============================================================================
