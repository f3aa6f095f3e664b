-------------------------- MODULE Generators_proofs --------------------------
(* Proofs about the programs that make tests: the workers that store them, the *)
(* baseline's supervisor, FuzzyVM's generator and goevmlab's factories.      *)
EXTENDS Generators, Induction_proofs, FiniteSetTheorems

\* The run's behaviours are those of one program, while the others do nothing.
LEMMA OneTool == Spec => GenSpec /\ ProgSpec /\ StoreSpec /\ BaseSpec
<1>1. Init => GenInit /\ ProgInit /\ StoreInit /\ BaseInit
  BY DEF Init
<1>2. [Next]_vars => /\ [GenNext]_genVars /\ [ProgNext]_progVars
                     /\ [StoreNext]_storeVars /\ [BaseNext]_baseVars
  BY DEF Next, Ended, vars
<1> QED
  BY <1>1, <1>2, PTL DEF Spec, GenSpec, ProgSpec, StoreSpec, BaseSpec

-----------------------------------------------------------------------------
(* Storage: however many workers store however many tests, a file stays      *)
(* incomplete only by a kill or a failed write.                              *)

\* A worker past the generation of its test has one test in hand.
WorkerInv ==
  /\ at \in [Workers -> [pc : {"idle", "fill", "stat", "open", "encode"}, test : SUBSET Tests]]
  /\ \A w \in Workers : at[w].pc # "idle" => \E t \in Tests : at[w].test = {t}
  /\ file \in [Tests -> {"none", "partial", "full"}]

\* storeTest writes the file it has opened and no other, and only what it has
\* in hand.
LEMMA WorkerType == StoreSpec => []WorkerInv
<1>1. StoreInit => WorkerInv
  BY DEF StoreInit, WorkerInv, Idle
<1>2. WorkerInv /\ [StoreNext]_storeVars => WorkerInv'
  <2> SUFFICES ASSUME WorkerInv, [StoreNext]_storeVars PROVE WorkerInv'
    OBVIOUS
  <2> USE DEF WorkerInv, AtStep, Go, Return, Idle
  <2>1. CASE Kill
    BY <2>1 DEF Kill
  <2>2. CASE Restart
    BY <2>2 DEF Restart
  <2>3. ASSUME NEW w \in Workers, Generate(w) PROVE WorkerInv'
    BY <2>3 DEF Generate
  <2>4. ASSUME NEW w \in Workers, FillTest(w) PROVE WorkerInv'
    BY <2>4 DEF FillTest
  <2>5. ASSUME NEW w \in Workers, Stat(w) PROVE WorkerInv'
    BY <2>5 DEF Stat
  <2>6. ASSUME NEW w \in Workers, OpenFile(w) PROVE WorkerInv'
    BY <2>6 DEF OpenFile
  <2>7. ASSUME NEW w \in Workers, Encode(w) PROVE WorkerInv'
    BY <2>7 DEF Encode
  <2>8. CASE UNCHANGED storeVars
    BY <2>8 DEF storeVars
  <2> QED
    BY <2>1, <2>2, <2>3, <2>4, <2>5, <2>6, <2>7, <2>8 DEF StoreNext, Work
<1> QED
  BY <1>1, <1>2, PTL DEF StoreSpec

\* A worker that does not write leaves the writers and the files alone.
LEMMA NotWriting ==
  ASSUME WorkerInv, TornOnlyByKill, NEW w \in Workers, NEW new,
         at[w].pc # "encode", at' = [at EXCEPT ![w] = new], UNCHANGED <<file, torn>>
  PROVE  TornOnlyByKill'
<1> SUFFICES ASSUME NEW t \in Tests, file[t] = "partial", t \notin torn
             PROVE  \E v \in Workers : at'[v] = [pc |-> "encode", test |-> {t}]
  BY DEF TornOnlyByKill
<1>1. PICK v \in Workers : at[v] = [pc |-> "encode", test |-> {t}]
  BY DEF TornOnlyByKill
<1>2. v # w
  BY <1>1
<1> QED
  BY <1>1, <1>2 DEF WorkerInv

\* TornOnlyByKill: the check of storeTest before it opens a file can be too early,
\* so that a worker empties a file another has completed; it writes it again, and
\* only a kill or a failed write can stop it.
THEOREM FilesTornOnlyByKill == Spec => []TornOnlyByKill
<1>1. StoreInit => TornOnlyByKill
  BY DEF StoreInit, TornOnlyByKill
<1>2. TornOnlyByKill /\ WorkerInv /\ [StoreNext]_storeVars => TornOnlyByKill'
  <2> SUFFICES ASSUME TornOnlyByKill, WorkerInv, [StoreNext]_storeVars PROVE TornOnlyByKill'
    OBVIOUS
  <2>1. CASE Kill
    BY <2>1 DEF Kill, TornOnlyByKill
  <2>2. CASE Restart
    BY <2>2 DEF Restart, TornOnlyByKill
  <2>3. ASSUME NEW w \in Workers, Generate(w) PROVE TornOnlyByKill'
    BY <2>3, NotWriting DEF Generate, AtStep
  <2>4. ASSUME NEW w \in Workers, FillTest(w) PROVE TornOnlyByKill'
    <3>1. PICK new : at' = [at EXCEPT ![w] = new]
      BY <2>4 DEF FillTest, Go, Return
    <3> QED
      BY <2>4, <3>1, NotWriting DEF FillTest, AtStep
  <2>5. ASSUME NEW w \in Workers, Stat(w) PROVE TornOnlyByKill'
    <3>1. PICK new : at' = [at EXCEPT ![w] = new]
      BY <2>5 DEF Stat, Go, Return
    <3> QED
      BY <2>5, <3>1, NotWriting DEF Stat, AtStep
  <2>6. ASSUME NEW w \in Workers, OpenFile(w) PROVE TornOnlyByKill'
    <3>1. PICK t \in Tests : at[w].test = {t}
      BY <2>6 DEF OpenFile, AtStep, WorkerInv
    <3>2. at'[w] = [pc |-> "encode", test |-> {t}]
      <4>1. at'[w] = [at[w] EXCEPT !.pc = "encode"]
        BY <2>6 DEF OpenFile, Go, WorkerInv
      <4>2. at[w] = [pc |-> at[w].pc, test |-> {t}]
        BY <3>1 DEF WorkerInv
      <4> QED
        BY <4>1, <4>2
    <3>3. file' = [file EXCEPT ![t] = "partial"]
      BY <2>6, <3>1 DEF OpenFile
    <3> SUFFICES ASSUME NEW u \in Tests, file'[u] = "partial", u \notin torn'
                 PROVE  \E v \in Workers : at'[v] = [pc |-> "encode", test |-> {u}]
      BY DEF TornOnlyByKill
    <3>4. CASE u = t
      BY <3>2, <3>4
    <3>5. CASE u # t
      <4>1. PICK v \in Workers : at[v] = [pc |-> "encode", test |-> {u}]
        BY <2>6, <3>3, <3>5 DEF TornOnlyByKill, WorkerInv, OpenFile
      <4>2. v # w
        BY <4>1, <2>6 DEF OpenFile, AtStep
      <4> QED
        BY <4>1, <4>2, <2>6 DEF OpenFile, Go, WorkerInv
    <3> QED
      BY <3>4, <3>5
  <2>7. ASSUME NEW w \in Workers, Encode(w) PROVE TornOnlyByKill'
    <3>1. PICK t \in Tests : at[w].test = {t}
      BY <2>7 DEF Encode, AtStep, WorkerInv
    <3>2. \/ file' = [file EXCEPT ![t] = "full"] /\ torn' = torn
          \/ file' = file /\ torn' = IF file[t] = "partial" THEN torn \cup {t} ELSE torn
      BY <2>7, <3>1 DEF Encode
    <3> SUFFICES ASSUME NEW u \in Tests, file'[u] = "partial", u \notin torn'
                 PROVE  \E v \in Workers : at'[v] = [pc |-> "encode", test |-> {u}]
      BY DEF TornOnlyByKill
    <3>3. u # t /\ file[u] = "partial" /\ u \notin torn
      BY <3>2 DEF WorkerInv
    <3>4. PICK v \in Workers : at[v] = [pc |-> "encode", test |-> {u}]
      BY <3>3 DEF TornOnlyByKill
    <3>5. v # w
      BY <3>1, <3>3, <3>4
    <3> QED
      BY <3>4, <3>5, <2>7 DEF Encode, Return, WorkerInv
  <2>8. CASE UNCHANGED storeVars
    BY <2>8 DEF storeVars, TornOnlyByKill
  <2> QED
    BY <2>1, <2>2, <2>3, <2>4, <2>5, <2>6, <2>7, <2>8 DEF StoreNext, Work
<1> QED
  BY <1>1, <1>2, WorkerType, OneTool, PTL DEF StoreSpec

-----------------------------------------------------------------------------
(* Baseline: the watcher saves the crashers of FuzzyVM before its restart      *)
(* wipes them, if the pause is longer than the watcher's sleep.              *)

BaseType ==
  /\ boss \in {"off", "wipe", "launch", "wait", "ended", "pause"}
  /\ left \in Nat
  /\ nap \in {0, 1}
  /\ watches \in BOOLEAN

\* What the watcher is there for and has not moved yet.
Guarded == (testdata \ saved) \ exposed

\* There is something to move only from the end of a FuzzyVM to the next round of
\* the watcher, which comes before the pause is over.
WatchInv ==
  /\ BaseType
  /\ CrashersKept
  /\ Guarded # {} =>
       /\ watches
       /\ boss \in {"ended", "pause"}
       /\ boss = "pause" => left > nap

\* WatchInv is inductive when the pause of start_baseline.sh, five seconds, is
\* longer than the sleep of crasher_watcher.sh, one second.
LEMMA WatchInductive ==
  ASSUME RestartPause >= 2
  PROVE  BaseSpec => []WatchInv
<1>1. BaseInit => WatchInv
  <2> SUFFICES ASSUME BaseInit PROVE WatchInv
    OBVIOUS
  <2>1. BaseType
    BY DEF BaseInit, BaseType
  <2>2. Guarded = {} /\ CrashersKept
    BY DEF BaseInit, Guarded, CrashersKept
  <2> QED
    BY <2>1, <2>2 DEF WatchInv
<1>2. WatchInv /\ [BaseNext]_baseVars => WatchInv'
  <2> SUFFICES ASSUME WatchInv, [BaseNext]_baseVars PROVE WatchInv'
    OBVIOUS
  <2> USE DEF WatchInv, BaseType, Guarded, CrashersKept, bossVars, watchVars, crashVars
  <2>1. CASE Launch
    BY <2>1 DEF Launch
  <2>2. CASE Wipe
    BY <2>2 DEF Wipe
  <2>3. CASE StartFuzzyVM
    BY <2>3 DEF StartFuzzyVM
  <2>4. CASE FuzzyVMEnds
    BY <2>4 DEF FuzzyVMEnds
  <2>5. CASE OrphanEnds
    BY <2>5 DEF OrphanEnds
  <2>6. CASE StartPause
    BY <2>6, BaselineAssumption DEF StartPause, Pause
  <2>7. CASE PauseOver
    BY <2>7 DEF PauseOver, Ends
  <2>8. CASE StopLater
    BY <2>8 DEF StopLater
  <2>9. CASE Stop
    BY <2>9 DEF Stop, Ends
  <2>10. CASE StartWatcher
    BY <2>10 DEF StartWatcher
  <2>11. CASE Poll
    BY <2>11 DEF Poll
  <2>12. CASE Tock
    BY <2>12 DEF Tock
  <2>13. CASE UNCHANGED baseVars
    BY <2>13 DEF baseVars
  <2> QED
    BY <2>1, <2>2, <2>3, <2>4, <2>5, <2>6, <2>7, <2>8, <2>9, <2>10, <2>11, <2>12, <2>13 DEF BaseNext
<1> QED
  BY <1>1, <1>2, PTL DEF BaseSpec

\* CrashersKept: while the watcher runs, no restart of FuzzyVM wipes a crasher of
\* the FuzzyVM before that is not saved, whatever orphaned go tests store meanwhile.
THEOREM CrashersAreKept ==
  ASSUME RestartPause >= 2
  PROVE  Spec => []CrashersKept
BY WatchInductive, OneTool, PTL DEF WatchInv

-----------------------------------------------------------------------------
(* The filler: what is read of a seed, and when it is used up.               *)

LEMMA Min2 ==
  ASSUME NEW a \in Int, NEW b \in Int
  PROVE  Min({a, b}) = IF a <= b THEN a ELSE b
BY DEF Min

LEMMA ModBelow ==
  ASSUME NEW n \in Nat \ {0}, NEW x \in Nat
  PROVE  x % n \in 0 .. n - 1 /\ (x < n => x % n = x)
OBVIOUS

\* A filler of length n: the pointer is where the reading has come to until it
\* starts over, and that is when the last byte is read.
Well(n) ==
  {f \in [len : {n}, at : 0 .. n - 1, used : BOOLEAN, read : 0 .. n] :
     (f.used <=> f.read = n) /\ (f.used \/ f.read = f.at)}

Filler(n) == [len : {n}, at : 0 .. n - 1, used : BOOLEAN, read : 0 .. n]

LEMMA WellIs ==
  ASSUME NEW n \in Nat \ {0}, NEW f
  PROVE  f \in Well(n) <=> /\ f \in Filler(n)
                           /\ f.used <=> f.read = n
                           /\ f.used \/ f.read = f.at
BY Zenon DEF Well, Filler

LEMMA IncWell ==
  ASSUME NEW n \in Nat \ {0}, NEW f \in Well(n), NEW i \in Nat
  PROVE  incPointer(f, i) \in Well(n)
<1> DEFINE g == incPointer(f, i)
           a == (f.at + i) % f.len
           r == Min({f.read + i, f.len})
           u == f.used \/ Reaches(f, i)
<1>1. /\ f \in Filler(n)
      /\ f.used <=> f.read = n
      /\ f.used \/ f.read = f.at
  BY WellIs
<1>2. f.len = n /\ f.at \in 0 .. n - 1 /\ f.read \in 0 .. n /\ f.used \in BOOLEAN
  BY <1>1 DEF Filler
<1>3. r = IF f.read + i <= n THEN f.read + i ELSE n
  BY <1>2, Min2
<1>4. a \in 0 .. n - 1 /\ (f.at + i < n => a = f.at + i)
  <2>1. PICK x \in Nat : x = f.at + i
    BY <1>2
  <2>2. a = x % n
    BY <1>2, <2>1
  <2> HIDE DEF a
  <2> QED
    BY <2>1, <2>2, ModBelow
<1>5. u <=> f.used \/ f.at + i >= n
  BY <1>2 DEF Reaches
<1>6. g = [f EXCEPT !.used = u, !.at = a, !.read = r]
  BY Zenon DEF incPointer
<1>7. u \in BOOLEAN /\ r \in 0 .. n
  BY <1>2, <1>3
<1> HIDE DEF g, a, r, u
<1>8. g \in Filler(n) /\ g.used = u /\ g.at = a /\ g.read = r
  BY <1>1, <1>4, <1>6, <1>7 DEF Filler
<1>9. (u <=> r = n) /\ (u \/ r = a)
  BY <1>1, <1>2, <1>3, <1>4, <1>5
<1>10. g \in Well(n)
  BY <1>8, <1>9, WellIs
<1> QED
  BY <1>10 DEF g

LEMMA ReadWell ==
  ASSUME NEW n \in Nat \ {0}, NEW f \in Well(n)
  PROVE  ReadByte(f) \in Well(n) /\ \A k \in Nat : ByteSlice(f, k) \in Well(n)
<1>1. ReadByte(f) \in Well(n)
  BY IncWell DEF ReadByte
<1>2. ASSUME NEW k \in Nat PROVE ByteSlice(f, k) \in Well(n)
  <2> DEFINE g == [f EXCEPT !.at = 0, !.used = TRUE, !.read = f.len]
  <2>1. f \in Filler(n) /\ f.len = n
    BY WellIs DEF Filler
  <2>2. g \in Filler(n) /\ g.used /\ g.read = n
    <3>1. PICK m, u, a : m = f.len /\ u = TRUE /\ a = 0
      OBVIOUS
    <3>2. g = [f EXCEPT !.used = u, !.at = a, !.read = m]
      BY <3>1
    <3> HIDE DEF g
    <3>3. m \in 0 .. n /\ m = n /\ u \in BOOLEAN /\ a \in 0 .. n - 1
      BY <2>1, <3>1
    <3>4. g \in Filler(n) /\ g.used = u /\ g.read = m
      BY <2>1, <3>2, <3>3 DEF Filler
    <3> QED
      BY <3>1, <3>3, <3>4
  <2>3. g \in Well(n)
    BY <2>2, WellIs
  <2>4. incPointer(g, k) \in Well(n) /\ incPointer(f, k) \in Well(n)
    BY <2>3, IncWell
  <2> QED
    BY <2>4, Zenon DEF ByteSlice
<1> QED
  BY <1>1, <1>2

\* Consume, as a function of the sets of reads that are done.
IsConsume(g, f, reads) ==
  g = [s \in SUBSET (DOMAIN reads) |->
         IF s = {} THEN f
         ELSE IF reads[Max(s)] = 0 THEN ReadByte(g[s \ {Max(s)}])
              ELSE ByteSlice(g[s \ {Max(s)}], reads[Max(s)])]

LEMMA ConsumeWell ==
  ASSUME NEW n \in Nat \ {0}, NEW f \in Well(n), NEW reads \in Seq(Nat)
  PROVE  Consume(f, reads) \in Well(n)
<1> DEFINE N == Len(reads)
           F == [p \in (1 .. N) \X Well(n) |->
                   IF reads[p[1]] = 0 THEN ReadByte(p[2]) ELSE ByteSlice(p[2], reads[p[1]])]
           g == CHOOSE g : IsConsume(g, f, reads)
<1>1. N \in Nat /\ DOMAIN reads = 1 .. N
  OBVIOUS
<1>2. IsRule(F, f, N, Well(n))
  <2>1. ASSUME NEW p \in (1 .. N) \X Well(n)
        PROVE  ReadByte(p[2]) \in Well(n) /\ ByteSlice(p[2], reads[p[1]]) \in Well(n)
    <3>1. p[2] \in Well(n) /\ reads[p[1]] \in Nat
      OBVIOUS
    <3> QED
      BY <3>1, ReadWell
  <2> QED
    BY <2>1 DEF IsRule
<1>3. Consume(f, reads) = g[DOMAIN reads]
  BY Zenon DEF Consume, FoldLeft, MapThenFoldSet, IsConsume
<1>4. PICK it : IsIter(it, F, f, N) /\ \A s \in SUBSET (1 .. N) : it[s] \in Well(n)
  <2> HIDE DEF N, F
  <2> QED
    BY <1>1, <1>2, IterExists
<1>5. IsConsume(it, f, reads)
  <2>1. ASSUME NEW s \in SUBSET (1 .. N), s # {}
        PROVE  F[<<Max(s), it[s \ {Max(s)}]>>]
                 = IF reads[Max(s)] = 0 THEN ReadByte(it[s \ {Max(s)}])
                   ELSE ByteSlice(it[s \ {Max(s)}], reads[Max(s)])
    <3>1. PICK m, v : m = Max(s) /\ v = it[s \ {Max(s)}]
      OBVIOUS
    <3>2. m \in 1 .. N /\ v \in Well(n)
      BY <1>1, <1>4, <2>1, <3>1, MaxOfSome
    <3>3. F[<<m, v>>] = IF reads[m] = 0 THEN ReadByte(v) ELSE ByteSlice(v, reads[m])
      BY <3>2
    <3> HIDE DEF F
    <3> QED
      BY <3>1, <3>3
  <2> HIDE DEF F, N
  <2> QED
    BY <1>1, <1>4, <2>1 DEF IsConsume, IsIter
<1>6. IsConsume(g, f, reads)
  BY <1>5
<1> HIDE DEF g
<1>7. g[{}] = f
  BY <1>6 DEF IsConsume
<1>8. ASSUME NEW s \in SUBSET (1 .. N), s # {}, g[s \ {Max(s)}] \in Well(n)
      PROVE  g[s] = F[<<Max(s), g[s \ {Max(s)}]>>]
  <2>1. PICK m, v : m = Max(s) /\ v = g[s \ {Max(s)}]
    OBVIOUS
  <2>2. m \in 1 .. N /\ v \in Well(n)
    BY <1>1, <1>8, <2>1, MaxOfSome
  <2>3. F[<<m, v>>] = IF reads[m] = 0 THEN ReadByte(v) ELSE ByteSlice(v, reads[m])
    BY <2>2
  <2>4. g[s] = IF reads[m] = 0 THEN ReadByte(v) ELSE ByteSlice(v, reads[m])
    BY <1>1, <1>6, <1>8, <2>1 DEF IsConsume
  <2> HIDE DEF F
  <2> QED
    BY <2>1, <2>3, <2>4
<1> HIDE DEF F, N
<1>9. Follows(g, F, f, N, Well(n))
  BY <1>7, <1>8 DEF Follows
<1>10. EndsTrace(g[1 .. N], F, f, N, Well(n))
  BY <1>2, <1>9, IterTrace
<1> QED
  BY <1>1, <1>3, <1>10 DEF EndsTrace

\* Outcomes, as a function of the sets of items that are read.
After1(fs, item) == UNION {{Consume(g, reads) : reads \in item} : g \in fs}
IsOutcomes(g, f, items) ==
  g = [s \in SUBSET (DOMAIN items) |->
         IF s = {} THEN {f} ELSE After1(g[s \ {Max(s)}], items[Max(s)])]

LEMMA OutcomesWell ==
  ASSUME NEW n \in Nat \ {0}, NEW f \in Well(n), NEW items \in Seq(SUBSET Seq(Nat))
  PROVE  Outcomes(f, items) \subseteq Well(n)
<1> DEFINE N == Len(items)
           V == SUBSET Well(n)
           F == [p \in (1 .. N) \X V |-> After1(p[2], items[p[1]])]
           g == CHOOSE g : IsOutcomes(g, f, items)
<1>1. N \in Nat /\ DOMAIN items = 1 .. N
  OBVIOUS
<1>2. IsRule(F, {f}, N, V)
  <2>1. ASSUME NEW p \in (1 .. N) \X V PROVE After1(p[2], items[p[1]]) \in V
    <3>1. p[2] \subseteq Well(n) /\ items[p[1]] \subseteq Seq(Nat)
      OBVIOUS
    <3> QED
      BY <3>1, ConsumeWell DEF After1
  <2> HIDE DEF V, N
  <2>2. {f} \in V
    BY DEF V
  <2> QED
    BY <1>1, <2>1, <2>2 DEF IsRule
<1>3. Outcomes(f, items) = g[DOMAIN items]
  BY Zenon DEF Outcomes, FoldLeft, MapThenFoldSet, IsOutcomes, After1
<1>4. PICK it : IsIter(it, F, {f}, N) /\ \A s \in SUBSET (1 .. N) : it[s] \in V
  <2> HIDE DEF N, F, V
  <2> QED
    BY <1>2, IterExists
<1> HIDE DEF V
<1>5. IsOutcomes(it, f, items)
  <2>1. ASSUME NEW s \in SUBSET (1 .. N), s # {}
        PROVE  F[<<Max(s), it[s \ {Max(s)}]>>] = After1(it[s \ {Max(s)}], items[Max(s)])
    <3>1. PICK m, v : m = Max(s) /\ v = it[s \ {Max(s)}]
      OBVIOUS
    <3>2. m \in 1 .. N /\ v \in V
      BY <1>1, <1>4, <2>1, <3>1, MaxOfSome
    <3>3. F[<<m, v>>] = After1(v, items[m])
      BY <3>2
    <3> HIDE DEF F
    <3> QED
      BY <3>1, <3>3
  <2> HIDE DEF F, N
  <2> QED
    BY <1>1, <1>4, <2>1 DEF IsOutcomes, IsIter
<1>6. IsOutcomes(g, f, items)
  BY <1>5
<1> HIDE DEF g
<1>7. g[{}] = {f}
  BY <1>6 DEF IsOutcomes
<1>8. ASSUME NEW s \in SUBSET (1 .. N), s # {}, g[s \ {Max(s)}] \in V
      PROVE  g[s] = F[<<Max(s), g[s \ {Max(s)}]>>]
  <2>1. PICK m, v : m = Max(s) /\ v = g[s \ {Max(s)}]
    OBVIOUS
  <2>2. m \in 1 .. N /\ v \in V
    BY <1>1, <1>8, <2>1, MaxOfSome
  <2>3. F[<<m, v>>] = After1(v, items[m])
    BY <2>2
  <2>4. g[s] = After1(v, items[m])
    BY <1>1, <1>6, <1>8, <2>1 DEF IsOutcomes
  <2> HIDE DEF F
  <2> QED
    BY <2>1, <2>3, <2>4
<1> HIDE DEF F, N
<1>9. Follows(g, F, {f}, N, V)
  BY <1>7, <1>8 DEF Follows
<1>10. EndsTrace(g[1 .. N], F, {f}, N, V)
  BY <1>2, <1>9, IterTrace
<1>11. g[1 .. N] \in V
  BY <1>1, <1>10 DEF EndsTrace
<1> QED
  BY <1>1, <1>3, <1>11 DEF V

Items == SUBSET Seq(Nat)

LEMMA ItemsTyped ==
  /\ B \in Items /\ MemInt \in Items /\ GasInt \in Items /\ ByteSlice256 \in Items
  /\ \A n \in Nat : S(n) \in Items
  /\ KeyReads \in Items
<1>1. \A a, b \in Nat : <<a>> \in Seq(Nat) /\ <<a, b>> \in Seq(Nat)
  OBVIOUS
<1>2. B \in Items /\ MemInt \in Items /\ GasInt \in Items
  BY <1>1 DEF B, MemInt, GasInt, Items
<1>3. \A n \in Nat : S(n) \in Items
  BY <1>1 DEF S, Items
<1>4. ByteSlice256 \in Items
  BY <1>1, GeneratorAssumption DEF ByteSlice256, Items
<1> QED
  BY <1>2, <1>3, <1>4, GeneratorAssumption DEF Items

LEMMA RepeatTyped ==
  ASSUME NEW s \in Seq(Nat), NEW n \in Nat
  PROVE  Repeat(s, n) \in Seq(Nat)
<1>1. [i \in 1 .. n |-> s] \in Seq(Seq(Nat))
  OBVIOUS
<1> QED
  BY <1>1, FlattenType DEF Repeat

LEMMA CallTyped ==
  /\ CallRandomizer \in Seq(Items)
  /\ \A gasFirst \in Seq(Items) : Call(gasFirst) \in Seq(Items)
<1>1. B \cup {<<0>> \o r : r \in MemInt} \in Items
  <2>1. \A r \in Seq(Nat) : <<0>> \o r \in Seq(Nat)
    OBVIOUS
  <2>2. B \subseteq Seq(Nat) /\ MemInt \subseteq Seq(Nat)
    BY ItemsTyped DEF Items
  <2> QED
    BY <2>1, <2>2 DEF Items
<1>2. CallRandomizer \in Seq(Items)
  <2>1. B \in Items
    BY ItemsTyped
  <2> HIDE DEF Items
  <2> QED
    BY <1>1, <2>1 DEF CallRandomizer
<1>3. ASSUME NEW gasFirst \in Seq(Items) PROVE Call(gasFirst) \in Seq(Items)
  <2>1. GasInt \in Items /\ S(4) \in Items
    BY ItemsTyped
  <2>2. <<GasInt, S(4)>> \in Seq(Items)
    BY <2>1
  <2> QED
    BY <1>2, <2>2 DEF Call
<1> QED
  BY <1>2, <1>3

LEMMA PrecompilesTyped ==
  ASSUME NEW items \in CallPrecompile
  PROVE  items \in Seq(Items)
<1>1. ecdsaCaller \in Seq(Items)
  <2>1. <<KeyReads, S(32)>> \in Seq(Items)
    <3>1. KeyReads \in Items /\ S(32) \in Items
      BY ItemsTyped
    <3> QED
      BY <3>1
  <2> QED
    BY <2>1, CallTyped DEF ecdsaCaller
<1>2. dataCaller \in Seq(Items) /\ bigModExpCaller \in Seq(Items)
  <2>1. <<ByteSlice256>> \in Seq(Items) /\ <<ByteSlice256, ByteSlice256, ByteSlice256>> \in Seq(Items)
    BY ItemsTyped
  <2> QED
    BY <2>1, CallTyped DEF dataCaller, bigModExpCaller
<1>3. bn256Caller \in Seq(Items)
  <2>1. S(4) \in Items
    BY ItemsTyped
  <2>2. <<S(4), S(4)>> \in Seq(Items)
    BY <2>1
  <2> QED
    BY <2>2, CallTyped DEF bn256Caller
<1>4. bn256PairingCaller \in Seq(Items)
  <2> DEFINE i1 == {<<0>> \o Repeat(<<4, 4>>, n) : n \in 0 .. MaxPairs}
             i2 == {<<0>>} \cup {<<0>> \o Repeat(r, n) \o <<0>> : r \in Bloat, n \in 0 .. MaxPairs}
  <2>1. \A n \in 0 .. MaxPairs : n \in Nat
    BY GeneratorAssumption
  <2>2. <<4, 4>> \in Seq(Nat) /\ \A r \in Bloat : r \in Seq(Nat)
    BY DEF Bloat
  <2>3. \A r \in Seq(Nat) : <<0>> \o r \in Seq(Nat) /\ <<0>> \o r \o <<0>> \in Seq(Nat)
    OBVIOUS
  <2>4. i1 \in Items
    <3>1. ASSUME NEW n \in 0 .. MaxPairs PROVE <<0>> \o Repeat(<<4, 4>>, n) \in Seq(Nat)
      BY <2>1, <2>2, <2>3, RepeatTyped
    <3> QED
      BY <3>1, Zenon DEF Items
  <2>5. i2 \in Items
    <3> DEFINE long(r, n) == <<0>> \o Repeat(r, n) \o <<0>>
    <3>1. \A r \in Bloat : \A n \in 0 .. MaxPairs : long(r, n) \in Seq(Nat)
      BY <2>1, <2>2, <2>3, RepeatTyped
    <3>2. <<0>> \in Seq(Nat)
      OBVIOUS
    <3>3. i2 = {<<0>>} \cup {long(r, n) : r \in Bloat, n \in 0 .. MaxPairs}
      OBVIOUS
    <3> HIDE DEF long, i2
    <3> DEFINE longs == {long(r, n) : r \in Bloat, n \in 0 .. MaxPairs}
    <3>4. \A x \in longs : x \in Seq(Nat)
      BY <3>1
    <3>5. i2 = {<<0>>} \cup longs
      BY <3>3
    <3> HIDE DEF longs
    <3> QED
      BY <3>2, <3>4, <3>5 DEF Items
  <2> HIDE DEF i1, i2
  <2>6. <<i1, i2>> \in Seq(Items)
    BY <2>4, <2>5
  <2>7. Call(<<i1, i2>>) \in Seq(Items)
    BY <2>6, CallTyped
  <2> QED
    BY <2>7 DEF bn256PairingCaller, i1, i2
<1>5. blake2fCaller \in Seq(Items)
  <2>1. {Repeat(<<8>>, 26)} \in Items
    <3>1. <<8>> \in Seq(Nat) /\ 26 \in Nat
      OBVIOUS
    <3> QED
      BY <3>1, RepeatTyped DEF Items
  <2>2. {<<0, 0>>} \in Items /\ S(4) \in Items
    <3>1. <<0, 0>> \in Seq(Nat)
      OBVIOUS
    <3> QED
      BY <3>1, ItemsTyped DEF Items
  <2>3. <<S(4), {Repeat(<<8>>, 26)}, {<<0, 0>>}>> \in Seq(Items)
    <3> HIDE DEF Items
    <3> QED
      BY <2>1, <2>2
  <2> QED
    BY <2>3, CallTyped DEF blake2fCaller
<1>6. PICK c : c \in Seq(Items) /\ items = <<B>> \o c
  BY <1>1, <1>2, <1>3, <1>4, <1>5 DEF CallPrecompile
<1>7. <<B>> \in Seq(Items)
  BY ItemsTyped
<1> QED
  BY <1>6, <1>7

LEMMA ReadsTyped ==
  ASSUME NEW name \in Appending, NEW items \in Reads(name)
  PROVE  items \in Seq(Items)
<1> USE ItemsTyped
<1> HIDE DEF Items
<1>1. CASE name = "createCallRNG"
  <2>1. <<ByteSlice256, B, B>> \in Seq(Items)
    OBVIOUS
  <2> QED
    BY <1>1, <2>1 DEF Reads, createCallRNGReads
<1>2. CASE name = "randomCall"
  <2>1. {<<0, 2>>, <<0, 20>>} \in Items
    BY DEF Items
  <2>2. S(2) \in Items
    OBVIOUS
  <2>3. <<{<<0, 2>>, <<0, 20>>}, GasInt, S(2), MemInt, MemInt, MemInt, MemInt>> \in Seq(Items)
    BY <2>1, <2>2
  <2>4. randomCallReads \in Seq(Items)
    BY <2>3, CallTyped DEF randomCallReads
  <2> QED
    BY <1>2, <2>4 DEF Reads
<1>3. CASE name = "callPrecompile"
  BY <1>3, PrecompilesTyped DEF Reads
<1>4. CASE name \notin {"createCallRNG", "randomCall", "callPrecompile"}
  <2>1. items = basicReads(name)
    BY <1>4 DEF Reads
  <2>2. name \in {"opcode", "memStorage", "mstore", "sstore", "tstore", "returnData", "return", "push",
                  "hashAndStore", "mload", "sload", "tload", "blobhash", "validOpcode"}
    BY <1>4 DEF Appending, Names, allStrategies, basicStrategies, callStrategies, jumpStrategies, Strategy
  <2> QED
    BY <2>1, <2>2 DEF basicReads
<1> QED
  BY <1>1, <1>2, <1>3, <1>4

-----------------------------------------------------------------------------
(* The jump table: a destination that insertJumps takes leaves the table, and *)
(* a jump gets one that it suits.                                            *)

Dest == [pc : Nat, jumpdest : Nat]
Hole == [pc : Nat, cond : 0 .. 4]
Link == [at : Nat, to : {<<>>} \cup {<<d>> : d \in Dest}]
Table == [dests : Seq(Dest), set : Seq(Link)]

Count(s, x) == Cardinality({i \in DOMAIN s : s[i] = x})

LEMMA CountIs ==
  ASSUME NEW T, NEW s \in Seq(T), NEW x
  PROVE  Count(s, x) \in Nat /\ IsFiniteSet({i \in DOMAIN s : s[i] = x})
<1>1. IsFiniteSet(1 .. Len(s))
  BY FS_Interval
<1>2. {i \in DOMAIN s : s[i] = x} \subseteq 1 .. Len(s)
  OBVIOUS
<1>3. IsFiniteSet({i \in DOMAIN s : s[i] = x})
  BY <1>1, <1>2, FS_Subset
<1> QED
  BY <1>3, FS_CardinalityType DEF Count

LEMMA CountSome ==
  ASSUME NEW T, NEW s \in Seq(T), NEW x, Count(s, x) # 0
  PROVE  \E i \in DOMAIN s : s[i] = x
<1>1. {i \in DOMAIN s : s[i] = x} # {}
  BY FS_EmptySet DEF Count
<1> QED
  BY <1>1

LEMMA CountAppend ==
  ASSUME NEW T, NEW s \in Seq(T), NEW y \in T, NEW x
  PROVE  Count(Append(s, y), x) = Count(s, x) + (IF y = x THEN 1 ELSE 0)
<1> DEFINE L == Len(s)
           old == {i \in DOMAIN s : s[i] = x}
           s2 == Append(s, y)
           new == {i \in DOMAIN s2 : s2[i] = x}
<1>1. L \in Nat /\ DOMAIN s = 1 .. L /\ DOMAIN s2 = 1 .. L + 1 /\ s2[L + 1] = y
      /\ \A i \in 1 .. L : s2[i] = s[i]
  OBVIOUS
<1>2. IsFiniteSet(old) /\ Cardinality(old) \in Nat
  BY CountIs DEF Count
<1> HIDE DEF s2, L
<1>3. CASE y = x
  <2>1. new = old \cup {L + 1} /\ L + 1 \notin old
    BY <1>1, <1>3
  <2>2. Cardinality(new) = Cardinality(old) + 1
    BY <1>2, <2>1, FS_AddElement
  <2> QED
    BY <1>3, <2>2 DEF Count, s2
<1>4. CASE y # x
  <2>1. new = old
    BY <1>1, <1>4
  <2>2. Count(Append(s, y), x) = Cardinality(new) /\ Count(s, x) = Cardinality(old)
    BY DEF Count, s2
  <2> HIDE DEF old, new
  <2> QED
    BY <1>2, <1>4, <2>1, <2>2
<1> QED
  BY <1>3, <1>4

\* rem takes one destination out of the table, wherever it is.
LEMMA RemIs ==
  ASSUME NEW T, NEW s \in Seq(T), NEW i \in DOMAIN s
  PROVE  /\ rem(s, i) \in Seq(T)
         /\ Len(rem(s, i)) = Len(s) - 1
         /\ \A k \in 1 .. Len(s) - 1 : rem(s, i)[k] = IF k = i THEN s[Len(s)] ELSE s[k]
<1> DEFINE L == Len(s)
           r == [s EXCEPT ![i] = s[L]]
<1>1. L \in Nat \ {0} /\ i \in 1 .. L /\ L \in 1 .. L /\ DOMAIN s = 1 .. L
  OBVIOUS
<1>2. r \in Seq(T) /\ Len(r) = L /\ \A k \in 1 .. L : r[k] = IF k = i THEN s[L] ELSE s[k]
  <2>1. s[L] \in T
    BY <1>1
  <2> QED
    BY <1>1, <2>1
<1>3. rem(s, i) = SubSeq(r, 1, Len(r) - 1)
  BY DEF rem, Front, Last, ReplaceAt
<1> HIDE DEF r, L
<1>4. /\ SubSeq(r, 1, L - 1) \in Seq(T)
      /\ Len(SubSeq(r, 1, L - 1)) = L - 1
      /\ \A k \in 1 .. L - 1 : SubSeq(r, 1, L - 1)[k] = r[k]
  BY <1>1, <1>2
<1> QED
  BY <1>1, <1>2, <1>3, <1>4 DEF L

LEMMA CountRem ==
  ASSUME NEW T, NEW s \in Seq(T), NEW i \in DOMAIN s, NEW x
  PROVE  Count(rem(s, i), x) = Count(s, x) - (IF s[i] = x THEN 1 ELSE 0)
<1> DEFINE L == Len(s)
           r == rem(s, i)
           old == {k \in DOMAIN s : s[k] = x}
           rest == {k \in (1 .. L) \ {i, L} : s[k] = x}
           new == {k \in DOMAIN r : r[k] = x}
<1>1. /\ L \in Nat \ {0} /\ i \in 1 .. L /\ DOMAIN s = 1 .. L
      /\ DOMAIN r = 1 .. L - 1
      /\ \A k \in 1 .. L - 1 : r[k] = IF k = i THEN s[L] ELSE s[k]
  BY RemIs
<1> HIDE DEF r, L
<1>2. IsFiniteSet(rest) /\ Cardinality(rest) \in Nat
  <2>1. rest \subseteq old
    BY <1>1
  <2>2. IsFiniteSet(old)
    BY CountIs
  <2>3. IsFiniteSet(rest)
    BY <2>1, <2>2, FS_Subset
  <2> HIDE DEF rest
  <2> QED
    BY <2>3, FS_CardinalityType
<1>3. Count(s, x) = Cardinality(old) /\ Count(r, x) = Cardinality(new)
  BY DEF Count
<1>4. CASE i = L
  <2>1. new = rest
    BY <1>1, <1>4
  <2>2. CASE s[i] = x
    <3>1. old = rest \cup {i} /\ i \notin rest
      BY <1>1, <1>4, <2>2
    <3>2. Cardinality(old) = Cardinality(rest) + 1
      BY <1>2, <3>1, FS_AddElement
    <3> HIDE DEF old, new, rest
    <3> QED
      BY <1>2, <1>3, <2>1, <2>2, <3>2 DEF r
  <2>3. CASE s[i] # x
    <3>1. old = rest
      BY <1>1, <1>4, <2>3
    <3> HIDE DEF old, new, rest
    <3> QED
      BY <1>2, <1>3, <2>1, <2>3, <3>1 DEF r
  <2> QED
    BY <2>2, <2>3
<1>5. CASE i # L
  <2> DEFINE mid == IF s[L] = x THEN rest \cup {L} ELSE rest
  <2>1. IsFiniteSet(mid) /\ Cardinality(mid) = Cardinality(rest) + (IF s[L] = x THEN 1 ELSE 0)
    <3>1. L \notin rest
      OBVIOUS
    <3> HIDE DEF rest
    <3> QED
      BY <1>2, <3>1, FS_AddElement
  <2>2. Cardinality(new) = Cardinality(rest) + (IF s[L] = x THEN 1 ELSE 0)
    <3>1. new = (IF s[L] = x THEN rest \cup {i} ELSE rest) /\ i \notin rest
      BY <1>1, <1>5
    <3>2. Cardinality(rest \cup {i}) = Cardinality(rest) + 1
      <4> HIDE DEF rest
      <4> QED
        BY <1>2, <3>1, FS_AddElement
    <3> HIDE DEF new, rest
    <3> QED
      BY <1>2, <3>1, <3>2
  <2>3. CASE s[i] = x
    <3>1. old = mid \cup {i} /\ i \notin mid
      BY <1>1, <1>5, <2>3
    <3>2. Cardinality(old) = Cardinality(mid) + 1
      <4> HIDE DEF old, mid
      <4> QED
        BY <2>1, <3>1, FS_AddElement
    <3> HIDE DEF old, new, rest, mid
    <3> QED
      BY <1>2, <1>3, <2>1, <2>2, <2>3, <3>2 DEF r
  <2>4. CASE s[i] # x
    <3>1. old = mid
      BY <1>1, <1>5, <2>4
    <3> HIDE DEF old, new, rest, mid
    <3> QED
      BY <1>2, <1>3, <2>1, <2>2, <2>4, <3>1 DEF r
  <2> QED
    BY <2>3, <2>4
<1> QED
  BY <1>4, <1>5

\* What the jumps so far, s.set, and the destinations left, s.dests, are to the
\* destinations that there were, had.
Tos(set) == [i \in DOMAIN set |-> set[i].to]
Sound(s, had) ==
  /\ \A i \in DOMAIN s.set : s.set[i].to = <<>> =>
       \A k \in DOMAIN s.dests : ~Suitable(s.set[i].at, s.dests[k])
  /\ \A d \in Dest : Count(Tos(s.set), <<d>>) + Count(s.dests, d) = Count(had, d)

LEMMA TosAppend ==
  ASSUME NEW set \in Seq(Link), NEW l \in Link
  PROVE  /\ Tos(set) \in Seq({<<>>} \cup {<<d>> : d \in Dest})
         /\ Tos(Append(set, l)) = Append(Tos(set), l.to)
<1> DEFINE T == {<<>>} \cup {<<d>> : d \in Dest}
<1>1. \A x \in Link : x.to \in T
  BY DEF Link
<1> HIDE DEF T
<1>2. Tos(set) \in Seq(T) /\ Len(Tos(set)) = Len(set)
  BY <1>1 DEF Tos
<1>3. Tos(Append(set, l)) \in Seq(T) /\ Len(Tos(Append(set, l))) = Len(set) + 1
  BY <1>1 DEF Tos
<1>4. ASSUME NEW i \in 1 .. Len(set) + 1
      PROVE  Tos(Append(set, l))[i] = Append(Tos(set), l.to)[i]
  BY <1>2 DEF Tos
<1> QED
  BY <1>1, <1>2, <1>3, <1>4 DEF T

LEMMA InsertSound ==
  ASSUME NEW had \in Seq(Dest), NEW s \in Table, Sound(s, had), NEW j \in Hole
  PROVE  InsertJump(s, j) \in Table /\ Sound(InsertJump(s, j), had)
<1> DEFINE pos == j.pc + Offset(j)
           fit == {i \in DOMAIN s.dests : Suitable(pos, s.dests[i])}
           t == InsertJump(s, j)
<1>1. pos \in Nat /\ s.dests \in Seq(Dest) /\ s.set \in Seq(Link)
  BY DEF Hole, Offset, Table
<1> HIDE DEF pos
<1>2. CASE ~checkCond(j)
  <2>1. t = s
    BY <1>2 DEF InsertJump
  <2> QED
    BY <2>1
<1>3. CASE checkCond(j) /\ fit = {}
  <2> DEFINE l == [at |-> pos, to |-> <<>>]
  <2>1. t = [s EXCEPT !.set = Append(@, l)]
    BY <1>3 DEF InsertJump, pos
  <2>2. l \in Link /\ l.to = <<>> /\ l.at = pos
    BY <1>1 DEF Link
  <2> HIDE DEF l, t
  <2>3. t \in Table /\ t.dests = s.dests /\ t.set = Append(s.set, l)
    <3>1. Append(s.set, l) \in Seq(Link)
      BY <1>1, <2>2
    <3> QED
      BY <2>1, <3>1 DEF Table
  <2>5. ASSUME NEW i \in DOMAIN t.set, t.set[i].to = <<>>, NEW k \in DOMAIN t.dests
        PROVE  ~Suitable(t.set[i].at, t.dests[k])
    <3>1. CASE t.set[i] = l
      BY <1>3, <2>2, <2>3, <3>1
    <3>2. CASE i \in DOMAIN s.set /\ t.set[i] = s.set[i]
      BY <2>3, <2>5, <3>2 DEF Sound
    <3> QED
      BY <1>1, <2>2, <2>3, <3>1, <3>2
  <2>6. ASSUME NEW d \in Dest
        PROVE  Count(Tos(t.set), <<d>>) + Count(t.dests, d) = Count(had, d)
    <3>1. Tos(t.set) = Append(Tos(s.set), <<>>) /\ Tos(s.set) \in Seq({<<>>} \cup {<<e>> : e \in Dest})
      BY <1>1, <2>2, <2>3, TosAppend
    <3>2. <<>> # <<d>> /\ <<>> \in {<<>>} \cup {<<e>> : e \in Dest}
      OBVIOUS
    <3>3. Count(Tos(t.set), <<d>>) = Count(Tos(s.set), <<d>>)
      <4>1. Count(Tos(s.set), <<d>>) \in Nat
        BY <3>1, CountIs
      <4>2. PICK T, e : T = {<<>>} \cup {<<x>> : x \in Dest} /\ e = <<>>
        OBVIOUS
      <4>3. Tos(s.set) \in Seq(T) /\ e \in T /\ e # <<d>> /\ Tos(t.set) = Append(Tos(s.set), e)
        BY <3>1, <3>2, <4>2
      <4>4. Count(Append(Tos(s.set), e), <<d>>)
              = Count(Tos(s.set), <<d>>) + (IF e = <<d>> THEN 1 ELSE 0)
        BY <4>3, CountAppend
      <4> QED
        BY <4>1, <4>3, <4>4
    <3> QED
      BY <2>3, <3>3 DEF Sound
  <2>7. Sound(t, had)
    BY <2>5, <2>6 DEF Sound
  <2> QED
    BY <2>3, <2>7 DEF t
<1>4. CASE checkCond(j) /\ fit # {}
  <2> DEFINE m == Min(fit)
             l == [at |-> pos, to |-> <<s.dests[m]>>]
  <2>1. m \in fit
    <3>1. Len(s.dests) \in Nat /\ fit \in SUBSET (1 .. Len(s.dests))
      BY <1>1
    <3> HIDE DEF fit
    <3> QED
      BY <1>4, <3>1, MinOfSome
  <2>2. t = [dests |-> rem(s.dests, m), set |-> Append(s.set, l)]
    BY <1>4 DEF InsertJump, pos
  <2> HIDE DEF m
  <2>3. m \in DOMAIN s.dests /\ s.dests[m] \in Dest /\ Suitable(pos, s.dests[m])
    BY <1>1, <2>1
  <2>4. l \in Link /\ l.to = <<s.dests[m]>> /\ l.at = pos /\ l.to # <<>>
    BY <1>1, <2>3 DEF Link
  <2> HIDE DEF l, t, fit
  <2>5. /\ rem(s.dests, m) \in Seq(Dest)
        /\ \A k \in DOMAIN rem(s.dests, m) :
             \E k2 \in DOMAIN s.dests : rem(s.dests, m)[k] = s.dests[k2]
    <3>1. /\ rem(s.dests, m) \in Seq(Dest) /\ Len(rem(s.dests, m)) = Len(s.dests) - 1
          /\ \A k \in 1 .. Len(s.dests) - 1 :
               rem(s.dests, m)[k] = IF k = m THEN s.dests[Len(s.dests)] ELSE s.dests[k]
      BY <1>1, <2>3, RemIs
    <3> QED
      BY <1>1, <3>1
  <2>6. t \in Table /\ t.dests = rem(s.dests, m) /\ t.set = Append(s.set, l)
    BY <1>1, <2>2, <2>4, <2>5 DEF Table
  <2>8. ASSUME NEW i \in DOMAIN t.set, t.set[i].to = <<>>, NEW k \in DOMAIN t.dests
        PROVE  ~Suitable(t.set[i].at, t.dests[k])
    <3>1. i \in DOMAIN s.set /\ t.set[i] = s.set[i]
      <4>1. t.set[i] = l \/ (i \in DOMAIN s.set /\ t.set[i] = s.set[i])
        BY <1>1, <2>4, <2>6
      <4> QED
        BY <2>4, <2>8, <4>1
    <3>2. PICK k2 \in DOMAIN s.dests : t.dests[k] = s.dests[k2]
      BY <2>5, <2>6
    <3> QED
      BY <2>8, <3>1, <3>2 DEF Sound
  <2>9. ASSUME NEW d \in Dest
        PROVE  Count(Tos(t.set), <<d>>) + Count(t.dests, d) = Count(had, d)
    <3>1. Tos(t.set) = Append(Tos(s.set), l.to) /\ Tos(s.set) \in Seq({<<>>} \cup {<<e>> : e \in Dest})
      BY <1>1, <2>4, <2>6, TosAppend
    <3>2. (l.to = <<d>> <=> s.dests[m] = d) /\ l.to \in {<<>>} \cup {<<e>> : e \in Dest}
      BY <2>3, <2>4
    <3>3. Count(Tos(t.set), <<d>>) = Count(Tos(s.set), <<d>>) + (IF s.dests[m] = d THEN 1 ELSE 0)
      BY <3>1, <3>2, CountAppend
    <3>4. Count(t.dests, d) = Count(s.dests, d) - (IF s.dests[m] = d THEN 1 ELSE 0)
      BY <1>1, <2>3, <2>6, CountRem
    <3>5. Count(Tos(s.set), <<d>>) \in Nat /\ Count(s.dests, d) \in Nat
      BY <1>1, <3>1, CountIs
    <3>6. Count(Tos(s.set), <<d>>) + Count(s.dests, d) = Count(had, d)
      BY DEF Sound
    <3> QED
      BY <3>3, <3>4, <3>5, <3>6
  <2>10. Sound(t, had)
    BY <2>8, <2>9 DEF Sound
  <2> QED
    BY <2>6, <2>10 DEF t
<1> QED
  BY <1>2, <1>3, <1>4

\* InsertJumps, as a function of the sets of placeholders that are filled.
Untouched(had) == [dests |-> had, set |-> <<>>]
IsInsertion(g, had, toFill) ==
  g = [s \in SUBSET (DOMAIN toFill) |->
         IF s = {} THEN Untouched(had) ELSE InsertJump(g[s \ {Max(s)}], toFill[Max(s)])]

SoundTables(had) == {s \in Table : Sound(s, had)}

LEMMA InsertedSound ==
  ASSUME NEW had \in Seq(Dest), NEW toFill \in Seq(Hole)
  PROVE  InsertJumps(had, toFill) \in SoundTables(had)
<1> DEFINE N == Len(toFill)
           V == SoundTables(had)
           F == [p \in (1 .. N) \X V |-> InsertJump(p[2], toFill[p[1]])]
           g == CHOOSE g : IsInsertion(g, had, toFill)
<1>1. N \in Nat /\ DOMAIN toFill = 1 .. N
  OBVIOUS
<1>2. IsRule(F, Untouched(had), N, V)
  <2>1. ASSUME NEW p \in (1 .. N) \X V PROVE InsertJump(p[2], toFill[p[1]]) \in V
    <3>1. p[2] \in Table /\ Sound(p[2], had) /\ toFill[p[1]] \in Hole
      BY DEF SoundTables
    <3> QED
      BY <3>1, InsertSound DEF SoundTables
  <2>2. Untouched(had) \in V
    <3> DEFINE s == Untouched(had)
    <3>1. s.dests = had /\ s.set = <<>> /\ s \in Table
      <4>1. <<>> \in Seq(Link)
        OBVIOUS
      <4> QED
        BY <4>1 DEF Untouched, Table
    <3> HIDE DEF s
    <3>2. ASSUME NEW d \in Dest PROVE Count(Tos(s.set), <<d>>) + Count(s.dests, d) = Count(had, d)
      <4>1. {i \in DOMAIN Tos(s.set) : Tos(s.set)[i] = <<d>>} = {}
        BY <3>1 DEF Tos
      <4>2. Count(Tos(s.set), <<d>>) = 0
        BY <4>1, FS_EmptySet, Zenon DEF Count
      <4>3. Count(had, d) \in Nat
        BY CountIs
      <4> QED
        BY <3>1, <4>2, <4>3
    <3>3. DOMAIN s.set = {}
      BY <3>1
    <3>4. Sound(s, had)
      BY <3>2, <3>3 DEF Sound
    <3> QED
      BY <3>1, <3>4 DEF SoundTables, s
  <2> HIDE DEF V, N
  <2> QED
    BY <1>1, <2>1, <2>2 DEF IsRule
<1>3. InsertJumps(had, toFill) = g[DOMAIN toFill]
  BY Zenon DEF InsertJumps, FoldLeft, MapThenFoldSet, IsInsertion, Untouched
<1>4. PICK it : IsIter(it, F, Untouched(had), N) /\ \A s \in SUBSET (1 .. N) : it[s] \in V
  <2> HIDE DEF N, F, V
  <2> QED
    BY <1>2, IterExists
<1> HIDE DEF V
<1>5. IsInsertion(it, had, toFill)
  <2>1. ASSUME NEW s \in SUBSET (1 .. N), s # {}
        PROVE  F[<<Max(s), it[s \ {Max(s)}]>>] = InsertJump(it[s \ {Max(s)}], toFill[Max(s)])
    <3>1. PICK m, v : m = Max(s) /\ v = it[s \ {Max(s)}]
      OBVIOUS
    <3>2. m \in 1 .. N /\ v \in V
      BY <1>1, <1>4, <2>1, <3>1, MaxOfSome
    <3>3. F[<<m, v>>] = InsertJump(v, toFill[m])
      BY <3>2
    <3> HIDE DEF F
    <3> QED
      BY <3>1, <3>3
  <2> HIDE DEF F, N
  <2> QED
    BY <1>1, <1>4, <2>1 DEF IsInsertion, IsIter
<1>6. IsInsertion(g, had, toFill)
  BY <1>5
<1> HIDE DEF g
<1>7. g[{}] = Untouched(had)
  BY <1>6 DEF IsInsertion
<1>8. ASSUME NEW s \in SUBSET (1 .. N), s # {}, g[s \ {Max(s)}] \in V
      PROVE  g[s] = F[<<Max(s), g[s \ {Max(s)}]>>]
  <2>1. PICK m, v : m = Max(s) /\ v = g[s \ {Max(s)}]
    OBVIOUS
  <2>2. m \in 1 .. N /\ v \in V
    BY <1>1, <1>8, <2>1, MaxOfSome
  <2>3. F[<<m, v>>] = InsertJump(v, toFill[m])
    BY <2>2
  <2>4. g[s] = InsertJump(v, toFill[m])
    BY <1>1, <1>6, <1>8, <2>1 DEF IsInsertion
  <2> HIDE DEF F
  <2> QED
    BY <2>1, <2>3, <2>4
<1> HIDE DEF F, N
<1>9. Follows(g, F, Untouched(had), N, V)
  BY <1>7, <1>8 DEF Follows
<1>10. EndsTrace(g[1 .. N], F, Untouched(had), N, V)
  BY <1>2, <1>9, IterTrace
<1>11. g[1 .. N] \in V
  BY <1>1, <1>10 DEF EndsTrace
<1> QED
  BY <1>1, <1>3, <1>11 DEF V

\* A program has ended with what InsertJumps makes of its tables, and with its seed.
Seeds == UNION {Well(NewFiller(n).len) : n \in SeedLens}
EndedWell(e) ==
  /\ \E had \in Seq(Dest), toFill \in Seq(Hole) :
       e.had = had /\ e.set = InsertJumps(had, toFill).set
  /\ e.seed \in Seq(Seeds)

LEMMA JumpsSound ==
  ASSUME EndedWell(ended)
  PROVE  DestsUsedOnce
<1>1. PICK had \in Seq(Dest), toFill \in Seq(Hole) :
        ended.had = had /\ ended.set = InsertJumps(had, toFill).set
  BY DEF EndedWell
<1>2. PICK s \in Table : s = InsertJumps(had, toFill) /\ Sound(s, had)
  BY InsertedSound DEF SoundTables
<1>3. ended.had = had /\ ended.set = s.set /\ s.dests \in Seq(Dest) /\ s.set \in Seq(Link)
  BY <1>1, <1>2 DEF Table
<1> SUFFICES ASSUME NEW d \in ToSet(had)
             PROVE  /\ Uses(d) <= Has(d)
                    /\ Uses(d) < Has(d) =>
                         \A i \in DOMAIN s.set : s.set[i].to = <<>> => ~Suitable(s.set[i].at, d)
  BY <1>3 DEF DestsUsedOnce
<1>4. d \in Dest
  BY DEF ToSet
<1>5. Has(d) = Count(had, d)
  BY <1>3 DEF Has, Count
<1>6. Uses(d) = Count(Tos(s.set), <<d>>)
  <2>1. {i \in DOMAIN s.set : s.set[i].to = <<d>>}
          = {i \in DOMAIN Tos(s.set) : Tos(s.set)[i] = <<d>>}
    BY DEF Tos
  <2> QED
    BY <1>3, <2>1 DEF Uses, Count
<1>7. Count(Tos(s.set), <<d>>) + Count(s.dests, d) = Count(had, d)
  BY <1>2, <1>4 DEF Sound
<1>8. Tos(s.set) \in Seq({<<>>} \cup {<<x>> : x \in Dest})
  <2>1. \A x \in Link : x.to \in {<<>>} \cup {<<y>> : y \in Dest}
    BY DEF Link
  <2> QED
    BY <1>3, <2>1 DEF Tos
<1>9. Count(Tos(s.set), <<d>>) \in Nat /\ Count(s.dests, d) \in Nat
  BY <1>3, <1>8, CountIs
<1>10. ASSUME Uses(d) < Has(d), NEW i \in DOMAIN s.set, s.set[i].to = <<>>
      PROVE  ~Suitable(s.set[i].at, d)
  <2>1. Count(s.dests, d) # 0
    BY <1>5, <1>6, <1>7, <1>9, <1>10
  <2>2. PICK k \in DOMAIN s.dests : s.dests[k] = d
    BY <1>3, <2>1, CountSome
  <2> QED
    BY <1>2, <1>10, <2>2 DEF Sound
<1> QED
  BY <1>5, <1>6, <1>7, <1>9, <1>10
-----------------------------------------------------------------------------
(* The programs that are being generated.                                  *)

ProgramFrame ==
  [f : Seeds, left : Nat, size : Nat, dests : Seq(Dest), toFill : Seq(Hole)]

\* A program whose generator is nested has a round to finish.
Callers(fs) == \A i \in 1 .. Len(fs) - 1 : fs[i].left # 0

GenInv ==
  /\ frames \in Seq(ProgramFrame) /\ Callers(frames)
  /\ recursionLevel \in Nat
  /\ EndedWell(ended)

LEMMA SeedOf ==
  ASSUME NEW f \in Seeds
  PROVE  \E n \in Nat \ {0} : f \in Well(n) /\ Well(n) \subseteq Seeds
<1>1. PICK m \in SeedLens : f \in Well(NewFiller(m).len)
  BY DEF Seeds
<1>2. NewFiller(m).len \in Nat \ {0}
  BY GeneratorAssumption DEF NewFiller
<1> QED
  BY <1>1, <1>2 DEF Seeds

LEMMA SeedsAreFillers == Seeds \subseteq Fillers
<1> SUFFICES ASSUME NEW m \in SeedLens, NEW f \in Well(NewFiller(m).len) PROVE f \in Fillers
  BY DEF Seeds
<1>1. m \in Nat /\ NewFiller(m).len \in Nat \ {0}
      /\ NewFiller(m).len = IF m = 0 THEN 1 ELSE m
  BY GeneratorAssumption DEF NewFiller
<1>2. f \in Filler(NewFiller(m).len)
  BY <1>1, WellIs
<1>3. f \in [len : {NewFiller(m).len}, at : 0 .. m, used : BOOLEAN, read : 0 .. m + 1]
  BY <1>1, <1>2 DEF Filler
<1> QED
  BY <1>3 DEF Fillers

LEMMA SeedsKept ==
  ASSUME NEW f \in Seeds
  PROVE  /\ ReadByte(f) \in Seeds
         /\ \A reads \in Seq(Nat) : Consume(f, reads) \in Seeds
         /\ \A name \in Appending : After[name][f] \subseteq Seeds
<1>1. PICK n \in Nat \ {0} : f \in Well(n) /\ Well(n) \subseteq Seeds
  BY SeedOf
<1>2. ReadByte(f) \in Well(n)
  BY <1>1, ReadWell
<1>3. \A reads \in Seq(Nat) : Consume(f, reads) \in Well(n)
  BY <1>1, ConsumeWell
<1>4. ASSUME NEW name \in Appending PROVE After[name][f] \subseteq Well(n)
  <2>1. After[name][f] = UNION {Outcomes(ReadByte(f), items) : items \in Reads(name)}
    BY SeedsAreFillers DEF After
  <2>2. ASSUME NEW items \in Reads(name) PROVE Outcomes(ReadByte(f), items) \subseteq Well(n)
    BY <1>2, ReadsTyped, OutcomesWell DEF Items
  <2> QED
    BY <2>1, <2>2
<1> QED
  BY <1>1, <1>2, <1>3, <1>4

LEMMA NewSeed ==
  ASSUME NEW n \in SeedLens
  PROVE  NewFiller(n) \in Seeds
<1>1. n \in Nat /\ NewFiller(n).len \in Nat \ {0}
  BY GeneratorAssumption DEF NewFiller
<1>2. NewFiller(n) \in Filler(NewFiller(n).len) /\ ~NewFiller(n).used
      /\ NewFiller(n).read = 0 /\ NewFiller(n).at = 0
  BY <1>1 DEF NewFiller, Filler
<1>3. NewFiller(n) \in Well(NewFiller(n).len)
  BY <1>1, <1>2, WellIs
<1> QED
  BY <1>3 DEF Seeds

LEMMA FrameTyped ==
  ASSUME NEW n \in SeedLens, NEW rounds \in Nat
  PROVE  Frame(NewFiller(n), rounds) \in ProgramFrame
BY NewSeed, SeedsKept DEF Frame, ProgramFrame

LEMMA RoundTyped ==
  ASSUME NEW frame \in ProgramFrame, frame.left # 0
  PROVE  Round(frame) \in ProgramFrame
<1>1. frame.left - 1 \in Nat /\ frame.left \in Nat
  BY DEF ProgramFrame
<1> QED
  BY <1>1 DEF ProgramFrame, Round

LEMMA SetTopTyped ==
  ASSUME GenInv, frames # <<>>, NEW frame \in ProgramFrame, frame.left # 0, SetTop(frame)
  PROVE  frames' \in Seq(ProgramFrame) /\ Callers(frames')
<1>1. PICK r \in ProgramFrame : r = Round(frame)
  BY RoundTyped
<1>2. frames' = [frames EXCEPT ![Len(frames)] = r]
  BY <1>1 DEF SetTop, ReplaceAt
<1>3. frames \in Seq(ProgramFrame) /\ Callers(frames)
  BY DEF GenInv
<1>4. frames' \in Seq(ProgramFrame) /\ Len(frames') = Len(frames)
      /\ \A i \in 1 .. Len(frames) - 1 : frames'[i] = frames[i]
  BY <1>2, <1>3
<1> QED
  BY <1>3, <1>4 DEF Callers

LEMMA TopTyped ==
  ASSUME GenInv, frames # <<>>
  PROVE  Top \in ProgramFrame
BY DEF GenInv, Top, Last

LEMMA NoneEndedWell == EndedWell(NoneEnded)
<1>1. <<>> \in Seq(Dest) /\ <<>> \in Seq(Hole) /\ <<>> \in Seq(Seeds)
  OBVIOUS
<1>2. InsertJumps(<<>>, <<>>).set = <<>>
  <2> DEFINE g == CHOOSE g : IsInsertion(g, <<>>, <<>>)
  <2>1. InsertJumps(<<>>, <<>>) = g[DOMAIN <<>>]
    BY Zenon DEF InsertJumps, FoldLeft, MapThenFoldSet, IsInsertion, Untouched
  <2>2. IsInsertion([s \in SUBSET (DOMAIN <<>>) |-> Untouched(<<>>)], <<>>, <<>>)
    BY DEF IsInsertion
  <2>3. IsInsertion(g, <<>>, <<>>)
    BY <2>2
  <2> HIDE DEF g
  <2>4. g[DOMAIN <<>>] = Untouched(<<>>)
    BY <2>3 DEF IsInsertion
  <2> QED
    BY <2>1, <2>4 DEF Untouched
<1> QED
  BY <1>1, <1>2, Zenon DEF EndedWell, NoneEnded

LEMMA GenInitInv == GenInit => GenInv
<1>1. <<>> \in Seq(ProgramFrame) /\ Callers(<<>>)
  BY DEF Callers
<1> QED
  BY <1>1, NoneEndedWell DEF GenInit, GenInv

LEMMA GenNextInv ==
  ASSUME GenInv, [GenNext]_genVars
  PROVE  GenInv'
<1>1. frames \in Seq(ProgramFrame) /\ Callers(frames) /\ recursionLevel \in Nat
  BY DEF GenInv
<1>2. ASSUME ended' = NoneEnded PROVE EndedWell(ended')
  BY <1>2, NoneEndedWell
<1>3. CASE Start
  <2>1. PICK n \in SeedLens, rounds \in 0 .. MaxRounds : frames' = <<Frame(NewFiller(n), rounds)>>
    BY <1>3 DEF Start
  <2>2. rounds \in Nat
    BY GeneratorAssumption
  <2>3. frames' \in Seq(ProgramFrame) /\ Callers(frames')
    <3>1. PICK r \in ProgramFrame : r = Frame(NewFiller(n), rounds)
      BY <2>2, FrameTyped
    <3> QED
      BY <2>1, <3>1 DEF Callers
  <2> QED
    BY <1>1, <1>2, <1>3, <2>3 DEF Start, GenInv
<1>4. CASE AppendCode
  <2>1. Top \in ProgramFrame /\ frames # <<>> /\ Top.left > 0
    BY <1>4, TopTyped DEF AppendCode
  <2>2. PICK f \in UNION {After[name][Top.f] : name \in Reachable \cap Appending}, n \in Lengths \cup {0} :
          SetTop([Top EXCEPT !.f = f, !.size = @ + n])
    BY <1>4, Zenon DEF AppendCode
  <2>3. f \in Seeds /\ n \in Nat
    <3>1. Top.f \in Seeds
      BY <2>1 DEF ProgramFrame
    <3>2. PICK name \in Appending : f \in After[name][Top.f]
      BY Zenon
    <3>3. n \in Nat
      <4>1. Lengths \subseteq Nat
        BY GeneratorAssumption
      <4> QED
        BY <4>1
    <3> QED
      BY <3>1, <3>2, <3>3, SeedsKept
  <2>4. PICK t \in ProgramFrame : t = [Top EXCEPT !.f = f, !.size = @ + n] /\ t.left # 0
    <3>1. PICK top \in ProgramFrame, size \in Nat : top = Top /\ size = Top.size + n
      BY <2>1, <2>3 DEF ProgramFrame
    <3>2. [top EXCEPT !.f = f, !.size = size] \in ProgramFrame
      BY <2>3 DEF ProgramFrame
    <3>3. [top EXCEPT !.f = f, !.size = size].left # 0
      BY <2>1, <3>1 DEF ProgramFrame
    <3> QED
      BY <3>1, <3>2, <3>3
  <2>5. frames' \in Seq(ProgramFrame) /\ Callers(frames')
    BY <2>1, <2>2, <2>4, SetTopTyped
  <2> QED
    BY <1>1, <1>2, <1>4, <2>5 DEF AppendCode, GenInv
<1>5. CASE Jumpdest
  <2>1. Top \in ProgramFrame /\ frames # <<>> /\ Top.left > 0
    BY <1>5, TopTyped DEF Jumpdest, Chosen
  <2>2. PICK reads \in Seq(Nat), pc \in Nat :
          SetTop([Top EXCEPT !.f = Consume(@, reads),
                             !.dests = Append(@, [pc |-> pc, jumpdest |-> Top.size])])
    <3>1. PICK random \in {<<>>} \cup {<<pc>> : pc \in RandomPcs} :
            LET reads == IF random = <<>> THEN <<0, 0>> ELSE <<0, 0, 2>>
                pc == IF random = <<>> THEN Top.size ELSE random[1]
            IN SetTop([Top EXCEPT !.f = Consume(@, reads),
                                  !.dests = Append(@, [pc |-> pc, jumpdest |-> Top.size])])
      BY <1>5 DEF Jumpdest
    <3> DEFINE reads == IF random = <<>> THEN <<0, 0>> ELSE <<0, 0, 2>>
               pc == IF random = <<>> THEN Top.size ELSE random[1]
    <3>2. reads \in Seq(Nat)
      OBVIOUS
    <3>3. pc \in Nat
      BY <2>1, GeneratorAssumption DEF ProgramFrame
    <3> QED
      BY <3>1, <3>2, <3>3
  <2>3. Consume(Top.f, reads) \in Seeds
    <3>1. Top.f \in Seeds
      BY <2>1 DEF ProgramFrame
    <3> QED
      BY <3>1, SeedsKept
  <2>4. Append(Top.dests, [pc |-> pc, jumpdest |-> Top.size]) \in Seq(Dest)
    BY <2>1 DEF ProgramFrame, Dest
  <2>5. PICK t \in ProgramFrame :
          t = [Top EXCEPT !.f = Consume(@, reads),
                          !.dests = Append(@, [pc |-> pc, jumpdest |-> Top.size])] /\ t.left # 0
    <3>1. PICK top \in ProgramFrame, f \in Seeds, dests \in Seq(Dest) :
            /\ top = Top /\ f = Consume(Top.f, reads)
            /\ dests = Append(Top.dests, [pc |-> pc, jumpdest |-> Top.size])
      BY <2>1, <2>3, <2>4
    <3>2. [top EXCEPT !.f = f, !.dests = dests] \in ProgramFrame
      BY DEF ProgramFrame
    <3>3. [top EXCEPT !.f = f, !.dests = dests].left # 0
      BY <2>1, <3>1 DEF ProgramFrame
    <3> QED
      BY <3>1, <3>2, <3>3
  <2>6. frames' \in Seq(ProgramFrame) /\ Callers(frames')
    BY <2>1, <2>2, <2>5, SetTopTyped
  <2> QED
    BY <1>1, <1>2, <1>5, <2>6 DEF Jumpdest, GenInv
<1>6. CASE Jump
  <2>1. Top \in ProgramFrame /\ frames # <<>> /\ Top.left > 0
    BY <1>6, TopTyped DEF Jump, Chosen
  <2>2. PICK cond \in 0 .. 4, reads \in Seq(Nat) :
          SetTop([Top EXCEPT !.f = Consume(@, reads), !.size = @ + JumpSize(cond),
                             !.toFill = Append(@, [pc |-> Top.size, cond |-> cond])])
    <3>1. PICK c \in {<<0, <<0, 0>>>>, <<1, <<0, 0, 0>>>>} \cup {<<n, <<0, 0, 0, 4>>>> : n \in 1 .. 4} :
            SetTop([Top EXCEPT !.f = Consume(@, c[2]), !.size = @ + JumpSize(c[1]),
                               !.toFill = Append(@, [pc |-> Top.size, cond |-> c[1]])])
      BY <1>6 DEF Jump
    <3>2. c[1] \in 0 .. 4 /\ c[2] \in Seq(Nat)
      <4>1. /\ <<0, 0>> \in Seq(Nat) /\ <<0, 0, 0>> \in Seq(Nat) /\ <<0, 0, 0, 4>> \in Seq(Nat)
            /\ 0 \in 0 .. 4 /\ \A n \in 1 .. 4 : n \in 0 .. 4
        OBVIOUS
      <4>2. CASE c = <<0, <<0, 0>>>>
        BY <4>1, <4>2
      <4>3. CASE c = <<1, <<0, 0, 0>>>>
        BY <4>1, <4>3
      <4>4. ASSUME NEW n \in 1 .. 4, c = <<n, <<0, 0, 0, 4>>>> PROVE c[1] \in 0 .. 4 /\ c[2] \in Seq(Nat)
        BY <4>1, <4>4
      <4> QED
        BY <4>2, <4>3, <4>4
    <3> QED
      BY <3>1, <3>2
  <2>3. Consume(Top.f, reads) \in Seeds
    <3>1. Top.f \in Seeds
      BY <2>1 DEF ProgramFrame
    <3> QED
      BY <3>1, SeedsKept
  <2>4. Append(Top.toFill, [pc |-> Top.size, cond |-> cond]) \in Seq(Hole) /\ Top.size + JumpSize(cond) \in Nat
    BY <2>1 DEF ProgramFrame, Hole, JumpSize
  <2>5. PICK t \in ProgramFrame :
          t = [Top EXCEPT !.f = Consume(@, reads), !.size = @ + JumpSize(cond),
                          !.toFill = Append(@, [pc |-> Top.size, cond |-> cond])] /\ t.left # 0
    <3>1. PICK top \in ProgramFrame, f \in Seeds, size \in Nat, holes \in Seq(Hole) :
            /\ top = Top /\ f = Consume(Top.f, reads) /\ size = Top.size + JumpSize(cond)
            /\ holes = Append(Top.toFill, [pc |-> Top.size, cond |-> cond])
      BY <2>1, <2>3, <2>4
    <3>2. [top EXCEPT !.f = f, !.size = size, !.toFill = holes] \in ProgramFrame
      BY DEF ProgramFrame
    <3>3. [top EXCEPT !.f = f, !.size = size, !.toFill = holes].left # 0
      BY <2>1, <3>1 DEF ProgramFrame
    <3> QED
      BY <3>1, <3>2, <3>3
  <2>6. frames' \in Seq(ProgramFrame) /\ Callers(frames')
    BY <2>1, <2>2, <2>5, SetTopTyped
  <2> QED
    BY <1>1, <1>2, <1>6, <2>6 DEF Jump, GenInv
<1>7. CASE CreateCall
  <2>1. Top \in ProgramFrame /\ frames # <<>> /\ Top.left > 0 /\ Top.f \in Seeds
    BY <1>7, TopTyped DEF CreateCall, Chosen, ProgramFrame
  <2>2. CASE recursionLevel > maxRecursionLevel
    <3>1. SetTop([Top EXCEPT !.f = ReadByte(@)]) /\ UNCHANGED recursionLevel
      BY <1>7, <2>2 DEF CreateCall
    <3>2. ReadByte(Top.f) \in Seeds
      BY <2>1, SeedsKept
    <3>3. PICK t \in ProgramFrame : t = [Top EXCEPT !.f = ReadByte(@)] /\ t.left # 0
      <4>1. PICK top \in ProgramFrame, f \in Seeds : top = Top /\ f = ReadByte(Top.f)
        BY <2>1, <3>2
      <4>2. [top EXCEPT !.f = f] \in ProgramFrame /\ [top EXCEPT !.f = f].left # 0
        BY <2>1, <4>1 DEF ProgramFrame
      <4> QED
        BY <4>1, <4>2
    <3>4. frames' \in Seq(ProgramFrame) /\ Callers(frames')
      BY <2>1, <3>1, <3>3, SetTopTyped
    <3> QED
      BY <1>1, <1>2, <1>7, <3>1, <3>4 DEF CreateCall, GenInv
  <2>3. CASE ~(recursionLevel > maxRecursionLevel)
    <3>1. recursionLevel' = recursionLevel + 1
      BY <1>7, <2>3 DEF CreateCall
    <3>2. PICK n \in SeedLens, rounds \in 0 .. Top.left - 1 :
            LET f == Consume(Top.f, IF n = 0 THEN <<0, 2>> ELSE <<0, 2, n>>) IN
            frames' = Append(ReplaceAt(frames, Len(frames), [Top EXCEPT !.f = f]),
                             Frame(NewFiller(n), rounds))
      BY <1>7, <2>3 DEF CreateCall
    <3> DEFINE f == Consume(Top.f, IF n = 0 THEN <<0, 2>> ELSE <<0, 2, n>>)
    <3>3. f \in Seeds
      <4>1. (IF n = 0 THEN <<0, 2>> ELSE <<0, 2, n>>) \in Seq(Nat)
        BY GeneratorAssumption
      <4> QED
        BY <2>1, <4>1, SeedsKept
    <3> HIDE DEF f
    <3>4. PICK t \in ProgramFrame : t = [Top EXCEPT !.f = f]
      BY <2>1, <3>3 DEF ProgramFrame
    <3>5. PICK r \in ProgramFrame : r = Frame(NewFiller(n), rounds)
      <4>1. rounds \in Nat
        OBVIOUS
      <4> QED
        BY <4>1, FrameTyped
    <3>6. frames' = Append([frames EXCEPT ![Len(frames)] = t], r)
      BY <3>2, <3>4, <3>5 DEF ReplaceAt, f
    <3>7. frames' \in Seq(ProgramFrame) /\ Callers(frames')
      <4> DEFINE fs == [frames EXCEPT ![Len(frames)] = t]
      <4>1. Len(frames) \in Nat \ {0} /\ fs \in Seq(ProgramFrame) /\ Len(fs) = Len(frames)
            /\ fs[Len(frames)] = t /\ \A i \in 1 .. Len(frames) - 1 : fs[i] = frames[i]
        BY <1>1, <2>1
      <4> HIDE DEF fs
      <4>2. Append(fs, r) \in Seq(ProgramFrame) /\ Len(Append(fs, r)) = Len(frames) + 1
            /\ \A i \in 1 .. Len(frames) : Append(fs, r)[i] = fs[i]
        BY <4>1
      <4>3. t.left # 0
        BY <2>1, <3>4 DEF ProgramFrame
      <4>4. Callers(Append(fs, r))
        BY <1>1, <4>1, <4>2, <4>3 DEF Callers
      <4> QED
        BY <3>6, <4>2, <4>4 DEF fs
    <3> QED
      BY <1>1, <1>2, <1>7, <3>1, <3>7 DEF CreateCall, GenInv
  <2> QED
    BY <2>2, <2>3
<1>8. CASE Finish
  <2>1. Top \in ProgramFrame /\ frames # <<>>
    BY <1>8, TopTyped DEF Finish
  <2>2. EndedWell(ended')
    <3>1. Top.dests \in Seq(Dest) /\ Top.toFill \in Seq(Hole)
      BY <2>1 DEF ProgramFrame
    <3>2. <<Consume(Top.f, <<4, 100>>)>> \in Seq(Seeds)
      <4>1. Top.f \in Seeds /\ <<4, 100>> \in Seq(Nat)
        BY <2>1 DEF ProgramFrame
      <4>2. PICK f \in Seeds : f = Consume(Top.f, <<4, 100>>)
        BY <4>1, SeedsKept
      <4>3. <<f>> \in Seq(Seeds)
        OBVIOUS
      <4> QED
        BY <4>2, <4>3
    <3> QED
      BY <1>8, <3>1, <3>2 DEF Finish, EndedWell
  <2>3. frames' \in Seq(ProgramFrame) /\ Callers(frames')
    <3>1. CASE Len(frames) = 1
      <4>1. frames' = <<>>
        BY <1>8, <3>1 DEF Finish
      <4>2. <<>> \in Seq(ProgramFrame)
        OBVIOUS
      <4> QED
        BY <4>1, <4>2 DEF Callers
    <3>2. CASE Len(frames) # 1
      <4>0. Len(frames) \in Nat /\ Len(frames) >= 2 /\ Len(frames) - 1 \in 1 .. Len(frames)
        <5>1. Len(frames) \in Nat /\ Len(frames) # 0
          BY <1>1, <2>1
        <5> QED
          BY <3>2, <5>1
      <4>1. PICK caller \in ProgramFrame : caller = frames[Len(frames) - 1] /\ caller.left # 0
        BY <1>1, <4>0 DEF Callers
      <4>2. PICK n \in Lengths :
              frames' = Append(SubSeq(frames, 1, Len(frames) - 2),
                               Round([caller EXCEPT !.f = Consume(@, <<0, 0>>), !.size = @ + n]))
        BY <1>8, <3>2, <4>1 DEF Finish
      <4>3. PICK f \in Seeds, size \in Nat : f = Consume(caller.f, <<0, 0>>) /\ size = caller.size + n
        <5>1. <<0, 0>> \in Seq(Nat) /\ caller.f \in Seeds /\ caller.size \in Nat /\ n \in Nat
          BY GeneratorAssumption DEF ProgramFrame
        <5>2. Consume(caller.f, <<0, 0>>) \in Seeds
          BY <5>1, SeedsKept
        <5>3. caller.size + n \in Nat
          BY <5>1
        <5> QED
          BY <5>2, <5>3
      <4>4. [caller EXCEPT !.f = f, !.size = size] \in ProgramFrame
            /\ [caller EXCEPT !.f = f, !.size = size].left # 0
        BY <4>1 DEF ProgramFrame
      <4>5. PICK r \in ProgramFrame : r = Round([caller EXCEPT !.f = f, !.size = size])
        BY <4>4, RoundTyped
      <4> DEFINE fs == SubSeq(frames, 1, Len(frames) - 2)
      <4>6. fs \in Seq(ProgramFrame) /\ Len(fs) = Len(frames) - 2
            /\ \A i \in 1 .. Len(frames) - 2 : fs[i] = frames[i]
        <5>1. PICK k \in Nat : k = Len(frames) - 2
          BY <4>0
        <5>2. \A i \in 1 .. k : frames[i] \in ProgramFrame
          BY <1>1, <5>1
        <5>3. /\ SubSeq(frames, 1, k) \in Seq(ProgramFrame)
              /\ Len(SubSeq(frames, 1, k)) = IF 1 <= k THEN k - 1 + 1 ELSE 0
              /\ \A i \in 1 .. k - 1 + 1 : SubSeq(frames, 1, k)[i] = frames[1 + i - 1]
          BY <5>2, SubSeqProperties
        <5>4. /\ Len(SubSeq(frames, 1, k)) = k
              /\ \A i \in 1 .. k : SubSeq(frames, 1, k)[i] = frames[i]
          BY <5>3
        <5> QED
          BY <5>1, <5>3, <5>4
      <4>7. frames' = Append(fs, r)
        BY <4>2, <4>3, <4>5
      <4> HIDE DEF fs
      <4>8. Append(fs, r) \in Seq(ProgramFrame) /\ Len(Append(fs, r)) = Len(frames) - 1
            /\ \A i \in 1 .. Len(frames) - 2 : Append(fs, r)[i] = fs[i]
        BY <4>0, <4>6
      <4>9. Callers(Append(fs, r))
        BY <1>1, <4>0, <4>6, <4>8 DEF Callers
      <4> QED
        BY <4>7, <4>8, <4>9
    <3> QED
      BY <3>1, <3>2
  <2> QED
    BY <1>1, <1>8, <2>2, <2>3 DEF Finish, GenInv
<1>9. CASE UNCHANGED genVars
  BY <1>9 DEF genVars, GenInv
<1> QED
  BY <1>3, <1>4, <1>5, <1>6, <1>7, <1>8, <1>9 DEF GenNext

LEMMA GenInductive == GenSpec => []GenInv
BY GenInitInv, GenNextInv, PTL DEF GenSpec

\* usedUp says exactly that every byte of the seed has been read: with any plan,
\* any seeds and any nesting of programs, to the end of each program.
THEOREM SeedUsedUp == Spec => []UsedUpExact
<1>1. GenInv => UsedUpExact
  <2> SUFFICES ASSUME GenInv, NEW f \in {frames[i].f : i \in DOMAIN frames} \cup ToSet(ended.seed)
               PROVE  f.used = (f.read = f.len)
    BY DEF UsedUpExact
  <2>1. f \in Seeds
    <3>1. CASE f \in {frames[i].f : i \in DOMAIN frames}
      <4>1. PICK i \in DOMAIN frames : f = frames[i].f
        BY <3>1
      <4>2. PICK frame \in ProgramFrame : frame = frames[i]
        BY DEF GenInv
      <4> QED
        BY <4>1, <4>2 DEF ProgramFrame
    <3>2. CASE f \in ToSet(ended.seed)
      BY <3>2 DEF GenInv, EndedWell, ToSet
    <3> QED
      BY <3>1, <3>2
  <2>2. PICK n \in Nat \ {0} : f \in Well(n)
    BY <2>1, SeedOf
  <2>3. f.len = n /\ f.used \in BOOLEAN /\ (f.used <=> f.read = n)
    BY <2>2, WellIs DEF Filler
  <2> QED
    BY <2>1, <2>3
<1> QED
  BY <1>1, GenInductive, OneTool, PTL

\* A destination serves one jump at most, and a jump that is left without one had
\* none that suits it and is not used in the end: for tables of any size.
THEOREM DestinationsUsedOnce == Spec => []DestsUsedOnce
<1>1. GenInv => DestsUsedOnce
  BY JumpsSound DEF GenInv
<1> QED
  BY <1>1, GenInductive, OneTool, PTL

-----------------------------------------------------------------------------
(* The factories: what the fillers put together on purpose, and the stack    *)
(* that it runs on.                                                        *)

\* The table, for the operations that the fillers put together on purpose.
LEMMA TakesOne ==
  ASSUME NEW n \in DOMAIN Takes, NEW op \in Takes[n]
  PROVE  \A m \in DOMAIN Takes : op \in Takes[m] => m = n
BY DEF Takes
LEMMA LeavesOne ==
  ASSUME NEW n \in DOMAIN Leaves, NEW op \in Leaves[n]
  PROVE  \A m \in DOMAIN Leaves : op \in Leaves[m] => m = n
BY DEF Leaves

LEMMA PopsTakes ==
  ASSUME NEW n \in DOMAIN Takes, NEW op \in Takes[n]
  PROVE  Pops(op) = n /\ Pushes(op) = 0
<1>1. op \notin Binary \cup Unary \cup Ternary \cup Dups \cup Swaps \cup Logs \cup Calls \cup Pushers
  BY DEF Takes, Binary, Unary, Ternary, Dups, Swaps, Logs, Calls, Leaves, Pushers
<1>2. Pops(op) = CHOOSE m \in DOMAIN Takes : op \in Takes[m]
  BY <1>1 DEF Pops
<1> QED
  BY <1>1, <1>2, TakesOne DEF Pushes
LEMMA PopsLeaves ==
  ASSUME NEW n \in DOMAIN Leaves, NEW op \in Leaves[n]
  PROVE  Pops(op) = n /\ Pushes(op) = 1
<1>1. op \notin Binary \cup Unary \cup Ternary \cup Dups \cup Swaps \cup Logs
  BY DEF Takes, Binary, Unary, Ternary, Dups, Swaps, Logs, Calls, Leaves
<1>2. op \in Calls /\ ~ \E m \in DOMAIN Takes : op \in Takes[m]
  <2>1. op \in Calls
    BY DEF Calls
  <2>2. op \in \hF0 .. \hFA /\ op # \hF3
    BY DEF Leaves
  <2>3. ASSUME NEW m \in DOMAIN Takes, op \in Takes[m] PROVE FALSE
    BY <2>2, <2>3 DEF Takes
  <2> QED
    BY <2>1, <2>3
<1>3. Pops(op) = CHOOSE m \in DOMAIN Leaves : op \in Leaves[m]
  BY <1>1, <1>2 DEF Pops
<1> QED
  BY <1>1, <1>2, <1>3, LeavesOne DEF Pushes

\* How the operations used on purpose change the height of the stack.
LEMMA Heights ==
  /\ Pops(PUSH1) = 0 /\ Stackdelta(PUSH1) = 1
  /\ Pops(GAS) = 0 /\ Stackdelta(GAS) = 1
  /\ Pops(POP) = 1 /\ Stackdelta(POP) = -1
  /\ Pops(MLOAD) = 1 /\ Stackdelta(MLOAD) = 0
  /\ Pops(SLOAD) = 1 /\ Stackdelta(SLOAD) = 0
  /\ Pops(TLOAD) = 1 /\ Stackdelta(TLOAD) = 0
  /\ Pops(DUP5) = 5 /\ Stackdelta(DUP5) = 1
  /\ Pops(DUP6) = 6 /\ Stackdelta(DUP6) = 1
  /\ Pops(SWAP1) = 2 /\ Stackdelta(SWAP1) = 0
  /\ \A op \in {MSTORE, SSTORE, TSTORE, RETURN, REVERT} : Pops(op) = 2 /\ Stackdelta(op) = -2
  /\ Pops(SELFDESTRUCT) = 1 /\ Stackdelta(SELFDESTRUCT) = -1
  /\ Pops(CREATE) = 3 /\ Stackdelta(CREATE) = -2
  /\ Pops(CREATE2) = 4 /\ Stackdelta(CREATE2) = -3
  /\ \A op \in callTypes :
       /\ Pops(op) = IF op \in {CALL, CALLCODE} THEN 7 ELSE 6
       /\ Stackdelta(op) = 1 - Pops(op)
<1>1. /\ \A op \in {POP, SELFDESTRUCT} : op \in Takes[1]
      /\ \A op \in {MSTORE, SSTORE, TSTORE, RETURN, REVERT} : op \in Takes[2]
      /\ 1 \in DOMAIN Takes /\ 2 \in DOMAIN Takes
  BY DEF POP, SELFDESTRUCT, MSTORE, SSTORE, TSTORE, RETURN, REVERT, Takes
<1>2. /\ CREATE \in Leaves[3] /\ CREATE2 \in Leaves[4]
      /\ \A op \in callTypes : op \in Leaves[IF op \in {CALL, CALLCODE} THEN 7 ELSE 6]
      /\ \A n \in 3 .. 7 : n \in DOMAIN Leaves
  BY DEF CREATE, CREATE2, CALL, CALLCODE, callTypes, Leaves
<1>3. /\ \A op \in {POP, SELFDESTRUCT} : Pops(op) = 1 /\ Pushes(op) = 0
      /\ \A op \in {MSTORE, SSTORE, TSTORE, RETURN, REVERT} : Pops(op) = 2 /\ Pushes(op) = 0
  BY <1>1, PopsTakes
<1>4. /\ Pops(CREATE) = 3 /\ Pushes(CREATE) = 1
      /\ Pops(CREATE2) = 4 /\ Pushes(CREATE2) = 1
      /\ \A op \in callTypes :
           Pops(op) = (IF op \in {CALL, CALLCODE} THEN 7 ELSE 6) /\ Pushes(op) = 1
  BY <1>2, PopsLeaves
<1>5. /\ Pops(MLOAD) = 1 /\ Pushes(MLOAD) = 1
      /\ Pops(SLOAD) = 1 /\ Pushes(SLOAD) = 1
      /\ Pops(TLOAD) = 1 /\ Pushes(TLOAD) = 1
  <2>1. ASSUME NEW op \in {MLOAD, SLOAD, TLOAD}
        PROVE  /\ op \in Unary
               /\ op \notin Binary \cup Ternary \cup Dups \cup Swaps \cup Logs \cup Calls
               /\ ~ \E n \in DOMAIN Takes : op \in Takes[n]
    <3>1. op \in Unary /\ op \notin Binary \cup Ternary \cup Dups \cup Swaps \cup Logs
      BY DEF MLOAD, SLOAD, TLOAD, Unary, Binary, Ternary, Dups, Swaps, Logs
    <3>2. op \notin Calls
      BY DEF MLOAD, SLOAD, TLOAD, Calls, Leaves
    <3>3. ASSUME NEW n \in DOMAIN Takes PROVE op \notin Takes[n]
      <4>1. op \notin {\h00, \h5B, \hFE} \cup {\h50, \h56, \hFF}
                       \cup {\h52, \h53, \h55, \h57, \h5D, \hF3, \hFD}
                       \cup {\h37, \h39, \h3E, \h5E} \cup {\h3C}
        BY DEF MLOAD, SLOAD, TLOAD
      <4> QED
        BY <4>1 DEF Takes
    <3> QED
      BY <3>1, <3>2, <3>3
  <2>2. ASSUME NEW op, op \in Unary,
               op \notin Binary \cup Ternary \cup Dups \cup Swaps \cup Logs \cup Calls,
               ~ \E n \in DOMAIN Takes : op \in Takes[n]
        PROVE  Pops(op) = 1 /\ Pushes(op) = 1
    BY <2>2 DEF Pops, Pushes
  <2> QED
    BY <2>1, <2>2
<1>6. /\ Pops(DUP5) = 5 /\ Pushes(DUP5) = 6
      /\ Pops(DUP6) = 6 /\ Pushes(DUP6) = 7
      /\ Pops(SWAP1) = 2 /\ Pushes(SWAP1) = 2
  <2>1. ASSUME NEW op \in {DUP5, DUP6, SWAP1}
        PROVE  /\ op \notin Binary \cup Unary \cup Ternary \cup Pushers \cup Logs \cup Calls
               /\ ~ \E n \in DOMAIN Takes : op \in Takes[n]
    <3>1. op \notin Binary \cup Unary \cup Ternary \cup Pushers \cup Logs
      BY DEF DUP5, DUP6, SWAP1, Binary, Unary, Ternary, Pushers, Logs
    <3>2. op \notin Calls
      BY DEF DUP5, DUP6, SWAP1, Calls, Leaves
    <3>3. ASSUME NEW n \in DOMAIN Takes PROVE op \notin Takes[n]
      <4>1. op \notin {\h00, \h5B, \hFE} \cup {\h50, \h56, \hFF}
                       \cup {\h52, \h53, \h55, \h57, \h5D, \hF3, \hFD}
                       \cup {\h37, \h39, \h3E, \h5E} \cup {\h3C}
        BY DEF DUP5, DUP6, SWAP1
      <4> QED
        BY <4>1 DEF Takes
    <3> QED
      BY <3>1, <3>2, <3>3
  <2>2. /\ DUP5 \in Dups /\ DUP5 \notin Swaps /\ DUP6 \in Dups /\ DUP6 \notin Swaps
        /\ SWAP1 \in Swaps /\ SWAP1 \notin Dups
    BY DEF DUP5, DUP6, SWAP1, Dups, Swaps
  <2>3. ASSUME NEW op, op \notin Binary \cup Unary \cup Ternary \cup Pushers \cup Logs \cup Calls,
               ~ \E n \in DOMAIN Takes : op \in Takes[n]
        PROVE  /\ op \in Dups /\ op \notin Swaps => Pops(op) = op - \h7F /\ Pushes(op) = op - \h7E
               /\ op \in Swaps /\ op \notin Dups => Pops(op) = op - \h8E /\ Pushes(op) = op - \h8E
    BY <2>3 DEF Pops, Pushes
  <2>4. /\ Pops(DUP5) = DUP5 - \h7F /\ Pushes(DUP5) = DUP5 - \h7E
        /\ Pops(DUP6) = DUP6 - \h7F /\ Pushes(DUP6) = DUP6 - \h7E
        /\ Pops(SWAP1) = SWAP1 - \h8E /\ Pushes(SWAP1) = SWAP1 - \h8E
    BY <2>1, <2>2, <2>3
  <2> QED
    BY <2>4 DEF DUP5, DUP6, SWAP1
<1>7. /\ Pops(PUSH1) = 0 /\ Pushes(PUSH1) = 1
      /\ Pops(GAS) = 0 /\ Pushes(GAS) = 1
  <2>1. PUSH1 \in Pushers /\ GAS \in Pushers
    BY DEF Pushers, PUSH1, GAS
  <2>2. ASSUME NEW op \in {PUSH1, GAS}
        PROVE  /\ op \notin Binary \cup Unary \cup Ternary \cup Dups \cup Swaps \cup Logs
               /\ op \notin Calls
               /\ \A n \in DOMAIN Takes : op \notin Takes[n]
    <3>1. op \notin Binary \cup Unary \cup Ternary \cup Dups \cup Swaps \cup Logs
      BY DEF PUSH1, GAS, Binary, Unary, Ternary, Dups, Swaps, Logs
    <3>2. op \notin Calls
      BY DEF PUSH1, GAS, Calls, Leaves
    <3>3. \A n \in DOMAIN Takes : op \notin Takes[n]
      BY DEF PUSH1, GAS, Takes
    <3> QED
      BY <3>1, <3>2, <3>3
  <2> QED
    BY <2>1, <2>2 DEF Pops, Pushes
<1> QED
  BY <1>3, <1>4, <1>5, <1>6, <1>7 DEF Stackdelta

\* The operations run from a stack of height k to one of height m, and find
\* their arguments.
IsRun(h, k, ops, m) ==
  /\ h \in [0 .. Len(ops) -> Nat]
  /\ h[0] = k /\ h[Len(ops)] = m
  /\ \A i \in 1 .. Len(ops) : h[i - 1] >= Pops(ops[i]) /\ h[i] = h[i - 1] + Stackdelta(ops[i])
Runs(k, ops, m) == \E h : IsRun(h, k, ops, m)

LEMMA RunOne ==
  ASSUME NEW op, NEW k \in Nat, k >= Pops(op), k + Stackdelta(op) \in Nat
  PROVE  Runs(k, <<op>>, k + Stackdelta(op))
<1> DEFINE h == [i \in 0 .. 1 |-> IF i = 0 THEN k ELSE k + Stackdelta(op)]
<1>1. Len(<<op>>) = 1 /\ <<op>>[1] = op
  OBVIOUS
<1>2. h \in [0 .. 1 -> Nat] /\ h[0] = k /\ h[1] = k + Stackdelta(op)
  OBVIOUS
<1>3. \A i \in 1 .. 1 : i = 1 /\ i - 1 = 0
  OBVIOUS
<1> HIDE DEF h
<1>4. IsRun(h, k, <<op>>, k + Stackdelta(op))
  BY <1>1, <1>2, <1>3 DEF IsRun
<1> QED
  BY <1>4 DEF Runs

LEMMA RunThen ==
  ASSUME NEW T, NEW a \in Seq(T), NEW b \in Seq(T), NEW k, NEW m, NEW n,
         Runs(k, a, m), Runs(m, b, n)
  PROVE  Runs(k, a \o b, n)
<1>1. PICK h : IsRun(h, k, a, m)
  BY DEF Runs
<1>2. PICK g : IsRun(g, m, b, n)
  BY DEF Runs
<1> DEFINE A == Len(a)
           L == Len(b)
           c == a \o b
           f == [i \in 0 .. A + L |-> IF i <= A THEN h[i] ELSE g[i - A]]
<1>3. /\ A \in Nat /\ L \in Nat /\ Len(c) = A + L
      /\ \A i \in 1 .. A : c[i] = a[i]
      /\ \A i \in A + 1 .. A + L : c[i] = b[i - A]
  OBVIOUS
<1>4. /\ h \in [0 .. A -> Nat] /\ h[0] = k /\ h[A] = m
      /\ \A i \in 1 .. A : h[i - 1] >= Pops(a[i]) /\ h[i] = h[i - 1] + Stackdelta(a[i])
  BY <1>1 DEF IsRun
<1>5. /\ g \in [0 .. L -> Nat] /\ g[0] = m /\ g[L] = n
      /\ \A i \in 1 .. L : g[i - 1] >= Pops(b[i]) /\ g[i] = g[i - 1] + Stackdelta(b[i])
  BY <1>2 DEF IsRun
<1> HIDE DEF A, L, c
<1>6. /\ f \in [0 .. A + L -> Nat] /\ f[0] = k
      /\ \A i \in 0 .. A : f[i] = h[i]
      /\ \A i \in A .. A + L : f[i] = g[i - A]
  <2>1. f \in [0 .. A + L -> Nat]
    <3>1. \A i \in 0 .. A + L : (IF i <= A THEN h[i] ELSE g[i - A]) \in Nat
      BY <1>3, <1>4, <1>5
    <3> QED
      BY <3>1
  <2>2. \A i \in 0 .. A : i \in 0 .. A + L /\ i <= A
    BY <1>3
  <2>3. \A i \in 0 .. A : f[i] = h[i]
    BY <2>2
  <2>4. ASSUME NEW i \in A .. A + L PROVE f[i] = g[i - A]
    <3>1. i \in 0 .. A + L /\ (i <= A => i = A /\ i - A = 0 /\ i \in 0 .. A)
      BY <1>3
    <3>2. CASE i <= A
      BY <1>4, <1>5, <2>3, <3>1, <3>2
    <3>3. CASE ~ (i <= A)
      BY <3>1, <3>3
    <3> QED
      BY <3>2, <3>3
  <2>5. 0 \in 0 .. A
    BY <1>3
  <2> HIDE DEF f
  <2> QED
    BY <1>4, <2>1, <2>3, <2>4, <2>5
<1> HIDE DEF f
<1>7. f[A + L] = n
  <2>1. A + L \in A .. A + L /\ (A + L) - A = L
    BY <1>3
  <2> QED
    BY <1>5, <1>6, <2>1
<1>8. ASSUME NEW i \in 1 .. A + L
      PROVE  f[i - 1] >= Pops(c[i]) /\ f[i] = f[i - 1] + Stackdelta(c[i])
  <2>1. CASE i \in 1 .. A
    <3>1. f[i - 1] = h[i - 1] /\ f[i] = h[i] /\ c[i] = a[i]
      BY <1>3, <1>6, <2>1
    <3> QED
      BY <1>4, <2>1, <3>1
  <2>2. CASE i \in A + 1 .. A + L
    <3>1. PICK j \in 1 .. L : i = A + j
      BY <1>3, <2>2
    <3>2. f[i - 1] = g[j - 1] /\ f[i] = g[j] /\ c[i] = b[j]
      BY <1>3, <1>6, <3>1
    <3> QED
      BY <1>5, <3>2
  <2> QED
    BY <1>3, <2>1, <2>2
<1>9. IsRun(f, k, c, n)
  BY <1>3, <1>6, <1>7, <1>8 DEF IsRun
<1> QED
  BY <1>9 DEF Runs, c

Opers == {op \in Nat : Stackdelta(op) \in Int}

\* From n items above any height to d items above it.
Moves(ops, n, d) == ops \in Seq(Opers) /\ \A k \in Nat : Runs(k + n, ops, k + d)

LEMMA MovesOp ==
  ASSUME NEW op \in Nat, NEW n \in Nat, NEW d \in Nat, NEW p \in Nat, NEW e \in Int,
         p = Pops(op), e = Stackdelta(op), n >= p, d = n + e
  PROVE  Moves(<<op>>, n, d)
<1> SUFFICES ASSUME NEW k \in Nat PROVE Runs(k + n, <<op>>, k + d)
  <2>1. op \in Opers
    BY DEF Opers
  <2>2. <<op>> \in Seq(Opers)
    BY <2>1
  <2> QED
    BY <2>2 DEF Moves
<1> DEFINE h == [i \in 0 .. 1 |-> IF i = 0 THEN k + n ELSE k + d]
<1>1. Len(<<op>>) = 1 /\ <<op>>[1] = op
  OBVIOUS
<1>2. h \in [0 .. 1 -> Nat] /\ h[0] = k + n /\ h[1] = k + d
  OBVIOUS
<1>3. \A i \in 1 .. 1 : i = 1 /\ i - 1 = 0
  OBVIOUS
<1>4. k + n >= Pops(op) /\ k + d = (k + n) + Stackdelta(op)
  <2>1. k + n >= p /\ k + d = (k + n) + e
    OBVIOUS
  <2> QED
    BY <2>1, Zenon
<1> HIDE DEF h
<1>6. IsRun(h, k + n, <<op>>, k + d)
  BY <1>1, <1>2, <1>3, <1>4 DEF IsRun
<1> QED
  BY <1>6 DEF Runs

LEMMA MovesPushed == ASSUME NEW n \in Nat, NEW j \in Nat PROVE Moves(Pushed(n), j, j + n)
<1>1. PUSH1 \in Nat /\ Pops(PUSH1) = 0 /\ Stackdelta(PUSH1) = 1
  BY Heights DEF PUSH1
<1> SUFFICES ASSUME NEW k \in Nat PROVE Runs(k + j, Pushed(n), k + (j + n))
  <2>1. Pushed(n) \in Seq(Opers)
    BY <1>1 DEF Pushed, Opers
  <2> QED
    BY <2>1 DEF Moves
<1> DEFINE h == [i \in 0 .. n |-> (k + j) + i]
<1>2. Len(Pushed(n)) = n /\ \A i \in 1 .. n : Pushed(n)[i] = PUSH1
  BY DEF Pushed
<1>3. h \in [0 .. n -> Nat] /\ h[0] = k + j /\ h[n] = k + (j + n)
  OBVIOUS
<1>4. \A i \in 1 .. n : h[i - 1] >= 0 /\ h[i] = h[i - 1] + 1
  OBVIOUS
<1> HIDE DEF h
<1>5. IsRun(h, k + j, Pushed(n), k + (j + n))
  BY <1>1, <1>2, <1>3, <1>4 DEF IsRun
<1> QED
  BY <1>5 DEF Runs

LEMMA MovesThen ==
  ASSUME NEW a, NEW b, NEW n, NEW m, NEW d, Moves(a, n, m), Moves(b, m, d)
  PROVE  Moves(a \o b, n, d)
BY RunThen DEF Moves

\* The heights, operation by operation, when the first finds n items.
Steps(ops, hs) ==
  /\ ops \in Seq(Nat) /\ hs \in Seq(Nat) /\ Len(hs) = Len(ops) + 1
  /\ \A i \in 1 .. Len(ops) : hs[i] >= Pops(ops[i]) /\ hs[i + 1] = hs[i] + Stackdelta(ops[i])

LEMMA MovesBySteps ==
  ASSUME NEW ops, NEW hs, Steps(ops, hs),
         \A i \in 1 .. Len(ops) : Pops(ops[i]) \in Nat /\ Stackdelta(ops[i]) \in Int
  PROVE  Moves(ops, hs[1], hs[Len(ops) + 1])
<1> SUFFICES ASSUME NEW k \in Nat PROVE Runs(k + hs[1], ops, k + hs[Len(ops) + 1])
  <2>0. ops \in Seq(Nat)
    BY DEF Steps
  <2>1. \A i \in 1 .. Len(ops) : ops[i] \in Opers
    BY <2>0 DEF Opers
  <2>2. ops \in Seq(Opers)
    BY <2>0, <2>1
  <2> QED
    BY <2>2 DEF Moves
<1> DEFINE N == Len(ops)
           h == [i \in 0 .. N |-> k + hs[i + 1]]
<1>1. /\ N \in Nat /\ hs \in [1 .. N + 1 -> Nat]
      /\ \A i \in 1 .. N : hs[i] >= Pops(ops[i]) /\ hs[i + 1] = hs[i] + Stackdelta(ops[i])
  BY DEF Steps
<1> HIDE DEF N
<1>2. h \in [0 .. N -> Nat] /\ h[0] = k + hs[1] /\ h[N] = k + hs[N + 1]
  BY <1>1
<1>3. ASSUME NEW i \in 1 .. N PROVE h[i - 1] >= Pops(ops[i]) /\ h[i] = h[i - 1] + Stackdelta(ops[i])
  <2>1. h[i - 1] = k + hs[i] /\ h[i] = k + hs[i + 1] /\ hs[i] \in Nat /\ hs[i + 1] \in Nat
    BY <1>1
  <2>2. PICK p \in Nat, e \in Int : p = Pops(ops[i]) /\ e = Stackdelta(ops[i])
    BY DEF N
  <2>3. hs[i] >= p /\ hs[i + 1] = hs[i] + e
    BY <1>1, <2>2
  <2> HIDE DEF h
  <2> QED
    BY <2>1, <2>2, <2>3
<1> HIDE DEF h
<1>4. IsRun(h, k + hs[1], ops, k + hs[N + 1])
  BY <1>2, <1>3 DEF IsRun, N
<1> QED
  BY <1>4 DEF Runs, N

-----------------------------------------------------------------------------
(* The pieces of code: each leaves the stack as high as it found it.       *)

LEMMA MovesStore ==
  ASSUME NEW op \in {MSTORE, SSTORE, TSTORE, RETURN, REVERT}
  PROVE  Moves(Pushed(2) \o <<op>>, 0, 0)
<1>1. Moves(Pushed(2), 0, 2)
  BY MovesPushed, 0 + 2 = 2
<1>2. op \in Nat /\ Pops(op) = 2 /\ Stackdelta(op) = -2
  BY Heights DEF MSTORE, SSTORE, TSTORE, RETURN, REVERT
<1>3. Moves(<<op>>, 2, 0)
  BY <1>2, MovesOp
<1> QED
  BY <1>1, <1>3, MovesThen

LEMMA MovesMemToStorage == Moves(MemToStorage, 0, 0)
<1> DEFINE ops == <<PUSH1, MLOAD, PUSH1, SSTORE>>
           hs == <<0, 1, 1, 2, 0>>
<1>1. ops \in Seq(Nat) /\ Len(ops) = 4
  BY DEF PUSH1, MLOAD, SSTORE
<1>2. ASSUME NEW i \in 1 .. 4
      PROVE  Pops(ops[i]) = <<0, 1, 0, 2>>[i] /\ Stackdelta(ops[i]) = <<1, 0, 1, -2>>[i]
  <2>1. \A op \in {SSTORE} : Pops(op) = 2 /\ Stackdelta(op) = -2
    BY Heights
  <2> QED
    BY Heights, <2>1
<1>3. hs \in Seq(Nat) /\ Len(hs) = 5
  OBVIOUS
<1> HIDE DEF ops
<1>4. ASSUME NEW i \in 1 .. 4
      PROVE  hs[i] >= Pops(ops[i]) /\ hs[i + 1] = hs[i] + Stackdelta(ops[i])
  BY <1>2
<1>5. \A i \in 1 .. 4 : Pops(ops[i]) \in Nat /\ Stackdelta(ops[i]) \in Int
  BY <1>2
<1>6. hs[1] = 0 /\ hs[4 + 1] = 0
  OBVIOUS
<1> HIDE DEF hs
<1>7. Steps(ops, hs)
  BY <1>1, <1>3, <1>4 DEF Steps
<1>8. Moves(ops, hs[1], hs[Len(ops) + 1])
  BY <1>1, <1>5, <1>7, MovesBySteps
<1> QED
  BY <1>1, <1>6, <1>8 DEF ops, MemToStorage

LEMMA MovesLoad ==
  ASSUME NEW op \in {SLOAD, TLOAD}
  PROVE  Moves(<<PUSH1, op, POP>>, 0, 0)
<1> DEFINE ops == <<PUSH1, op, POP>>
           hs == <<0, 1, 1, 0>>
<1>1. ops \in Seq(Nat) /\ Len(ops) = 3
  BY DEF PUSH1, SLOAD, TLOAD, POP
<1>2. ASSUME NEW i \in 1 .. 3
      PROVE  Pops(ops[i]) = <<0, 1, 1>>[i] /\ Stackdelta(ops[i]) = <<1, 0, -1>>[i]
  BY Heights
<1>3. hs \in Seq(Nat) /\ Len(hs) = 4 /\ hs[1] = 0 /\ hs[3 + 1] = 0
  OBVIOUS
<1> HIDE DEF ops
<1>4. ASSUME NEW i \in 1 .. 3
      PROVE  hs[i] >= Pops(ops[i]) /\ hs[i + 1] = hs[i] + Stackdelta(ops[i])
  BY <1>2
<1>5. \A i \in 1 .. 3 : Pops(ops[i]) \in Nat /\ Stackdelta(ops[i]) \in Int
  BY <1>2
<1> HIDE DEF hs
<1>6. Steps(ops, hs)
  BY <1>1, <1>3, <1>4 DEF Steps
<1>7. Moves(ops, hs[1], hs[Len(ops) + 1])
  BY <1>1, <1>5, <1>6, MovesBySteps
<1> QED
  BY <1>1, <1>3, <1>7 DEF ops

LEMMA Joined ==
  /\ \A x, y \in Nat : <<x>> \o <<y>> = <<x, y>>
  /\ \A x, y, z \in Nat : <<x>> \o <<y, z>> = <<x, y, z>>
  /\ \A w, x, y, z \in Nat : (<<w, x>> \o <<y>>) \o <<z>> = <<w, x, y, z>>
<1>1. ASSUME NEW s \in Seq(Nat), NEW t \in Seq(Nat), Len(s) = Len(t),
             \A i \in 1 .. Len(s) : s[i] = t[i]
      PROVE  s = t
  BY <1>1, SeqEqual
<1>2. ASSUME NEW x \in Nat, NEW y \in Nat
      PROVE  <<x>> \o <<y>> = <<x, y>>
  <2> DEFINE s == <<x>> \o <<y>>
  <2>1. s \in Seq(Nat) /\ Len(s) = 2 /\ s[1] = x /\ s[2] = y
    OBVIOUS
  <2>2. <<x, y>> \in Seq(Nat) /\ Len(<<x, y>>) = 2
    OBVIOUS
  <2> HIDE DEF s
  <2>3. \A i \in 1 .. 2 : s[i] = <<x, y>>[i]
    BY <2>1
  <2>4. s = <<x, y>>
    BY <1>1, <2>1, <2>2, <2>3
  <2> QED
    BY <2>4 DEF s
<1>3. ASSUME NEW x \in Nat, NEW y \in Nat, NEW z \in Nat
      PROVE  <<x>> \o <<y, z>> = <<x, y, z>>
  <2> DEFINE s == <<x>> \o <<y, z>>
  <2>1. s \in Seq(Nat) /\ Len(s) = 3 /\ s[1] = x /\ s[2] = y /\ s[3] = z
    OBVIOUS
  <2>2. <<x, y, z>> \in Seq(Nat) /\ Len(<<x, y, z>>) = 3
    OBVIOUS
  <2> HIDE DEF s
  <2>3. \A i \in 1 .. 3 : s[i] = <<x, y, z>>[i]
    BY <2>1
  <2>4. s = <<x, y, z>>
    BY <1>1, <2>1, <2>2, <2>3
  <2> QED
    BY <2>4 DEF s
<1>4. ASSUME NEW w \in Nat, NEW x \in Nat, NEW y \in Nat, NEW z \in Nat
      PROVE  (<<w, x>> \o <<y>>) \o <<z>> = <<w, x, y, z>>
  <2> DEFINE s == (<<w, x>> \o <<y>>) \o <<z>>
  <2>1. s \in Seq(Nat) /\ Len(s) = 4 /\ s[1] = w /\ s[2] = x /\ s[3] = y /\ s[4] = z
    OBVIOUS
  <2>2. <<w, x, y, z>> \in Seq(Nat) /\ Len(<<w, x, y, z>>) = 4
    OBVIOUS
  <2> HIDE DEF s
  <2>3. \A i \in 1 .. 4 : s[i] = <<w, x, y, z>>[i]
    BY <2>1
  <2>4. s = <<w, x, y, z>>
    BY <1>1, <2>1, <2>2, <2>3
  <2> QED
    BY <2>4 DEF s
<1> QED
  BY <1>2, <1>3, <1>4

LEMMA MovesDestruct == Moves(<<PUSH1, SELFDESTRUCT>>, 0, 0)
<1>1. Moves(<<PUSH1>>, 0, 1)
  BY Heights, MovesOp DEF PUSH1
<1>2. Moves(<<SELFDESTRUCT>>, 1, 0)
  BY Heights, MovesOp DEF SELFDESTRUCT
<1>3. <<PUSH1>> \o <<SELFDESTRUCT>> = <<PUSH1, SELFDESTRUCT>>
  <2>1. PUSH1 \in Nat /\ SELFDESTRUCT \in Nat
    BY DEF PUSH1, SELFDESTRUCT
  <2> QED
    BY <2>1, Joined
<1> QED
  BY <1>1, <1>2, <1>3, MovesThen

\* GAS and a call of the kind, when its other arguments are there.
LEMMA MovesCall ==
  ASSUME NEW op \in callTypes, NEW k \in Nat
  PROVE  LET n == IF op \in {CALL, CALLCODE} THEN 6 ELSE 5 IN
         Moves(<<GAS, op>>, k + n, k + 1)
<1> DEFINE n == IF op \in {CALL, CALLCODE} THEN 6 ELSE 5
<1>1. GAS \in Nat /\ op \in Nat
  BY DEF GAS, callTypes, CALL, CALLCODE
<1>2. n \in Nat /\ Pops(op) = n + 1 /\ Stackdelta(op) = 0 - n
  <2>1. Pops(op) = (IF op \in {CALL, CALLCODE} THEN 7 ELSE 6) /\ Stackdelta(op) = 1 - Pops(op)
    BY Heights
  <2>2. PICK p : p = Pops(op)
    OBVIOUS
  <2>3. p = (IF op \in {CALL, CALLCODE} THEN 7 ELSE 6) /\ Stackdelta(op) = 1 - p
    BY <2>1, <2>2
  <2> QED
    BY <2>2, <2>3
<1> HIDE DEF n
<1>3. Moves(<<GAS>>, k + n, (k + n) + 1)
  <2>1. Pops(GAS) = 0 /\ Stackdelta(GAS) = 1
    BY Heights
  <2>2. k + n \in Nat /\ (k + n) + 1 \in Nat /\ k + n >= 0
    BY <1>2
  <2> QED
    BY <1>1, <2>1, <2>2, MovesOp
<1>4. Moves(<<op>>, (k + n) + 1, k + 1)
  <2>1. n + 1 \in Nat /\ 0 - n \in Int /\ (k + n) + 1 >= n + 1 /\ k + 1 = ((k + n) + 1) + (0 - n)
        /\ (k + n) + 1 \in Nat /\ k + 1 \in Nat
    BY <1>2
  <2>2. PICK p \in Nat, e \in Int : p = n + 1 /\ e = 0 - n
    BY <2>1
  <2>3. p = Pops(op) /\ e = Stackdelta(op) /\ (k + n) + 1 >= p /\ k + 1 = ((k + n) + 1) + e
    BY <1>2, <2>1, <2>2
  <2> QED
    BY <1>1, <2>1, <2>2, <2>3, MovesOp
<1>5. <<GAS>> \o <<op>> = <<GAS, op>>
  BY <1>1, Joined
<1> QED
  BY <1>3, <1>4, <1>5, MovesThen DEF n

LEMMA MovesPush1 ==
  ASSUME NEW k \in Nat
  PROVE  Moves(<<PUSH1>>, k, k + 1)
BY Heights, MovesOp DEF PUSH1

LEMMA MovesPop ==
  ASSUME NEW k \in Nat
  PROVE  Moves(<<POP>>, k + 1, k)
<1>1. Pops(POP) = 1 /\ Stackdelta(POP) = -1 /\ POP \in Nat
  BY Heights DEF POP
<1>2. k + 1 \in Nat /\ k + 1 >= 1 /\ k = (k + 1) + (-1) /\ 1 \in Nat /\ -1 \in Int
  OBVIOUS
<1> QED
  BY <1>1, <1>2, MovesOp

LEMMA MovesNothing == ASSUME NEW k \in Nat PROVE Moves(<<>>, k, k)
<1> SUFFICES ASSUME NEW j \in Nat PROVE Runs(j + k, <<>>, j + k)
  <2>1. <<>> \in Seq(Opers)
    OBVIOUS
  <2> QED
    BY <2>1 DEF Moves
<1>1. IsRun([i \in 0 .. 0 |-> j + k], j + k, <<>>, j + k)
  BY DEF IsRun
<1> QED
  BY <1>1 DEF Runs

LEMMA MovesRandCall == ASSUME NEW op \in callTypes PROVE Moves(RandCall(op), 0, 1)
<1> DEFINE n == IF op \in {CALL, CALLCODE} THEN 6 ELSE 5
           value == IF op \in {CALL, CALLCODE} THEN <<PUSH1>> ELSE <<>>
<1>1. Moves(Pushed(4), 0, 4)
  BY MovesPushed, 0 + 4 = 4
<1>2. Moves(value, 4, n - 1)
  <2>1. Moves(<<PUSH1>>, 4, 5) /\ Moves(<<>>, 4, 4)
    BY MovesPush1, MovesNothing
  <2> QED
    BY <2>1
<1>3. Moves(<<PUSH1, GAS, op>>, n - 1, 1)
  <2>1. n \in {5, 6}
    OBVIOUS
  <2>2. Moves(<<GAS, op>>, 0 + n, 0 + 1)
    BY MovesCall
  <2> HIDE DEF n
  <2>3. n - 1 \in Nat /\ (n - 1) + 1 = n /\ 0 + n = n /\ 0 + 1 = 1
    BY <2>1
  <2>4. Moves(<<PUSH1>>, n - 1, n)
    BY <2>3, MovesPush1
  <2>5. <<PUSH1>> \o <<GAS, op>> = <<PUSH1, GAS, op>>
    <3>1. PUSH1 \in Nat /\ GAS \in Nat /\ op \in Nat
      BY DEF PUSH1, GAS, callTypes, CALL, CALLCODE
    <3> QED
      BY <3>1, Joined
  <2>6. Moves(<<GAS, op>>, n, 1)
    BY <2>2, <2>3
  <2> QED
    BY <2>4, <2>5, <2>6, MovesThen
<1>4. RandCall(op) = (Pushed(4) \o value) \o <<PUSH1, GAS, op>>
  BY DEF RandCall
<1> HIDE DEF n, value
<1>5. Moves(Pushed(4) \o value, 0, n - 1)
  BY <1>1, <1>2, MovesThen
<1> QED
  BY <1>3, <1>4, <1>5, MovesThen

LEMMA MovesPlainCall == Moves(PlainCall, 0, 1)
<1>1. Moves(Pushed(6), 0, 6)
  BY MovesPushed, 0 + 6 = 6
<1>2. Moves(<<GAS, CALL>>, 6, 1)
  <2>1. CALL \in callTypes /\ CALL \in {CALL, CALLCODE}
    BY DEF callTypes
  <2>2. Moves(<<GAS, CALL>>, 0 + (IF CALL \in {CALL, CALLCODE} THEN 6 ELSE 5), 0 + 1)
    BY <2>1, MovesCall
  <2>3. 0 + (IF CALL \in {CALL, CALLCODE} THEN 6 ELSE 5) = 6 /\ 0 + 1 = 1
    BY <2>1
  <2> QED
    BY <2>2, <2>3
<1> QED
  BY <1>1, <1>2, MovesThen DEF PlainCall

\* One call of a precompile, whatever is done with its result.
LEMMA MovesPrecompile ==
  ASSUME NEW call, NEW ending, Moves(call, 0, 1), Moves(ending, 1, 0)
  PROVE  Moves(PrecompileCall(call, ending), 0, 0)
<1>1. Moves(Mstore, 0, 0)
  BY MovesStore DEF Mstore
<1>2. Moves(Mstore \o call, 0, 1)
  BY <1>1, MovesThen
<1>3. Moves((Mstore \o call) \o ending, 0, 0)
  BY <1>2, MovesThen
<1>4. Moves(((Mstore \o call) \o ending) \o MemToStorage, 0, 0)
  BY <1>3, MovesMemToStorage, MovesThen
<1> QED
  BY <1>4 DEF PrecompileCall

\* The code that creates a contract and calls it.
LEMMA MovesCreateAndCall ==
  ASSUME NEW create \in {CREATE, CREATE2}, NEW op \in callTypes
  PROVE  Moves(CreateAndCall(create, op), 0, 0)
<1> DEFINE n == IF op \in {CALL, CALLCODE} THEN 6 ELSE 5
           m == IF create = CREATE2 THEN 4 ELSE 3
           copies == IF op \in {CALL, CALLCODE} THEN <<PUSH1, DUP6>> ELSE <<DUP5>>
<1>1. Moves(Mstore, 0, 0)
  BY MovesStore DEF Mstore
<1>2. Moves(Pushed(m), 0, m)
  <2>1. m \in Nat /\ 0 + m = m
    OBVIOUS
  <2> HIDE DEF m
  <2> QED
    BY <2>1, MovesPushed
<1>3. Moves(<<create>>, m, 1)
  <2>1. CASE create = CREATE
    <3>1. m = 3 /\ Pops(create) = 3 /\ Stackdelta(create) = -2 /\ create \in Nat
      BY <2>1, Heights DEF CREATE, CREATE2
    <3> QED
      BY <3>1, MovesOp
  <2>2. CASE create = CREATE2
    <3>1. m = 4 /\ Pops(create) = 4 /\ Stackdelta(create) = -3 /\ create \in Nat
      BY <2>2, Heights DEF CREATE2
    <3> QED
      BY <3>1, MovesOp
  <2> QED
    BY <2>1, <2>2
<1>4. Moves(Pushed(4), 1, 5)
  BY MovesPushed, 1 + 4 = 5
<1>5. Moves(copies, 5, n + 1)
  <2>1. Moves(<<DUP5>>, 5, 6)
    BY Heights, MovesOp DEF DUP5
  <2>2. Moves(<<PUSH1>>, 5, 6)
    BY MovesPush1
  <2>3. Moves(<<DUP6>>, 6, 7)
    BY Heights, MovesOp DEF DUP6
  <2>4. <<PUSH1>> \o <<DUP6>> = <<PUSH1, DUP6>>
    BY Joined DEF PUSH1, DUP6
  <2>5. Moves(<<PUSH1, DUP6>>, 5, 7)
    BY <2>2, <2>3, <2>4, MovesThen
  <2> QED
    BY <2>1, <2>5
<1>6. Moves(<<GAS, op>>, n + 1, 2)
  <2>1. Moves(<<GAS, op>>, 1 + n, 1 + 1)
    BY MovesCall
  <2>2. 1 + n = n + 1 /\ 1 + 1 = 2
    OBVIOUS
  <2> QED
    BY <2>1, <2>2
<1>7. Moves(<<POP>>, 2, 1) /\ Moves(<<POP>>, 1, 0)
  BY MovesPop
<1>8. (<<GAS, op>> \o <<POP>>) \o <<POP>> = <<GAS, op, POP, POP>>
  <2>1. GAS \in Nat /\ POP \in Nat /\ op \in Nat
    BY DEF GAS, POP, callTypes, CALL, CALLCODE
  <2> QED
    BY <2>1, Joined
<1> HIDE DEF n, m, copies
<1>9. Moves(<<GAS, op>> \o <<POP>>, n + 1, 1)
  BY <1>6, <1>7, MovesThen
<1>10. Moves(<<GAS, op, POP, POP>>, n + 1, 0)
  BY <1>7, <1>8, <1>9, MovesThen
<1>11. Moves(Mstore \o Pushed(m), 0, m)
  BY <1>1, <1>2, MovesThen
<1>12. Moves((Mstore \o Pushed(m)) \o <<create>>, 0, 1)
  BY <1>3, <1>11, MovesThen
<1>13. Moves(((Mstore \o Pushed(m)) \o <<create>>) \o Pushed(4), 0, 5)
  BY <1>4, <1>12, MovesThen
<1>14. Moves((((Mstore \o Pushed(m)) \o <<create>>) \o Pushed(4)) \o copies, 0, n + 1)
  BY <1>5, <1>13, MovesThen
<1>15. Moves(((((Mstore \o Pushed(m)) \o <<create>>) \o Pushed(4)) \o copies) \o <<GAS, op, POP, POP>>, 0, 0)
  BY <1>10, <1>14, MovesThen
<1> QED
  BY <1>15 DEF CreateAndCall, n, m, copies

-----------------------------------------------------------------------------
(* Emit: operations that run leave a code as it was, but for its height.   *)

Code == [left : Int, depth : Nat, stack : Int, wild : BOOLEAN, ok : BOOLEAN]

EmitOne(b, op) ==
  IF b.wild THEN b
  ELSE [b EXCEPT !.ok = @ /\ Fine(b, op), !.stack = @ + Stackdelta(op)]

LEMMA EmitOneIs ==
  ASSUME NEW b \in Code, NEW op \in Opers
  PROVE  /\ EmitOne(b, op) \in Code
         /\ b.wild => EmitOne(b, op) = b
         /\ ~b.wild /\ b.ok /\ Fine(b, op) => EmitOne(b, op) = [b EXCEPT !.stack = @ + Stackdelta(op)]
<1>1. PICK ok \in BOOLEAN, h \in Int : (ok <=> b.ok /\ Fine(b, op)) /\ h = b.stack + Stackdelta(op)
  <2>1. PICK e \in Int : e = Stackdelta(op)
    BY DEF Opers
  <2>2. PICK h \in Int : h = b.stack + e
    BY DEF Code
  <2>3. PICK ok \in BOOLEAN : ok <=> b.ok /\ Fine(b, op)
    OBVIOUS
  <2> QED
    BY <2>1, <2>2, <2>3
<1>2. (b.ok /\ Fine(b, op)) = ok
  <2>1. (b.ok /\ Fine(b, op)) \in BOOLEAN
    BY Zenon
  <2> QED
    BY <1>1, <2>1
<1>3. ~b.wild => EmitOne(b, op) = [b EXCEPT !.ok = ok, !.stack = h]
  BY <1>1, <1>2, Zenon DEF EmitOne
<1>4. b.wild => EmitOne(b, op) = b
  BY Zenon DEF EmitOne
<1>5. [b EXCEPT !.ok = ok, !.stack = h] \in Code
  BY <1>1 DEF Code
<1>6. ASSUME b.ok, Fine(b, op) PROVE [b EXCEPT !.ok = ok, !.stack = h] = [b EXCEPT !.stack = h]
  <2>1. ok = TRUE /\ b.ok = TRUE
    BY <1>1, <1>6 DEF Code
  <2> QED
    BY <2>1 DEF Code
<1> QED
  BY <1>1, <1>3, <1>4, <1>5, <1>6

\* Emit, as a function of the sets of operations that are appended.
IsEmission(g, c, ops) ==
  g = [s \in SUBSET (DOMAIN ops) |->
         IF s = {} THEN c
         ELSE IF g[s \ {Max(s)}].wild THEN g[s \ {Max(s)}]
         ELSE [g[s \ {Max(s)}] EXCEPT !.ok = @ /\ Fine(g[s \ {Max(s)}], ops[Max(s)]),
                                      !.stack = @ + Stackdelta(ops[Max(s)])]]

LEMMA EmitIs == ASSUME NEW c, NEW ops PROVE
  Emit(c, ops) = (CHOOSE g : IsEmission(g, c, ops))[DOMAIN ops]
BY Zenon DEF Emit, FoldLeft, MapThenFoldSet, IsEmission

EmitRule(ops) == [p \in (1 .. Len(ops)) \X Code |-> EmitOne(p[2], ops[p[1]])]

LEMMA Emitted ==
  ASSUME NEW c \in Code, NEW ops \in Seq(Opers)
  PROVE  EndsTrace(Emit(c, ops), EmitRule(ops), c, Len(ops), Code)
<1> DEFINE N == Len(ops)
           F == EmitRule(ops)
           g == CHOOSE g : IsEmission(g, c, ops)
<1>1. N \in Nat /\ DOMAIN ops = 1 .. N /\ \A i \in 1 .. N : ops[i] \in Opers
  OBVIOUS
<1>2. \A i \in 1 .. N, v \in Code : F[<<i, v>>] = EmitOne(v, ops[i]) /\ EmitOne(v, ops[i]) \in Code
  BY <1>1, EmitOneIs DEF EmitRule
<1>3. IsRule(F, c, N, Code)
  <2>1. ASSUME NEW p \in (1 .. N) \X Code PROVE EmitOne(p[2], ops[p[1]]) \in Code
    BY <1>2
  <2> QED
    BY <1>1, <2>1 DEF IsRule, EmitRule
<1>4. Emit(c, ops) = g[DOMAIN ops]
  BY EmitIs
<1>5. PICK it : IsIter(it, F, c, N) /\ \A s \in SUBSET (1 .. N) : it[s] \in Code
  <2> HIDE DEF N, F
  <2> QED
    BY <1>3, IterExists
<1>6. IsEmission(it, c, ops)
  <2>1. ASSUME NEW s \in SUBSET (1 .. N), s # {}
        PROVE  F[<<Max(s), it[s \ {Max(s)}]>>]
                 = IF it[s \ {Max(s)}].wild THEN it[s \ {Max(s)}]
                   ELSE [it[s \ {Max(s)}] EXCEPT
                           !.ok = @ /\ Fine(it[s \ {Max(s)}], ops[Max(s)]),
                           !.stack = @ + Stackdelta(ops[Max(s)])]
    <3>1. Max(s) \in 1 .. N
      BY <1>1, <2>1, MaxOfSome
    <3>2. it[s \ {Max(s)}] \in Code
      BY <1>5
    <3> HIDE DEF F
    <3>3. F[<<Max(s), it[s \ {Max(s)}]>>] = EmitOne(it[s \ {Max(s)}], ops[Max(s)])
      BY <1>2, <3>1, <3>2
    <3> QED
      BY <3>3, Zenon DEF EmitOne
  <2> HIDE DEF F, N
  <2> QED
    BY <1>1, <1>5, <2>1, Zenon DEF IsEmission, IsIter
<1>7. IsEmission(g, c, ops)
  BY <1>6
<1> HIDE DEF g
<1>8. g[{}] = c
  BY <1>7 DEF IsEmission
<1>9. ASSUME NEW s \in SUBSET (1 .. N), s # {}, g[s \ {Max(s)}] \in Code
      PROVE  g[s] = F[<<Max(s), g[s \ {Max(s)}]>>]
  <2>1. Max(s) \in 1 .. N
    BY <1>1, <1>9, MaxOfSome
  <2> HIDE DEF F
  <2>2. F[<<Max(s), g[s \ {Max(s)}]>>] = EmitOne(g[s \ {Max(s)}], ops[Max(s)])
    BY <1>2, <1>9, <2>1
  <2>3. s \in SUBSET (DOMAIN ops)
    BY <1>1
  <2>4. g[s] = EmitOne(g[s \ {Max(s)}], ops[Max(s)])
    BY <1>7, <1>9, <2>3, Zenon DEF IsEmission, EmitOne
  <2> QED
    BY <2>2, <2>4
<1> HIDE DEF F, N
<1>10. Follows(g, F, c, N, Code)
  BY <1>8, <1>9 DEF Follows
<1>11. EndsTrace(g[1 .. N], F, c, N, Code)
  BY <1>3, <1>10, IterTrace
<1> QED
  BY <1>1, <1>4, <1>11 DEF F, N

\* Whatever was appended to a code that has gone wild leaves it alone.
LEMMA EmitWild ==
  ASSUME NEW c \in Code, NEW ops \in Seq(Opers), c.wild
  PROVE  Emit(c, ops) = c
<1> DEFINE N == Len(ops)
           F == EmitRule(ops)
           P == {p \in Nat \X Code : p[2] = c}
<1>1. PICK tr \in [0 .. N -> Code] : IsTrace(tr, F, c, N) /\ Emit(c, ops) = tr[N]
  BY Emitted DEF EndsTrace
<1>2. \A i \in 1 .. N : ops[i] \in Opers
  OBVIOUS
<1>3. N \in Nat
  OBVIOUS
<1>4. <<0, c>> \in P
  OBVIOUS
<1>5. ASSUME NEW i \in 1 .. N, <<i - 1, tr[i - 1]>> \in P
      PROVE  <<i, F[<<i, tr[i - 1]>>]>> \in P
  <2>1. tr[i - 1] = c
    BY <1>5
  <2>2. F[<<i, c>>] = EmitOne(c, ops[i])
    BY DEF EmitRule
  <2>3. EmitOne(c, ops[i]) = c
    BY <1>2, EmitOneIs
  <2> HIDE DEF F
  <2> QED
    BY <1>3, <2>1, <2>2, <2>3
<1> HIDE DEF N, F, P
<1>6. \A i \in 0 .. N : <<i, tr[i]>> \in P
  BY <1>1, <1>3, <1>4, <1>5, TraceInduction
<1>7. <<N, tr[N]>> \in P
  BY <1>3, <1>6
<1>8. tr[N] = c
  BY <1>7 DEF P
<1> QED
  BY <1>1, <1>8

LEMMA HigherCode ==
  ASSUME NEW c \in Code, NEW m \in Int
  PROVE  [c EXCEPT !.stack = m] \in Code
BY DEF Code

\* Operations that run, and that the fork has where the filler chooses by it.
LEMMA EmitRuns ==
  ASSUME NEW c \in Code, NEW ops \in Seq(Opers), NEW m, ~c.wild, c.ok, Runs(c.stack, ops, m),
         filler \in OpFillers => \A i \in 1 .. Len(ops) : ops[i] \in ValidOpcodesInFork(fork)
  PROVE  Emit(c, ops) = [c EXCEPT !.stack = m]
<1> DEFINE N == Len(ops)
           F == EmitRule(ops)
<1>1. PICK tr \in [0 .. N -> Code] : IsTrace(tr, F, c, N) /\ Emit(c, ops) = tr[N]
  BY Emitted DEF EndsTrace
<1>2. PICK h : IsRun(h, c.stack, ops, m)
  BY DEF Runs
<1> DEFINE At(i) == [c EXCEPT !.stack = h[i]]
           P == {p \in Nat \X Code : p[2] = At(p[1])}
<1>3. N \in Nat /\ \A i \in 1 .. N : ops[i] \in Opers
  OBVIOUS
<1>4. /\ h \in [0 .. N -> Nat] /\ h[0] = c.stack /\ h[N] = m
      /\ \A i \in 1 .. N : h[i - 1] >= Pops(ops[i]) /\ h[i] = h[i - 1] + Stackdelta(ops[i])
  BY <1>2 DEF IsRun
<1>5. <<0, c>> \in P
  <2>1. At(0) = c
    BY <1>4 DEF Code
  <2> HIDE DEF At
  <2> QED
    BY <2>1
<1>6. ASSUME NEW i \in 1 .. N, <<i - 1, tr[i - 1]>> \in P
      PROVE  <<i, F[<<i, tr[i - 1]>>]>> \in P
  <2>1. i - 1 \in 0 .. N /\ i \in 0 .. N /\ h[i - 1] \in Nat /\ h[i] \in Nat
    <3> HIDE DEF N
    <3>1. i - 1 \in 0 .. N /\ i \in 0 .. N
      BY <1>3
    <3> QED
      BY <1>4, <3>1
  <2>2. tr[i - 1] = At(i - 1)
    <3> HIDE DEF At
    <3> QED
      BY <1>6
  <2>3. PICK b \in Code : b = At(i - 1)
    <3>1. At(i - 1) \in Code
      BY <2>1, HigherCode
    <3> QED
      BY <3>1
  <2>4. b.stack = h[i - 1] /\ ~b.wild /\ b.ok
    BY <2>1, <2>3 DEF Code
  <2>5. Fine(b, ops[i])
    BY <1>4, <2>4 DEF Fine
  <2>6. EmitOne(b, ops[i]) = [b EXCEPT !.stack = @ + Stackdelta(ops[i])]
    BY <1>3, <2>4, <2>5, EmitOneIs
  <2>7. [b EXCEPT !.stack = @ + Stackdelta(ops[i])] = [b EXCEPT !.stack = h[i]]
    BY <1>4, <2>4
  <2>8. [b EXCEPT !.stack = h[i]] = At(i)
    BY <2>1, <2>3 DEF Code
  <2>9. F[<<i, b>>] = EmitOne(b, ops[i])
    BY DEF EmitRule
  <2>10. At(i) \in Code
    BY <2>1, HigherCode
  <2> HIDE DEF F, At
  <2>11. F[<<i, tr[i - 1]>>] = At(i)
    BY <2>2, <2>3, <2>6, <2>7, <2>8, <2>9
  <2> QED
    BY <1>3, <2>10, <2>11
<1> HIDE DEF N, F, P, At
<1>7. \A i \in 0 .. N : <<i, tr[i]>> \in P
  BY <1>1, <1>3, <1>5, <1>6, TraceInduction
<1>8. tr[N] = At(N)
  BY <1>3, <1>7 DEF P
<1> QED
  BY <1>1, <1>4, <1>8 DEF At

-----------------------------------------------------------------------------
(* The operations that simpleops and memops choose from.                   *)

\* They take and leave a number of items, and every fork has them.
LEMMA ChosenOps ==
  ASSUME NEW op \in operations \cup memOps
  PROVE  op \in Nat /\ Pops(op) \in Nat /\ Pushes(op) \in Nat
<1>1. op \in Nat
  BY DEF operations, memOps, MLOAD, MSTORE, RETURN, REVERT
<1>2. op \notin Dups \cup Swaps \cup Logs \cup Pushers
  BY DEF operations, memOps, MLOAD, MSTORE, RETURN, REVERT, Dups, Swaps, Logs, Pushers
<1>3. op \notin Calls
  BY DEF operations, memOps, MLOAD, MSTORE, RETURN, REVERT, Calls, Leaves
<1> DEFINE taken == \E n \in DOMAIN Takes : op \in Takes[n]
<1>4. CASE taken
  <2>1. PICK n \in DOMAIN Takes : op \in Takes[n]
    BY <1>4
  <2>2. Pops(op) = n /\ Pushes(op) = 0
    BY <2>1, PopsTakes
  <2>3. n \in Nat
    BY DEF Takes
  <2> QED
    BY <1>1, <2>2, <2>3
<1>5. CASE ~taken
  <2>1. ~(op \in Binary /\ op \in Unary) /\ ~(op \in Binary /\ op \in Ternary) /\ ~(op \in Unary /\ op \in Ternary)
    BY DEF Binary, Unary, Ternary
  <2>2. Pops(op) \in {0, 1, 2, 3}
    BY <1>2, <1>3, <1>5, <2>1 DEF Pops
  <2>3. Pushes(op) \in {0, 1}
    BY <1>2, <1>3 DEF Pushes
  <2> QED
    BY <1>1, <2>2, <2>3
<1> HIDE DEF taken
<1>6. Pops(op) \in Nat /\ Pushes(op) \in Nat
  BY <1>4, <1>5
<1> QED
  BY <1>1, <1>6

LEMMA Available ==
  ASSUME NEW f \in Forks
  PROVE  /\ PUSH1 \in ValidOpcodesInFork(f) /\ SWAP1 \in ValidOpcodesInFork(f)
         /\ operations \subseteq ValidOpcodesInFork(f)
<1>1. f \in {"Istanbul", "Berlin", "London", "Merge", "Shanghai", "Cancun", "Prague", "Osaka"}
  <2>1. f \in ToSet(ForkNames)
    BY ProgramsAssumption
  <2> QED
    BY <2>1 DEF ToSet, ForkNames
<1>2. istanbul \subseteq ValidOpcodesInFork(f)
  <2>1. istanbul \subseteq london /\ london \subseteq shanghai /\ shanghai \subseteq cancun /\ cancun \subseteq osaka
    BY DEF london, shanghai, cancun, osaka
  <2>2. /\ f \in {"Istanbul", "Berlin"} => ValidOpcodesInFork(f) = istanbul
        /\ f \in {"London", "Merge"} => ValidOpcodesInFork(f) = london
        /\ f = "Shanghai" => ValidOpcodesInFork(f) = shanghai
        /\ f \in {"Cancun", "Prague"} => ValidOpcodesInFork(f) = cancun
        /\ f = "Osaka" => ValidOpcodesInFork(f) = osaka
    BY <1>1 DEF ValidOpcodesInFork
  <2> QED
    BY <1>1, <2>1, <2>2
<1>3. PUSH1 \in istanbul /\ SWAP1 \in istanbul
  BY DEF PUSH1, SWAP1, istanbul, opCodeInfo, Pushers, Swaps
<1>4. operations \subseteq istanbul
  BY DEF operations, istanbul, opCodeInfo, Binary, Unary, Ternary
<1> QED
  BY <1>2, <1>3, <1>4

LEMMA AllExecutable == \A name \in DOMAIN fillers : Executable(fillers[name].tx)
BY DEF fillers, Executable, SenderBalance, BaseFee, Test, fillEcRecover, fillNaive, fillBlake,
       fillBls, fillBn254, fillPrecompileTest, fillModexp, fillSimple, fillMemOps, fillSstore,
       fillSecp256R, fillTstore, fill7702, fillPointEvaluation4844

LEMMA PiecesMove ==
  ASSUME NEW name \in DOMAIN fillers, NEW ops \in fillers[name].pieces
  PROVE  Moves(ops, 0, 0)
<1>1. \A op \in callTypes : Moves(PrecompileCall(RandCall(op), <<POP>>), 0, 0)
  BY MovesPop, MovesRandCall, MovesPrecompile, 0 + 1 = 1
<1>2. \A op \in callTypes : Moves(PrecompileCall(RandCall(op), <<PUSH1, SSTORE>>), 0, 0)
  <2>1. Moves(<<PUSH1>>, 1, 2)
    BY MovesPush1, 1 + 1 = 2
  <2>2. Moves(<<SSTORE>>, 2, 0)
    <3>1. \A op \in {SSTORE} : Pops(op) = 2 /\ Stackdelta(op) = -2
      BY Heights
    <3> QED
      BY <3>1, MovesOp DEF SSTORE
  <2>3. <<PUSH1>> \o <<SSTORE>> = <<PUSH1, SSTORE>>
    BY Joined DEF PUSH1, SSTORE
  <2>4. Moves(<<PUSH1, SSTORE>>, 1, 0)
    BY <2>1, <2>2, <2>3, MovesThen
  <2> QED
    BY <2>4, MovesRandCall, MovesPrecompile
<1>3. Moves(PrecompileCall(PlainCall, <<POP>>), 0, 0)
  BY MovesPop, MovesPlainCall, MovesPrecompile, 0 + 1 = 1
<1>4. ASSUME NEW storageOps, \A s \in storageOps : Moves(s, 0, 0)
      PROVE  \A piece \in CallPieces(storageOps) : Moves(piece, 0, 0)
  <2>1. ASSUME NEW op \in callTypes PROVE Moves(Append(RandCall(op), POP), 0, 0)
    <3>1. Moves(RandCall(op), 0, 1)
      BY MovesRandCall
    <3>2. Moves(<<POP>>, 1, 0)
      BY MovesPop, 0 + 1 = 1
    <3>3. Append(RandCall(op), POP) = RandCall(op) \o <<POP>>
      <4>1. RandCall(op) \in Seq(Opers) /\ POP \in Opers
        BY <3>1, Heights DEF Moves, POP, Opers
      <4> HIDE DEF RandCall
      <4> QED
        BY <4>1
    <3> QED
      BY <3>1, <3>2, <3>3, MovesThen
  <2> QED
    BY <1>4, <2>1, MovesDestruct DEF CallPieces
<1>5. \A s \in RandStorageOps \cup randTStoreOps : Moves(s, 0, 0)
  <2>1. Moves(Sstore, 0, 0) /\ Moves(Pushed(2) \o <<TSTORE>>, 0, 0)
    BY MovesStore DEF Sstore
  <2>2. Moves(<<PUSH1, SLOAD, POP>>, 0, 0) /\ Moves(<<PUSH1, TLOAD, POP>>, 0, 0)
    BY MovesLoad
  <2> QED
    BY <2>1, <2>2 DEF RandStorageOps, randTStoreOps
<1>6. \A piece \in CallPieces(RandStorageOps) \cup CallPieces(RandStorageOps \cup randTStoreOps) :
        Moves(piece, 0, 0)
  BY <1>4, <1>5
<1>7. fillers[name].pieces \in
        {RandCalls(<<POP>>), {}, RandCalls(<<PUSH1, SSTORE>>), {PrecompileCall(PlainCall, <<POP>>)},
         CallPieces(RandStorageOps), CallPieces(RandStorageOps \cup randTStoreOps)}
  <2>1. fillers[name] \in
          {fillEcRecover, fillNaive, fillBlake, fillBls, fillBn254, fillPrecompileTest, fillModexp,
           fillSimple, fillMemOps, fillSstore, fillSecp256R, fillTstore, fill7702,
           fillPointEvaluation4844}
    BY DEF fillers
  <2>3. /\ fillEcRecover.pieces = RandCalls(<<POP>>)
        /\ fillBlake.pieces = RandCalls(<<POP>>)
        /\ fillBls.pieces = RandCalls(<<POP>>)
        /\ fillBn254.pieces = RandCalls(<<POP>>)
        /\ fillPointEvaluation4844.pieces = RandCalls(<<POP>>)
    BY DEF Test, fillEcRecover, fillBlake, RandCallBlake, fillBls, RandCallBLS, fillBn254, RandCallBn, fillPointEvaluation4844, RandCallPointEval
  <2>4. /\ fillNaive.pieces = {}
        /\ fillSimple.pieces = {}
        /\ fillMemOps.pieces = {}
    BY DEF Test, fillNaive, fillSimple, fillMemOps
  <2>5. fillPrecompileTest.pieces = RandCalls(<<PUSH1, SSTORE>>)
    BY DEF Test, fillPrecompileTest, randCallPrecompile
  <2>6. /\ fillModexp.pieces = {PrecompileCall(PlainCall, <<POP>>)}
        /\ fillSecp256R.pieces = {PrecompileCall(PlainCall, <<POP>>)}
    BY DEF Test, fillModexp, randCallModexp, fillSecp256R, randCallSecp256R
  <2>7. /\ fillSstore.pieces = CallPieces(RandStorageOps)
        /\ fill7702.pieces = CallPieces(RandStorageOps)
    BY DEF Test, fillSstore, fill7702
  <2>8. fillTstore.pieces = CallPieces(RandStorageOps \cup randTStoreOps)
    BY DEF Test, fillTstore
  <2> QED
    BY <2>1, <2>3, <2>4, <2>5, <2>6, <2>7, <2>8
<1>8. \A piece \in RandCalls(<<POP>>) \cup RandCalls(<<PUSH1, SSTORE>>) : Moves(piece, 0, 0)
  BY <1>1, <1>2 DEF RandCalls
<1> QED
  BY <1>3, <1>6, <1>7, <1>8

-----------------------------------------------------------------------------
(* The codes that are being generated.                                     *)

\* No code has met an operation without its arguments or from another fork.  While
\* simpleops and memops count a depth the stack is at least as high.
SoundCode ==
  {c \in Code : /\ c.ok /\ c.stack \in Nat
                /\ filler \in OpFillers => ~c.wild /\ c.stack >= c.depth}

ProgInv ==
  /\ codes \in Seq(SoundCode)
  /\ filler # NoTest => filler \in DOMAIN fillers /\ fork \in Forks
  /\ filler = NoTest => codes = <<>> /\ contracts = 0
  /\ filler \notin CallFillers => Len(codes) <= 1
  /\ tx # <<>> => \E name \in DOMAIN fillers : tx = <<fillers[name].tx>>
  /\ result # "error"

LEMMA SoundCodeIs ==
  ASSUME NEW c
  PROVE  c \in SoundCode <=>
           /\ c \in Code /\ c.ok /\ c.stack \in Nat
           /\ filler \in OpFillers => ~c.wild /\ c.stack >= c.depth
BY Zenon DEF SoundCode

\* Pieces that leave the stack as it is leave the code as it is.
LEMMA EmitLevel ==
  ASSUME NEW c \in SoundCode, NEW ops, Moves(ops, 0, 0), filler \notin OpFillers
  PROVE  Emit(c, ops) = c
<1>1. c \in Code /\ c.ok /\ c.stack \in Nat /\ ops \in Seq(Opers)
  BY SoundCodeIs DEF Moves
<1>2. CASE c.wild
  BY <1>1, <1>2, EmitWild
<1>3. CASE ~c.wild
  <2>1. Runs(c.stack + 0, ops, c.stack + 0)
    BY <1>1 DEF Moves
  <2>2. c.stack + 0 = c.stack
    BY <1>1
  <2>3. Runs(c.stack, ops, c.stack)
    BY <2>1, <2>2
  <2>4. Emit(c, ops) = [c EXCEPT !.stack = c.stack]
    BY <1>1, <1>3, <2>3, EmitRuns
  <2> QED
    BY <1>1, <2>4 DEF Code
<1> QED
  BY <1>2, <1>3

LEMMA SoundLeft ==
  ASSUME NEW c \in SoundCode, NEW n \in Int
  PROVE  [c EXCEPT !.left = n] \in SoundCode
<1>1. c \in Code /\ c.ok /\ c.stack \in Nat /\ (filler \in OpFillers => ~c.wild /\ c.stack >= c.depth)
  BY SoundCodeIs
<1> DEFINE d == [c EXCEPT !.left = n]
<1>2. /\ d \in Code /\ d.ok = c.ok /\ d.stack = c.stack /\ d.wild = c.wild /\ d.depth = c.depth
  BY <1>1 DEF Code
<1> HIDE DEF d
<1>3. d \in SoundCode
  BY <1>1, <1>2, SoundCodeIs
<1> QED
  BY <1>3 DEF d

LEMMA RoundsTyped == \A name \in DOMAIN fillers : fillers[name].rounds \in Int
<1>1. \A n \in Nat : Rounds(n) \in Int
  <2>1. ASSUME NEW n \in Nat PROVE Min({n, MaxPieces}) \in Int
    BY Min2, ProgramsAssumption
  <2> QED
    BY <2>1 DEF Rounds
<1>2. MaxOps \in Int /\ MaxPieces \in Int
  BY ProgramsAssumption
<1>3. ASSUME NEW name \in DOMAIN fillers
      PROVE  fillers[name].rounds \in {Rounds(100), Rounds(7), Rounds(3), 1, MaxOps, MaxPieces}
  BY DEF fillers, Test, fillEcRecover, fillNaive, fillBlake, fillBls, fillBn254, fillPrecompileTest,
         fillModexp, fillSimple, fillMemOps, fillSstore, fillSecp256R, fillTstore, fill7702,
         fillPointEvaluation4844
<1> QED
  BY <1>1, <1>2, <1>3

\* A fresh code, of any height and with any number of rounds.
Fresh(n, h) == [left |-> n, depth |-> 0, stack |-> h, wild |-> FALSE, ok |-> TRUE]

LEMMA FreshSound ==
  ASSUME NEW n \in Int, NEW h \in Nat
  PROVE  Fresh(n, h) \in SoundCode
<1> DEFINE c == Fresh(n, h)
<1>1. c \in Code /\ c.ok /\ c.stack \in Nat /\ ~c.wild /\ c.stack >= c.depth
  BY DEF Code, Fresh
<1> HIDE DEF c
<1>2. c \in SoundCode
  BY <1>1, SoundCodeIs
<1> QED
  BY <1>2 DEF c

LEMMA NewCodeIs ==
  /\ NewCode = Fresh(fillers[filler].rounds, 0)
  /\ [NewCode EXCEPT !.left = 0] = Fresh(0, 0)
  /\ [NewCode EXCEPT !.stack = IF filler = "naive" THEN 7 ELSE 0]
       = Fresh(fillers[filler].rounds, IF filler = "naive" THEN 7 ELSE 0)
<1>1. PICK r, no, yes, h :
        r = fillers[filler].rounds /\ no = FALSE /\ yes = TRUE /\ h = IF filler = "naive" THEN 7 ELSE 0
  OBVIOUS
<1>2. PICK c : c = NewCode
  OBVIOUS
<1>3. c = [left |-> r, depth |-> 0, stack |-> 0, wild |-> no, ok |-> yes]
  BY <1>1, <1>2, Zenon DEF NewCode
<1>4. [c EXCEPT !.left = 0] = [left |-> 0, depth |-> 0, stack |-> 0, wild |-> no, ok |-> yes]
  BY <1>3
<1>5. [c EXCEPT !.stack = h] = [left |-> r, depth |-> 0, stack |-> h, wild |-> no, ok |-> yes]
  BY <1>3
<1>6. NewCode = Fresh(fillers[filler].rounds, 0)
  BY <1>1, <1>2, <1>3, Zenon DEF Fresh
<1>7. [NewCode EXCEPT !.left = 0] = Fresh(0, 0)
  BY <1>1, <1>2, <1>4, Zenon DEF Fresh
<1>8. [NewCode EXCEPT !.stack = IF filler = "naive" THEN 7 ELSE 0]
        = Fresh(fillers[filler].rounds, IF filler = "naive" THEN 7 ELSE 0)
  BY <1>1, <1>2, <1>5, Zenon DEF Fresh
<1> QED
  BY <1>6, <1>7, <1>8

LEMMA Changed ==
  ASSUME NEW c \in Code, NEW h \in Int, NEW e \in Int, c.depth + e \in Nat
  PROVE  LET d == [[c EXCEPT !.stack = h] EXCEPT !.depth = @ + e] IN
         /\ d \in Code /\ d.ok = c.ok /\ d.wild = c.wild
         /\ d.stack = h /\ d.depth = c.depth + e
<1> DEFINE d == [[c EXCEPT !.stack = h] EXCEPT !.depth = @ + e]
<1>1. PICK x \in Nat : x = c.depth + e
  OBVIOUS
<1>2. PICK b : b = [c EXCEPT !.stack = h]
  OBVIOUS
<1>3. b \in Code /\ b.ok = c.ok /\ b.wild = c.wild /\ b.stack = h /\ b.depth = c.depth
  BY <1>2 DEF Code
<1>4. d = [b EXCEPT !.depth = x]
  BY <1>1, <1>2, <1>3
<1> HIDE DEF d
<1>5. d \in Code /\ d.ok = b.ok /\ d.wild = b.wild /\ d.stack = b.stack /\ d.depth = x
  BY <1>3, <1>4 DEF Code
<1> QED
  BY <1>1, <1>3, <1>5 DEF d

\* Pushing the arguments, and the operation itself.
LEMMA PaddedSound ==
  ASSUME NEW c \in SoundCode, filler \in OpFillers, fork \in Forks, NEW op, Pops(op) \in Nat
  PROVE  Padded(c, op) \in SoundCode /\ Padded(c, op).depth >= Pops(op)
<1> DEFINE n == Pops(op)
<1>1. c \in Code /\ c.ok /\ c.stack \in Nat /\ ~c.wild /\ c.stack >= c.depth /\ n \in Nat /\ c.depth \in Nat
  BY SoundCodeIs DEF Code
<1>2. CASE c.depth >= n
  BY <1>2 DEF Padded
<1>3. CASE ~(c.depth >= n)
  <2>1. Runs(c.stack + 0, Pushed(n), c.stack + (0 + n)) /\ Pushed(n) \in Seq(Opers)
    <3>1. Moves(Pushed(n), 0, 0 + n)
      BY <1>1, MovesPushed
    <3> QED
      BY <1>1, <3>1 DEF Moves
  <2>2. c.stack + 0 = c.stack /\ c.stack + (0 + n) = c.stack + n
    BY <1>1
  <2>3. \A i \in 1 .. Len(Pushed(n)) : Pushed(n)[i] \in ValidOpcodesInFork(fork)
    <3>1. PUSH1 \in ValidOpcodesInFork(fork)
      BY Available
    <3> QED
      BY <1>1, <3>1 DEF Pushed
  <2>4. Emit(c, Pushed(n)) = [c EXCEPT !.stack = c.stack + n]
    <3>1. Runs(c.stack, Pushed(n), c.stack + n)
      BY <2>1, <2>2
    <3> HIDE DEF n
    <3> QED
      BY <1>1, <2>1, <2>3, <3>1, EmitRuns
  <2>5. Padded(c, op) = [[c EXCEPT !.stack = c.stack + n] EXCEPT !.depth = @ + n]
    BY <1>3, <2>4, Zenon DEF Padded
  <2> DEFINE d == [[c EXCEPT !.stack = c.stack + n] EXCEPT !.depth = @ + n]
  <2>6. /\ d \in Code /\ d.ok = c.ok /\ d.wild = c.wild
        /\ d.stack = c.stack + n /\ d.depth = c.depth + n
    <3>1. n \in Int /\ c.stack + n \in Int /\ c.depth + n \in Nat
      BY <1>1
    <3> HIDE DEF n
    <3> QED
      BY <1>1, <3>1, Changed
  <2> HIDE DEF d, n
  <2>7. d.stack \in Nat /\ d.stack >= d.depth /\ d.depth >= n
    BY <1>1, <2>6
  <2>8. d \in SoundCode
    BY <1>1, <2>6, <2>7, SoundCodeIs
  <2> QED
    BY <2>5, <2>7, <2>8 DEF d, n
<1> QED
  BY <1>2, <1>3

LEMMA AppendedSound ==
  ASSUME NEW c \in SoundCode, filler \in OpFillers, fork \in Forks, NEW op \in usedOps,
         c.depth >= Pops(op), NEW swap \in BOOLEAN, swap => MaySwap(c)
  PROVE  AppendOp(c, op, swap) \in SoundCode
<1>1. op \in Nat /\ Pops(op) \in Nat /\ Pushes(op) \in Nat
  BY ChosenOps DEF usedOps
<1>2. op \in ValidOpcodesInFork(fork) /\ SWAP1 \in ValidOpcodesInFork(fork)
  BY Available DEF usedOps
<1>3. PICK p \in Nat, e \in Int : p = Pops(op) /\ e = Stackdelta(op) /\ p + e >= 0
  <2>1. PICK p \in Nat, q \in Nat : p = Pops(op) /\ q = Pushes(op)
    BY <1>1
  <2>2. Stackdelta(op) = q - p /\ p + (q - p) >= 0 /\ q - p \in Int
    BY <2>1 DEF Stackdelta
  <2> QED
    BY <2>1, <2>2
<1>4. c \in Code /\ c.ok /\ c.stack \in Nat /\ ~c.wild /\ c.stack >= c.depth /\ c.depth \in Nat
  BY SoundCodeIs DEF Code
<1> DEFINE s == c.stack
           ops == (IF swap THEN <<SWAP1>> ELSE <<>>) \o <<op>>
<1>5. s \in Nat /\ s >= p /\ s + e \in Nat /\ c.depth + e \in Nat /\ s + e >= c.depth + e
  BY <1>3, <1>4
<1> HIDE DEF s
<1>6. Moves(<<op>>, s, s + e)
  BY <1>1, <1>3, <1>5, MovesOp
<1>7. Moves(IF swap THEN <<SWAP1>> ELSE <<>>, s, s)
  <2>1. ASSUME swap PROVE Moves(<<SWAP1>>, s, s)
    <3>1. s >= 2 /\ s = s + 0
      BY <1>4, <1>5, <2>1 DEF MaySwap, s
    <3>2. SWAP1 \in Nat /\ Pops(SWAP1) = 2 /\ Stackdelta(SWAP1) = 0
      BY Heights DEF SWAP1
    <3> QED
      BY <1>5, <3>1, <3>2, MovesOp
  <2>2. Moves(<<>>, s, s)
    BY <1>5, MovesNothing
  <2> QED
    BY <2>1, <2>2
<1>8. Moves(ops, s, s + e)
  BY <1>6, <1>7, MovesThen
<1>9. ops \in Seq(Opers) /\ Runs(s, ops, s + e)
  <2>1. Runs(0 + s, ops, 0 + (s + e))
    BY <1>8 DEF Moves
  <2>2. 0 + s = s /\ 0 + (s + e) = s + e
    BY <1>5
  <2> QED
    BY <1>8, <2>1, <2>2 DEF Moves
<1>10. \A i \in 1 .. Len(ops) : ops[i] \in ValidOpcodesInFork(fork)
  <2>1. CASE swap
    <3>1. ops = <<SWAP1, op>>
      BY <1>1, <2>1, Joined DEF SWAP1
    <3> QED
      BY <1>2, <3>1
  <2>2. CASE ~swap
    <3>1. ops = <<op>>
      BY <2>2
    <3> QED
      BY <1>2, <3>1
  <2> QED
    BY <2>1, <2>2
<1> HIDE DEF ops
<1>11. Emit(c, ops) = [c EXCEPT !.stack = s + e]
  BY <1>4, <1>9, <1>10, EmitRuns DEF s
<1> DEFINE d == [[c EXCEPT !.stack = s + e] EXCEPT !.depth = @ + e]
<1>12. AppendOp(c, op, swap) = d
  BY <1>3, <1>11, Zenon DEF AppendOp, ops
<1>13. /\ d \in Code /\ d.ok = c.ok /\ d.wild = c.wild
       /\ d.stack = s + e /\ d.depth = c.depth + e
  <2>1. PICK h \in Int : h = s + e
    BY <1>3, <1>5
  <2>2. c \in Code /\ e \in Int /\ c.depth + e \in Nat
    BY <1>3, <1>4, <1>5
  <2>3. d = [[c EXCEPT !.stack = h] EXCEPT !.depth = @ + e]
    BY <2>1
  <2> DEFINE x == [[c EXCEPT !.stack = h] EXCEPT !.depth = @ + e]
  <2>4. /\ x \in Code /\ x.ok = c.ok /\ x.wild = c.wild
        /\ x.stack = h /\ x.depth = c.depth + e
    BY <2>1, <2>2, Changed
  <2> QED
    BY <2>1, <2>3, <2>4, Zenon
<1> HIDE DEF d
<1>14. d \in SoundCode
  BY <1>4, <1>5, <1>13, SoundCodeIs
<1> QED
  BY <1>12, <1>14

-----------------------------------------------------------------------------
(* Every step keeps the codes sound.                                       *)

LEMMA CurrentSound ==
  ASSUME ProgInv, codes # <<>>
  PROVE  /\ Current \in SoundCode /\ filler \in DOMAIN fillers /\ fork \in Forks
         /\ Len(codes) \in Nat \ {0}
<1>1. codes \in Seq(SoundCode) /\ Len(codes) \in Nat \ {0}
  BY DEF ProgInv
<1>2. Current \in SoundCode
  BY <1>1 DEF Current, Last
<1> QED
  BY <1>1, <1>2 DEF ProgInv

LEMMA CodesReplaced ==
  ASSUME ProgInv, codes # <<>>, NEW c \in SoundCode, SetCurrent(c)
  PROVE  codes' \in Seq(SoundCode) /\ Len(codes') = Len(codes)
<1>1. codes \in Seq(SoundCode) /\ Len(codes) \in Nat \ {0}
  BY DEF ProgInv
<1>2. SubSeq(codes, 1, Len(codes) - 1) \in Seq(SoundCode)
      /\ Len(SubSeq(codes, 1, Len(codes) - 1)) = Len(codes) - 1
  <2>1. PICK n \in Nat : n = Len(codes) - 1 /\ Len(codes) = n + 1
    BY <1>1
  <2>2. SubSeq(codes, 1, n) \in Seq(SoundCode) /\ Len(SubSeq(codes, 1, n)) = n
    BY <1>1, <2>1
  <2> QED
    BY <2>1, <2>2
<1>3. codes' = Append(SubSeq(codes, 1, Len(codes) - 1), c)
  BY DEF SetCurrent, Front
<1> QED
  BY <1>1, <1>2, <1>3

LEMMA NoPieces == \A name \in OpFillers : fillers[name].pieces = {}
BY DEF OpFillers, fillers, Test, fillSimple, fillMemOps

\* The rest of a step that changes only the codes.
LEMMA OnlyCodes ==
  ASSUME ProgInv, codes # <<>>, UNCHANGED <<filler, fork, tx, result>>,
         codes' \in Seq(SoundCode), Len(codes') <= Len(codes) \/ filler \in CallFillers
  PROVE  ProgInv'
<1>1. filler \in DOMAIN fillers /\ fork \in Forks /\ filler # NoTest /\ Len(codes) \in Nat
  BY CurrentSound DEF ProgInv
<1>2. SoundCode' = SoundCode
  BY DEF SoundCode
<1>3. filler \notin CallFillers => Len(codes') <= 1
  <2>1. Len(codes') \in Nat
    OBVIOUS
  <2> QED
    BY <1>1, <2>1 DEF ProgInv
<1> QED
  BY <1>1, <1>2, <1>3 DEF ProgInv

LEMMA AddOpKeeps == ProgInv /\ AddOp => ProgInv'
<1> SUFFICES ASSUME ProgInv, AddOp PROVE ProgInv'
  OBVIOUS
<1>1. filler \in OpFillers /\ codes # <<>> /\ UNCHANGED <<filler, fork, tx, result>>
  BY DEF AddOp
<1>2. PICK op \in usedOps, swap \in BOOLEAN :
        /\ swap => MaySwap(Padded(Current, op))
        /\ SetCurrent([AppendOp(Padded(Current, op), op, swap) EXCEPT
             !.left = IF op \in {RETURN, REVERT} THEN 0 ELSE @ - 1])
  BY Zenon DEF AddOp
<1>3. Current \in SoundCode /\ fork \in Forks
  BY <1>1, CurrentSound
<1>4. Pops(op) \in Nat
  BY ChosenOps DEF usedOps
<1>5. PICK c \in SoundCode : c = Padded(Current, op) /\ c.depth >= Pops(op)
  BY <1>1, <1>3, <1>4, PaddedSound
<1>6. PICK d \in SoundCode : d = AppendOp(c, op, swap)
  BY <1>1, <1>2, <1>3, <1>5, AppendedSound
<1>7. PICK n \in Int : n = IF op \in {RETURN, REVERT} THEN 0 ELSE d.left - 1
  BY SoundCodeIs DEF Code
<1>8. SetCurrent([d EXCEPT !.left = n])
  <2>1. SetCurrent([d EXCEPT !.left = IF op \in {RETURN, REVERT} THEN 0 ELSE @ - 1])
    BY <1>2, <1>5, <1>6, Zenon
  <2>2. d \in Code
    BY SoundCodeIs
  <2>3. [d EXCEPT !.left = IF op \in {RETURN, REVERT} THEN 0 ELSE @ - 1] = [d EXCEPT !.left = n]
    BY <1>7, <2>2
  <2> QED
    BY <2>1, <2>3, Zenon
<1>9. [d EXCEPT !.left = n] \in SoundCode
  BY SoundLeft
<1>10. codes' \in Seq(SoundCode) /\ Len(codes') = Len(codes)
  BY <1>1, <1>8, <1>9, CodesReplaced
<1> QED
  BY <1>1, <1>10, OnlyCodes

LEMMA AddRandomOpsKeeps == ProgInv /\ AddRandomOps => ProgInv'
<1> SUFFICES ASSUME ProgInv, AddRandomOps PROVE ProgInv'
  OBVIOUS
<1>1. filler \notin OpFillers /\ codes # <<>> /\ UNCHANGED <<filler, fork, tx, result>>
  BY DEF AddRandomOps, OpFillers, CallFillers
<1>2. PICK c \in SoundCode : c = Current
  BY <1>1, CurrentSound
<1> DEFINE d == [c EXCEPT !.wild = TRUE, !.stack = 0, !.left = @ - 1]
<1>3. SetCurrent(d)
  BY <1>2, Zenon DEF AddRandomOps
<1>4. c \in Code /\ c.ok
  BY SoundCodeIs
<1>5. d \in Code /\ d.ok = c.ok /\ d.stack \in Nat
  <2>1. PICK yes \in BOOLEAN : yes = TRUE
    OBVIOUS
  <2>2. PICK n \in Int : n = c.left - 1
    BY <1>4 DEF Code
  <2>3. d = [c EXCEPT !.wild = yes, !.stack = 0, !.left = n]
    BY <1>4, <2>1, <2>2, Zenon
  <2> HIDE DEF d
  <2>4. c \in [left : Int, depth : Nat, stack : Int, wild : BOOLEAN, ok : BOOLEAN]
    BY <1>4 DEF Code
  <2>5. d = [left |-> n, depth |-> c.depth, stack |-> 0, wild |-> yes, ok |-> c.ok]
    BY <2>3, <2>4
  <2>6. c.depth \in Nat /\ c.ok \in BOOLEAN
    BY <2>4
  <2>7. d \in Code
    BY <2>1, <2>5, <2>6 DEF Code
  <2>8. d.ok = c.ok
    BY <2>5
  <2>9. d.stack = 0
    BY <2>5
  <2> QED
    BY <2>7, <2>8, <2>9
<1> HIDE DEF d
<1>6. d \in SoundCode
  <2>1. d \in Code /\ d.ok /\ d.stack \in Nat
    BY <1>4, <1>5, Zenon
  <2> QED
    BY <1>1, <2>1, SoundCodeIs, Zenon
<1>7. codes' \in Seq(SoundCode) /\ Len(codes') = Len(codes)
  BY <1>1, <1>3, <1>6, CodesReplaced
<1> QED
  BY <1>1, <1>7, OnlyCodes

LEMMA AddPieceKeeps == ProgInv /\ AddPiece => ProgInv'
<1> SUFFICES ASSUME ProgInv, AddPiece PROVE ProgInv'
  OBVIOUS
<1>1. codes # <<>> /\ UNCHANGED <<filler, fork, tx, result>>
  BY DEF AddPiece
<1>2. PICK c \in SoundCode : c = Current
  BY <1>1, CurrentSound
<1>3. \E n \in Int : SetCurrent([c EXCEPT !.left = n])
  <2>1. ASSUME NEW ops \in fillers[filler].pieces, SetCurrent([Emit(c, ops) EXCEPT !.left = @ - 1])
        PROVE  \E n \in Int : SetCurrent([c EXCEPT !.left = n])
    <3>1. Moves(ops, 0, 0) /\ filler \notin OpFillers
      BY <1>1, CurrentSound, PiecesMove, NoPieces
    <3>2. PICK n \in Int : n = c.left - 1
      BY SoundCodeIs DEF Code
    <3>3. Emit(c, ops) = c /\ [c EXCEPT !.left = @ - 1] = [c EXCEPT !.left = n]
      BY <3>1, <3>2, EmitLevel
    <3>4. SetCurrent([c EXCEPT !.left = n])
      BY <2>1, <3>3, Zenon
    <3> QED
      BY <3>4
  <2>2. ASSUME filler \in CallFillers, NEW ops \in EndPieces, SetCurrent([Emit(c, ops) EXCEPT !.left = 0])
        PROVE  \E n \in Int : SetCurrent([c EXCEPT !.left = n])
    <3>1. Moves(ops, 0, 0) /\ filler \notin OpFillers
      BY <2>2, MovesStore DEF EndPieces, CallFillers, OpFillers
    <3>2. Emit(c, ops) = c
      BY <3>1, EmitLevel
    <3>3. PICK n \in Int : n = 0
      OBVIOUS
    <3>4. SetCurrent([c EXCEPT !.left = n])
      BY <2>2, <3>2, <3>3, Zenon
    <3> QED
      BY <3>4
  <2>3. \/ \E ops \in fillers[filler].pieces : SetCurrent([Emit(c, ops) EXCEPT !.left = @ - 1])
        \/ filler \in CallFillers /\ \E ops \in EndPieces : SetCurrent([Emit(c, ops) EXCEPT !.left = 0])
    BY <1>2, Zenon DEF AddPiece
  <2> QED
    BY <2>1, <2>2, <2>3, Zenon
<1>4. PICK n \in Int : SetCurrent([c EXCEPT !.left = n])
  BY <1>3
<1>5. [c EXCEPT !.left = n] \in SoundCode
  BY SoundLeft
<1>6. codes' \in Seq(SoundCode) /\ Len(codes') = Len(codes)
  BY <1>1, <1>4, <1>5, CodesReplaced
<1> QED
  BY <1>1, <1>6, OnlyCodes

LEMMA AddCreateKeeps == ProgInv /\ AddCreate => ProgInv'
<1> SUFFICES ASSUME ProgInv, AddCreate PROVE ProgInv'
  OBVIOUS
<1>1. filler \in CallFillers /\ codes # <<>> /\ UNCHANGED <<filler, fork, tx, result>>
  BY DEF AddCreate
<1>2. NewCode \in SoundCode /\ [NewCode EXCEPT !.left = 0] \in SoundCode
  <2>1. fillers[filler].rounds \in Int
    BY <1>1, CurrentSound, RoundsTyped
  <2>2. Fresh(fillers[filler].rounds, 0) \in SoundCode /\ Fresh(0, 0) \in SoundCode
    BY <2>1, FreshSound
  <2> QED
    BY <2>2, NewCodeIs, Zenon
<1>3. PICK c \in SoundCode : codes' = Append(codes, c)
  BY <1>2, Zenon DEF AddCreate
<1>4. codes' \in Seq(SoundCode)
  BY <1>3 DEF ProgInv
<1> QED
  BY <1>1, <1>4, OnlyCodes

LEMMA CodeDoneKeeps == ProgInv /\ CodeDone => ProgInv'
<1> SUFFICES ASSUME ProgInv, CodeDone PROVE ProgInv'
  OBVIOUS
<1>1. codes # <<>> /\ UNCHANGED <<filler, fork, tx, result>> /\ Len(codes) \in Nat
      /\ codes \in Seq(SoundCode)
  BY DEF CodeDone, ProgInv
<1>2. CASE Len(codes) > 1
  <2>1. filler \in CallFillers /\ filler \notin OpFillers
    BY <1>1, <1>2 DEF ProgInv, CallFillers, OpFillers
  <2>2. PICK c \in SoundCode : c = codes[Len(codes) - 1]
    BY <1>1, <1>2
  <2>3. PICK op \in callTypes, create \in {CREATE, CREATE2} :
          codes' = Append(SubSeq(codes, 1, Len(codes) - 2),
                     [Emit(c, CreateAndCall(create, op)) EXCEPT !.left = @ - 1])
    BY <1>2, <2>2, Zenon DEF CodeDone
  <2>4. Emit(c, CreateAndCall(create, op)) = c
    BY <2>1, MovesCreateAndCall, EmitLevel
  <2>5. PICK n \in Int : n = c.left - 1
    BY SoundCodeIs DEF Code
  <2>6. [c EXCEPT !.left = @ - 1] = [c EXCEPT !.left = n]
    BY <2>5
  <2>7. PICK d \in SoundCode : d = [c EXCEPT !.left = n]
    BY SoundLeft
  <2>8. codes' = Append(SubSeq(codes, 1, Len(codes) - 2), d)
    BY <2>3, <2>4, <2>6, <2>7, Zenon
  <2>9. SubSeq(codes, 1, Len(codes) - 2) \in Seq(SoundCode)
    BY <1>1, <1>2
  <2>10. codes' \in Seq(SoundCode)
    BY <2>8, <2>9
  <2> QED
    BY <1>1, <2>1, <2>10, OnlyCodes
<1>3. CASE ~(Len(codes) > 1)
  <2>1. codes' = <<>>
    BY <1>3 DEF CodeDone
  <2>2. codes' \in Seq(SoundCode) /\ Len(codes') <= Len(codes)
    BY <1>1, <2>1
  <2> QED
    BY <1>1, <2>2, OnlyCodes
<1> QED
  BY <1>2, <1>3

LEMMA NextCodeKeeps == ProgInv /\ NextCode => ProgInv'
<1> SUFFICES ASSUME ProgInv, NextCode PROVE ProgInv'
  OBVIOUS
<1>1. filler \in DOMAIN fillers /\ fork \in Forks /\ filler # NoTest /\ UNCHANGED <<filler, fork, tx, result>>
  <2>1. contracts > 0 /\ UNCHANGED <<filler, fork, tx, result>>
    BY DEF NextCode
  <2>2. filler # NoTest
    BY <2>1 DEF ProgInv
  <2> QED
    BY <2>1, <2>2 DEF ProgInv
<1>2. PICK h \in Nat : h = IF filler = "naive" THEN 7 ELSE 0
  OBVIOUS
<1>3. PICK c \in SoundCode : c = Fresh(fillers[filler].rounds, h)
  BY <1>1, RoundsTyped, FreshSound
<1>4. codes' = <<c>>
  BY <1>2, <1>3, NewCodeIs, Zenon DEF NextCode
<1>5. codes' \in Seq(SoundCode) /\ Len(codes') = 1
  BY <1>4
<1>6. SoundCode' = SoundCode
  BY <1>1 DEF SoundCode
<1> QED
  BY <1>1, <1>5, <1>6 DEF ProgInv

LEMMA ProgNextInv == ProgInv /\ [ProgNext]_progVars => ProgInv'
<1> SUFFICES ASSUME ProgInv, [ProgNext]_progVars PROVE ProgInv'
  OBVIOUS
<1>1. CASE BasicStateTest
  <2>1. /\ filler = NoTest /\ filler' \in DOMAIN fillers /\ fork' \in Forks
        /\ UNCHANGED <<codes, tx, result>>
    BY <1>1, Zenon DEF BasicStateTest
  <2>2. codes' = <<>> /\ codes' \in Seq(SoundCode') /\ Len(codes') <= 1
    BY <2>1 DEF ProgInv
  <2>3. filler' # NoTest
    BY <2>1 DEF fillers, NoTest
  <2> QED
    BY <2>1, <2>2, <2>3 DEF ProgInv
<1>2. ASSUME SetTx \/ Fill \/ UNCHANGED progVars PROVE ProgInv'
  <2>1. UNCHANGED <<filler, fork, contracts, codes>> /\ SoundCode' = SoundCode
    BY <1>2 DEF SetTx, Fill, progVars, SoundCode
  <2>2. tx' # <<>> => \E name \in DOMAIN fillers : tx' = <<fillers[name].tx>>
    BY <1>2 DEF SetTx, Fill, progVars, ProgInv
  <2>3. result' # "error"
    <3>1. CASE Fill
      <4>1. PICK name \in DOMAIN fillers : tx = <<fillers[name].tx>>
        BY <3>1 DEF Fill, ProgInv
      <4>2. Executable(tx[1])
        BY <4>1, AllExecutable
      <4> QED
        BY <3>1, <4>2 DEF Fill
    <3> QED
      BY <1>2, <3>1 DEF SetTx, progVars, ProgInv
  <2> QED
    BY <2>1, <2>2, <2>3 DEF ProgInv
<1> QED
  BY <1>1, <1>2, AddOpKeeps, AddRandomOpsKeeps, AddPieceKeeps, AddCreateKeeps, CodeDoneKeeps,
     NextCodeKeeps DEF ProgNext

LEMMA ProgInductive == ProgSpec => []ProgInv
<1>1. ProgInit => ProgInv
  <2>1. <<>> \in Seq(SoundCode)
    OBVIOUS
  <2> QED
    BY <2>1 DEF ProgInit, ProgInv, NoTest
<1> QED
  BY <1>1, ProgNextInv, PTL DEF ProgSpec

\* What the fillers put together on purpose always finds its arguments and has
\* only operations of the fork, for any number of rounds, pieces and contracts,
\* and the sender pays for every test.
THEOREM ProgramsNonErroring == Spec => []NonErroring
<1>1. ProgInv => NonErroring
  <2> SUFFICES ASSUME ProgInv, NEW i \in DOMAIN codes PROVE codes[i].ok
    BY DEF NonErroring, ProgInv
  <2>1. codes[i] \in SoundCode
    BY DEF ProgInv
  <2> QED
    BY <2>1, SoundCodeIs
<1> QED
  BY <1>1, ProgInductive, OneTool, PTL

-----------------------------------------------------------------------------
(* FuzzyVM's strategies: what a plan's weights come to.                     *)

\* Division, and what the provers need of multiplication.
LEMMA Divided ==
  ASSUME NEW a \in Nat, NEW t \in Nat \ {0}
  PROVE  a \div t \in Nat /\ (a \div t) * t <= a /\ a < (a \div t + 1) * t
OBVIOUS

LEMMA Distributes == \A a, b, t \in Int : (a + b) * t = a * t + b * t
OBVIOUS

LEMMA Cancels == \A a, b \in Int, t \in Nat \ {0} : a * t < b * t => a < b
OBVIOUS

\* Blocks of names, one after the other; E says where they end.
Blocks(names, n, k) == [i \in 1 .. k |-> [b \in 1 .. n[i] |-> names[i]]]

IsLaidOut(s, E, names, n, K) ==
  /\ E \in [0 .. K -> Nat] /\ E[0] = 0 /\ \A i \in 1 .. K : E[i] = E[i - 1] + n[i]
  /\ Len(s) = E[K]
  /\ \A i \in 1 .. K, j \in Nat : E[i - 1] < j /\ j <= E[i] => s[j] = names[i]
  /\ \A j \in 1 .. E[K] : \E i \in 1 .. K : E[i - 1] < j /\ j <= E[i]

LEMMA LaidOut ==
  ASSUME NEW K \in Nat, NEW T, NEW names \in [1 .. K -> T], NEW n \in [1 .. K -> Nat]
  PROVE  \E E : IsLaidOut(FlattenSeq(Blocks(names, n, K)), E, names, n, K)
<1> DEFINE Laid(k) == FlattenSeq(Blocks(names, n, k))
           Block(i) == [b \in 1 .. n[i] |-> names[i]]
<1>1. \A i \in 1 .. K : Block(i) \in Seq(T) /\ Len(Block(i)) = n[i] /\ n[i] \in Nat
  OBVIOUS
<1>2. \A k \in 0 .. K : Blocks(names, n, k) \in Seq(Seq(T))
  <2> SUFFICES ASSUME NEW k \in 0 .. K PROVE Blocks(names, n, k) \in Seq(Seq(T))
    OBVIOUS
  <2>1. Blocks(names, n, k) = [i \in 1 .. k |-> Block(i)]
    BY DEF Blocks
  <2>2. \A i \in 1 .. k : Block(i) \in Seq(T)
    BY <1>1
  <2> HIDE DEF Block
  <2> QED
    BY <2>1, <2>2
<1>3. \A k \in 0 .. K : Laid(k) \in Seq(T)
  BY <1>2, FlattenType
<1>4. Laid(0) = <<>>
  <2>1. Blocks(names, n, 0) = <<>>
    BY DEF Blocks
  <2> QED
    BY <2>1 DEF FlattenSeq
<1>5. \A k \in 1 .. K : Laid(k) = Laid(k - 1) \o Block(k)
  <2> SUFFICES ASSUME NEW k \in 1 .. K PROVE Laid(k) = Laid(k - 1) \o Block(k)
    OBVIOUS
  <2>1. k - 1 \in 0 .. K /\ k \in 0 .. K
    OBVIOUS
  <2>2. Blocks(names, n, k) = Append(Blocks(names, n, k - 1), Block(k))
    <3> DEFINE a == Blocks(names, n, k)
               c == Append(Blocks(names, n, k - 1), Block(k))
    <3>1. a \in Seq(Seq(T)) /\ c \in Seq(Seq(T)) /\ Len(a) = k /\ Len(c) = k
      <4>1. Blocks(names, n, k) \in Seq(Seq(T)) /\ Blocks(names, n, k - 1) \in Seq(Seq(T))
        BY <1>2, <2>1
      <4>2. Len(Blocks(names, n, k)) = k /\ Len(Blocks(names, n, k - 1)) = k - 1
        BY <2>1 DEF Blocks
      <4>3. Block(k) \in Seq(T)
        BY <1>1
      <4> HIDE DEF Block
      <4> QED
        BY <4>1, <4>2, <4>3
    <3>2. \A i \in 1 .. k : a[i] = Block(i)
      BY DEF Blocks
    <3>3. \A i \in 1 .. k : c[i] = Block(i)
      <4> DEFINE q == Blocks(names, n, k - 1)
      <4>1. q \in Seq(Seq(T)) /\ Len(q) = k - 1 /\ \A i \in 1 .. k - 1 : q[i] = Block(i)
        BY <1>2, <2>1 DEF Blocks
      <4> HIDE DEF q, Block
      <4>2. \A i \in 1 .. k : Append(q, Block(k))[i] = Block(i)
        BY <4>1
      <4> QED
        BY <4>2 DEF q
    <3> HIDE DEF a, c, Block
    <3> QED
      BY <3>1, <3>2, <3>3, SeqEqual DEF a, c, Block
  <2> HIDE DEF Block
  <2> QED
    BY <1>1, <1>2, <2>1, <2>2, FlattenAppend DEF Block
<1> DEFINE E == [k \in 0 .. K |-> Len(Laid(k))]
<1>6. E \in [0 .. K -> Nat] /\ \A k \in 0 .. K : E[k] = Len(Laid(k))
  <2>1. \A k \in 0 .. K : Len(Laid(k)) \in Nat
    BY <1>3
  <2> HIDE DEF Laid
  <2> QED
    BY <2>1
<1> HIDE DEF Laid, Block, E
<1>7. E[0] = 0 /\ \A i \in 1 .. K : E[i] = E[i - 1] + n[i]
  <2>1. E[0] = 0
    BY <1>4, <1>6
  <2>2. ASSUME NEW i \in 1 .. K PROVE E[i] = E[i - 1] + n[i]
    <3>1. i \in 0 .. K /\ i - 1 \in 0 .. K
      OBVIOUS
    <3>2. Laid(i - 1) \in Seq(T) /\ Block(i) \in Seq(T) /\ Laid(i) = Laid(i - 1) \o Block(i)
      BY <1>1, <1>3, <1>5, <3>1
    <3>3. Len(Laid(i)) = Len(Laid(i - 1)) + Len(Block(i))
      BY <3>2
    <3> QED
      BY <1>1, <1>6, <3>1, <3>3
  <2> QED
    BY <2>1, <2>2
<1> DEFINE P == {k \in Nat : k <= K =>
                   /\ \A i \in 1 .. k : E[i] <= E[k]
                   /\ \A i \in 1 .. k, j \in Nat : E[i - 1] < j /\ j <= E[i] => Laid(k)[j] = names[i]
                   /\ \A j \in 1 .. E[k] : \E i \in 1 .. k : E[i - 1] < j /\ j <= E[i]}
<1>8. 0 \in P
  BY <1>7
<1>9. ASSUME NEW k \in Nat, k \in P PROVE k + 1 \in P
  <2> SUFFICES ASSUME k + 1 <= K
               PROVE  /\ \A i \in 1 .. k + 1 : E[i] <= E[k + 1]
                      /\ \A i \in 1 .. k + 1, j \in Nat :
                           E[i - 1] < j /\ j <= E[i] => Laid(k + 1)[j] = names[i]
                      /\ \A j \in 1 .. E[k + 1] : \E i \in 1 .. k + 1 : E[i - 1] < j /\ j <= E[i]
    OBVIOUS
  <2>1. /\ \A i \in 1 .. k : E[i] <= E[k]
        /\ \A i \in 1 .. k, j \in Nat : E[i - 1] < j /\ j <= E[i] => Laid(k)[j] = names[i]
        /\ \A j \in 1 .. E[k] : \E i \in 1 .. k : E[i - 1] < j /\ j <= E[i]
    BY <1>9
  <2> HIDE DEF P
  <2>2. k \in 0 .. K /\ k + 1 \in 1 .. K /\ k + 1 \in 0 .. K /\ (k + 1) - 1 = k
    OBVIOUS
  <2>3. E[k + 1] = E[k] + n[k + 1] /\ E[k] \in Nat /\ n[k + 1] \in Nat
    BY <1>6, <1>7, <2>2
  <2>4. /\ Laid(k) \in Seq(T) /\ Block(k + 1) \in Seq(T) /\ Laid(k + 1) = Laid(k) \o Block(k + 1)
        /\ Len(Laid(k)) = E[k] /\ Len(Block(k + 1)) = n[k + 1]
    BY <1>1, <1>3, <1>5, <1>6, <2>2
  <2>5. \A i \in 1 .. k + 1 : E[i] <= E[k + 1]
    <3> SUFFICES ASSUME NEW i \in 1 .. k + 1 PROVE E[i] <= E[k + 1]
      OBVIOUS
    <3>1. i \in 1 .. k \/ i = k + 1
      OBVIOUS
    <3>2. i \in 0 .. K /\ E[i] \in Nat
      BY <1>6, <2>2
    <3> QED
      BY <2>1, <2>3, <3>1, <3>2
  <2>6. ASSUME NEW i \in 1 .. k + 1, NEW j \in Nat, E[i - 1] < j, j <= E[i]
        PROVE  Laid(k + 1)[j] = names[i]
    <3>1. CASE i \in 1 .. k
      <4>1. E[i - 1] \in Nat /\ E[i] \in Nat
        BY <1>6, <2>2
      <4>2. j >= 1 /\ j <= E[k]
        <5>1. E[i] <= E[k]
          BY <2>1, <3>1
        <5> QED
          BY <2>3, <2>6, <4>1, <5>1
      <4>3. Laid(k + 1)[j] = Laid(k)[j]
        BY <2>4, <4>2
      <4> QED
        BY <2>1, <2>6, <3>1, <4>3
    <3>2. CASE i = k + 1
      <4>1. E[k] < j /\ j <= E[k] + n[k + 1]
        BY <2>2, <2>3, <2>6, <3>2
      <4>2. Laid(k + 1)[j] = Block(k + 1)[j - E[k]]
        <5>1. PICK s \in Seq(T), t \in Seq(T) : s = Laid(k) /\ t = Block(k + 1)
          BY <2>4
        <5>2. Len(s) = E[k] /\ Len(t) = n[k + 1] /\ Laid(k + 1) = s \o t
          BY <2>4, <5>1
        <5>3. Len(s) \in Nat /\ Len(t) \in Nat /\ j > Len(s) /\ j <= Len(s) + Len(t)
          BY <2>3, <4>1, <5>2
        <5>4. (s \o t)[j] = t[j - Len(s)]
          BY <5>3
        <5> QED
          BY <5>1, <5>2, <5>4
      <4>3. j - E[k] \in 1 .. n[k + 1]
        BY <2>3, <4>1
      <4> QED
        BY <3>2, <4>2, <4>3 DEF Block
    <3> QED
      BY <3>1, <3>2
  <2>7. ASSUME NEW j \in 1 .. E[k + 1]
        PROVE  \E i \in 1 .. k + 1 : E[i - 1] < j /\ j <= E[i]
    <3>1. CASE j <= E[k]
      <4>1. PICK i \in 1 .. k : E[i - 1] < j /\ j <= E[i]
        BY <2>1, <2>3, <3>1
      <4> QED
        BY <4>1
    <3>2. CASE ~(j <= E[k])
      <4>1. E[(k + 1) - 1] < j /\ j <= E[k + 1]
        BY <2>2, <2>3, <3>2
      <4> QED
        BY <4>1
    <3> QED
      BY <3>1, <3>2
  <2> QED
    BY <2>5, <2>6, <2>7
<1>10. K \in P
  <2> HIDE DEF P
  <2> QED
    BY <1>8, <1>9, SetInduction
<1>11. Len(Laid(K)) = E[K]
  BY <1>6
<1>12. IsLaidOut(Laid(K), E, names, n, K)
  BY <1>6, <1>7, <1>10, <1>11 DEF IsLaidOut
<1> QED
  BY <1>12 DEF Laid

-----------------------------------------------------------------------------
(* Sum, and the total of the importances.                                  *)

IsSumming(g, s) ==
  g = [u \in SUBSET (DOMAIN s) |-> IF u = {} THEN 0 ELSE g[u \ {Max(u)}] + s[Max(u)]]

LEMMA SumIs == ASSUME NEW s PROVE Sum(s) = (CHOOSE g : IsSumming(g, s))[DOMAIN s]
BY Zenon DEF Sum, FoldLeft, MapThenFoldSet, IsSumming

SumRule(s) == [p \in (1 .. Len(s)) \X Nat |-> p[2] + s[p[1]]]

\* P holds the sums of the first elements.
IsSums(P, s, K) == P \in [0 .. K -> Nat] /\ P[0] = 0 /\ \A i \in 1 .. K : P[i] = P[i - 1] + s[i]

LEMMA Summed ==
  ASSUME NEW s \in Seq(Nat)
  PROVE  \E P : IsSums(P, s, Len(s)) /\ Sum(s) = P[Len(s)]
<1> DEFINE N == Len(s)
           F == SumRule(s)
           g == CHOOSE g : IsSumming(g, s)
<1>1. N \in Nat /\ DOMAIN s = 1 .. N /\ \A i \in 1 .. N : s[i] \in Nat
  OBVIOUS
<1>2. \A i \in 1 .. N, v \in Nat : F[<<i, v>>] = v + s[i] /\ v + s[i] \in Nat
  BY <1>1 DEF SumRule
<1>3. IsRule(F, 0, N, Nat)
  <2>1. ASSUME NEW p \in (1 .. N) \X Nat PROVE p[2] + s[p[1]] \in Nat
    BY <1>2
  <2> QED
    BY <1>1, <2>1 DEF IsRule, SumRule
<1>4. Sum(s) = g[DOMAIN s]
  BY SumIs
<1>5. PICK it : IsIter(it, F, 0, N) /\ \A u \in SUBSET (1 .. N) : it[u] \in Nat
  <2> HIDE DEF N, F
  <2> QED
    BY <1>3, IterExists
<1>6. IsSumming(it, s)
  <2>1. ASSUME NEW u \in SUBSET (1 .. N), u # {}
        PROVE  F[<<Max(u), it[u \ {Max(u)}]>>] = it[u \ {Max(u)}] + s[Max(u)]
    <3>1. Max(u) \in 1 .. N
      BY <1>1, <2>1, MaxOfSome
    <3>2. it[u \ {Max(u)}] \in Nat
      BY <1>5
    <3> HIDE DEF F
    <3> QED
      BY <1>2, <3>1, <3>2
  <2> HIDE DEF F, N
  <2> QED
    BY <1>1, <1>5, <2>1, Zenon DEF IsSumming, IsIter
<1>7. IsSumming(g, s)
  BY <1>6
<1> HIDE DEF g
<1>8. g[{}] = 0
  BY <1>7 DEF IsSumming
<1>9. ASSUME NEW u \in SUBSET (1 .. N), u # {}, g[u \ {Max(u)}] \in Nat
      PROVE  g[u] = F[<<Max(u), g[u \ {Max(u)}]>>]
  <2>1. Max(u) \in 1 .. N
    BY <1>1, <1>9, MaxOfSome
  <2> HIDE DEF F
  <2>2. F[<<Max(u), g[u \ {Max(u)}]>>] = g[u \ {Max(u)}] + s[Max(u)]
    BY <1>2, <1>9, <2>1
  <2>3. u \in SUBSET (DOMAIN s)
    BY <1>1
  <2>4. g[u] = g[u \ {Max(u)}] + s[Max(u)]
    BY <1>7, <1>9, <2>3, Zenon DEF IsSumming
  <2> QED
    BY <2>2, <2>4
<1> HIDE DEF F, N
<1>10. Follows(g, F, 0, N, Nat)
  BY <1>8, <1>9 DEF Follows
<1>11. PICK P \in [0 .. N -> Nat] : IsTrace(P, F, 0, N) /\ g[1 .. N] = P[N]
  BY <1>3, <1>10, IterTrace DEF EndsTrace
<1>12. ASSUME NEW i \in 1 .. N PROVE P[i] = P[i - 1] + s[i]
  <2>1. i - 1 \in 0 .. N /\ P[i - 1] \in Nat
    BY <1>1
  <2> QED
    BY <1>2, <1>11, <2>1 DEF IsTrace
<1>13. IsSums(P, s, N)
  BY <1>11, <1>12 DEF IsSums, IsTrace
<1> QED
  BY <1>1, <1>4, <1>11, <1>13 DEF N

Weighted(T) == [name : T, imp : Nat \ {0}]

LEMMA TotalIs ==
  ASSUME NEW T, NEW strats \in Seq(Weighted(T))
  PROVE  \E P : /\ P \in [0 .. Len(strats) -> Nat] /\ P[0] = 0
                /\ \A i \in 1 .. Len(strats) : P[i] = P[i - 1] + strats[i].imp
                /\ TotalOf(strats) = P[Len(strats)]
<1> DEFINE s == [i \in DOMAIN strats |-> Max({strats[i].imp, 1})]
           K == Len(strats)
<1>1. K \in Nat /\ DOMAIN strats = 1 .. K /\ \A i \in 1 .. K : strats[i].imp \in Nat \ {0}
  <2>1. \A i \in 1 .. Len(strats) : strats[i] \in Weighted(T)
    OBVIOUS
  <2>2. \A w \in Weighted(T) : w.imp \in Nat \ {0}
    BY DEF Weighted
  <2> QED
    BY <2>1, <2>2
<1>2. \A i \in 1 .. K : Max({strats[i].imp, 1}) = strats[i].imp
  <2>1. ASSUME NEW x \in Nat \ {0} PROVE Max({x, 1}) = x
    BY DEF Max
  <2> QED
    BY <1>1, <2>1
<1>3. s \in Seq(Nat) /\ Len(s) = K /\ \A i \in 1 .. K : s[i] = strats[i].imp
  <2> HIDE DEF K
  <2>1. \A i \in DOMAIN strats : Max({strats[i].imp, 1}) \in Nat
    BY <1>1, <1>2
  <2>2. s \in [1 .. K -> Nat] /\ \A i \in 1 .. K : s[i] = strats[i].imp
    BY <1>1, <1>2, <2>1
  <2> HIDE DEF s
  <2> QED
    BY <1>1, <2>2
<1>4. TotalOf(strats) = Sum(s)
  BY Zenon DEF TotalOf
<1> HIDE DEF s
<1>5. PICK P : IsSums(P, s, K) /\ Sum(s) = P[K]
  BY <1>3, Summed
<1> QED
  BY <1>3, <1>4, <1>5 DEF IsSums

-----------------------------------------------------------------------------
(* The shares of a normalized map.                                         *)

\* n holds the shares of all strategies but the last.
AreShares(n, strats, T, K) ==
  /\ strats \in Seq(Weighted(T)) /\ strats # <<>> /\ K = Len(strats) - 1
  /\ n \in [1 .. K -> Nat]
  /\ \A i \in 1 .. K : n[i] = (strats[i].imp * 256) \div TotalOf(strats)

IsFilled(m, slots, last) == m = [b \in Buckets |-> IF b < Len(slots) THEN slots[b + 1] ELSE last]

NamesOf(strats, K) == [i \in 1 .. K |-> strats[i].name]

LEMMA MapIs ==
  ASSUME NEW T, NEW strats, NEW n, NEW K, AreShares(n, strats, T, K)
  PROVE  IsFilled(makeMapNormalized(strats), FlattenSeq(Blocks(NamesOf(strats, K), n, K)), Last(strats).name)
<1> DEFINE names == NamesOf(strats, K)
           slots == FlattenSeq(Blocks(names, n, K))
           all == [i \in DOMAIN strats |-> (Max({strats[i].imp, 1}) * 256) \div TotalOf(strats)]
           used == Slots(Front(strats), all)
<1>1. K \in Nat /\ K + 1 = Len(strats) /\ DOMAIN strats = 1 .. K + 1
  BY DEF AreShares
<1>2. \A i \in 1 .. K : all[i] = n[i]
  <2> SUFFICES ASSUME NEW i \in 1 .. K PROVE all[i] = n[i]
    OBVIOUS
  <2>1. strats[i] \in Weighted(T) /\ i \in DOMAIN strats
    BY <1>1 DEF AreShares
  <2>2. strats[i].imp \in Nat \ {0}
    BY <2>1 DEF Weighted
  <2>3. Max({strats[i].imp, 1}) = strats[i].imp
    BY <2>2 DEF Max
  <2> QED
    BY <2>1, <2>3 DEF AreShares
<1>3. DOMAIN Front(strats) = 1 .. K /\ \A i \in 1 .. K : Front(strats)[i] = strats[i]
  BY <1>1 DEF Front
<1> HIDE DEF all
<1>4. [i \in DOMAIN Front(strats) |-> [b \in 1 .. all[i] |-> Front(strats)[i].name]] = Blocks(names, n, K)
  BY <1>2, <1>3 DEF Blocks, NamesOf
<1>5. used = slots
  BY <1>4, Zenon DEF Slots
<1>6. makeMapNormalized(strats) =
        CHOOSE m \in {[b \in Buckets |-> IF b < Len(sl) THEN sl[b + 1] ELSE Last(strats).name] : sl \in {used}} : TRUE
  BY Zenon DEF makeMapNormalized, all
<1> HIDE DEF used, slots
<1>7. makeMapNormalized(strats) = [b \in Buckets |-> IF b < Len(used) THEN used[b + 1] ELSE Last(strats).name]
  <2> DEFINE f == [b \in Buckets |-> IF b < Len(used) THEN used[b + 1] ELSE Last(strats).name]
             maps == {[b \in Buckets |-> IF b < Len(sl) THEN sl[b + 1] ELSE Last(strats).name] : sl \in {used}}
  <2>1. \A m : m \in maps <=> m = f
    BY Zenon
  <2>2. makeMapNormalized(strats) = CHOOSE m : m \in maps /\ TRUE
    BY <1>6, Zenon
  <2> HIDE DEF maps, f
  <2>3. (CHOOSE m : m \in maps /\ TRUE) = f
    BY <2>1
  <2> QED
    BY <2>2, <2>3 DEF f
<1> QED
  BY <1>5, <1>7, Zenon DEF slots, IsFilled

\* Blocks that are shares of 256 by their part of the total P[K + 1] end below 256
\* before the last one, and leave it its part.
EndsOfShares(E, P, imp, K) ==
  /\ K \in Nat /\ imp \in [1 .. K + 1 -> Nat \ {0}] /\ IsSums(P, imp, K + 1)
  /\ E \in [0 .. K -> Nat] /\ E[0] = 0
  /\ \A i \in 1 .. K : E[i] = E[i - 1] + (imp[i] * 256) \div P[K + 1]

LEMMA Rest ==
  ASSUME NEW K, NEW imp, NEW P, NEW E, EndsOfShares(E, P, imp, K)
  PROVE  /\ P[K + 1] \in Nat \ {0} /\ E[K] < 256
         /\ E[K] * P[K + 1] <= (P[K + 1] - imp[K + 1]) * 256
<1> USE DEF EndsOfShares
<1>1. PICK t \in Nat : t = P[K + 1]
  BY DEF IsSums
<1>2. P[K] \in Nat /\ imp[K + 1] \in Nat \ {0} /\ t = P[K] + imp[K + 1]
  <2>1. K + 1 \in 1 .. K + 1 /\ K \in 0 .. K + 1 /\ (K + 1) - 1 = K
    OBVIOUS
  <2> QED
    BY <1>1, <2>1 DEF IsSums
<1>3. t \in Nat \ {0}
  BY <1>2
<1> DEFINE S2 == {k \in Nat : k <= K => E[k] * t <= P[k] * 256}
<1>4. 0 \in S2
  BY <1>3 DEF IsSums
<1>5. ASSUME NEW k \in Nat, k \in S2 PROVE k + 1 \in S2
  <2> SUFFICES ASSUME k + 1 <= K PROVE E[k + 1] * t <= P[k + 1] * 256
    OBVIOUS
  <2>1. k + 1 \in 1 .. K /\ k \in 0 .. K /\ (k + 1) - 1 = k /\ k + 1 \in 1 .. K + 1 /\ k \in 0 .. K + 1
    OBVIOUS
  <2>2. PICK e \in Nat, p \in Nat, i \in Nat : e = E[k] /\ p = P[k] /\ i = imp[k + 1]
    <3>1. E[k] \in Nat
      BY <2>1
    <3>2. P[k] \in Nat
      BY <2>1 DEF IsSums
    <3>3. imp[k + 1] \in Nat
      BY <2>1
    <3> QED
      BY <3>1, <3>2, <3>3
  <2>3. e * t <= p * 256
    BY <1>5, <2>1, <2>2
  <2>4. PICK q \in Nat : q = (i * 256) \div t /\ q * t <= i * 256
    <3>1. i * 256 \in Nat
      OBVIOUS
    <3>2. (i * 256) \div t \in Nat /\ ((i * 256) \div t) * t <= i * 256
      BY <1>3, <3>1, Divided
    <3> QED
      BY <3>2
  <2>5. E[k + 1] = e + q /\ P[k + 1] = p + i
    <3>1. E[k + 1] = E[k] + (imp[k + 1] * 256) \div P[K + 1]
      BY <2>1
    <3>2. P[k + 1] = P[k] + imp[k + 1]
      BY <2>1 DEF IsSums
    <3> QED
      BY <1>1, <2>2, <2>4, <3>1, <3>2
  <2>6. (e + q) * t = e * t + q * t
    BY <1>3, Distributes
  <2>7. PICK x \in Int, y \in Int : x = e * t /\ y = q * t
    BY <1>3
  <2>8. x <= p * 256 /\ y <= i * 256 /\ (e + q) * t = x + y
    BY <2>3, <2>4, <2>6, <2>7
  <2>9. (e + q) * t <= (p + i) * 256
    BY <2>8
  <2> QED
    BY <2>5, <2>9
<1>6. E[K] * t <= P[K] * 256
  <2>1. K \in S2
    <3> HIDE DEF S2
    <3> QED
      BY <1>4, <1>5, SetInduction
  <2> QED
    BY <2>1
<1>7. PICK e \in Nat : e = E[K]
  OBVIOUS
<1>8. P[K] * 256 < 256 * t /\ P[K] * 256 = (t - imp[K + 1]) * 256
  BY <1>2, <1>3
<1>9. e * t < 256 * t
  <2>1. e * t \in Int /\ 256 * t \in Int /\ P[K] * 256 \in Int
    BY <1>2, <1>3
  <2> QED
    BY <1>6, <1>7, <1>8, <2>1
<1>10. e < 256
  BY <1>3, <1>9, Cancels
<1> QED
  BY <1>1, <1>3, <1>6, <1>7, <1>8, <1>10

LEMMA SharesOf ==
  ASSUME NEW T, NEW strats \in Seq(Weighted(T)), strats # <<>>,
         \A i, j \in DOMAIN strats : strats[i].name = strats[j].name => i = j
  PROVE  \A i \in DOMAIN strats :
           LET share == Cardinality({b \in Buckets : makeMapNormalized(strats)[b] = strats[i].name}) IN
           /\ (share + 1) * TotalOf(strats) > strats[i].imp * 256
           /\ i # Len(strats) => share * TotalOf(strats) <= strats[i].imp * 256
<1>1. PICK K \in Nat : K + 1 = Len(strats) /\ K = Len(strats) - 1 /\ DOMAIN strats = 1 .. K + 1
  <2>1. Len(strats) \in Nat \ {0} /\ DOMAIN strats = 1 .. Len(strats)
    OBVIOUS
  <2>2. Len(strats) - 1 \in Nat /\ (Len(strats) - 1) + 1 = Len(strats)
    BY <2>1
  <2> QED
    BY <2>1, <2>2
<1>19. /\ K + 1 \in DOMAIN strats
       /\ \A i \in 1 .. K : i \in DOMAIN strats /\ i # K + 1 /\ i # Len(strats)
  <2>1. DOMAIN strats = 1 .. K + 1 /\ K + 1 = Len(strats)
    BY <1>1
  <2>2. K + 1 \in 1 .. K + 1 /\ \A i \in 1 .. K : i \in 1 .. K + 1 /\ i # K + 1
    OBVIOUS
  <2> QED
    BY <2>1, <2>2, Zenon
<1> DEFINE imp == [i \in 1 .. K + 1 |-> strats[i].imp]
           names == NamesOf(strats, K)
<1>2. \A i \in 1 .. K + 1 : strats[i].imp \in Nat \ {0} /\ strats[i].name \in T
  <2>1. \A i \in 1 .. K + 1 : strats[i] \in Weighted(T)
    BY <1>1
  <2>2. \A w \in Weighted(T) : w.imp \in Nat \ {0} /\ w.name \in T
    BY DEF Weighted
  <2> QED
    BY <2>1, <2>2
<1>3. PICK P : IsSums(P, imp, K + 1) /\ TotalOf(strats) = P[K + 1]
  <2>1. PICK P : /\ P \in [0 .. Len(strats) -> Nat] /\ P[0] = 0
                 /\ \A i \in 1 .. Len(strats) : P[i] = P[i - 1] + strats[i].imp
                 /\ TotalOf(strats) = P[Len(strats)]
    BY TotalIs
  <2> QED
    BY <1>1, <2>1 DEF IsSums
<1>4. imp \in [1 .. K + 1 -> Nat \ {0}] /\ names \in [1 .. K -> T]
      /\ (\A i \in 1 .. K + 1 : imp[i] = strats[i].imp) /\ \A i \in 1 .. K : names[i] = strats[i].name
  BY <1>2 DEF NamesOf
<1> HIDE DEF imp, names
<1>5. PICK t \in Nat \ {0} : t = TotalOf(strats)
  <2>1. P[K + 1] = P[K] + imp[K + 1] /\ P[K] \in Nat /\ imp[K + 1] \in Nat \ {0}
    <3>1. K + 1 \in 1 .. K + 1 /\ K \in 0 .. K + 1 /\ (K + 1) - 1 = K
      OBVIOUS
    <3> QED
      BY <1>3, <1>4, <3>1 DEF IsSums
  <2> QED
    BY <1>3, <2>1
<1> DEFINE n == [i \in 1 .. K |-> (imp[i] * 256) \div t]
<1>6. n \in [1 .. K -> Nat]
      /\ \A i \in 1 .. K : /\ n[i] = (imp[i] * 256) \div t
                           /\ n[i] * t <= imp[i] * 256 /\ imp[i] * 256 < (n[i] + 1) * t
  <2> SUFFICES ASSUME NEW i \in 1 .. K
               PROVE  LET q == (imp[i] * 256) \div t IN
                      q \in Nat /\ q * t <= imp[i] * 256 /\ imp[i] * 256 < (q + 1) * t
    OBVIOUS
  <2>1. imp[i] * 256 \in Nat
    BY <1>4
  <2> QED
    BY <2>1, Divided
<1> HIDE DEF n
<1> DEFINE slots == FlattenSeq(Blocks(names, n, K))
           m == makeMapNormalized(strats)
<1>7. PICK E : IsLaidOut(slots, E, names, n, K)
  BY <1>4, <1>6, LaidOut
<1>8. m = [b \in Buckets |-> IF b < Len(slots) THEN slots[b + 1] ELSE Last(strats).name]
  <2>2. \A i \in 1 .. K : n[i] = (strats[i].imp * 256) \div TotalOf(strats)
    <3>1. ASSUME NEW i \in 1 .. K PROVE imp[i] = strats[i].imp
      BY <1>4
    <3>2. ASSUME NEW i \in 1 .. K PROVE n[i] = (imp[i] * 256) \div t
      BY <1>6
    <3>3. ASSUME NEW i \in 1 .. K PROVE n[i] = (strats[i].imp * 256) \div TotalOf(strats)
      <4>1. n[i] = (imp[i] * 256) \div t /\ imp[i] = strats[i].imp
        BY <3>1, <3>2
      <4> QED
        BY <1>5, <4>1, Zenon
    <3> QED
      BY <3>3
  <2>3. K = Len(strats) - 1 /\ n \in [1 .. K -> Nat]
    BY <1>1, <1>6
  <2>4. AreShares(n, strats, T, K)
    BY <2>2, <2>3, Zenon DEF AreShares
  <2>5. IsFilled(makeMapNormalized(strats), FlattenSeq(Blocks(NamesOf(strats, K), n, K)), Last(strats).name)
    BY <2>4, MapIs
  <2> QED
    BY <2>5, Zenon DEF IsFilled, names
<1> HIDE DEF slots, m
<1>9. /\ E \in [0 .. K -> Nat] /\ E[0] = 0 /\ \A i \in 1 .. K : E[i] = E[i - 1] + n[i]
      /\ Len(slots) = E[K]
      /\ \A i \in 1 .. K, j \in Nat : E[i - 1] < j /\ j <= E[i] => slots[j] = names[i]
      /\ \A j \in 1 .. E[K] : \E i \in 1 .. K : E[i - 1] < j /\ j <= E[i]
  BY <1>7 DEF IsLaidOut
<1>10. E[K] < 256 /\ E[K] * t <= (t - imp[K + 1]) * 256
  <2>1. \A i \in 1 .. K : E[i] = E[i - 1] + (imp[i] * 256) \div P[K + 1]
    BY <1>3, <1>5, <1>6, <1>9
  <2> QED
    <3>1. P[K + 1] = t
      BY <1>3, <1>5
    <3>2. E[K] < 256 /\ E[K] * P[K + 1] <= (P[K + 1] - imp[K + 1]) * 256
      <4>1. imp \in [1 .. K + 1 -> Nat \ {0}] /\ IsSums(P, imp, K + 1)
        BY <1>3, <1>4, Zenon
      <4>2. E \in [0 .. K -> Nat] /\ E[0] = 0
        BY <1>9, Zenon
      <4> QED
        <5>1. EndsOfShares(E, P, imp, K)
          BY <2>1, <4>1, <4>2, Zenon DEF EndsOfShares
        <5> QED
          BY <5>1, Rest
    <3> QED
      BY <3>1, <3>2, Zenon
<1>11. \A i \in 1 .. K : E[i - 1] \in Nat /\ E[i] \in Nat
  BY <1>9
<1>12. \A b \in Buckets : b \in Nat /\ b < 256
  BY DEF Buckets
<1>13. \A b \in Buckets :
         /\ b >= E[K] => m[b] = strats[K + 1].name
         /\ b < E[K] => \E i \in 1 .. K : E[i - 1] <= b /\ b < E[i] /\ m[b] = strats[i].name
  <2> SUFFICES ASSUME NEW b \in Buckets
               PROVE  /\ b >= E[K] => m[b] = strats[K + 1].name
                      /\ b < E[K] => \E i \in 1 .. K : E[i - 1] <= b /\ b < E[i] /\ m[b] = strats[i].name
    OBVIOUS
  <2>1. b \in Nat /\ E[K] \in Nat /\ m[b] = IF b < E[K] THEN slots[b + 1] ELSE Last(strats).name
    BY <1>8, <1>9, <1>12
  <2>2. ASSUME b < E[K]
        PROVE  \E i \in 1 .. K : E[i - 1] <= b /\ b < E[i] /\ m[b] = strats[i].name
    <3>1. b + 1 \in 1 .. E[K]
      BY <2>1, <2>2
    <3>2. PICK i \in 1 .. K : E[i - 1] < b + 1 /\ b + 1 <= E[i]
      BY <1>9, <3>1
    <3>3. slots[b + 1] = strats[i].name
      <4>1. b + 1 \in Nat
        BY <2>1
      <4>2. slots[b + 1] = names[i]
        BY <1>9, <3>2, <4>1, Zenon
      <4> QED
        BY <1>4, <4>2, Zenon
    <3>4. E[i - 1] <= b /\ b < E[i]
      BY <1>11, <2>1, <3>2
    <3> QED
      BY <2>1, <2>2, <3>3, <3>4
  <2>3. Last(strats) = strats[K + 1]
    BY <1>1 DEF Last
  <2> QED
    BY <2>1, <2>2, <2>3
<1>14. ASSUME NEW i \in 1 .. K
       PROVE  Cardinality({b \in Buckets : m[b] = strats[i].name}) = n[i]
  <2>1. i # K + 1 /\ i \in DOMAIN strats /\ K + 1 \in DOMAIN strats /\ \A k \in 1 .. K : k \in DOMAIN strats
    BY <1>19, Zenon
  <2>2. E[i - 1] \in Nat /\ n[i] \in Nat /\ E[i] = E[i - 1] + n[i] /\ E[i] <= E[K]
    <3>1. E[i - 1] \in Nat /\ n[i] \in Nat /\ E[i] = E[i - 1] + n[i]
      BY <1>6, <1>9, <1>11
    <3>2. E[i] <= E[K]
      <4> DEFINE P2 == {k \in Nat : i + k <= K => E[i] <= E[i + k]}
      <4>1. 0 \in P2
        BY <1>11
      <4>2. ASSUME NEW k \in Nat, k \in P2 PROVE k + 1 \in P2
        <5> SUFFICES ASSUME i + (k + 1) <= K PROVE E[i] <= E[i + (k + 1)]
          OBVIOUS
        <5>1. i + (k + 1) \in 1 .. K /\ (i + (k + 1)) - 1 = i + k /\ i + k \in 1 .. K
          OBVIOUS
        <5>2. E[i + (k + 1)] = E[i + k] + n[i + (k + 1)] /\ n[i + (k + 1)] \in Nat
          BY <1>6, <1>9, <5>1
        <5>3. E[i] <= E[i + k] /\ E[i] \in Nat /\ E[i + k] \in Nat
          BY <1>11, <4>2, <5>1
        <5> QED
          BY <5>2, <5>3
      <4>3. K - i \in Nat /\ i + (K - i) = K
        OBVIOUS
      <4>4. \A k \in Nat : k \in P2
        <5> HIDE DEF P2
        <5> QED
          BY <4>1, <4>2, SetInduction
      <4> QED
        BY <4>3, <4>4
    <3> QED
      BY <3>1, <3>2
  <2>3. ASSUME NEW b \in Buckets
        PROVE  m[b] = strats[i].name <=> E[i - 1] <= b /\ b < E[i]
    <3>1. ASSUME m[b] = strats[i].name PROVE E[i - 1] <= b /\ b < E[i]
      <4>1. b < E[K]
        BY <1>9, <1>12, <1>13, <2>1, <3>1
      <4>2. PICK k \in 1 .. K : E[k - 1] <= b /\ b < E[k] /\ m[b] = strats[k].name
        BY <1>13, <4>1
      <4>3. k = i
        BY <2>1, <3>1, <4>2
      <4> QED
        BY <4>2, <4>3
    <3>2. ASSUME E[i - 1] <= b, b < E[i] PROVE m[b] = strats[i].name
      <4>1. b \in Nat /\ E[K] \in Nat /\ b < E[K]
        BY <1>9, <1>12, <2>2, <3>2
      <4>2. m[b] = slots[b + 1]
        BY <1>8, <1>9, <4>1
      <4>3. E[i - 1] < b + 1 /\ b + 1 <= E[i]
        BY <2>2, <3>2, <4>1
      <4>4. b + 1 \in Nat
        BY <4>1
      <4>5. slots[b + 1] = names[i]
        BY <1>9, <4>3, <4>4, Zenon
      <4> QED
        BY <1>4, <4>2, <4>5, Zenon
    <3> QED
      BY <3>1, <3>2
  <2>4. PICK e \in Nat : e = E[i - 1]
    BY <2>2
  <2>5. \A b : b \in Buckets /\ m[b] = strats[i].name <=> b \in e .. e + n[i] - 1
    <3>1. \A b \in e .. e + n[i] - 1 : b \in Buckets
      <4>1. E[K] \in Nat /\ E[K] < 256
        BY <1>9, <1>10
      <4>2. e + n[i] <= E[K] /\ n[i] \in Nat
        BY <2>2, <2>4
      <4> QED
        BY <4>1, <4>2 DEF Buckets
    <3>2. \A b \in Buckets : E[i - 1] <= b /\ b < E[i] <=> b \in e .. e + n[i] - 1
      BY <1>12, <2>2, <2>4
    <3> QED
      BY <2>3, <3>1, <3>2
  <2>6. {b \in Buckets : m[b] = strats[i].name} = e .. e + n[i] - 1
    BY <2>5
  <2>7. Cardinality(e .. e + n[i] - 1) = n[i]
    <3>1. PICK k \in Nat : k = n[i]
      BY <2>2
    <3>2. e \in Int /\ e + k - 1 \in Int
      OBVIOUS
    <3>3. Cardinality(e .. e + k - 1) = IF e > e + k - 1 THEN 0 ELSE (e + k - 1) - e + 1
      BY <3>2, FS_Interval, Zenon
    <3>4. Cardinality(e .. e + k - 1) = k
      BY <3>3
    <3> QED
      BY <3>1, <3>4
  <2> QED
    BY <2>6, <2>7
<1>15. Cardinality({b \in Buckets : m[b] = strats[K + 1].name}) = 256 - E[K]
  <2>1. ASSUME NEW b \in Buckets
        PROVE  m[b] = strats[K + 1].name <=> b >= E[K]
    <3>1. ASSUME m[b] = strats[K + 1].name, b < E[K] PROVE FALSE
      <4>1. PICK k \in 1 .. K : m[b] = strats[k].name
        BY <1>13, <3>1
      <4>2. k \in DOMAIN strats /\ K + 1 \in DOMAIN strats /\ k # K + 1
        BY <1>19, Zenon
      <4> QED
        BY <3>1, <4>1, <4>2
    <3> QED
      BY <1>9, <1>12, <1>13, <3>1
  <2>2. PICK e \in Nat : e = E[K] /\ e < 256
    BY <1>9, <1>10
  <2>3. \A b : b \in Buckets /\ m[b] = strats[K + 1].name <=> b \in e .. 255
    <3>1. \A b \in Buckets : b >= E[K] <=> b \in e .. 255
      BY <2>2 DEF Buckets
    <3>2. \A b \in e .. 255 : b \in Buckets
      BY <2>2 DEF Buckets
    <3> QED
      BY <2>1, <3>1, <3>2, Zenon
  <2>4. {b \in Buckets : m[b] = strats[K + 1].name} = e .. 255
    BY <2>3
  <2>5. Cardinality(e .. 255) = 256 - e
    <3>1. e \in Int /\ 255 \in Int /\ ~(e > 255)
      BY <2>2
    <3>2. Cardinality(e .. 255) = IF e > 255 THEN 0 ELSE 255 - e + 1
      BY <3>1, FS_Interval, Zenon
    <3> QED
      BY <3>1, <3>2
  <2> QED
    BY <2>2, <2>4, <2>5
<1>16. imp[K + 1] * 256 < ((256 - E[K]) + 1) * t
  <2>1. PICK e \in Nat, i \in Nat : e = E[K] /\ i = imp[K + 1]
    BY <1>4, <1>9
  <2>2. (256 - e) * t = 256 * t - e * t
    OBVIOUS
  <2>3. ((256 - e) + 1) * t = (256 - e) * t + t
    OBVIOUS
  <2>4. PICK x \in Int : x = e * t
    OBVIOUS
  <2>5. x <= (t - i) * 256
    BY <1>10, <2>1, <2>4
  <2>6. ((256 - e) + 1) * t = 256 * t - x + t
    BY <2>2, <2>3, <2>4
  <2>7. i * 256 < 256 * t - x + t
    BY <2>5
  <2> QED
    BY <2>1, <2>6, <2>7
<1> SUFFICES ASSUME NEW i \in 1 .. K + 1
             PROVE  LET share == Cardinality({b \in Buckets : m[b] = strats[i].name}) IN
                    /\ (share + 1) * t > imp[i] * 256
                    /\ i # K + 1 => share * t <= imp[i] * 256
  BY <1>1, <1>4, <1>5 DEF m
<1>17. CASE i \in 1 .. K
  <2>1. PICK x \in Nat : x = n[i] /\ x * t <= imp[i] * 256 /\ imp[i] * 256 < (x + 1) * t
    <3>1. n[i] \in Nat /\ n[i] * t <= imp[i] * 256 /\ imp[i] * 256 < (n[i] + 1) * t
      <4>1. n[i] \in Nat
        BY <1>6, <1>17
      <4>2. n[i] * t <= imp[i] * 256
        BY <1>6, <1>17
      <4>3. imp[i] * 256 < (n[i] + 1) * t
        BY <1>6, <1>17
      <4> QED
        BY <4>1, <4>2, <4>3
    <3> QED
      BY <3>1, Zenon
  <2>2. Cardinality({b \in Buckets : m[b] = strats[i].name}) = x
    BY <1>14, <1>17, <2>1
  <2>3. (x + 1) * t \in Int /\ imp[i] * 256 \in Int
    BY <1>4
  <2> QED
    BY <2>1, <2>2, <2>3
<1>18. CASE i = K + 1
  <2>1. PICK x \in Int : x = 256 - E[K] /\ imp[K + 1] * 256 < (x + 1) * t
    BY <1>9, <1>16
  <2>2. Cardinality({b \in Buckets : m[b] = strats[i].name}) = x
    BY <1>15, <1>18, <2>1
  <2>3. (x + 1) * t \in Int /\ imp[i] * 256 \in Int
    BY <1>4
  <2> QED
    BY <1>18, <2>1, <2>2, <2>3
<1> QED
  BY <1>17, <1>18

-----------------------------------------------------------------------------
(* The plan that is loaded at the start, and its map.                      *)

LEMMA Concatenated ==
  ASSUME NEW T, NEW s \in Seq(T), NEW t \in Seq(T)
  PROVE  /\ s \o t \in Seq(T) /\ Len(s \o t) = Len(s) + Len(t)
         /\ \A i \in 1 .. Len(s) : (s \o t)[i] = s[i]
         /\ \A i \in 1 .. Len(t) : (s \o t)[Len(s) + i] = t[i]
OBVIOUS

BasicNames == {"opcode", "memStorage", "mstore", "sstore", "tstore", "returnData", "return", "push",
               "hashAndStore", "mload", "sload", "tload", "blobhash"}
StockNames == BasicNames \cup {"createCallRNG", "createCall", "randomCall", "callPrecompile", "jumpdest", "jump"}
Stock == [name : StockNames, imp : 1 .. 100]

\* The names by their place.
LEMMA PlacesDiffer ==
  ASSUME NEW s,
         /\ s[1].name = "opcode" /\ s[2].name = "memStorage" /\ s[3].name = "mstore"
         /\ s[4].name = "sstore" /\ s[5].name = "tstore" /\ s[6].name = "returnData"
         /\ s[7].name = "return" /\ s[8].name = "push" /\ s[9].name = "hashAndStore"
         /\ s[10].name = "mload" /\ s[11].name = "sload" /\ s[12].name = "tload" /\ s[13].name = "blobhash",
         /\ s[14].name = "createCallRNG" /\ s[15].name = "createCall" /\ s[16].name = "randomCall"
         /\ s[17].name = "callPrecompile" /\ s[18].name = "jumpdest" /\ s[19].name = "jump"
  PROVE  \A i, j \in 1 .. 19 : s[i].name = s[j].name => i = j
<1> DEFINE I == {1, 2, 3, 4, 5, 6, 7, 8, 9, 10, 11, 12, 13, 14, 15, 16, 17, 18, 19}
<1>1. \A i \in 1 .. 19 : i \in I
  OBVIOUS
<1>2. SUFFICES ASSUME NEW i \in I, NEW j \in I, s[i].name = s[j].name PROVE i = j
  BY <1>1
<1> QED
  BY <1>2

LEMMA StockStrategies ==
  /\ allStrategies \in Seq(Stock) /\ Len(allStrategies) = 19
  /\ \A i, j \in 1 .. 19 : allStrategies[i].name = allStrategies[j].name => i = j
<1>1. \A name \in StockNames, i \in 1 .. 100 : Strategy(name, i) \in Stock /\ Strategy(name, i).name = name
  BY DEF Strategy, Stock
<1>2. BasicNames \subseteq StockNames /\ {1, 2, 3, 4, 5, 7, 8, 10} \subseteq 1 .. 100
  BY DEF StockNames
<1>3. basicStrategies \in Seq(Stock) /\ Len(basicStrategies) = 13
  <2>1. \A name \in BasicNames, i \in {1, 2, 3, 4, 10} : Strategy(name, i) \in Stock
    BY <1>1, <1>2
  <2>2. /\ Strategy("opcode", 10) \in Stock /\ Strategy("memStorage", 1) \in Stock
        /\ Strategy("mstore", 3) \in Stock /\ Strategy("sstore", 3) \in Stock
        /\ Strategy("tstore", 3) \in Stock /\ Strategy("returnData", 1) \in Stock
        /\ Strategy("return", 1) \in Stock /\ Strategy("push", 4) \in Stock
    BY <2>1 DEF BasicNames
  <2>3. /\ Strategy("hashAndStore", 2) \in Stock /\ Strategy("mload", 1) \in Stock
        /\ Strategy("sload", 1) \in Stock /\ Strategy("tload", 1) \in Stock
        /\ Strategy("blobhash", 1) \in Stock
    BY <2>1 DEF BasicNames
  <2>4. basicStrategies \in Seq(Stock)
    BY <2>2, <2>3 DEF basicStrategies
  <2>5. Len(basicStrategies) = 13
    BY DEF basicStrategies
  <2> QED
    BY <2>4, <2>5
<1>4. callStrategies \in Seq(Stock) /\ Len(callStrategies) = 4
  <2>1. /\ Strategy("createCallRNG", 4) \in Stock /\ Strategy("createCall", 5) \in Stock
        /\ Strategy("randomCall", 4) \in Stock /\ Strategy("callPrecompile", 8) \in Stock
    BY <1>1, <1>2 DEF StockNames
  <2> QED
    BY <2>1 DEF callStrategies
<1>5. jumpStrategies \in Seq(Stock) /\ Len(jumpStrategies) = 2
  <2>1. Strategy("jumpdest", 5) \in Stock /\ Strategy("jump", 7) \in Stock
    BY <1>1, <1>2 DEF StockNames
  <2> QED
    BY <2>1 DEF jumpStrategies
<1>6. PICK b \in Seq(Stock), c \in Seq(Stock), d \in Seq(Stock) :
        b = basicStrategies /\ c = callStrategies /\ d = jumpStrategies
  BY <1>3, <1>4, <1>5
<1>7. allStrategies = (b \o c) \o d /\ Len(b) = 13 /\ Len(c) = 4 /\ Len(d) = 2
  BY <1>3, <1>4, <1>5, <1>6, Zenon DEF allStrategies
<1> DEFINE e == b \o c
<1>8. /\ e \in Seq(Stock) /\ Len(e) = 17
      /\ (\A i \in 1 .. 13 : e[i] = b[i]) /\ \A i \in 1 .. 4 : e[13 + i] = c[i]
  <2>1. /\ e \in Seq(Stock) /\ Len(e) = Len(b) + Len(c)
        /\ (\A i \in 1 .. Len(b) : e[i] = b[i]) /\ \A i \in 1 .. Len(c) : e[Len(b) + i] = c[i]
    BY Concatenated
  <2> HIDE DEF e
  <2>2. Len(b) = 13 /\ Len(c) = 4 /\ Len(e) = 17
    BY <1>7, <2>1
  <2> QED
    BY <2>1, <2>2, Zenon
<1> HIDE DEF e
<1> DEFINE s == e \o d
<1>9. /\ s \in Seq(Stock) /\ Len(s) = 19
      /\ (\A i \in 1 .. 17 : s[i] = e[i]) /\ \A i \in 1 .. 2 : s[17 + i] = d[i]
  <2>1. /\ s \in Seq(Stock) /\ Len(s) = Len(e) + Len(d)
        /\ (\A i \in 1 .. Len(e) : s[i] = e[i]) /\ \A i \in 1 .. Len(d) : s[Len(e) + i] = d[i]
    <3>1. e \in Seq(Stock)
      BY <1>8
    <3> QED
      BY <3>1, Concatenated
  <2> HIDE DEF s
  <2>2. Len(e) = 17 /\ Len(d) = 2 /\ Len(s) = 19
    BY <1>8, <1>7, <2>1
  <2> QED
    BY <2>1, <2>2, Zenon
<1> HIDE DEF s
<1>10. s = allStrategies
  BY <1>7, Zenon DEF e, s
<1>11. /\ b[1].name = "opcode" /\ b[2].name = "memStorage" /\ b[3].name = "mstore"
       /\ b[4].name = "sstore" /\ b[5].name = "tstore" /\ b[6].name = "returnData"
       /\ b[7].name = "return" /\ b[8].name = "push" /\ b[9].name = "hashAndStore"
       /\ b[10].name = "mload" /\ b[11].name = "sload" /\ b[12].name = "tload" /\ b[13].name = "blobhash"
  BY <1>6 DEF basicStrategies, Strategy
<1>12. c[1].name = "createCallRNG" /\ c[2].name = "createCall" /\ c[3].name = "randomCall"
       /\ c[4].name = "callPrecompile"
  BY <1>6 DEF callStrategies, Strategy
<1>13. d[1].name = "jumpdest" /\ d[2].name = "jump"
  BY <1>6 DEF jumpStrategies, Strategy
<1>14. \A i \in 1 .. 13 : s[i] = b[i]
  <2>1. \A i \in 1 .. 13 : i \in 1 .. 17
    OBVIOUS
  <2> QED
    BY <1>8, <1>9, <2>1, Zenon
<1>15. s[14] = c[1] /\ s[15] = c[2] /\ s[16] = c[3] /\ s[17] = c[4]
  <2>1. \A i \in 1 .. 4 : 13 + i \in 1 .. 17
    OBVIOUS
  <2>2. \A i \in 1 .. 4 : s[13 + i] = c[i]
    BY <1>8, <1>9, <2>1, Zenon
  <2>3. 1 \in 1 .. 4 /\ 2 \in 1 .. 4 /\ 3 \in 1 .. 4 /\ 4 \in 1 .. 4
    OBVIOUS
  <2>4. s[13 + 1] = c[1] /\ s[13 + 2] = c[2] /\ s[13 + 3] = c[3] /\ s[13 + 4] = c[4]
    BY <2>2, <2>3, Zenon
  <2>5. 13 + 1 = 14 /\ 13 + 2 = 15 /\ 13 + 3 = 16 /\ 13 + 4 = 17
    OBVIOUS
  <2> QED
    BY <2>4, <2>5, Zenon
<1>16. s[18] = d[1] /\ s[19] = d[2]
  <2>1. 1 \in 1 .. 2 /\ 2 \in 1 .. 2 /\ 17 + 1 = 18 /\ 17 + 2 = 19
    OBVIOUS
  <2>2. s[17 + 1] = d[1] /\ s[17 + 2] = d[2]
    BY <1>9, <2>1, Zenon
  <2> QED
    BY <2>1, <2>2, Zenon
<1>17. /\ s[1].name = "opcode" /\ s[2].name = "memStorage" /\ s[3].name = "mstore"
       /\ s[4].name = "sstore" /\ s[5].name = "tstore" /\ s[6].name = "returnData"
       /\ s[7].name = "return" /\ s[8].name = "push" /\ s[9].name = "hashAndStore"
       /\ s[10].name = "mload" /\ s[11].name = "sload" /\ s[12].name = "tload" /\ s[13].name = "blobhash"
  <2>1. \A i \in {1, 2, 3, 4, 5, 6, 7, 8, 9, 10, 11, 12, 13} : i \in 1 .. 13
    OBVIOUS
  <2>2. \A i \in {1, 2, 3, 4, 5, 6, 7, 8, 9, 10, 11, 12, 13} : s[i] = b[i]
    BY <1>14, <2>1, Zenon
  <2>3. /\ s[1] = b[1] /\ s[2] = b[2] /\ s[3] = b[3] /\ s[4] = b[4] /\ s[5] = b[5]
        /\ s[6] = b[6] /\ s[7] = b[7] /\ s[8] = b[8] /\ s[9] = b[9] /\ s[10] = b[10]
        /\ s[11] = b[11] /\ s[12] = b[12] /\ s[13] = b[13]
    BY <2>2, Zenon
  <2> QED
    BY <1>11, <2>3, Zenon
<1>18. /\ s[14].name = "createCallRNG" /\ s[15].name = "createCall" /\ s[16].name = "randomCall"
       /\ s[17].name = "callPrecompile" /\ s[18].name = "jumpdest" /\ s[19].name = "jump"
  BY <1>12, <1>13, <1>15, <1>16
<1>19. \A i, j \in 1 .. 19 : s[i].name = s[j].name => i = j
  BY <1>17, <1>18, PlacesDiffer
<1> QED
  BY <1>9, <1>10, <1>19

LEMMA WeightedIs ==
  ASSUME NEW p, \A name \in DOMAIN p.weights : p.weights[name] \in Int
  PROVE  /\ weighted(p) \in Seq(Weighted(StockNames)) /\ Len(weighted(p)) = 19 /\ weighted(p) # <<>>
         /\ \A i, j \in DOMAIN weighted(p) : weighted(p)[i].name = weighted(p)[j].name => i = j
<1> DEFINE ws == weighted(p)
<1>1. DOMAIN allStrategies = 1 .. 19 /\ \A i \in 1 .. 19 : allStrategies[i] \in Stock
  <2>1. PICK s \in Seq(Stock) : s = allStrategies /\ Len(s) = 19
    BY StockStrategies
  <2>2. DOMAIN s = 1 .. 19
    BY <2>1
  <2>3. \A i \in DOMAIN s : s[i] \in Stock
    OBVIOUS
  <2> QED
    BY <2>1, <2>2, <2>3, Zenon
<1>2. ws = [i \in 1 .. 19 |-> IF allStrategies[i].name \in DOMAIN p.weights
                              THEN [allStrategies[i] EXCEPT !.imp = Clamped(p.weights[allStrategies[i].name])]
                              ELSE allStrategies[i]]
  BY <1>1, Zenon DEF weighted
<1>3. \A w \in Int : Clamped(w) \in 1 .. 100
  BY DEF Clamped
<1>4. ASSUME NEW i \in 1 .. 19
      PROVE  ws[i] \in Stock /\ ws[i].name = allStrategies[i].name
  <2>1. PICK s \in Stock : s = allStrategies[i]
    BY <1>1
  <2>2. CASE s.name \in DOMAIN p.weights
    <3>1. PICK w \in 1 .. 100 : w = Clamped(p.weights[s.name])
      BY <1>3, <2>2
    <3>2. ws[i] = [s EXCEPT !.imp = w]
      BY <1>2, <2>1, <2>2, <3>1, Zenon
    <3> HIDE DEF ws
    <3> QED
      BY <2>1, <3>2 DEF Stock
  <2>3. CASE s.name \notin DOMAIN p.weights
    <3>1. ws[i] = s
      BY <1>2, <2>1, <2>3, Zenon
    <3> QED
      BY <2>1, <3>1
  <2> QED
    BY <2>2, <2>3
<1>5. Stock \subseteq Weighted(StockNames)
  BY DEF Weighted, Stock
<1>6. \E f : ws = [i \in 1 .. 19 |-> f[i]]
  BY <1>2, Zenon
<1> HIDE DEF ws
<1>7. DOMAIN ws = 1 .. 19 /\ ws = [i \in 1 .. 19 |-> ws[i]]
  BY <1>2
<1>8. ws \in Seq(Weighted(StockNames)) /\ Len(ws) = 19
  <2>1. \A i \in 1 .. 19 : ws[i] \in Weighted(StockNames)
    BY <1>4, <1>5
  <2> QED
    BY <1>7, <2>1
<1>9. ws # <<>>
  <2>1. PICK k : k = Len(ws)
    OBVIOUS
  <2>2. k # Len(<<>>)
    BY <1>8, <2>1
  <2> QED
    BY <2>1, <2>2, Zenon
<1>10. \A i, j \in DOMAIN ws : ws[i].name = ws[j].name => i = j
  BY <1>4, <1>7, StockStrategies
<1> QED
  BY <1>8, <1>9, <1>10 DEF ws

PlanInv == plan \in Plans /\ strategies = ApplyPlan(plan)

LEMMA PlanInductive == GenSpec => []PlanInv
<1>1. GenInit => PlanInv
  BY DEF GenInit, PlanInv
<1>2. PlanInv /\ [GenNext]_genVars => PlanInv'
  BY Zenon DEF PlanInv, GenNext, genVars, Start, AppendCode, Jumpdest, Jump, CreateCall, Finish
<1> QED
  BY <1>1, <1>2, PTL DEF GenSpec

\* Whatever the weights of a plan, its map gives each strategy its part of the 256
\* buckets: the shares before the last never take them all.
THEOREM PlansHonoured == Spec => []WeightsHonoured
<1>1. PlanInv => WeightsHonoured
  <2> SUFFICES ASSUME PlanInv, DOMAIN plan.weights # {}, NEW i \in DOMAIN weighted(plan)
               PROVE  LET ws == weighted(plan) IN
                      /\ (Share(ws[i].name) + 1) * TotalOf(ws) > ws[i].imp * 256
                      /\ i # Len(ws) => Share(ws[i].name) * TotalOf(ws) <= ws[i].imp * 256
    BY DEF WeightsHonoured
  <2>1. PICK ws : ws = weighted(plan)
    OBVIOUS
  <2>2. /\ ws \in Seq(Weighted(StockNames)) /\ ws # <<>> /\ i \in DOMAIN ws
        /\ \A k, j \in DOMAIN ws : ws[k].name = ws[j].name => k = j
    BY <2>1, WeightedIs, PlansAssumption DEF PlanInv
  <2>3. strategies = makeMapNormalized(ws)
    BY <2>1 DEF PlanInv, ApplyPlan
  <2>4. Share(ws[i].name) = Cardinality({b \in Buckets : makeMapNormalized(ws)[b] = ws[i].name})
    BY <2>3 DEF Share
  <2> QED
    BY <2>1, <2>2, <2>4, SharesOf
<1> QED
  BY <1>1, PlanInductive, OneTool, PTL
=============================================================================
