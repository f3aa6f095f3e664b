-------------------------- MODULE FuzzEngine_proofs --------------------------
(* Proofs about FuzzEngine, for every number of clients, threads and files. *)
EXTENDS FuzzEngine, TLAPS, FiniteSetTheorems

(***************************************************************************)
(* Sequences without duplicates.                                           *)
(***************************************************************************)

\* Appending adds one element and keeps the elements distinct if it is new.
LEMMA AppendElems ==
  ASSUME NEW S, NEW s \in Seq(S), NEW x \in S
  PROVE  /\ Append(s, x) \in Seq(S)
         /\ Len(Append(s, x)) = Len(s) + 1
         /\ Elems(Append(s, x)) = Elems(s) \cup {x}
         /\ Distinct(s) /\ x \notin Elems(s) => Distinct(Append(s, x))
<1> DEFINE a == Append(s, x)
<1>1. /\ a \in Seq(S)
      /\ Len(a) = Len(s) + 1
      /\ DOMAIN a = 1 .. Len(s) + 1
      /\ DOMAIN s = 1 .. Len(s)
      /\ Len(s) \in Nat
      /\ \A i \in 1 .. Len(s) : a[i] = s[i]
      /\ a[Len(s) + 1] = x
  OBVIOUS
<1>2. Elems(a) = Elems(s) \cup {x}
  <2>1. \A i \in DOMAIN a : a[i] \in Elems(s) \cup {x}
    BY <1>1 DEF Elems
  <2>2. \A y \in Elems(s) : y \in Elems(a)
    BY <1>1 DEF Elems
  <2>3. x \in Elems(a)
    BY <1>1 DEF Elems
  <2> QED BY <2>1, <2>2, <2>3 DEF Elems
<1>3. Distinct(s) /\ x \notin Elems(s) => Distinct(a)
  BY <1>1 DEF Elems, Distinct
<1> QED BY <1>1, <1>2, <1>3

\* Taking the head of a sequence without duplicates takes it out of the elements.
LEMMA TailElems ==
  ASSUME NEW S, NEW s \in Seq(S), s # <<>>
  PROVE  /\ Tail(s) \in Seq(S)
         /\ Head(s) \in S
         /\ Head(s) \in Elems(s)
         /\ Len(Tail(s)) = Len(s) - 1
         /\ Len(s) > 0
         /\ Elems(Tail(s)) \subseteq Elems(s)
         /\ Distinct(s) => /\ Distinct(Tail(s))
                           /\ Elems(Tail(s)) = Elems(s) \ {Head(s)}
<1> DEFINE t == Tail(s)
<1>1. /\ t \in Seq(S)
      /\ Head(s) \in S
      /\ Head(s) = s[1]
      /\ Len(s) \in Nat
      /\ Len(s) > 0
      /\ Len(t) = Len(s) - 1
      /\ DOMAIN t = 1 .. Len(s) - 1
      /\ DOMAIN s = 1 .. Len(s)
      /\ \A i \in 1 .. Len(s) - 1 : t[i] = s[i + 1]
  OBVIOUS
<1>2. Head(s) \in Elems(s)
  BY <1>1 DEF Elems
<1>3. Elems(t) \subseteq Elems(s)
  BY <1>1 DEF Elems
<1>4. ASSUME Distinct(s)
      PROVE  Distinct(t) /\ Elems(t) = Elems(s) \ {Head(s)}
  <2>1. Distinct(t)
    BY <1>1, <1>4 DEF Distinct
  <2>2. Head(s) \notin Elems(t)
    BY <1>1, <1>4 DEF Distinct, Elems
  <2>3. ASSUME NEW y \in Elems(s), y # Head(s)
        PROVE  y \in Elems(t)
    <3>1. PICK i \in DOMAIN s : s[i] = y
      BY DEF Elems
    <3>2. i - 1 \in DOMAIN t /\ t[i - 1] = y
      BY <1>1, <2>3, <3>1
    <3> QED BY <3>2 DEF Elems
  <2> QED BY <1>3, <2>1, <2>2, <2>3
<1> QED BY <1>1, <1>2, <1>3, <1>4

(***************************************************************************)
(* Type correctness.                                                       *)
(***************************************************************************)

LEMMA ConstantTypes ==
  /\ NumVMs \in Nat \ {0} /\ NumTests \in Nat
  /\ ClientCount \in Nat \ {0}
  /\ NoTest \notin Tests
  /\ NoEntry \in Entries
  /\ FreshEntry \in Entries
  /\ IsFiniteSet(VMs)
<1>1. NumVMs \in Nat \ {0} /\ NumTests \in Nat /\ ClientCount \in Nat \ {0}
  BY EngineAssumption DEF ClientCount
<1>2. IsFiniteSet(VMs)
  BY <1>1, FS_Interval DEF VMs
<1> QED BY <1>1, <1>2 DEF NoTest, Tests, NoEntry, FreshEntry, Entries

\* The clients at work are a finite set; what taking one of them adds or
\* removes is one.
LEMMA BusyFinite ==
  /\ IsFiniteSet(Busy) /\ Cardinality(Busy) \in Nat
  /\ \A t : IsFiniteSet(BusyOn(t)) /\ Cardinality(BusyOn(t)) \in Nat
<1>1. Busy \subseteq VMs /\ \A t : BusyOn(t) \subseteq VMs
  BY DEF Busy, BusyOn
<1>2. \A S : S \subseteq VMs => IsFiniteSet(S) /\ Cardinality(S) \in Nat
  BY ConstantTypes, FS_Subset, FS_CardinalityType
<1> QED BY <1>1, <1>2

LEMMA BusyAfterReturn ==
  ASSUME TypeOK, NEW v \in VMs, NEW u \in Tests, task[v] = u,
         task' = [task EXCEPT ![v] = NoTest]
  PROVE  /\ Busy' = Busy \ {v} /\ v \in Busy
         /\ Cardinality(Busy') = Cardinality(Busy) - 1
         /\ v \in BusyOn(u)
         /\ \A t \in Tests : BusyOn(t)' = BusyOn(t) \ {v}
         /\ Cardinality(BusyOn(u)') = Cardinality(BusyOn(u)) - 1
         /\ \A t \in Tests : Cardinality(BusyOn(t)') <= Cardinality(BusyOn(t))
<1>1. \A w \in VMs : task'[w] = IF w = v THEN NoTest ELSE task[w]
  BY DEF TypeOK
<1>2. Busy' = Busy \ {v} /\ v \in Busy /\ v \in BusyOn(u)
  BY <1>1, ConstantTypes DEF Busy, BusyOn
<1>3. \A t \in Tests : BusyOn(t)' = BusyOn(t) \ {v}
  BY <1>1, ConstantTypes DEF BusyOn
<1>4. ASSUME NEW S, IsFiniteSet(S)
      PROVE  /\ v \in S => Cardinality(S \ {v}) = Cardinality(S) - 1
             /\ Cardinality(S \ {v}) <= Cardinality(S)
  <2>1. Cardinality(S) \in Nat
    BY <1>4, FS_CardinalityType
  <2>2. Cardinality(S \ {v}) = IF v \in S THEN Cardinality(S) - 1 ELSE Cardinality(S)
    BY <1>4, FS_RemoveElement
  <2> QED BY <2>1, <2>2
<1>5. Cardinality(Busy \ {v}) = Cardinality(Busy) - 1
  BY <1>2, <1>4, BusyFinite
<1>6. Cardinality(BusyOn(u)') = Cardinality(BusyOn(u)) - 1
  BY <1>2, <1>3, <1>4, BusyFinite
<1>7. ASSUME NEW t \in Tests
      PROVE  Cardinality(BusyOn(t)') <= Cardinality(BusyOn(t))
  BY <1>3, <1>4, BusyFinite
<1> QED BY <1>2, <1>3, <1>5, <1>6, <1>7

LEMMA BusyAfterDispatch ==
  ASSUME TypeOK, NEW v \in VMs, task[v] = NoTest,
         NEW u \in Tests, task' = [task EXCEPT ![v] = u]
  PROVE  /\ Busy' = Busy \cup {v} /\ v \notin Busy
         /\ Cardinality(Busy') = Cardinality(Busy) + 1
         /\ \A t \in Tests \ {u} : BusyOn(t)' = BusyOn(t)
         /\ BusyOn(u)' = BusyOn(u) \cup {v}
         /\ Cardinality(BusyOn(u)') = Cardinality(BusyOn(u)) + 1
<1>1. \A w \in VMs : task'[w] = IF w = v THEN u ELSE task[w]
  BY DEF TypeOK
<1>2. /\ Busy' = Busy \cup {v} /\ v \notin Busy
      /\ BusyOn(u)' = BusyOn(u) \cup {v} /\ v \notin BusyOn(u)
  BY <1>1, ConstantTypes DEF Busy, BusyOn
<1>3. \A t \in Tests \ {u} : BusyOn(t)' = BusyOn(t)
  BY <1>1, ConstantTypes DEF BusyOn
<1>4. /\ Cardinality(Busy \cup {v}) = Cardinality(Busy) + 1
      /\ Cardinality(BusyOn(u) \cup {v}) = Cardinality(BusyOn(u)) + 1
  BY <1>2, BusyFinite, FS_AddElement
<1> QED BY <1>2, <1>3, <1>4

LEMMA TypeFactory ==
  ASSUME TypeOK, ControlInv, NEW f \in Factories, FactoryStep(f)
  PROVE  TypeOK'
<1> USE ConstantTypes
<1>1. CASE Provide(f)
  BY <1>1 DEF Provide, NextFile, TypeOK, loopVars, vmVars, cleanVars, mainVars, histVars, Tests, TestOrNone
<1>2. CASE Ship(f)
  <2>1. factory[f].file \in Tests
    BY <1>2 DEF Ship, TypeOK, ControlInv, TestOrNone
  <2>2. Append(testCh, factory[f].file) \in Seq(Tests)
    BY <2>1, AppendElems DEF TypeOK
  <2> QED BY <1>2, <2>2 DEF Ship, TypeOK, loopVars, vmVars, cleanVars, mainVars, histVars, TestOrNone
<1>3. CASE FactoryExit(f)
  BY <1>3 DEF FactoryExit, TypeOK, loopVars, vmVars, cleanVars, mainVars, histVars
<1> QED BY <1>1, <1>2, <1>3 DEF FactoryStep

LEMMA TypeRead ==
  ASSUME IInv, NEW v \in VMs, ReadStep(v)
  PROVE  TypeOK'
<1> USE ConstantTypes DEF IInv
<1>1. ASSUME Rendezvous(v)
      PROVE  /\ need' \in Nat
             /\ ready' \in Seq(VMs)
             /\ task' \in [VMs -> TestOrNone]
             /\ vmExited' = vmExited
             /\ task[v] \in Tests
  BY <1>1, AppendElems DEF Rendezvous, TypeOK, TestOrNone
<1>2. CASE ReadError(v)
  BY <1>1, <1>2 DEF ReadError, TypeOK, feedVars, cleanVars, mainVars, histVars
<1>3. ASSUME NEW r \in Results, ReadResult(v, r)
      PROVE  TypeOK'
  <2> DEFINE t == task[v]
             e == WithResult(entry[t], v, r)
  <2>0. t \in Tests /\ Rendezvous(v)
    BY <1>1, <1>3 DEF ReadResult
  <2>1. e \in Entries
    <3>1. t \in executing
      BY <2>0, <1>3 DEF EntryInv, BusyOn
    <3>2. entry[t].waiting \in 1 .. ClientCount
      BY <2>0, <3>1 DEF EntryInv, TypeOK, Entries
    <3>3. r.hash \in Hashes /\ r.slow \in BOOLEAN
      BY EngineAssumption DEF Results
    <3> QED BY <2>0, <3>2, <3>3 DEF WithResult, TypeOK, Entries
  <2>2. entry' \in [Tests -> Entries]
    BY <1>3, <2>0, <2>1 DEF ReadResult, TypeOK
  <2>3. observed' \in [Tests -> SUBSET (VMs \X Hashes)]
    BY <1>3, <2>0 DEF ReadResult, TypeOK, Results
  <2>4. /\ loop' \in {"collect", "settle"}
        /\ settling' \in TestOrNone
        /\ executing' \subseteq Tests
        /\ numTests' \in Nat
    BY <1>3, <2>0 DEF ReadResult, Rendezvous, TypeOK, TestOrNone
  <2> QED BY <1>1, <1>3, <2>0, <2>2, <2>3, <2>4
             DEF ReadResult, TypeOK, feedVars, cleanVars, mainVars
<1> QED BY <1>2, <1>3 DEF ReadStep

LEMMA TypeLoop ==
  ASSUME IInv, LoopStep
  PROVE  TypeOK'
<1> USE ConstantTypes DEF IInv
<1>1. CASE TakeTest
  BY <1>1, TailElems DEF TakeTest, Missing, TypeOK, vmVars, cleanVars, mainVars, histVars, TestOrNone
<1>2. CASE SettleFlaw
  <2>1. settling \in Tests
    BY <1>2 DEF SettleFlaw, ControlInv, TypeOK, TestOrNone
  <2> QED BY <1>2, <2>1, AppendElems
             DEF SettleFlaw, TypeOK, feedVars, vmVars, cleanVars, mainVars, TestOrNone
<1>3. CASE SettleClean
  <2>1. settling \in Tests
    BY <1>3 DEF SettleClean, ControlInv, TypeOK, TestOrNone
  <2> QED BY <1>3, <2>1
             DEF SettleClean, TypeOK, feedVars, vmVars, mainVars, TestOrNone, NoClean
<1>4. CASE Shortcut
  BY <1>4 DEF Shortcut, TypeOK, feedVars, vmVars, cleanVars, mainVars, TestOrNone
<1>5. CASE StartTest
  BY <1>5 DEF StartTest, TypeOK, feedVars, vmVars, cleanVars, mainVars, histVars, TestOrNone
<1>6. CASE Dispatch
  BY <1>6, TailElems DEF Dispatch, TakeReady, ControlInv, TypeOK, feedVars, cleanVars, mainVars, histVars, TestOrNone
<1>7. CASE CloseTaskChannels
  BY <1>7, BusyFinite DEF CloseTaskChannels, ToDrain, ReadyCount, TypeOK, feedVars, vmVars, cleanVars, mainVars, histVars
<1>8. CASE PickFlaw
  BY <1>8, TailElems DEF PickFlaw, TypeOK, feedVars, vmVars, cleanVars, mainVars, histVars, TestOrNone
<1>9. CASE LoopReturn
  BY <1>9 DEF LoopReturn, Cancel, TypeOK, feedVars, vmVars, cleanVars, mainVars, histVars
<1>10. CASE InvestigatePanics
  BY <1>10 DEF InvestigatePanics, TypeOK, feedVars, loopVars, vmVars, cleanVars, mainVars, histVars
<1> QED BY <1>1, <1>2, <1>3, <1>4, <1>5, <1>6, <1>7, <1>8, <1>9, <1>10 DEF LoopStep

LEMMA TypeOther ==
  ASSUME TypeOK,
         \/ \E v \in VMs : VMExit(v)
         \/ CleanStep \/ MainStep \/ Signal
  PROVE  TypeOK'
<1>1. CASE \E v \in VMs : VMExit(v)
  BY <1>1 DEF VMExit, TypeOK, feedVars, loopVars, cleanVars, mainVars, histVars
<1>2. CASE CleanTask
  BY <1>2 DEF CleanTask, TypeOK, feedVars, loopVars, vmVars, mainVars, histVars, TestOrNone, NoClean
<1>3. CASE CleanerExit
  BY <1>3 DEF CleanerExit, TypeOK, feedVars, loopVars, vmVars, mainVars, histVars
<1>4. CASE MainEnd \/ Signal
  BY <1>4 DEF MainEnd, Signal, Interrupted, TypeOK, feedVars, loopVars, vmVars, cleanVars, histVars
<1>5. CASE Return
  BY <1>5 DEF Return, TypeOK, feedVars, loopVars, vmVars, cleanVars, histVars
<1> QED BY <1>1, <1>2, <1>3, <1>4, <1>5 DEF CleanStep, MainStep

(***************************************************************************)
(* Clients: each one is in the ready queue once or at work.                *)
(***************************************************************************)

Clients == ReadyPartition /\ ReadyCount

LEMMA ClientsFrame ==
  ASSUME Clients, UNCHANGED <<ready, task>>
  PROVE  Clients'
BY DEF Clients, ReadyPartition, ReadyCount, Busy

LEMMA ClientsRead ==
  ASSUME IInv, NEW v \in VMs, Rendezvous(v)
  PROVE  Clients'
<1>1. /\ Busy' = Busy \ {v} /\ v \in Busy
      /\ Cardinality(Busy') = Cardinality(Busy) - 1
  BY BusyAfterReturn DEF IInv, Rendezvous, TypeOK, TestOrNone
<1>2. /\ ready' = Append(ready, v) /\ ready \in Seq(VMs)
      /\ Elems(ready) = VMs \ Busy /\ Distinct(ready)
      /\ Len(ready) + Cardinality(Busy) = NumVMs
  BY DEF IInv, TypeOK, ReadyPartition, ReadyCount, Rendezvous
<1>3. /\ Elems(ready') = Elems(ready) \cup {v}
      /\ Distinct(ready')
      /\ Len(ready') = Len(ready) + 1
      /\ Len(ready) \in Nat
  BY <1>1, <1>2, AppendElems
<1>4. Len(ready') + Cardinality(Busy') = NumVMs
  BY <1>1, <1>2, <1>3, BusyFinite
<1> QED BY <1>1, <1>2, <1>3, <1>4 DEF Clients, ReadyPartition, ReadyCount, Busy

LEMMA ClientsDispatch ==
  ASSUME IInv, Dispatch
  PROVE  Clients'
<1>1. /\ ready' = Tail(ready) /\ ready \in Seq(VMs) /\ ready # <<>>
      /\ Elems(ready) = VMs \ Busy /\ Distinct(ready)
      /\ Len(ready) + Cardinality(Busy) = NumVMs
  BY DEF IInv, TypeOK, ReadyPartition, ReadyCount, Dispatch, TakeReady
<1>2. /\ Elems(ready') = Elems(ready) \ {Head(ready)}
      /\ Distinct(ready')
      /\ Len(ready') = Len(ready) - 1
      /\ Len(ready) \in Nat /\ Head(ready) \in VMs
  BY <1>1, TailElems
<1>3. /\ Busy' = Busy \cup {Head(ready)} /\ Head(ready) \notin Busy
      /\ Cardinality(Busy') = Cardinality(Busy) + 1
  <2>1. cur \in Tests
    BY DEF IInv, Dispatch, ControlInv, TypeOK, TestOrNone
  <2> QED BY <1>2, <2>1, BusyAfterDispatch DEF IInv, Dispatch
<1>4. Len(ready') + Cardinality(Busy') = NumVMs
  BY <1>1, <1>2, <1>3, BusyFinite
<1> QED BY <1>1, <1>2, <1>3, <1>4 DEF Clients, ReadyPartition, ReadyCount, Busy

(***************************************************************************)
(* Control.                                                                *)
(***************************************************************************)

LEMMA ControlFactory ==
  ASSUME IInv, NEW f \in Factories, FactoryStep(f)
  PROVE  ControlInv'
<1> USE DEF IInv
<1>1. factory[f].st # "exited" /\ UNCHANGED loopVars
  BY DEF FactoryStep, Provide, Ship, FactoryExit
<1>2. ~TaskChannelsClosed /\ ~TaskChannelsClosed'
  BY <1>1 DEF ControlInv, FactoriesGone, loopVars, TaskChannelsClosed, Draining
<1>3. /\ \A g \in Factories \ {f} : factory'[g] = factory[g]
      /\ (factory'[f].st = "send") <=> (factory'[f].file # NoTest)
  <2>1. factory \in [Factories -> [st : {"loop", "send", "exited"}, file : TestOrNone]]
    BY DEF TypeOK
  <2>2. CASE Provide(f)
    <3>1. produced + 1 # NoTest
      BY DEF TypeOK, NoTest
    <3> QED BY <2>1, <2>2, <3>1 DEF Provide, NextFile
  <2>3. CASE Ship(f)
    BY <2>1, <2>3 DEF Ship
  <2>4. CASE FactoryExit(f)
    BY <2>1, <2>4 DEF FactoryExit, ControlInv
  <2> QED BY <2>2, <2>3, <2>4 DEF FactoryStep
<1>4. \A g \in Factories : (factory'[g].st = "send") <=> (factory'[g].file # NoTest)
  BY <1>3 DEF ControlInv
<1> QED BY <1>1, <1>2, <1>4 DEF loopVars, ControlInv, TaskChannelsClosed, Draining

LEMMA ControlRead ==
  ASSUME IInv, NEW v \in VMs, ReadStep(v)
  PROVE  ControlInv'
<1> USE DEF IInv
<1>1. /\ Rendezvous(v) /\ UNCHANGED <<feedVars, cur, investigated>>
      /\ loop = "collect" /\ need > 0 /\ task[v] \in Tests
      /\ \/ loop' = loop /\ settling' = settling
         \/ loop' = "settle" /\ settling' = task[v]
  BY DEF ReadStep, ReadError, ReadResult, Rendezvous, TypeOK, TestOrNone
<1>2. need' + Len(ready') = need + Len(ready)
  BY <1>1, AppendElems DEF Rendezvous, TypeOK
<1>3. (loop' = "settle") <=> (settling' # NoTest)
  BY <1>1, ConstantTypes DEF ControlInv
<1>4. /\ loop' \in {"collect", "settle"} /\ UNCHANGED <<factory, testCh, cur>>
      /\ Draining <=> cur = NoTest
      /\ Draining' <=> cur = NoTest
      /\ TaskChannelsClosed <=> Draining
      /\ TaskChannelsClosed' <=> Draining'
  BY <1>1 DEF feedVars, TaskChannelsClosed, Draining
<1>5. TaskChannelsClosed' => testCh' = <<>> /\ FactoriesGone'
  BY <1>4 DEF ControlInv, FactoriesGone
<1>6. Draining' => need' + Len(ready') = NumVMs
  BY <1>2, <1>4 DEF ControlInv
<1> QED BY <1>3, <1>4, <1>5, <1>6 DEF ControlInv

LEMMA ControlLoop ==
  ASSUME IInv, LoopStep
  PROVE  ControlInv'
<1> USE ConstantTypes DEF IInv, TaskChannelsClosed, Draining, FactoriesGone
<1>1. CASE TakeTest
  BY <1>1, TailElems DEF TakeTest, ControlInv, TypeOK, NoTest
<1>2. CASE SettleFlaw
  BY <1>2 DEF SettleFlaw, ControlInv, feedVars
<1>3. CASE SettleClean
  BY <1>3 DEF SettleClean, ControlInv, feedVars
<1>4. CASE Shortcut
  BY <1>4 DEF Shortcut, ControlInv, feedVars
<1>5. CASE StartTest
  BY <1>5 DEF StartTest, ControlInv, feedVars
<1>6. CASE Dispatch
  BY <1>6 DEF Dispatch, TakeReady, ControlInv, TypeOK, feedVars
<1>7. CASE CloseTaskChannels
  BY <1>7, BusyFinite DEF CloseTaskChannels, ToDrain, TestChClosed, ControlInv, ReadyCount, TypeOK, feedVars
<1>8. CASE PickFlaw
  BY <1>8, TailElems DEF PickFlaw, ControlInv, TypeOK, feedVars
<1>9. CASE LoopReturn
  BY <1>9 DEF LoopReturn, ControlInv, feedVars
<1>10. CASE InvestigatePanics
  BY <1>10 DEF InvestigatePanics, ControlInv, feedVars, loopVars
<1> QED BY <1>1, <1>2, <1>3, <1>4, <1>5, <1>6, <1>7, <1>8, <1>9, <1>10 DEF LoopStep

LEMMA ControlOther ==
  ASSUME ControlInv,
         \/ \E v \in VMs : VMExit(v)
         \/ CleanStep \/ MainStep \/ Signal
  PROVE  ControlInv'
<1>1. UNCHANGED <<feedVars, loopVars>>
  BY DEF VMExit, CleanStep, CleanTask, CleanerExit, MainStep, MainEnd, Return, Signal, Interrupted
<1> QED BY <1>1 DEF feedVars, loopVars, ControlInv, TaskChannelsClosed, Draining, FactoriesGone

(***************************************************************************)
(* Fresh files.                                                            *)
(***************************************************************************)

LEMMA FreshFactory ==
  ASSUME IInv, NEW f \in Factories, FactoryStep(f)
  PROVE  FreshFiles'
<1> USE DEF IInv
<1>1. /\ UNCHANGED <<loopVars, histVars>>
      /\ \A t : Untouched(t)' <=> Untouched(t)
      /\ UNCHANGED <<Arriving, cur>>
  BY DEF FactoryStep, Provide, Ship, FactoryExit, loopVars, histVars, Untouched, Arriving
<1>2. CASE Provide(f)
  <2> DEFINE u == produced + 1
  <2>1. /\ u \in Tests /\ produced \in Nat
        /\ produced' = u
        /\ UNCHANGED testCh
        /\ factory'[f].file = u
        /\ \A g \in Factories \ {f} : factory'[g] = factory[g]
    BY <1>2, ConstantTypes DEF Provide, NextFile, TypeOK, Tests
  <2>2. /\ Untouched(u)
        /\ \A t \in Elems(testCh) \cup {cur} : t <= produced \/ t = NoTest
        /\ \A g \in Factories : factory[g].file <= produced \/ factory[g].file = NoTest
    BY <2>1 DEF FreshFiles
  <2>3. u \notin Elems(testCh) \cup {cur} /\ \A g \in Factories : factory[g].file # u
    BY <2>1, <2>2, ConstantTypes
  <2>4. Elems(testCh) \subseteq Tests /\ cur \in TestOrNone
    BY DEF TypeOK, Elems
  <2>5. \A t \in Tests : t <= produced => t <= produced'
    BY <2>1 DEF Tests
  <2>6. \A g \in Factories : factory[g].file \in TestOrNone
    BY DEF TypeOK
  <2>7. \A t \in Tests : t > produced' => Untouched(t)'
    BY <1>1, <2>1 DEF FreshFiles, Tests
  <2>8. ASSUME NEW h \in Factories, factory'[h].file # NoTest
        PROVE  /\ factory'[h].file <= produced'
               /\ Untouched(factory'[h].file)
               /\ factory'[h].file \notin Elems(testCh) \cup {cur}
               /\ \A g \in Factories : factory'[g].file = factory'[h].file => g = h
    <3>1. CASE h = f
      BY <1>1, <2>1, <2>2, <2>3, <3>1
    <3>2. CASE h # f
      BY <2>1, <2>3, <2>5, <2>6, <2>8, <3>2 DEF FreshFiles, TestOrNone
    <3> QED BY <3>1, <3>2
  <2>9. \A t \in Elems(testCh) : t <= produced' /\ t # cur /\ Untouched(t)
    BY <2>4, <2>5 DEF FreshFiles
  <2>10. cur # NoTest => cur <= produced'
    BY <2>4, <2>5 DEF FreshFiles, TestOrNone
  <2> HIDE DEF u
  <2>11. (\A h \in Factories : factory[h].file # NoTest => Untouched(factory[h].file))'
    BY <1>1, <2>8
  <2> QED BY <1>1, <2>1, <2>7, <2>8, <2>9, <2>10, <2>11 DEF FreshFiles, Elems, Distinct
<1>3. CASE Ship(f)
  <2> DEFINE u == factory[f].file
  <2>1. u \in Tests /\ testCh \in Seq(Tests)
    BY <1>3 DEF Ship, TypeOK, ControlInv, TestOrNone
  <2>2. /\ produced' = produced
        /\ factory'[f].file = NoTest
        /\ \A g \in Factories \ {f} : factory'[g] = factory[g]
    BY <1>3 DEF Ship, TypeOK
  <2>3. /\ u <= produced /\ Untouched(u) /\ u # cur /\ u \notin Elems(testCh)
        /\ \A g \in Factories \ {f} : factory[g].file # u
    BY <2>1, ConstantTypes DEF FreshFiles
  <2>4. Elems(testCh') = Elems(testCh) \cup {u} /\ Distinct(testCh')
    BY <1>3, <2>1, <2>3, AppendElems DEF Ship, FreshFiles
  <2> HIDE DEF u
  <2>5. (\A g \in Factories : factory[g].file # NoTest =>
           /\ factory[g].file <= produced
           /\ Untouched(factory[g].file)
           /\ factory[g].file \notin Elems(testCh) \cup {cur}
           /\ \A h \in Factories : factory[h].file = factory[g].file => h = g)'
    BY <1>1, <2>2, <2>3, <2>4 DEF FreshFiles
  <2> QED BY <1>1, <2>2, <2>3, <2>4, <2>5 DEF FreshFiles
<1>4. CASE FactoryExit(f)
  <2>1. /\ UNCHANGED <<produced, testCh>>
        /\ \A g \in Factories : factory'[g].file = factory[g].file
    BY <1>4 DEF FactoryExit, TypeOK
  <2> QED BY <1>1, <2>1 DEF FreshFiles, Elems, Distinct
<1> QED BY <1>2, <1>3, <1>4 DEF FactoryStep

\* A step that takes nothing from the channels and touches no fresh file.
LEMMA FreshFrame ==
  ASSUME TypeOK, FreshFiles,
         UNCHANGED <<produced, factory, testCh>>,
         cur' = cur \/ cur' = NoTest,
         Arriving' => Arriving /\ cur' = cur,
         \A u \in Tests : Untouched(u) /\ (u # cur \/ Arriving') => Untouched(u)'
  PROVE  FreshFiles'
<1>1. /\ \A f \in Factories : factory[f].file \in TestOrNone
      /\ Elems(testCh) \subseteq Tests /\ Elems(testCh') = Elems(testCh)
      /\ cur \in TestOrNone /\ produced \in Nat
  BY ConstantTypes DEF TypeOK, Elems
<1>2. \A u \in Tests : u > produced => Untouched(u)'
  BY <1>1, ConstantTypes DEF FreshFiles, Tests, TestOrNone, NoTest
<1>3. \A f \in Factories : factory[f].file # NoTest =>
        Untouched(factory[f].file)' /\ factory[f].file # cur'
  BY <1>1, ConstantTypes DEF FreshFiles, TestOrNone
<1>4. \A u \in Elems(testCh) : Untouched(u)' /\ u # cur'
  BY <1>1, ConstantTypes DEF FreshFiles
<1>5. Arriving' => Untouched(cur)'
  BY <1>1 DEF FreshFiles, Arriving, TestOrNone
<1>6. (\A f \in Factories : factory[f].file # NoTest =>
         /\ factory[f].file <= produced
         /\ Untouched(factory[f].file)
         /\ factory[f].file \notin Elems(testCh) \cup {cur}
         /\ \A g \in Factories : factory[g].file = factory[f].file => g = f)'
  BY <1>1, <1>3 DEF FreshFiles
<1> QED BY <1>1, <1>2, <1>4, <1>5, <1>6 DEF FreshFiles, Distinct

LEMMA FreshRead ==
  ASSUME IInv, NEW v \in VMs, ReadStep(v)
  PROVE  FreshFiles'
<1> USE DEF IInv
<1>1. /\ UNCHANGED <<produced, factory, testCh, cur, verdict, skipped>>
      /\ Arriving' <=> Arriving
      /\ task[v] \in Tests
      /\ v \in BusyOn(task[v])
  BY DEF ReadStep, ReadError, ReadResult, Rendezvous, feedVars, Arriving, histVars,
         TypeOK, TestOrNone, BusyOn
<1>2. task[v] \in executing
  BY <1>1 DEF EntryInv
<1>3. ASSUME NEW u \in Tests, Untouched(u)
      PROVE  Untouched(u)'
  <2>1. u # task[v]
    BY <1>2, <1>3 DEF Untouched
  <2>2. /\ entry'[u] = entry[u] /\ observed'[u] = observed[u]
        /\ executing' \subseteq executing
        /\ settling' \in {settling, task[v]}
    BY <1>1, <2>1 DEF ReadStep, ReadError, ReadResult, histVars, TypeOK
  <2> QED BY <1>1, <1>3, <2>1, <2>2 DEF Untouched
<1> QED BY <1>1, <1>3, FreshFrame

LEMMA FreshLoop ==
  ASSUME IInv, LoopStep
  PROVE  FreshFiles'
<1> USE DEF IInv
<1>1. CASE TakeTest
  <2> DEFINE u == Head(testCh)
  <2>1. /\ testCh \in Seq(Tests) /\ testCh # <<>> /\ Distinct(testCh)
        /\ testCh' = Tail(testCh) /\ cur' = u /\ cur = NoTest
        /\ UNCHANGED <<produced, factory>>
        /\ \A t : Untouched(t)' <=> Untouched(t)
    BY <1>1 DEF TakeTest, TypeOK, FreshFiles, ControlInv, Untouched, histVars
  <2>2. /\ u \in Tests /\ u \in Elems(testCh)
        /\ Elems(testCh') = Elems(testCh) \ {u} /\ Distinct(testCh')
    BY <2>1, TailElems
  <2>3. u <= produced /\ Untouched(u)
    BY <2>2 DEF FreshFiles
  <2> HIDE DEF u
  <2>4. (\A f \in Factories : factory[f].file # NoTest =>
           /\ factory[f].file <= produced
           /\ Untouched(factory[f].file)
           /\ factory[f].file \notin Elems(testCh) \cup {cur}
           /\ \A g \in Factories : factory[g].file = factory[f].file => g = f)'
    BY <2>1, <2>2 DEF FreshFiles
  <2> QED BY <2>1, <2>2, <2>3, <2>4 DEF FreshFiles
<1>2. CASE SettleFlaw
  <2>1. \A u \in Tests : Untouched(u) => Untouched(u)'
    BY <1>2, ConstantTypes DEF SettleFlaw, Untouched, TypeOK
  <2> QED BY <1>2, <2>1, FreshFrame DEF SettleFlaw, feedVars, Arriving
<1>3. CASE SettleClean
  <2>1. \A u \in Tests : Untouched(u) => Untouched(u)'
    BY <1>3, ConstantTypes DEF SettleClean, Untouched, TypeOK
  <2> QED BY <1>3, <2>1, FreshFrame DEF SettleClean, feedVars, Arriving
<1>4. CASE Shortcut
  <2>1. /\ \A u : Untouched(u) /\ u # cur => Untouched(u)'
        /\ ~Arriving'
    BY <1>4 DEF Shortcut, Untouched, Arriving
  <2> QED BY <1>4, <2>1, FreshFrame DEF Shortcut, feedVars
<1>5. CASE StartTest
  <2>1. \A u \in Tests : Untouched(u) /\ u # cur => Untouched(u)'
    BY <1>5 DEF StartTest, Untouched, TypeOK, histVars
  <2> QED BY <1>5, <2>1, FreshFrame DEF StartTest, feedVars, Arriving
<1>6. CASE Dispatch
  BY <1>6, FreshFrame DEF Dispatch, feedVars, Arriving, Untouched, histVars
<1>7. CASE CloseTaskChannels
  BY <1>7, FreshFrame DEF CloseTaskChannels, ControlInv, feedVars, Arriving, Untouched, histVars
<1>8. CASE PickFlaw
  BY <1>8, FreshFrame DEF PickFlaw, feedVars, Arriving, Untouched, histVars
<1>9. CASE LoopReturn
  BY <1>9, FreshFrame DEF LoopReturn, feedVars, Arriving, Untouched, histVars
<1>10. CASE InvestigatePanics
  BY <1>10, FreshFrame DEF InvestigatePanics, feedVars, loopVars, Arriving, Untouched, histVars
<1> QED BY <1>1, <1>2, <1>3, <1>4, <1>5, <1>6, <1>7, <1>8, <1>9, <1>10 DEF LoopStep

LEMMA FreshOther ==
  ASSUME TypeOK, FreshFiles,
         \/ \E v \in VMs : VMExit(v)
         \/ CleanStep \/ MainStep \/ Signal
  PROVE  FreshFiles'
<1>1. UNCHANGED <<feedVars, loopVars, histVars>>
  BY DEF VMExit, CleanStep, CleanTask, CleanerExit, MainStep, MainEnd, Return, Signal, Interrupted
<1> QED BY <1>1, FreshFrame DEF feedVars, loopVars, histVars, Arriving, Untouched

(***************************************************************************)
(* Map entries.                                                            *)
(***************************************************************************)

ToGo(t) == IF loop = "dispatch" /\ t = cur THEN need ELSE 0

LEMMA EntryFrame ==
  ASSUME TypeOK, EntryInv, UNCHANGED <<task, executing, entry>>,
         \A t \in Tests : ToGo(t)' = ToGo(t)
  PROVE  EntryInv'
BY DEF EntryInv, ToGo, BusyOn

LEMMA EntryRead ==
  ASSUME IInv, NEW v \in VMs, ReadStep(v)
  PROVE  EntryInv'
<1> USE DEF IInv
<1>0. PICK u \in Tests : u = task[v]
  BY DEF ReadStep, ReadError, ReadResult, Rendezvous, TypeOK, TestOrNone
<1>1. /\ loop = "collect" /\ loop' # "dispatch" /\ Rendezvous(v)
      /\ v \in BusyOn(u)
  BY <1>0 DEF ReadStep, ReadError, ReadResult, Rendezvous, BusyOn
<1>2. /\ \A t \in Tests : BusyOn(t)' = BusyOn(t) \ {v}
      /\ \A t \in Tests : Cardinality(BusyOn(t)') <= Cardinality(BusyOn(t))
      /\ \A t \in Tests : t = u => Cardinality(BusyOn(t)') = Cardinality(BusyOn(t)) - 1
  <2>1. task' = [task EXCEPT ![v] = NoTest]
    BY <1>1 DEF Rendezvous
  <2> QED BY <1>0, <2>1, BusyAfterReturn
<1>3. ASSUME NEW t \in Tests
      PROVE  /\ Cardinality(BusyOn(t)) \in Nat /\ Cardinality(BusyOn(t)') \in Nat
             /\ Cardinality(BusyOn(t)') = 0 => BusyOn(t)' = {}
  <2>1. IsFiniteSet(BusyOn(t)) /\ Cardinality(BusyOn(t)) \in Nat
    BY BusyFinite
  <2>2. IsFiniteSet(BusyOn(t)')
    BY <1>2, <2>1, FS_RemoveElement
  <2> QED BY <2>1, <2>2, FS_CardinalityType, FS_EmptySet
<1>4. \A t \in Tests : entry[t].waiting \in Nat
  BY ConstantTypes DEF TypeOK, Entries
<1>5. CASE ReadError(v)
  <2>1. UNCHANGED <<executing, entry>>
    BY <1>5 DEF ReadError
  <2> QED BY <1>1, <1>2, <1>3, <1>4, <2>1 DEF EntryInv
<1>6. ASSUME NEW r \in Results, ReadResult(v, r)
      PROVE  EntryInv'
  <2> DEFINE e == WithResult(entry[u], v, r)
  <2>0. e.waiting = entry[u].waiting - 1 /\ e.ids = entry[u].ids \cup {v}
    BY DEF WithResult
  <2>1. /\ entry' = [entry EXCEPT ![u] = e]
        /\ e.waiting # 0 => executing' = executing
        /\ e.waiting = 0 => executing' = executing \ {u}
    BY <1>0, <1>6 DEF ReadResult, LastResult
  <2> HIDE DEF e
  <2>2. /\ u \in executing /\ entry[u].waiting > 0
        /\ entry[u].waiting >= Cardinality(BusyOn(u))
    BY <1>1, <1>3, <1>4 DEF EntryInv
  <2>3. ASSUME NEW t \in Tests, t # u
        PROVE  /\ t \in executing' => entry'[t].waiting > 0
               /\ BusyOn(t)' # {} => t \in executing'
               /\ entry'[t].waiting >= Cardinality(BusyOn(t)')
               /\ BusyOn(t)' \cap entry'[t].ids = {}
    <3>1. entry'[t] = entry[t] /\ (t \in executing' <=> t \in executing)
      BY <2>1, <2>3 DEF TypeOK
    <3>2. entry[t].waiting >= Cardinality(BusyOn(t))
      BY <1>1, <1>3, <1>4 DEF EntryInv
    <3>3. entry'[t].waiting >= Cardinality(BusyOn(t)')
      BY <1>2, <1>3, <1>4, <3>1, <3>2
    <3> QED BY <1>2, <3>1, <3>3 DEF EntryInv
  <2>4. /\ u \in executing' => entry'[u].waiting > 0
        /\ BusyOn(u)' # {} => u \in executing'
        /\ entry'[u].waiting >= Cardinality(BusyOn(u)')
        /\ BusyOn(u)' \cap entry'[u].ids = {}
    <3>1. entry'[u] = e
      BY <1>1, <2>1 DEF TypeOK
    <3>2. e.waiting >= Cardinality(BusyOn(u)')
      BY <1>2, <1>3, <1>4, <2>0, <2>2
    <3>3. e.waiting = 0 => BusyOn(u)' = {}
      BY <1>1, <1>3, <3>2
    <3>4. e.waiting \in Nat
      BY <1>4, <2>0, <2>2
    <3>5. BusyOn(u)' \cap e.ids = {}
      BY <1>2, <2>0 DEF EntryInv
    <3> QED BY <2>1, <2>2, <3>1, <3>2, <3>3, <3>4, <3>5
  <2>5. entry' \in [Tests -> Entries]
    BY TypeRead, <1>6 DEF ReadStep, TypeOK
  <2>6. \A t \in Tests : /\ entry'[t].waiting \in Nat
                         /\ Cardinality(BusyOn(t)') \in Nat
    BY <1>3, <2>5, ConstantTypes DEF Entries
  <2>7. \A t \in Tests : /\ t \in executing' => entry'[t].waiting > 0
                         /\ BusyOn(t)' # {} => t \in executing'
                         /\ entry'[t].waiting >= Cardinality(BusyOn(t)') + 0
                         /\ BusyOn(t)' \cap entry'[t].ids = {}
    BY <2>3, <2>4, <2>6
  <2> QED BY <1>1, <2>7 DEF EntryInv
<1> QED BY <1>5, <1>6 DEF ReadStep

LEMMA EntryStart ==
  ASSUME IInv, StartTest
  PROVE  EntryInv'
<1> USE DEF IInv
<1>1. /\ cur \in Tests /\ cur' = cur /\ loop = "collect" /\ loop' = "dispatch"
      /\ executing' = executing \cup {cur} /\ need' = ClientCount
      /\ entry' = [entry EXCEPT ![cur] = FreshEntry]
      /\ task' = task
  BY DEF StartTest, TypeOK, TestOrNone, vmVars
<1>2. cur \notin executing
  BY <1>1, ConstantTypes DEF FreshFiles, Arriving, Untouched
<1>3. BusyOn(cur) = {}
  BY <1>1, <1>2 DEF EntryInv
<1>4. Cardinality(BusyOn(cur)) = 0
  BY <1>3, FS_EmptySet
<1>5. entry'[cur] = FreshEntry /\ \A t \in Tests \ {cur} : entry'[t] = entry[t]
  BY <1>1 DEF TypeOK
<1>6. \A t \in Tests : BusyOn(t)' = BusyOn(t)
  BY <1>1 DEF BusyOn
<1>7. \A t \in Tests : /\ entry[t].waiting \in Nat
                       /\ Cardinality(BusyOn(t)) \in Nat
  BY BusyFinite, ConstantTypes DEF TypeOK, Entries
<1>8. ASSUME NEW t \in Tests
      PROVE  /\ t \in executing' => entry'[t].waiting > 0
             /\ BusyOn(t)' # {} \/ ToGo(t)' > 0 => t \in executing'
             /\ entry'[t].waiting >= Cardinality(BusyOn(t)') + ToGo(t)'
             /\ BusyOn(t)' \cap entry'[t].ids = {}
             /\ ToGo(t)' > 0 => entry'[t].ids = {}
  <2>1. CASE t = cur
    BY <1>1, <1>3, <1>4, <1>5, <1>6, <2>1, ConstantTypes DEF FreshEntry, ToGo
  <2>2. CASE t # cur
    <3>1. ToGo(t) = 0 /\ ToGo(t)' = 0 /\ entry'[t] = entry[t] /\ BusyOn(t)' = BusyOn(t)
      BY <1>1, <1>5, <1>6, <2>2 DEF ToGo
    <3>2. /\ t \in executing => entry[t].waiting > 0
          /\ BusyOn(t) # {} => t \in executing
          /\ entry[t].waiting >= Cardinality(BusyOn(t)) + 0
          /\ BusyOn(t) \cap entry[t].ids = {}
      BY <3>1 DEF EntryInv, ToGo
    <3> QED BY <1>1, <2>2, <3>1, <3>2
  <2> QED BY <2>1, <2>2
<1> QED BY <1>8 DEF EntryInv, ToGo

LEMMA EntryDispatch ==
  ASSUME IInv, Dispatch
  PROVE  EntryInv'
<1> USE DEF IInv
<1> DEFINE v == Head(ready)
<1>1. PICK u \in Tests : u = cur
  BY DEF Dispatch, ControlInv, TypeOK, TestOrNone
<1>2. /\ loop = "dispatch" /\ need \in Nat \ {0} /\ need' = need - 1
      /\ ToGo(u)' = need' /\ \A t \in Tests \ {u} : ToGo(t)' = 0
      /\ UNCHANGED <<executing, entry>>
      /\ task' = [task EXCEPT ![v] = u] /\ task[v] = NoTest /\ v \in VMs
  BY <1>1, TailElems DEF Dispatch, ControlInv, TypeOK, ToGo
<1>3. /\ \A t \in Tests \ {u} : BusyOn(t)' = BusyOn(t)
      /\ BusyOn(u)' = BusyOn(u) \cup {v}
      /\ Cardinality(BusyOn(u)') = Cardinality(BusyOn(u)) + 1
  BY <1>2, BusyAfterDispatch
<1>4. /\ u \in executing /\ entry[u].ids = {} /\ entry[u].waiting > 0
      /\ entry[u].waiting >= Cardinality(BusyOn(u)) + need
  BY <1>1, <1>2 DEF EntryInv
<1>5. entry[u].waiting >= Cardinality(BusyOn(u)') + need'
  BY <1>2, <1>3, <1>4, BusyFinite DEF TypeOK, Entries
<1> HIDE DEF v
<1>6. ASSUME NEW t \in Tests
      PROVE  /\ t \in executing' => entry'[t].waiting > 0
             /\ BusyOn(t)' # {} \/ ToGo(t)' > 0 => t \in executing'
             /\ entry'[t].waiting >= Cardinality(BusyOn(t)') + ToGo(t)'
             /\ BusyOn(t)' \cap entry'[t].ids = {}
             /\ ToGo(t)' > 0 => entry'[t].ids = {}
  <2>1. CASE t = u
    BY <1>2, <1>4, <1>5, <2>1
  <2>2. CASE t # u
    BY <1>1, <1>2, <1>3, <2>2 DEF EntryInv
  <2> QED BY <2>1, <2>2
<1> QED BY <1>6 DEF EntryInv, ToGo

LEMMA EntryLoop ==
  ASSUME IInv, LoopStep
  PROVE  EntryInv'
<1> USE DEF IInv
<1>1. CASE StartTest
  BY <1>1, EntryStart
<1>2. CASE Dispatch
  BY <1>2, EntryDispatch
<1>3. CASE \/ TakeTest \/ SettleFlaw \/ SettleClean \/ Shortcut
           \/ CloseTaskChannels \/ PickFlaw \/ LoopReturn
  <2>1. /\ UNCHANGED <<task, executing, entry>>
        /\ loop # "dispatch" /\ loop' # "dispatch"
    BY <1>3 DEF TakeTest, SettleFlaw, SettleClean, Shortcut, CloseTaskChannels, PickFlaw,
                LoopReturn, vmVars
  <2> QED BY <2>1, EntryFrame DEF ToGo
<1>4. CASE InvestigatePanics
  BY <1>4, EntryFrame DEF InvestigatePanics, loopVars, vmVars, ToGo
<1> QED BY <1>1, <1>2, <1>3, <1>4 DEF LoopStep

(***************************************************************************)
(* The inductive invariant.                                                *)
(***************************************************************************)

LEMMA InitIInv == Init => IInv
<1> SUFFICES ASSUME Init PROVE IInv
  OBVIOUS
<1> USE ConstantTypes DEF Init
<1>1. /\ ready \in Seq(VMs) /\ Len(ready) = NumVMs
      /\ Elems(ready) = VMs /\ Distinct(ready)
  BY DEF VMs, Elems, Distinct
<1>2. /\ Busy = {} /\ Cardinality(Busy) = 0
      /\ \A t \in Tests : BusyOn(t) = {} /\ Cardinality(BusyOn(t)) = 0
  BY FS_EmptySet DEF Busy, BusyOn
<1>3. TypeOK
  <2>1. /\ factory \in [Factories -> [st : {"loop", "send", "exited"}, file : TestOrNone]]
        /\ cleaner \in [st : {"recv", "work", "exited"},
                        task : [slow : TestOrNone, remove : TestOrNone], toRemove : TestOrNone]
    BY DEF TestOrNone, NoClean
  <2>2. /\ task \in [VMs -> TestOrNone]
        /\ entry \in [Tests -> Entries]
        /\ verdict \in [Tests -> {"none", "agree", "slow", "flaw"}]
        /\ observed \in [Tests -> SUBSET (VMs \X Hashes)]
    BY DEF TestOrNone
  <2>3. produced \in 0 .. NumTests /\ testCh \in Seq(Tests) /\ consensusCh \in Seq(Tests)
    OBVIOUS
  <2> QED BY <1>1, <2>1, <2>2, <2>3 DEF TypeOK, TestOrNone
<1>4. ControlInv
  BY DEF ControlInv, TaskChannelsClosed, Draining
<1>5. ReadyPartition /\ ReadyCount
  BY <1>1, <1>2 DEF ReadyPartition, ReadyCount
<1>6. FreshFiles
  <2>1. \A t \in Tests : Untouched(t)
    BY DEF Untouched
  <2> QED BY <2>1 DEF FreshFiles, Elems, Distinct, Arriving
<1>7. EntryInv
  BY <1>2 DEF EntryInv, NoEntry, ToGo
<1> QED BY <1>3, <1>4, <1>5, <1>6, <1>7 DEF IInv

LEMMA NextIInv == IInv /\ [Next]_vars => IInv'
<1> SUFFICES ASSUME IInv, [Next]_vars PROVE IInv'
  OBVIOUS
<1>1. ASSUME NEW f \in Factories, FactoryStep(f)
      PROVE  IInv'
  <2>1. UNCHANGED <<ready, task, loop, cur, need, executing, entry>>
    BY <1>1 DEF FactoryStep, Provide, Ship, FactoryExit, loopVars, vmVars
  <2>2. Clients'
    BY <2>1, ClientsFrame DEF IInv, Clients
  <2>3. EntryInv'
    BY <2>1, EntryFrame DEF IInv, ToGo
  <2> QED BY <1>1, <2>2, <2>3, TypeFactory, ControlFactory, FreshFactory DEF IInv, Clients
<1>2. ASSUME NEW v \in VMs, ReadStep(v)
      PROVE  IInv'
  <2>1. Rendezvous(v)
    BY <1>2 DEF ReadStep, ReadError, ReadResult
  <2> QED BY <1>2, <2>1, TypeRead, ControlRead, ClientsRead, FreshRead, EntryRead DEF IInv, Clients
<1>3. CASE LoopStep
  <2>1. Clients'
    <3>1. CASE Dispatch
      BY <3>1, ClientsDispatch
    <3>2. CASE ~Dispatch
      <4>1. UNCHANGED <<ready, task>>
        BY <1>3, <3>2 DEF LoopStep, TakeTest, SettleFlaw, SettleClean, Shortcut, StartTest,
             CloseTaskChannels, PickFlaw, LoopReturn, InvestigatePanics, loopVars, vmVars
      <4> QED BY <4>1, ClientsFrame DEF IInv, Clients
    <3> QED BY <3>1, <3>2
  <2> QED BY <1>3, <2>1, TypeLoop, ControlLoop, FreshLoop, EntryLoop DEF IInv, Clients
<1>4. CASE \/ \E v \in VMs : VMExit(v)
           \/ CleanStep \/ MainStep \/ Signal
  <2>1. UNCHANGED <<ready, task, loop, cur, need, executing, entry>>
    BY <1>4 DEF VMExit, CleanStep, CleanTask, CleanerExit, MainStep, MainEnd, Return, Signal,
                Interrupted, loopVars, vmVars
  <2>2. Clients'
    BY <2>1, ClientsFrame DEF IInv, Clients
  <2>3. EntryInv'
    BY <2>1, EntryFrame DEF IInv, ToGo
  <2> QED BY <1>4, <2>2, <2>3, TypeOther, ControlOther, FreshOther DEF IInv, Clients
<1>5. CASE UNCHANGED vars
  <2>1. UNCHANGED <<feedVars, loopVars, vmVars, cleanVars, mainVars, histVars, abort>>
    BY <1>5 DEF vars
  <2>2. TypeOK'
    BY <2>1 DEF IInv, TypeOK, feedVars, loopVars, vmVars, cleanVars, mainVars, histVars
  <2>3. Clients' /\ EntryInv'
    BY <2>1, ClientsFrame, EntryFrame DEF IInv, Clients, ToGo, loopVars, vmVars
  <2>4. FreshFiles'
    BY <2>1, FreshFrame DEF IInv, feedVars, loopVars, histVars, Arriving, Untouched
  <2>5. ControlInv'
    BY <2>1 DEF IInv, ControlInv, feedVars, loopVars, TaskChannelsClosed, Draining, FactoriesGone
  <2> QED BY <2>2, <2>3, <2>4, <2>5 DEF IInv, Clients
<1> QED BY <1>1, <1>2, <1>3, <1>4, <1>5 DEF Next, Ended

\* The strengthened invariant holds in every reachable state.
THEOREM Inductive == Spec => []IInv
BY InitIInv, NextIInv, PTL DEF Spec

\* Every variable keeps its type, for every number of clients and files.
THEOREM TypeCorrect == Spec => []TypeOK
<1>1. IInv => TypeOK
  BY DEF IInv
<1> QED BY <1>1, Inductive, PTL

\* No client is ever in the ready queue twice, or there while at work: the
\* bookkeeping of fuzzingLoop never hands a client two tasks.
THEOREM ClientsPartitioned == Spec => []ReadyPartition
<1>1. IInv => ReadyPartition
  BY DEF IInv
<1> QED BY <1>1, Inductive, PTL

\* Every result the loop reads finds its entry in the executing map, which
\* still waits for that client: readResults never dereferences nil.
THEOREM ResultsFindEntry == Spec => []ResultHasEntry
<1>1. IInv => ResultHasEntry
  <2> SUFFICES ASSUME IInv, NEW v \in Busy
               PROVE  /\ task[v] \in executing
                      /\ v \notin entry[task[v]].ids
                      /\ entry[task[v]].waiting >= Cardinality(BusyOn(task[v]))
    BY DEF ResultHasEntry
  <2>1. task[v] \in Tests /\ v \in BusyOn(task[v])
    BY DEF IInv, TypeOK, TestOrNone, Busy, BusyOn
  <2>2. Cardinality(BusyOn(task[v])) \in Nat /\ entry[task[v]].waiting \in Nat
    BY <2>1, BusyFinite, ConstantTypes DEF IInv, TypeOK, Entries
  <2> QED BY <2>1, <2>2 DEF IInv, EntryInv, TypeOK
<1> QED BY <1>1, Inductive, PTL

=============================================================================
