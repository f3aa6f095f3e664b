------------------------- MODULE FuzzVerdict_proofs -------------------------
(* Proofs about the verdicts of FuzzEngine: what they rest on, what is       *)
(* deleted and investigated because of them, and that the loop is never      *)
(* stuck handing one over.  They build on the invariant IInv.                *)
EXTENDS FuzzEngine_proofs, FunctionTheorems

(***************************************************************************)
(* The map entry of a file sums up its results.                            *)
(***************************************************************************)

\* One more client reports: the entry goes on summing up the results.
LEMMA SumsUpMore ==
  ASSUME NEW e \in Entries, NEW obs \in SUBSET (VMs \X Hashes), SumsUp(e, obs),
         NEW v \in VMs, v \notin e.ids, NEW r \in Results
  PROVE  SumsUp(WithResult(e, v, r), obs \cup {<<v, r.hash>>})
<1> DEFINE new  == <<v, r.hash>>
           more == obs \cup {new}
           d    == WithResult(e, v, r)
<1>1. /\ new[1] = v /\ new[2] = r.hash
      /\ d.ids = e.ids \cup {v}
      /\ d.hash = IF e.ids = {} THEN r.hash ELSE e.hash
      /\ d.flaw = (e.flaw \/ Differs(e, r))
  BY DEF WithResult
<1>2. /\ e.ids = {p[1] : p \in obs}
      /\ \A p \in obs : p[1] # v
      /\ e.ids = {} <=> obs = {}
  <2>1. e.ids = {p[1] : p \in obs}
    BY DEF SumsUp
  <2>2. \A p \in obs : p[1] \in e.ids
    BY <2>1
  <2> HIDE DEF new, more, d
  <2>3. \A p \in obs : p[1] # v
    BY <2>2
  <2>4. e.ids = {} <=> obs = {}
    BY <2>1
  <2> QED BY <2>1, <2>3, <2>4
<1>3. d.ids = {p[1] : p \in more}
  BY <1>1, <1>2
<1>4. \A p, q \in more : p[1] = q[1] => p = q
  BY <1>1, <1>2 DEF SumsUp
<1>5. /\ \E p \in more : p[2] = d.hash
      /\ d.flaw <=> \E p \in more : p[2] # d.hash
  <2>1. CASE e.ids = {}
    <3>1. ~e.flaw /\ ~d.flaw /\ more = {new} /\ d.hash = r.hash
      BY <1>1, <1>2, <2>1 DEF SumsUp, Differs, Entries
    <3> QED BY <1>1, <3>1
  <2>2. CASE e.ids # {}
    <3>1. d.hash = e.hash /\ (d.flaw <=> (e.flaw \/ e.hash # r.hash))
      BY <1>1, <2>2 DEF Differs, Entries
    <3>2. /\ \E p \in obs : p[2] = e.hash
          /\ e.flaw <=> \E p \in obs : p[2] # e.hash
      BY <2>2 DEF SumsUp
    <3> QED BY <1>1, <3>1, <3>2
  <2> QED BY <2>1, <2>2
<1> HIDE DEF new, more, d
<1>6. SumsUp(d, more)
  BY <1>3, <1>4, <1>5 DEF SumsUp
<1> QED BY <1>6 DEF d, more, new

\* The clients named in an entry are a finite set.
LEMMA IdsFinite ==
  ASSUME NEW e \in Entries
  PROVE  IsFiniteSet(e.ids) /\ Cardinality(e.ids) \in Nat
<1>1. e.ids \in SUBSET VMs
  BY DEF Entries
<1> QED BY <1>1, ConstantTypes, FS_Subset, FS_CardinalityType

LEMMA ResultFrame ==
  ASSUME ResultInv, UNCHANGED <<entry, observed, executing, settling, verdict>>
  PROVE  ResultInv'
BY DEF ResultInv, Started

LEMMA ResultRead ==
  ASSUME IInv, ResultInv, NEW v \in VMs, ReadStep(v)
  PROVE  ResultInv'
<1> USE DEF IInv
<1>1. CASE ReadError(v)
  BY <1>1, ResultFrame DEF ReadError, histVars
<1>2. ASSUME NEW r \in Results, ReadResult(v, r)
      PROVE  ResultInv'
  <2>0. PICK u \in Tests : u = task[v]
    BY <1>2 DEF ReadResult, Rendezvous, TypeOK, TestOrNone
  <2> DEFINE e == WithResult(entry[u], v, r)
  <2>1. /\ entry' = [entry EXCEPT ![u] = e]
        /\ observed' = [observed EXCEPT ![u] = @ \cup {<<v, r.hash>>}]
        /\ verdict' = verdict
        /\ IF e.waiting = 0
             THEN executing' = executing \ {u} /\ settling' = u
             ELSE executing' = executing /\ settling' = settling
        /\ loop = "collect"
    BY <1>2, <2>0 DEF ReadResult, Rendezvous, LastResult
  <2>2. settling = NoTest /\ u # NoTest
    BY <2>1, ConstantTypes DEF ControlInv
  <2>3. /\ u \in executing /\ v \notin entry[u].ids
        /\ entry[u] \in Entries /\ observed[u] \in SUBSET (VMs \X Hashes)
        /\ entry[u].waiting \in Nat
    <3>1. v \in BusyOn(u)
      BY <2>0 DEF BusyOn
    <3> QED BY <3>1, ConstantTypes DEF EntryInv, TypeOK, Entries
  <2>4. /\ SumsUp(entry[u], observed[u])
        /\ entry[u].waiting + Cardinality(entry[u].ids) = ClientCount
        /\ verdict[u] = "none"
    BY <2>3 DEF ResultInv, Started
  <2>5. SumsUp(e, observed[u] \cup {<<v, r.hash>>})
    BY <2>3, <2>4, SumsUpMore
  <2>6. e.waiting + Cardinality(e.ids) = ClientCount
    <3>1. e.waiting = entry[u].waiting - 1 /\ e.ids = entry[u].ids \cup {v}
      BY DEF WithResult
    <3>2. Cardinality(e.ids) = Cardinality(entry[u].ids) + 1 /\ Cardinality(entry[u].ids) \in Nat
      BY <2>3, <3>1, IdsFinite, FS_AddElement
    <3> QED BY <2>3, <2>4, <3>1, <3>2, ConstantTypes
  <2> HIDE DEF e
  <2>7. ASSUME NEW t \in Tests
        PROVE  /\ SumsUp(entry'[t], observed'[t])
               /\ Started(t)' => entry'[t].waiting + Cardinality(entry'[t].ids) = ClientCount
               /\ t = settling' \/ verdict'[t] # "none" => entry'[t].waiting = 0 /\ t \notin executing'
               /\ t = settling' => verdict'[t] = "none"
               /\ verdict'[t] # "none" => (verdict'[t] = "flaw" <=> entry'[t].flaw)
    <3>1. CASE t = u
      <4>1. entry'[t] = e /\ observed'[t] = observed[u] \cup {<<v, r.hash>>}
        BY <2>1, <3>1 DEF TypeOK
      <4> QED BY <2>1, <2>2, <2>4, <2>5, <2>6, <3>1, <4>1
    <3>2. CASE t # u
      <4>1. entry'[t] = entry[t] /\ observed'[t] = observed[t]
        BY <2>1, <3>2 DEF TypeOK
      <4>2. (t \in executing' <=> t \in executing) /\ t # settling /\ t # settling'
        BY <2>1, <2>2, <3>2, ConstantTypes
      <4> QED BY <2>1, <4>1, <4>2 DEF ResultInv, Started
    <3> QED BY <3>1, <3>2
  <2> QED BY <2>7 DEF ResultInv
<1> QED BY <1>1, <1>2 DEF ReadStep

LEMMA ResultLoop ==
  ASSUME IInv, ResultInv, LoopStep
  PROVE  ResultInv'
<1> USE DEF IInv
<1>1. CASE StartTest
  <2>1. PICK u \in Tests : u = cur
    BY <1>1 DEF StartTest, TypeOK, TestOrNone
  <2>2. /\ entry' = [entry EXCEPT ![u] = FreshEntry]
        /\ executing' = executing \cup {u}
        /\ UNCHANGED <<observed, verdict, settling>>
        /\ loop = "collect"
    BY <1>1, <2>1 DEF StartTest, histVars
  <2>3. observed[u] = {} /\ verdict[u] = "none" /\ settling = NoTest /\ u # NoTest
    BY <2>1, <2>2, ConstantTypes DEF FreshFiles, Arriving, Untouched, ControlInv
  <2>4. entry'[u] = FreshEntry /\ \A t \in Tests \ {u} : entry'[t] = entry[t]
    BY <2>2 DEF TypeOK
  <2>5. /\ FreshEntry.ids = {} /\ FreshEntry.waiting = ClientCount /\ ~FreshEntry.flaw
        /\ Cardinality(FreshEntry.ids) = 0
    BY FS_EmptySet DEF FreshEntry
  <2>6. SumsUp(FreshEntry, {})
    BY <2>5 DEF SumsUp
  <2>7. ASSUME NEW t \in Tests
        PROVE  /\ SumsUp(entry'[t], observed'[t])
               /\ Started(t)' => entry'[t].waiting + Cardinality(entry'[t].ids) = ClientCount
               /\ t = settling' \/ verdict'[t] # "none" => entry'[t].waiting = 0 /\ t \notin executing'
               /\ t = settling' => verdict'[t] = "none"
               /\ verdict'[t] # "none" => (verdict'[t] = "flaw" <=> entry'[t].flaw)
    <3>1. CASE t = u
      BY <2>2, <2>3, <2>4, <2>5, <2>6, <3>1, ConstantTypes
    <3>2. CASE t # u
      BY <2>2, <2>4, <3>2 DEF ResultInv, Started
    <3> QED BY <3>1, <3>2
  <2> QED BY <2>7 DEF ResultInv
<1>2. CASE SettleFlaw \/ SettleClean
  <2>1. PICK u \in Tests : u = settling
    BY <1>2 DEF SettleFlaw, SettleClean, ControlInv, TypeOK, TestOrNone
  <2>2. /\ UNCHANGED <<entry, executing, observed>> /\ settling' = NoTest
        /\ \E w \in {"agree", "slow", "flaw"} :
             /\ verdict' = [verdict EXCEPT ![u] = w]
             /\ w = "flaw" <=> entry[u].flaw
    BY <1>2, <2>1 DEF SettleFlaw, SettleClean, IsFlaw
  <2>3. /\ verdict'[u] # "none"
        /\ verdict'[u] = "flaw" <=> entry[u].flaw
        /\ \A t \in Tests \ {u} : verdict'[t] = verdict[t]
    BY <2>2 DEF TypeOK
  <2>4. ASSUME NEW t \in Tests
        PROVE  /\ Started(t)' => Started(t)
               /\ verdict'[t] # "none" => t = u \/ verdict[t] # "none"
               /\ verdict'[t] # "none" => (verdict'[t] = "flaw" <=> entry[t].flaw)
    BY <2>1, <2>2, <2>3, ConstantTypes DEF Started, ResultInv
  <2> QED BY <2>1, <2>2, <2>4, ConstantTypes DEF ResultInv
<1>3. CASE ~StartTest /\ ~SettleFlaw /\ ~SettleClean
  <2>1. UNCHANGED <<entry, observed, executing, settling, verdict>>
    BY <1>3 DEF LoopStep, TakeTest, Shortcut, Dispatch, CloseTaskChannels, PickFlaw, LoopReturn,
                InvestigatePanics, loopVars, histVars
  <2> QED BY <2>1, ResultFrame
<1> QED BY <1>1, <1>2, <1>3

(***************************************************************************)
(* What becomes of a decided file.                                         *)
(***************************************************************************)

LEMMA DisposalFrame ==
  ASSUME DisposalInv, UNCHANGED <<verdict, removed, cleaner, consensusCh>>,
         loop' = "investigate" => loop = "investigate" /\ investigated' = investigated
  PROVE  DisposalInv'
BY DEF DisposalInv, ToDelete, Elems

LEMMA DisposalLoop ==
  ASSUME IInv, ResultInv, DisposalInv, LoopStep
  PROVE  DisposalInv'
<1> USE DEF IInv
<1>1. CASE SettleFlaw \/ SettleClean
  <2>1. PICK u \in Tests : u = settling
    BY <1>1 DEF SettleFlaw, SettleClean, ControlInv, TypeOK, TestOrNone
  <2>2. /\ verdict[u] = "none" /\ u # NoTest
        /\ verdict \in [Tests -> {"none", "agree", "slow", "flaw"}]
        /\ removed \subseteq Tests /\ Elems(consensusCh) \subseteq Tests
        /\ cleaner.toRemove \in TestOrNone /\ cleaner.task.remove \in TestOrNone
    BY <2>1, ConstantTypes DEF ResultInv, TypeOK, Elems
  <2>3. /\ u \notin removed /\ u # cleaner.toRemove /\ u # cleaner.task.remove
        /\ u \notin Elems(consensusCh)
    BY <2>2 DEF DisposalInv, ToDelete
  <2>4. /\ loop' = "collect"
        /\ removed' = removed
        /\ \E w \in {"agree", "slow", "flaw"} : verdict' = [verdict EXCEPT ![u] = w]
    <3>1. CASE SettleFlaw
      BY <2>1, <3>1 DEF SettleFlaw, cleanVars
    <3>2. CASE SettleClean
      BY <2>1, <3>2 DEF SettleClean
    <3> QED BY <1>1, <3>1, <3>2
  <2>5. \A t \in Tests \ {u} : verdict'[t] = verdict[t]
    BY <2>2, <2>4
  <2>6. CASE SettleFlaw
    <3>1. /\ verdict'[u] = "flaw" /\ cleaner' = cleaner
          /\ consensusCh' = Append(consensusCh, u)
      BY <2>1, <2>2, <2>6 DEF SettleFlaw, cleanVars
    <3>2. Elems(consensusCh') = Elems(consensusCh) \cup {u}
      BY <2>1, <3>1, AppendElems DEF TypeOK
    <3>3. \A t \in removed \cup ToDelete : verdict'[t] = "agree"
      BY <2>2, <2>3, <2>5 DEF DisposalInv, ToDelete, TestOrNone
    <3>4. \A t \in Elems(consensusCh') : verdict'[t] = "flaw"
      BY <2>2, <2>5, <3>1, <3>2 DEF DisposalInv
    <3> QED BY <2>4, <3>1, <3>3, <3>4 DEF DisposalInv, ToDelete
  <2>7. CASE SettleClean
    <3>1. /\ consensusCh' = consensusCh
          /\ cleaner'.toRemove = cleaner.toRemove
          /\ \/ cleaner'.task.remove = NoTest
             \/ cleaner'.task.remove = u /\ verdict'[u] = "agree"
      BY <2>1, <2>2, <2>7 DEF SettleClean, NoClean, TypeOK
    <3>2. \A t \in Elems(consensusCh') : verdict'[t] = "flaw"
      BY <2>2, <2>3, <2>5, <3>1 DEF DisposalInv, Elems
    <3>3. \A t \in removed' \cup ToDelete' : verdict'[t] = "agree"
      BY <2>2, <2>3, <2>4, <2>5, <3>1 DEF DisposalInv, ToDelete, TestOrNone
    <3>4. NoTest \notin removed
      BY <2>2, ConstantTypes
    <3> QED BY <2>2, <2>3, <2>4, <3>1, <3>2, <3>3, <3>4 DEF DisposalInv
  <2> QED BY <1>1, <2>6, <2>7
<1>2. CASE PickFlaw
  <2>1. /\ investigated' = Head(consensusCh) /\ consensusCh' = Tail(consensusCh)
        /\ consensusCh # <<>> /\ consensusCh \in Seq(Tests)
        /\ UNCHANGED <<verdict, removed, cleaner>>
    BY <1>2 DEF PickFlaw, histVars, cleanVars, TypeOK
  <2>2. investigated' \in Elems(consensusCh) /\ Elems(consensusCh') \subseteq Elems(consensusCh)
    BY <2>1, TailElems
  <2> QED BY <2>1, <2>2 DEF DisposalInv, ToDelete
<1>3. CASE ~SettleFlaw /\ ~SettleClean /\ ~PickFlaw
  <2>1. /\ UNCHANGED <<verdict, removed, cleaner, consensusCh, investigated>>
        /\ loop' = "investigate" => loop = "investigate"
    BY <1>3 DEF LoopStep, TakeTest, Shortcut, StartTest, Dispatch, CloseTaskChannels, LoopReturn,
                InvestigatePanics, loopVars, cleanVars, histVars
  <2> QED BY <2>1, DisposalFrame
<1> QED BY <1>1, <1>2, <1>3

LEMMA DisposalClean ==
  ASSUME TypeOK, DisposalInv, CleanTask
  PROVE  DisposalInv'
<1>1. /\ UNCHANGED <<verdict, consensusCh, loop, investigated>>
      /\ removed' = removed \cup ({cleaner.toRemove} \ {NoTest})
      /\ cleaner'.task.remove = NoTest
      /\ cleaner'.toRemove \in {NoTest, cleaner.task.remove}
  BY DEF CleanTask, loopVars, histVars, NoClean
<1>2. NoTest \notin removed'
  BY <1>1, ConstantTypes DEF TypeOK
<1>3. removed' \cup ToDelete' \subseteq removed \cup ToDelete
  BY <1>1 DEF ToDelete
<1>4. cleaner'.toRemove \notin removed'
  BY <1>1, <1>2 DEF DisposalInv
<1> QED BY <1>1, <1>2, <1>3, <1>4 DEF DisposalInv, Elems

(***************************************************************************)
(* The loop is never short of clients or of room.                          *)
(***************************************************************************)

LEMMA NeedStep ==
  ASSUME IInv, NeedInv, [Next]_vars
  PROVE  NeedInv'
<1> USE DEF IInv
<1>1. ASSUME NEW v \in VMs, ReadStep(v)
      PROVE  NeedInv'
  <2>1. /\ Rendezvous(v) /\ cur' = cur /\ loop = "collect" /\ loop' \in {"collect", "settle"}
    BY <1>1 DEF ReadStep, ReadError, ReadResult, Rendezvous
  <2>2. need' = need - 1 /\ Len(ready') = Len(ready) + 1 /\ Len(ready) \in Nat /\ need \in Nat
    BY <2>1, AppendElems DEF Rendezvous, TypeOK
  <2> QED BY <2>1, <2>2, ConstantTypes DEF NeedInv, Arriving, Rendezvous
<1>2. CASE LoopStep
  <2>1. CASE TakeTest
    <3>1. /\ need' = Missing /\ UNCHANGED ready /\ Len(ready) \in Nat
      BY <2>1 DEF TakeTest, TypeOK
    <3> QED BY <3>1, ConstantTypes DEF NeedInv, Missing
  <2>2. CASE ~TakeTest
    <3>1. Arriving' /\ loop' # "range" =>
            Arriving /\ loop # "range" /\ UNCHANGED <<need, ready>>
      BY <1>2, <2>2 DEF LoopStep, SettleFlaw, SettleClean, Shortcut, StartTest, Dispatch,
           CloseTaskChannels, PickFlaw, LoopReturn, InvestigatePanics, loopVars, Arriving, ControlInv
    <3> QED BY <3>1 DEF NeedInv
  <2> QED BY <2>1, <2>2
<1>3. CASE UNCHANGED loopVars
  BY <1>3 DEF loopVars, NeedInv, Arriving
<1>4. \/ LoopStep \/ UNCHANGED loopVars
      \/ \E v \in VMs : ReadStep(v)
  BY DEF Next, Ended, vars, FactoryStep, Provide, Ship, FactoryExit, VMExit, CleanStep, CleanTask,
         CleanerExit, MainStep, MainEnd, Return, Signal, Interrupted
<1> QED BY <1>1, <1>2, <1>3, <1>4

LEMMA RoomTypes ==
  ASSUME TypeOK
  PROVE  /\ Len(consensusCh) \in Nat
         /\ IsFiniteSet(Running) /\ Cardinality(Running) \in Nat
         /\ \A S \in SUBSET Running : IsFiniteSet(S) /\ Cardinality(S) \in Nat
                                      /\ Cardinality(S) <= Cardinality(Running)
         /\ Running \subseteq Tests
<1>1. IsFiniteSet(Tests)
  BY ConstantTypes, FS_Interval DEF Tests
<1>2. Running \subseteq Tests
  BY DEF Running, TypeOK, TestOrNone
<1>3. IsFiniteSet(Running)
  BY <1>1, <1>2, FS_Subset
<1> QED BY <1>2, <1>3, FS_Subset, FS_CardinalityType DEF TypeOK

\* There are at most as many files at work as clients.
LEMMA FewRunning ==
  ASSUME TypeOK
  PROVE  Cardinality({t \in Tests : BusyOn(t) # {}}) <= Cardinality(Busy)
<1> DEFINE T == {t \in Tests : BusyOn(t) # {}}
           f == [v \in Busy |-> task[v]]
<1>1. \A v \in Busy : task[v] \in Tests /\ v \in BusyOn(task[v])
  BY DEF Busy, BusyOn, TypeOK, TestOrNone
<1>2. f \in [Busy -> T]
  BY <1>1
<1>3. \A t \in T : \E v \in Busy : f[v] = t
  BY ConstantTypes DEF BusyOn, Busy
<1>4. f \in Surjection(Busy, T)
  BY <1>2, <1>3, Fun_IsSurj
<1> HIDE DEF f, T
<1>5. Cardinality(T) <= Cardinality(Busy)
  BY <1>4, BusyFinite, FS_Surjection
<1> QED BY <1>5 DEF T

\* A step after which nothing new runs and no flaw is added keeps the room.
LEMMA RoomFrame ==
  ASSUME TypeOK, TypeOK', RoomInv,
         Len(consensusCh') <= Len(consensusCh),
         consensusCh = <<>> => consensusCh' = <<>>,
         abort => abort',
         loop # "dispatch", loop' # "dispatch",
         Running' \subseteq Running
  PROVE  RoomInv'
<1>1. Dispatching = {} /\ Dispatching' = {}
  BY DEF Dispatching
<1>2. /\ Running \ Dispatching = Running /\ Running' \ Dispatching' = Running'
      /\ Cardinality({}) = 0
  BY <1>1, FS_EmptySet
<1>3. /\ Len(consensusCh) \in Nat /\ Cardinality(Running) \in Nat
      /\ Cardinality(Running') \in Nat /\ Cardinality(Running') <= Cardinality(Running)
      /\ Len(consensusCh') \in Nat
  BY RoomTypes DEF TypeOK
<1>4. Len(consensusCh') + Cardinality(Running') <= NumVMs - ClientCount + 1
  BY <1>1, <1>2, <1>3, ConstantTypes DEF RoomInv
<1>5. ~abort' => consensusCh' = <<>>
  BY DEF RoomInv
<1>6. Len(consensusCh') + Cardinality(Running' \ Dispatching') + Cardinality(Dispatching')
        <= NumVMs - ClientCount + 1
  BY <1>1, <1>2, <1>3, <1>4
<1> QED BY <1>5, <1>6 DEF RoomInv

LEMMA RoomRead ==
  ASSUME IInv, TypeOK', RoomInv, NEW v \in VMs, ReadStep(v)
  PROVE  RoomInv'
<1> USE DEF IInv
<1>0. PICK u \in Tests : u = task[v]
  BY DEF ReadStep, ReadError, ReadResult, Rendezvous, TypeOK, TestOrNone
<1>1. /\ task' = [task EXCEPT ![v] = NoTest] /\ v \in BusyOn(u)
      /\ loop = "collect" /\ loop' # "dispatch"
      /\ consensusCh' = consensusCh /\ (abort => abort')
      /\ settling' \in {settling, u}
  BY <1>0 DEF ReadStep, ReadError, ReadResult, Rendezvous, BusyOn
<1>2. \A t \in Tests : BusyOn(t)' \subseteq BusyOn(t)
  BY <1>0, <1>1, BusyAfterReturn
<1>3. Running' \subseteq Running
  BY <1>1, <1>2 DEF Running
<1> QED BY <1>1, <1>3, RoomFrame DEF TypeOK

LEMMA RoomStart ==
  ASSUME IInv, NeedInv, RoomInv, StartTest
  PROVE  RoomInv'
<1> USE DEF IInv
<1>1. /\ loop = "collect" /\ loop' = "dispatch" /\ cur' = cur /\ cur \in Tests
      /\ UNCHANGED <<task, settling, consensusCh, abort>> /\ ~abort /\ settling = NoTest
      /\ Len(ready) >= ClientCount
  <2>1. need = 0 /\ Arriving /\ loop # "range"
    BY DEF StartTest, Arriving
  <2>2. Len(ready) >= ClientCount
    BY <2>1, ConstantTypes DEF NeedInv, TypeOK
  <2> QED BY <2>2 DEF StartTest, MayStart, TypeOK, TestOrNone, vmVars, ControlInv
<1>2. consensusCh = <<>> /\ consensusCh' = <<>> /\ Dispatching' = {cur} /\ Running' = Running
  BY <1>1 DEF RoomInv, Dispatching, Running, BusyOn
<1>3. Cardinality(Running) <= NumVMs - ClientCount
  <2>1. Running = {t \in Tests : BusyOn(t) # {}}
    BY <1>1 DEF Running
  <2>2. Cardinality(Running) <= Cardinality(Busy)
    BY <2>1, FewRunning
  <2>3. Len(ready) + Cardinality(Busy) = NumVMs
    BY DEF ReadyCount
  <2> QED BY <1>1, <2>2, <2>3, BusyFinite, ConstantTypes, RoomTypes DEF TypeOK
<1>4. /\ Cardinality(Running \ {cur}) <= Cardinality(Running)
      /\ Cardinality(Running) \in Nat /\ Cardinality(Running \ {cur}) \in Nat
      /\ Cardinality({cur}) = 1
  BY RoomTypes, FS_Singleton
<1>5. Len(<<>>) + Cardinality(Running \ {cur}) + Cardinality({cur}) <= NumVMs - ClientCount + 1
  BY <1>3, <1>4, ConstantTypes
<1> QED BY <1>2, <1>5 DEF RoomInv

LEMMA RoomDispatch ==
  ASSUME IInv, RoomInv, Dispatch
  PROVE  RoomInv'
<1> USE DEF IInv
<1> DEFINE v == Head(ready)
<1>1. PICK u \in Tests : u = cur
  BY DEF Dispatch, ControlInv, TypeOK, TestOrNone
<1>2. /\ loop = "dispatch" /\ UNCHANGED <<consensusCh, settling, abort>>
      /\ task' = [task EXCEPT ![v] = u] /\ task[v] = NoTest /\ v \in VMs
      /\ \/ loop' = "dispatch" /\ cur' = u
         \/ loop' = "range"
  BY <1>1, TailElems DEF Dispatch, TypeOK
<1>3. \A t \in Tests \ {u} : BusyOn(t)' = BusyOn(t)
  BY <1>2, BusyAfterDispatch
<1> HIDE DEF v
<1>4. Running' \ {u} = Running \ {u}
  BY <1>2, <1>3 DEF Running
<1>5. /\ consensusCh = <<>> /\ consensusCh' = <<>> /\ Dispatching = {u}
      /\ Cardinality({u}) = 1 /\ Cardinality({}) = 0
  BY <1>1, <1>2, FS_Singleton, FS_EmptySet DEF RoomInv, Dispatching
<1>6. Cardinality(Running \ {u}) + 1 <= NumVMs - ClientCount + 1
  <2>1. Len(<<>>) + Cardinality(Running \ {u}) + 1 <= NumVMs - ClientCount + 1
    BY <1>5 DEF RoomInv
  <2> QED BY <2>1, RoomTypes
<1>7. CASE loop' = "dispatch" /\ cur' = u
  <2>1. Dispatching' = {u}
    BY <1>7 DEF Dispatching
  <2>2. Len(<<>>) + Cardinality(Running' \ {u}) + Cardinality({u}) <= NumVMs - ClientCount + 1
    <3>1. Len(<<>>) + Cardinality(Running \ {u}) + Cardinality({u}) <= NumVMs - ClientCount + 1
      BY <1>5 DEF RoomInv
    <3> QED BY <1>4, <3>1
  <2>3. Len(consensusCh') + Cardinality(Running' \ Dispatching') + Cardinality(Dispatching')
          <= NumVMs - ClientCount + 1
    BY <1>5, <2>1, <2>2
  <2> QED BY <1>5, <2>3 DEF RoomInv
<1>8. CASE loop' = "range"
  <2>1. Dispatching' = {} /\ Running' \ {} = Running'
    BY <1>8 DEF Dispatching
  <2>2. /\ IsFiniteSet(Running \ {u}) /\ Cardinality(Running \ {u}) \in Nat
        /\ Running' \subseteq (Running \ {u}) \cup {u}
    BY <1>4, RoomTypes
  <2>3. Cardinality((Running \ {u}) \cup {u}) = Cardinality(Running \ {u}) + 1
    BY <2>2, FS_AddElement
  <2>4. IsFiniteSet((Running \ {u}) \cup {u})
    BY <2>2, FS_AddElement
  <2>5. Cardinality(Running') \in Nat /\ Cardinality(Running') <= Cardinality(Running \ {u}) + 1
    BY <2>2, <2>3, <2>4, FS_Subset, FS_CardinalityType
  <2>6. Len(<<>>) + Cardinality(Running') + 0 <= NumVMs - ClientCount + 1
    BY <1>6, <2>2, <2>5, ConstantTypes
  <2> QED BY <1>5, <1>8, <2>1, <2>6 DEF RoomInv
<1> QED BY <1>2, <1>7, <1>8

LEMMA RoomFlaw ==
  ASSUME IInv, ResultInv, RoomInv, SettleFlaw
  PROVE  RoomInv'
<1> USE DEF IInv
<1>1. PICK u \in Tests : u = settling
  BY DEF SettleFlaw, ControlInv, TypeOK, TestOrNone
<1>2. /\ task' = task /\ settling' = NoTest /\ abort' = TRUE
      /\ loop = "settle" /\ loop' = "collect"
      /\ consensusCh' = Append(consensusCh, u) /\ consensusCh \in Seq(Tests)
  BY <1>1 DEF SettleFlaw, vmVars, TypeOK
<1>3. BusyOn(u) = {} /\ u # NoTest
  BY <1>1, ConstantTypes DEF ResultInv, EntryInv
<1>4. Running' = Running \ {u} /\ u \in Running
  BY <1>1, <1>2, <1>3 DEF Running, BusyOn
<1>5. /\ Dispatching = {} /\ Dispatching' = {} /\ Cardinality({}) = 0
      /\ Running \ {} = Running /\ Running' \ {} = Running'
  BY <1>2, FS_EmptySet DEF Dispatching
<1>6. /\ Cardinality(Running') = Cardinality(Running) - 1 /\ Cardinality(Running) \in Nat
      /\ Len(consensusCh') = Len(consensusCh) + 1 /\ Len(consensusCh) \in Nat
  BY <1>2, <1>4, RoomTypes, FS_RemoveElement
<1>7. Len(consensusCh) + Cardinality(Running) + 0 <= NumVMs - ClientCount + 1
  BY <1>5 DEF RoomInv
<1>8. Len(consensusCh') + Cardinality(Running') + 0 <= NumVMs - ClientCount + 1
  BY <1>6, <1>7, ConstantTypes
<1> QED BY <1>2, <1>5, <1>8 DEF RoomInv

LEMMA RoomLoop ==
  ASSUME IInv, TypeOK', ResultInv, NeedInv, RoomInv, LoopStep
  PROVE  RoomInv'
<1> USE DEF IInv
<1>1. CASE StartTest
  BY <1>1, RoomStart
<1>2. CASE Dispatch
  BY <1>2, RoomDispatch
<1>3. CASE SettleFlaw
  BY <1>3, RoomFlaw
<1>4. CASE PickFlaw
  <2>1. /\ Len(consensusCh') <= Len(consensusCh) /\ consensusCh # <<>>
        /\ UNCHANGED <<abort, task, settling>> /\ loop = "collect" /\ loop' = "investigate"
    BY <1>4, TailElems DEF PickFlaw, TypeOK, vmVars
  <2> QED BY <2>1, RoomFrame DEF Running, BusyOn
<1>5. CASE \/ TakeTest \/ SettleClean \/ Shortcut \/ CloseTaskChannels \/ LoopReturn
           \/ InvestigatePanics
  <2>1. /\ UNCHANGED <<abort, task, consensusCh>> /\ loop # "dispatch" /\ loop' # "dispatch"
        /\ settling' \in {settling, NoTest}
        /\ Len(consensusCh) \in Nat
    BY <1>5 DEF TakeTest, SettleClean, Shortcut, CloseTaskChannels, LoopReturn, InvestigatePanics,
                vmVars, loopVars, TypeOK
  <2>2. Running' \subseteq Running
    BY <2>1 DEF Running, BusyOn
  <2> QED BY <2>1, <2>2, RoomFrame
<1> QED BY <1>1, <1>2, <1>3, <1>4, <1>5 DEF LoopStep

(***************************************************************************)
(* The strengthened invariant and the theorems.                            *)
(***************************************************************************)

Verdicts == IInv /\ ResultInv /\ DisposalInv /\ NeedInv /\ RoomInv

LEMMA InitVerdicts == Init => Verdicts
<1> SUFFICES ASSUME Init PROVE Verdicts
  OBVIOUS
<1> USE ConstantTypes DEF Init
<1>1. IInv
  BY InitIInv
<1>2. ResultInv
  <2>1. SumsUp(NoEntry, {})
    BY DEF SumsUp, NoEntry
  <2> QED BY <2>1 DEF ResultInv, Started
<1>3. DisposalInv
  BY DEF DisposalInv, ToDelete, NoClean, Elems
<1>4. NeedInv
  BY DEF NeedInv, Arriving
<1>5. RoomInv
  <2>1. Running = {} /\ Dispatching = {} /\ Len(consensusCh) = 0 /\ Cardinality({}) = 0
    BY FS_EmptySet DEF Running, Dispatching, BusyOn
  <2>2. ClientCount <= NumVMs + 1
    BY EngineAssumption DEF ClientCount
  <2> QED BY <2>1, <2>2 DEF RoomInv
<1> QED BY <1>1, <1>2, <1>3, <1>4, <1>5 DEF Verdicts

LEMMA NextVerdicts == Verdicts /\ [Next]_vars => Verdicts'
<1> SUFFICES ASSUME Verdicts, [Next]_vars PROVE Verdicts'
  OBVIOUS
<1>1. IInv' /\ NeedInv' /\ TypeOK'
  BY NextIInv, NeedStep DEF Verdicts, IInv
<1>2. ASSUME NEW v \in VMs, ReadStep(v)
      PROVE  Verdicts'
  <2>1. /\ UNCHANGED <<verdict, removed, cleaner, consensusCh>>
        /\ loop' = "investigate" => FALSE
    BY <1>2 DEF ReadStep, ReadError, ReadResult, Rendezvous, cleanVars, histVars
  <2> QED BY <1>1, <1>2, <2>1, ResultRead, RoomRead, DisposalFrame DEF Verdicts
<1>3. CASE LoopStep
  BY <1>1, <1>3, ResultLoop, DisposalLoop, RoomLoop DEF Verdicts
<1>4. CASE CleanTask
  <2>1. UNCHANGED <<entry, observed, executing, settling, verdict, consensusCh, loop, cur, task, abort>>
    BY <1>4 DEF CleanTask, loopVars, vmVars, histVars
  <2> QED BY <1>1, <1>4, <2>1, ResultFrame, DisposalClean
             DEF Verdicts, IInv, RoomInv, Running, Dispatching, BusyOn
<1>5. CASE UNCHANGED <<loopVars, task, verdict, observed, removed>> /\ (abort => abort')
           /\ (cleaner' = cleaner \/ CleanerExit)
  <2>1. UNCHANGED <<entry, observed, executing, settling, verdict, consensusCh, loop, cur, task,
                    removed, investigated>>
    BY <1>5 DEF loopVars
  <2>2. DisposalInv'
    <3>1. cleaner'.task = cleaner.task /\ cleaner'.toRemove = cleaner.toRemove
      BY <1>5 DEF CleanerExit, Verdicts, IInv, TypeOK
    <3> QED BY <2>1, <3>1 DEF Verdicts, DisposalInv, ToDelete, Elems
  <2>3. RoomInv'
    BY <1>5, <2>1 DEF Verdicts, RoomInv, Running, Dispatching, BusyOn
  <2> QED BY <1>1, <2>1, <2>2, <2>3, ResultFrame DEF Verdicts
<1>6. \/ LoopStep \/ CleanTask
      \/ \E v \in VMs : ReadStep(v)
      \/ UNCHANGED <<loopVars, task, verdict, observed, removed>> /\ (abort => abort')
         /\ (cleaner' = cleaner \/ CleanerExit)
  BY DEF Next, Ended, vars, FactoryStep, Provide, Ship, FactoryExit, VMExit, CleanStep,
         CleanerExit, MainStep, MainEnd, Return, Signal, Interrupted, vmVars, cleanVars, histVars
<1> QED BY <1>2, <1>3, <1>4, <1>5, <1>6

\* The invariant behind the theorems that follow.
THEOREM VerdictsInductive == Spec => []Verdicts
BY InitVerdicts, NextVerdicts, PTL DEF Spec

\* A set of pairs that is a function of its first components has as many.
LEMMA SameCount ==
  ASSUME NEW obs \in SUBSET (VMs \X Hashes), \A p, q \in obs : p[1] = q[1] => p = q
  PROVE  Cardinality(obs) = Cardinality({p[1] : p \in obs})
<1> DEFINE S == {p[1] : p \in obs}
           f == [p \in obs |-> p[1]]
<1>1. f \in [obs -> S]
  OBVIOUS
<1>2. f \in Injection(obs, S)
  BY <1>1, Fun_IsInj
<1>3. f \in Surjection(obs, S)
  BY <1>1, Fun_IsSurj
<1>4. IsFiniteSet(S)
  <2>1. S \in SUBSET VMs
    OBVIOUS
  <2> QED BY <2>1, ConstantTypes, FS_Subset
<1> HIDE DEF f, S
<1>5. Cardinality(obs) = Cardinality(S)
  BY <1>2, <1>3, <1>4, FS_Injection
<1> QED BY <1>5 DEF S

\* A verdict rests on the results of ClientCount different clients and is "flaw"
\* exactly when two of them differ, in whatever order the results came in and
\* however the results of other files were interleaved with them.
THEOREM VerdictsSound == Spec => []VerdictSound
<1>1. Verdicts => VerdictSound
  <2> SUFFICES ASSUME Verdicts, NEW t \in Tests, verdict[t] # "none"
               PROVE  /\ Cardinality(Reporters(t)) = ClientCount
                      /\ Cardinality(observed[t]) = ClientCount
                      /\ verdict[t] = "flaw" <=> Disagreement(t)
    BY DEF VerdictSound
  <2>1. /\ SumsUp(entry[t], observed[t]) /\ entry[t].waiting = 0
        /\ 0 + Cardinality(entry[t].ids) = ClientCount
        /\ verdict[t] = "flaw" <=> entry[t].flaw
        /\ entry[t] \in Entries /\ observed[t] \in SUBSET (VMs \X Hashes)
    BY DEF Verdicts, ResultInv, Started, IInv, TypeOK
  <2>2. Reporters(t) = entry[t].ids /\ Cardinality(Reporters(t)) = ClientCount
    <3>1. Reporters(t) = entry[t].ids
      BY <2>1, Zenon DEF SumsUp, Reporters
    <3>2. Cardinality(entry[t].ids) = ClientCount
      BY <2>1, IdsFinite
    <3> QED BY <3>1, <3>2
  <2>3. Cardinality(observed[t]) = ClientCount
    BY <2>1, <2>2, SameCount DEF SumsUp, Reporters
  <2>4. entry[t].flaw <=> Disagreement(t)
    <3> DEFINE h == entry[t].hash
    <3>1. /\ entry[t].ids = {p[1] : p \in observed[t]}
          /\ entry[t].ids # {} => \E p \in observed[t] : p[2] = h
          /\ entry[t].flaw <=> \E p \in observed[t] : p[2] # h
      BY <2>1 DEF SumsUp
    <3> HIDE DEF h
    <3> QED BY <3>1 DEF Disagreement
  <2> QED BY <2>1, <2>2, <2>3, <2>4
<1> QED BY <1>1, VerdictsInductive, PTL

\* A deleted file is one its clients agreed on, and nobody needs it any more.
THEOREM RemovalSafe == Spec => []OnlyAgreedRemoved
<1>1. Verdicts => OnlyAgreedRemoved
  <2> SUFFICES ASSUME Verdicts, NEW t \in removed
               PROVE  /\ verdict[t] = "agree"
                      /\ t \notin executing /\ t # cleaner.toRemove /\ BusyOn(t) = {}
                      /\ t \notin Elems(testCh) \cup Elems(consensusCh)
    BY DEF OnlyAgreedRemoved
  <2>1. t \in Tests /\ verdict[t] = "agree" /\ t # cleaner.toRemove /\ t \notin Elems(consensusCh)
    BY DEF Verdicts, DisposalInv, IInv, TypeOK
  <2>2. t \notin executing
    BY <2>1 DEF Verdicts, ResultInv
  <2>3. BusyOn(t) = {}
    BY <2>1, <2>2 DEF Verdicts, IInv, EntryInv
  <2>4. t \notin Elems(testCh)
    BY <2>1 DEF Verdicts, IInv, FreshFiles, Untouched
  <2> QED BY <2>1, <2>2, <2>3, <2>4
<1> QED BY <1>1, VerdictsInductive, PTL

\* When handleConsensusFlaw runs no client is at work, and the file is a flawed
\* one that is still on disk.
THEOREM InvestigationAlone == Spec => []InvestigatesAlone
<1>1. Verdicts => InvestigatesAlone
  <2> SUFFICES ASSUME Verdicts, loop = "investigate"
               PROVE  /\ Busy = {}
                      /\ verdict[investigated] = "flaw"
                      /\ investigated \notin removed
    BY DEF InvestigatesAlone
  <2>1. need = 0 /\ need + Len(ready) = NumVMs /\ Len(ready) + Cardinality(Busy) = NumVMs
    BY DEF Verdicts, IInv, ControlInv, ReadyCount
  <2>2. Cardinality(Busy) = 0
    BY <2>1, BusyFinite, ConstantTypes DEF Verdicts, IInv, TypeOK
  <2>3. Busy = {}
    BY <2>2, BusyFinite, FS_EmptySet
  <2> QED BY <2>3 DEF Verdicts, DisposalInv
<1> QED BY <1>1, VerdictsInductive, PTL

\* With NumVMs - ClientCount + 1 slots in consensusCh the loop never blocks on
\* the send of a flaw, which only the loop itself would receive.
THEOREM FlawSendsNeverBlock == Spec => []FlawSendNeverBlocks
<1>1. Verdicts => FlawSendNeverBlocks
  <2> SUFFICES ASSUME Verdicts, NumVMs - ClientCount + 1 <= ConsensusCap, loop = "settle"
               PROVE  Len(consensusCh) < ConsensusCap
    BY DEF FlawSendNeverBlocks, FlawSendHasRoom
  <2>1. /\ Dispatching = {} /\ Cardinality({}) = 0 /\ Running \ {} = Running
        /\ settling \in Running
    BY FS_EmptySet DEF Dispatching, Running, Verdicts, IInv, ControlInv
  <2>2. Len(consensusCh) + Cardinality(Running) + 0 <= NumVMs - ClientCount + 1
    BY <2>1 DEF Verdicts, RoomInv
  <2>3. IsFiniteSet(Running) /\ Cardinality(Running) \in Nat /\ Len(consensusCh) \in Nat
    BY RoomTypes DEF Verdicts, IInv
  <2>4. Cardinality(Running) # 0
    BY <2>1, <2>3, FS_EmptySet
  <2> QED BY <2>2, <2>3, <2>4, ConstantTypes, EngineAssumption
<1> QED BY <1>1, VerdictsInductive, PTL

\* With as many clients as a file needs the loop never waits for a result that
\* nobody will send: one client too few is the only way to get stuck there.
THEOREM NeverStuck == ClientCount <= NumVMs => (Spec => []NeverWaitsForNobody)
<1>1. ASSUME ClientCount <= NumVMs
      PROVE  Verdicts => NeverWaitsForNobody
  <2> SUFFICES ASSUME Verdicts, loop = "collect", need > 0
               PROVE  Busy # {}
    BY DEF NeverWaitsForNobody
  <2>1. need + Len(ready) <= NumVMs
    <3>1. CASE cur = NoTest
      BY <3>1, ConstantTypes DEF Verdicts, IInv, ControlInv, Draining
    <3>2. CASE cur # NoTest
      BY <1>1, <3>2 DEF Verdicts, NeedInv, Arriving
    <3> QED BY <3>1, <3>2
  <2>2. Len(ready) + Cardinality(Busy) = NumVMs /\ Len(ready) \in Nat /\ need \in Nat
    BY DEF Verdicts, IInv, ReadyCount, TypeOK
  <2>3. Cardinality(Busy) # 0
    BY <2>1, <2>2, BusyFinite, ConstantTypes
  <2> QED BY <2>3, FS_EmptySet
<1>2. CASE ClientCount <= NumVMs
  <2>1. Verdicts => NeverWaitsForNobody
    BY <1>1, <1>2
  <2>2. Spec => []NeverWaitsForNobody
    BY <2>1, VerdictsInductive, PTL
  <2> QED BY <2>2
<1> QED BY <1>2

-----------------------------------------------------------------------------
(* The engine implements its promise, DiffTest: every step of FuzzEngine is  *)
(* a step of one file of DiffTest, or none; and no file gets lost.           *)

(***************************************************************************)
(* Skipped files are delivered files that were never started.              *)
(***************************************************************************)

SkipInv == \A t \in skipped : t <= produced /\ ~Started(t)

\* A file that was started has been delivered.
LEMMA StartedDelivered ==
  ASSUME IInv, NEW t \in Tests, Started(t)
  PROVE  t <= produced /\ ~Untouched(t)
<1>1. ~Untouched(t)
  BY DEF Started, Untouched
<1> QED BY <1>1 DEF IInv, FreshFiles, TypeOK, Tests

LEMMA SkipStep ==
  ASSUME Verdicts, SkipInv, [Next]_vars
  PROVE  SkipInv'
<1> USE DEF Verdicts, IInv
<1>1. skipped \subseteq Tests /\ produced \in Nat
  BY DEF TypeOK
<1>2. ASSUME NEW v \in VMs, ReadStep(v)
      PROVE  SkipInv'
  <2>1. PICK u \in Tests : u = task[v]
    BY <1>2 DEF ReadStep, ReadError, ReadResult, Rendezvous, TypeOK, TestOrNone
  <2>2. u \in executing
    <3>1. v \in BusyOn(u)
      BY <2>1 DEF BusyOn
    <3> QED BY <3>1 DEF EntryInv
  <2>3. /\ UNCHANGED <<produced, skipped, verdict>>
        /\ executing' \subseteq executing /\ settling' \in {settling, u}
    BY <1>2, <2>1 DEF ReadStep, ReadError, ReadResult, feedVars, histVars
  <2> QED BY <2>2, <2>3 DEF SkipInv, Started
<1>3. CASE StartTest
  <2>1. Arriving /\ cur \in Tests
    BY <1>3 DEF StartTest, Arriving, TypeOK, TestOrNone
  <2>2. cur \notin skipped
    BY <2>1 DEF FreshFiles, Untouched
  <2> QED BY <1>3, <2>2 DEF StartTest, SkipInv, Started, feedVars, histVars
<1>4. CASE Shortcut
  <2>1. Arriving /\ cur \in Tests
    BY <1>4 DEF Shortcut, Arriving, TypeOK, TestOrNone
  <2>2. cur <= produced /\ ~Started(cur)
    BY <2>1, ConstantTypes DEF FreshFiles, Untouched, Started
  <2> QED BY <1>4, <2>2 DEF Shortcut, SkipInv, Started, feedVars
<1>5. CASE SettleFlaw \/ SettleClean
  <2>1. settling \in Tests
    BY <1>5 DEF SettleFlaw, SettleClean, ControlInv, TypeOK, TestOrNone
  <2>2. settling \notin skipped
    BY <2>1 DEF SkipInv, Started
  <2>3. /\ UNCHANGED <<produced, skipped, executing>> /\ settling' = NoTest
        /\ \A t \in Tests : t # settling => verdict'[t] = verdict[t]
    BY <1>5 DEF SettleFlaw, SettleClean, feedVars, TypeOK
  <2> QED BY <1>1, <2>2, <2>3, ConstantTypes DEF SkipInv, Started
<1>6. CASE /\ UNCHANGED <<skipped, executing, settling, verdict>>
           /\ produced' >= produced /\ produced' \in Nat
  <2>1. \A t \in skipped : t <= produced => t <= produced'
    BY <1>1, <1>6 DEF Tests
  <2> QED BY <1>6, <2>1 DEF SkipInv, Started
<1>7. \/ \E v \in VMs : ReadStep(v)
      \/ StartTest \/ Shortcut \/ SettleFlaw \/ SettleClean
      \/ /\ UNCHANGED <<skipped, executing, settling, verdict>>
         /\ produced' \in {produced, produced + 1}
  BY DEF Next, Ended, vars, FactoryStep, Provide, Ship, FactoryExit, LoopStep, TakeTest, Dispatch,
         CloseTaskChannels, PickFlaw, LoopReturn, InvestigatePanics, VMExit, CleanStep, CleanTask,
         CleanerExit, MainStep, MainEnd, Return, Signal, Interrupted, feedVars, loopVars, histVars
<1> QED BY <1>1, <1>2, <1>3, <1>4, <1>5, <1>6, <1>7

(***************************************************************************)
(* The refinement.                                                         *)
(***************************************************************************)

PhaseMap == [t \in Tests |-> Phase(t)]

\* What Phase says of a delivered file.
LEMMA PhaseDelivered ==
  ASSUME Verdicts, SkipInv, NEW t \in Tests, t <= produced
  PROVE  /\ verdict[t] # "none" => Phase(t) = verdict[t]
         /\ t \in executing \/ t = settling => Phase(t) = "executing"
         /\ t \in skipped => Phase(t) = "skipped"
         /\ Untouched(t) => Phase(t) = "delivered"
<1>1. ~(t > produced)
  BY DEF Verdicts, IInv, TypeOK, Tests
<1>2. /\ t \in executing \/ t = settling => verdict[t] = "none" /\ t \notin skipped
      /\ t \in skipped => verdict[t] = "none"
  BY DEF Verdicts, ResultInv, SkipInv, Started
<1> QED BY <1>1, <1>2 DEF Phase, Untouched

\* A step that leaves alone what Phase looks at.
LEMMA PhaseFrame ==
  ASSUME NEW u,
         produced' = produced,
         \A t \in Tests \ {u} :
           /\ verdict'[t] = verdict[t]
           /\ t \in skipped' <=> t \in skipped
           /\ (t \in executing' \/ t = settling') <=> (t \in executing \/ t = settling)
  PROVE  \A t \in Tests \ {u} : Phase(t)' = Phase(t)
BY DEF Phase

\* One file moves: the phase function of DiffTest makes that move.
LEMMA OneMoves ==
  ASSUME NEW u \in Tests, NEW from, NEW to, Phase(u) = from, Phase(u)' = to,
         \A t \in Tests \ {u} : Phase(t)' = Phase(t)
  PROVE  Promise!Move(u, from, to)
BY DEF Promise!Move

\* DiffTest counts with the same Cardinality.
LEMMA SameCardinality == \A S : Promise!Cardinality(S) = Cardinality(S)
BY Zenon DEF Promise!Cardinality, Cardinality, Promise!IsFiniteSet, IsFiniteSet

\* Nothing happens to DiffTest.
Stutters == UNCHANGED <<PhaseMap, observed, removed>>

LEMMA RefineProvide ==
  ASSUME Verdicts, SkipInv, NEW f \in Factories, Provide(f)
  PROVE  \E t \in Tests : Promise!Deliver(t)
<1> USE DEF Verdicts, IInv
<1>1. PICK u \in Tests : u = produced + 1
  <2>1. produced + 1 \in Tests
    BY ConstantTypes DEF Provide, TypeOK, Tests
  <2> QED BY <2>1
<1>2. /\ produced' = u /\ produced \in Nat
      /\ UNCHANGED <<verdict, skipped, executing, settling, observed, removed>>
  BY <1>1 DEF Provide, NextFile, loopVars, histVars, cleanVars, TypeOK
<1>3. Untouched(u) /\ u > produced /\ ~(u > produced')
  BY <1>1, <1>2 DEF FreshFiles
<1>4. Phase(u) = "new" /\ Phase(u)' = "delivered"
  BY <1>2, <1>3 DEF Phase, Untouched
<1>5. \A t \in Tests \ {u} : t > produced' <=> t > produced
  BY <1>1, <1>2 DEF Tests
<1>6. \A t \in Tests \ {u} : Phase(t)' = Phase(t)
  BY <1>2, <1>5 DEF Phase
<1>7. Promise!Move(u, "new", "delivered")
  BY <1>4, <1>6, OneMoves
<1> QED BY <1>2, <1>7 DEF Promise!Deliver

LEMMA RefineRead ==
  ASSUME Verdicts, SkipInv, NEW v \in VMs, NEW r \in Results, ReadResult(v, r)
  PROVE  \E t \in Tests, h \in Hashes : Promise!Report(t, v, h)
<1> USE DEF Verdicts, IInv
<1>1. PICK u \in Tests : u = task[v]
  BY DEF ReadResult, Rendezvous, TypeOK, TestOrNone
<1>2. u \in executing /\ v \notin entry[u].ids
  <2>1. v \in BusyOn(u)
    BY <1>1 DEF BusyOn
  <2> QED BY <2>1 DEF EntryInv
<1>3. /\ UNCHANGED <<produced, verdict, skipped, removed>>
      /\ observed' = [observed EXCEPT ![u] = @ \cup {<<v, r.hash>>}]
      /\ settling = NoTest /\ u # NoTest
      /\ \/ executing' = executing /\ settling' = settling
         \/ executing' = executing \ {u} /\ settling' = u
  BY <1>1, ConstantTypes DEF ReadResult, Rendezvous, feedVars, cleanVars, ControlInv
<1>4. Phase(u) = "executing"
  BY <1>2, StartedDelivered, PhaseDelivered DEF Started
<1>5. PhaseMap' = PhaseMap
  <2>1. \A t \in Tests : (t \in executing' \/ t = settling') <=> (t \in executing \/ t = settling)
    BY <1>2, <1>3, ConstantTypes
  <2> QED BY <1>3, <2>1 DEF PhaseMap, Phase
<1>6. /\ SumsUp(entry[u], observed[u]) /\ entry[u].waiting > 0
      /\ entry[u].waiting + Cardinality(entry[u].ids) = ClientCount
      /\ entry[u] \in Entries /\ observed[u] \in SUBSET (VMs \X Hashes)
      /\ entry[u].waiting \in Nat
  BY <1>2, ConstantTypes DEF ResultInv, Started, EntryInv, TypeOK, Entries
<1>7. Cardinality(observed[u]) = Cardinality(entry[u].ids)
  BY <1>6, SameCount, Zenon DEF SumsUp
<1>8. Cardinality(observed[u]) < ClientCount
  BY <1>6, <1>7, IdsFinite, ConstantTypes
<1>9. \A p \in observed[u] : p[1] # v
  <2>1. entry[u].ids = {p[1] : p \in observed[u]}
    BY <1>6 DEF SumsUp
  <2> QED BY <1>2, <2>1
<1>10. r.hash \in Hashes
  BY DEF Results
<1>11. Promise!Report(u, v, r.hash)
  BY <1>3, <1>4, <1>5, <1>8, <1>9, SameCardinality DEF Promise!Report, PhaseMap
<1> QED BY <1>10, <1>11

LEMMA RefineSettle ==
  ASSUME Verdicts, SkipInv, SettleFlaw \/ SettleClean
  PROVE  \E t \in Tests : Promise!Decide(t)
<1> USE DEF Verdicts, IInv
<1>1. PICK u \in Tests : u = settling
  BY DEF SettleFlaw, SettleClean, ControlInv, TypeOK, TestOrNone
<1>2. /\ UNCHANGED <<produced, executing, observed, removed, skipped>> /\ settling' = NoTest
      /\ \E w \in {"agree", "slow", "flaw"} :
           /\ verdict' = [verdict EXCEPT ![u] = w]
           /\ w = "flaw" <=> entry[u].flaw
  <2>1. CASE SettleFlaw
    BY <1>1, <2>1 DEF SettleFlaw, IsFlaw, feedVars, cleanVars
  <2>2. CASE SettleClean
    BY <1>1, <2>2 DEF SettleClean, IsFlaw, feedVars
  <2> QED BY <2>1, <2>2
<1>3. /\ u <= produced /\ u \notin executing /\ u # NoTest
      /\ Phase(u) = "executing"
      /\ SumsUp(entry[u], observed[u]) /\ 0 + Cardinality(entry[u].ids) = ClientCount
      /\ entry[u] \in Entries /\ observed[u] \in SUBSET (VMs \X Hashes)
  BY <1>1, ConstantTypes, StartedDelivered, PhaseDelivered DEF ResultInv, Started, TypeOK
<1>4. Cardinality(observed[u]) = ClientCount
  <2>1. Cardinality(observed[u]) = Cardinality(entry[u].ids)
    BY <1>3, SameCount, Zenon DEF SumsUp
  <2> QED BY <1>3, <2>1, IdsFinite
<1>5. entry[u].flaw <=> ~Promise!Agreed(u)
  <2> DEFINE h == entry[u].hash
  <2>1. /\ entry[u].ids = {p[1] : p \in observed[u]}
        /\ entry[u].ids # {} => \E p \in observed[u] : p[2] = h
        /\ entry[u].flaw <=> \E p \in observed[u] : p[2] # h
    BY <1>3 DEF SumsUp
  <2> HIDE DEF h
  <2> QED BY <2>1 DEF Promise!Agreed
<1>6. PICK w \in {"agree", "slow", "flaw"} : /\ verdict' = [verdict EXCEPT ![u] = w]
                                             /\ w = "flaw" <=> entry[u].flaw
  BY <1>2
<1>7. Phase(u)' = w
  <2>1. verdict'[u] = w
    BY <1>6 DEF TypeOK
  <2>2. ~(u > produced') /\ w # "none"
    BY <1>2, <1>3, <1>6 DEF TypeOK, Tests
  <2>3. u \notin skipped' /\ u \notin executing' /\ u # settling'
    BY <1>1, <1>2, <1>3 DEF SkipInv, Started
  <2> QED BY <2>1, <2>2, <2>3 DEF Phase
<1>8. \A t \in Tests \ {u} : Phase(t)' = Phase(t)
  <2>1. \A t \in Tests \ {u} : verdict'[t] = verdict[t]
    BY <1>6 DEF TypeOK
  <2>2. \A t \in Tests \ {u} :
          (t \in executing' \/ t = settling') <=> (t \in executing \/ t = settling)
    BY <1>1, <1>2, ConstantTypes
  <2> QED BY <1>2, <2>1, <2>2, PhaseFrame
<1>9. Promise!Move(u, "executing", w)
  BY <1>3, <1>7, <1>8, OneMoves
<1>10. w \in IF Promise!Agreed(u) THEN {"agree", "slow"} ELSE {"flaw"}
  BY <1>5, <1>6
<1> QED BY <1>2, <1>4, <1>9, <1>10, SameCardinality DEF Promise!Decide

LEMMA RefineStart ==
  ASSUME Verdicts, SkipInv, StartTest \/ Shortcut
  PROVE  \E t \in Tests : Promise!Execute(t) \/ Promise!Skip(t)
<1> USE DEF Verdicts, IInv
<1>1. PICK u \in Tests : u = cur
  BY DEF StartTest, Shortcut, TypeOK, TestOrNone
<1>2. u <= produced /\ Untouched(u) /\ u # NoTest /\ settling # u
  BY <1>1, ConstantTypes DEF StartTest, Shortcut, FreshFiles, Arriving, Untouched
<1>3. Phase(u) = "delivered"
  BY <1>2, PhaseDelivered
<1>4. /\ UNCHANGED <<produced, verdict, settling, observed, removed>>
      /\ \/ executing' = executing \cup {u} /\ skipped' = skipped
         \/ executing' = executing /\ skipped' = skipped \cup {u}
  BY <1>1 DEF StartTest, Shortcut, feedVars, cleanVars, histVars
<1>5. \A t \in Tests \ {u} : Phase(t)' = Phase(t)
  BY <1>4, PhaseFrame
<1>6. ~(u > produced')
  BY <1>2, <1>4 DEF TypeOK, Tests
<1>7. CASE executing' = executing \cup {u} /\ skipped' = skipped
  <2>1. Phase(u)' = "executing"
    BY <1>2, <1>4, <1>6, <1>7 DEF Phase, Untouched
  <2>2. Promise!Move(u, "delivered", "executing")
    BY <1>3, <1>5, <2>1, OneMoves
  <2> QED BY <1>4, <2>2 DEF Promise!Execute
<1>8. CASE executing' = executing /\ skipped' = skipped \cup {u}
  <2>1. Phase(u)' = "skipped"
    BY <1>2, <1>4, <1>6, <1>8 DEF Phase, Untouched
  <2>2. Promise!Move(u, "delivered", "skipped")
    BY <1>3, <1>5, <2>1, OneMoves
  <2> QED BY <1>4, <2>2 DEF Promise!Skip
<1> QED BY <1>4, <1>7, <1>8

LEMMA RefineClean ==
  ASSUME Verdicts, SkipInv, CleanTask
  PROVE  Stutters \/ \E t \in Tests : Promise!Delete(t)
<1> USE DEF Verdicts, IInv
<1>1. /\ UNCHANGED <<produced, verdict, skipped, executing, settling, observed>>
      /\ removed' = removed \cup ({cleaner.toRemove} \ {NoTest})
  BY DEF CleanTask, feedVars, loopVars, histVars
<1>2. PhaseMap' = PhaseMap
  BY <1>1 DEF PhaseMap, Phase
<1>3. CASE cleaner.toRemove = NoTest
  BY <1>1, <1>2, <1>3 DEF Stutters
<1>4. CASE cleaner.toRemove # NoTest
  <2>1. PICK u \in Tests : u = cleaner.toRemove
    BY <1>4 DEF TypeOK, TestOrNone
  <2>2. u \notin removed /\ verdict[u] = "agree"
    BY <1>4, <2>1 DEF DisposalInv, ToDelete
  <2>3. Phase(u) = "agree"
    BY <2>2, StartedDelivered, PhaseDelivered DEF Started
  <2>4. Promise!Delete(u)
    BY <1>1, <1>2, <1>4, <2>1, <2>2, <2>3 DEF Promise!Delete, PhaseMap
  <2> QED BY <2>4
<1> QED BY <1>3, <1>4

\* The initial state is one of DiffTest, every step a step of it or none.
LEMMA RefineInit == Init => Promise!Init
<1> SUFFICES ASSUME Init PROVE Promise!Init
  OBVIOUS
<1>1. \A t \in Tests : Phase(t) = "new"
  <2>1. \A t \in Tests : t > produced /\ verdict[t] = "none" /\ t \notin skipped
                         /\ t \notin executing /\ t # settling
    BY ConstantTypes DEF Init, Tests
  <2> QED BY <2>1 DEF Phase
<1> QED BY <1>1 DEF Init, Promise!Init

LEMMA RefineNext ==
  ASSUME Verdicts, SkipInv, [Next]_vars
  PROVE  [Promise!Next]_(Promise!vars)
<1>1. ASSUME NEW f \in Factories, Provide(f)
      PROVE  Promise!Next
  BY <1>1, RefineProvide DEF Promise!Next
<1>2. ASSUME NEW v \in VMs, NEW r \in Results, ReadResult(v, r)
      PROVE  Promise!Next
  BY <1>2, RefineRead DEF Promise!Next
<1>3. CASE SettleFlaw \/ SettleClean
  BY <1>3, RefineSettle DEF Promise!Next
<1>4. CASE StartTest \/ Shortcut
  BY <1>4, RefineStart DEF Promise!Next
<1>5. CASE CleanTask
  BY <1>5, RefineClean DEF Promise!Next, Promise!vars, Stutters, PhaseMap
<1>6. CASE UNCHANGED <<produced, verdict, skipped, executing, settling, observed, removed>>
  BY <1>6 DEF Promise!vars, Phase
<1>7. \/ \E f \in Factories : Provide(f)
      \/ \E v \in VMs, r \in Results : ReadResult(v, r)
      \/ SettleFlaw \/ SettleClean \/ StartTest \/ Shortcut \/ CleanTask
      \/ UNCHANGED <<produced, verdict, skipped, executing, settling, observed, removed>>
  BY DEF Next, Ended, vars, FactoryStep, Ship, FactoryExit, LoopStep, TakeTest, Dispatch, ReadStep,
         CloseTaskChannels, PickFlaw, LoopReturn, InvestigatePanics, VMExit, CleanStep, ReadError,
         CleanerExit, MainStep, MainEnd, Return, Signal, Interrupted, feedVars, loopVars, histVars,
         cleanVars
<1> QED BY <1>1, <1>2, <1>3, <1>4, <1>5, <1>6, <1>7

\* The engine implements DiffTest: a delivered file is skipped or executed, it
\* is decided once, on the results of ClientCount clients, and only a file they
\* agreed on is ever deleted.
THEOREM EngineKeepsPromise == Spec => PromiseKept
<1>1. Init => SkipInv
  BY DEF Init, SkipInv
<1>2. Verdicts /\ SkipInv /\ [Next]_vars => Verdicts' /\ SkipInv'
  BY NextVerdicts, SkipStep
<1>3. Verdicts /\ SkipInv /\ [Next]_vars => [Promise!Next]_(Promise!vars)
  BY RefineNext
<1> QED BY <1>1, <1>2, <1>3, InitVerdicts, RefineInit, PTL DEF Spec, PromiseKept, Promise!Spec

(***************************************************************************)
(* No file gets lost.                                                      *)
(***************************************************************************)

\* Every delivered file is on its way, started or skipped.
Located(t) ==
  \/ \E f \in Factories : factory[f].file = t
  \/ t \in Elems(testCh)
  \/ Arriving /\ t = cur
  \/ Started(t) \/ t \in skipped
LocatedInv == \A t \in Tests : t <= produced => Located(t)

\* numTests counts the files whose last result was read.
Decided  == {t \in Tests : verdict[t] # "none"}
CountInv == numTests = Cardinality(Decided) + (IF settling = NoTest THEN 0 ELSE 1)

\* While no client fails, an executing file waits for clients that will report.
WaitInv ==
  ~VMErrors => \A t \in executing : entry[t].waiting = Cardinality(BusyOn(t)) + ToGo(t)

\* When ExecuteFuzzer has returned the factories and the loop have, too.
EndInv == main = "returned" => FactoriesGone /\ loop = "exit"

LEMMA LocatedFactory ==
  ASSUME IInv, LocatedInv, NEW f \in Factories, FactoryStep(f)
  PROVE  LocatedInv'
<1> USE DEF IInv
<1>1. /\ UNCHANGED <<loopVars, histVars>>
      /\ \A t : Started(t)' <=> Started(t)
      /\ UNCHANGED <<Arriving, cur, skipped>>
  BY DEF FactoryStep, Provide, Ship, FactoryExit, loopVars, histVars, Started, Arriving
<1>2. CASE Provide(f)
  <2>1. /\ produced' = produced + 1 /\ produced \in Nat /\ UNCHANGED testCh
        /\ factory[f].file = NoTest /\ factory'[f].file = produced'
        /\ \A g \in Factories \ {f} : factory'[g] = factory[g]
    BY <1>2 DEF Provide, NextFile, TypeOK, ControlInv
  <2>2. ASSUME NEW t \in Tests, t <= produced'
        PROVE  Located(t)'
    <3>1. CASE t = produced'
      BY <2>1, <3>1 DEF Located
    <3>2. CASE t # produced'
      <4>1. Located(t)
        BY <2>1, <2>2, <3>2 DEF LocatedInv, Tests
      <4>2. \A g \in Factories : factory[g].file = t => factory'[g].file = t
        BY <2>1, ConstantTypes
      <4> QED BY <1>1, <2>1, <4>1, <4>2 DEF Located, Elems
    <3> QED BY <3>1, <3>2
  <2> QED BY <2>2 DEF LocatedInv
<1>3. CASE Ship(f)
  <2>1. /\ produced' = produced /\ factory[f].file \in Tests
        /\ testCh' = Append(testCh, factory[f].file)
        /\ \A g \in Factories \ {f} : factory'[g] = factory[g]
    BY <1>3 DEF Ship, TypeOK, ControlInv, TestOrNone
  <2>2. Elems(testCh') = Elems(testCh) \cup {factory[f].file}
    BY <2>1, AppendElems DEF TypeOK
  <2>3. ASSUME NEW t \in Tests, Located(t)
        PROVE  Located(t)'
    BY <1>1, <2>1, <2>2, <2>3 DEF Located
  <2> QED BY <2>1, <2>3 DEF LocatedInv
<1>4. CASE FactoryExit(f)
  <2>1. /\ UNCHANGED <<produced, testCh>>
        /\ \A g \in Factories : factory'[g].file = factory[g].file
    BY <1>4 DEF FactoryExit, TypeOK
  <2> QED BY <1>1, <2>1 DEF LocatedInv, Located, Elems
<1> QED BY <1>2, <1>3, <1>4 DEF FactoryStep

\* The loop and the clients hand a file on, they do not drop it.
LEMMA LocatedFrame ==
  ASSUME LocatedInv, UNCHANGED <<produced, factory>>,
         \A t \in Tests : t \in Elems(testCh) \/ (Arriving /\ t = cur) \/ Started(t) \/ t \in skipped
           => Located(t)'
  PROVE  LocatedInv'
BY DEF LocatedInv, Located

LEMMA LocatedStep ==
  ASSUME Verdicts, LocatedInv, [Next]_vars
  PROVE  LocatedInv'
<1> USE DEF Verdicts, IInv
<1>1. ASSUME NEW f \in Factories, FactoryStep(f)
      PROVE  LocatedInv'
  BY <1>1, LocatedFactory
<1>2. ASSUME NEW v \in VMs, ReadStep(v)
      PROVE  LocatedInv'
  <2>1. /\ UNCHANGED <<produced, factory, testCh, cur, verdict, skipped>>
        /\ loop = "collect" /\ (Arriving => Arriving') /\ settling = NoTest
        /\ \A t \in executing : t \in executing' \/ t = settling'
    BY <1>2 DEF ReadStep, ReadError, ReadResult, Rendezvous, feedVars, histVars, Arriving, ControlInv
  <2> QED BY <2>1, LocatedFrame, ConstantTypes DEF Located, Started, Elems
<1>3. CASE TakeTest
  <2>1. /\ UNCHANGED <<produced, factory, executing, settling, verdict, skipped>>
        /\ cur' = Head(testCh) /\ testCh' = Tail(testCh) /\ testCh # <<>> /\ testCh \in Seq(Tests)
        /\ cur = NoTest /\ loop' = "collect" /\ Distinct(testCh)
    BY <1>3 DEF TakeTest, histVars, ControlInv, TypeOK, FreshFiles
  <2>2. Elems(testCh) = Elems(testCh') \cup {cur'} /\ cur' \in Tests
    BY <2>1, TailElems
  <2>3. \A t \in Elems(testCh) : Located(t)'
    BY <2>1, <2>2, ConstantTypes DEF Located, Arriving
  <2> QED BY <2>1, <2>3, LocatedFrame, ConstantTypes DEF Located, Started
<1>4. CASE SettleFlaw \/ SettleClean
  <2>1. /\ UNCHANGED <<produced, factory, testCh, cur, executing, skipped>>
        /\ settling \in Tests /\ (Arriving => Arriving')
        /\ \A t \in Tests : verdict[t] # "none" => verdict'[t] # "none"
        /\ verdict'[settling] # "none"
    BY <1>4 DEF SettleFlaw, SettleClean, feedVars, Arriving, ControlInv, TypeOK, TestOrNone
  <2> QED BY <2>1, LocatedFrame DEF Located, Started, Elems
<1>5. CASE \/ Shortcut \/ StartTest \/ Dispatch \/ CloseTaskChannels \/ PickFlaw \/ LoopReturn
           \/ InvestigatePanics
  <2>1. /\ UNCHANGED <<produced, factory, testCh, settling, verdict>>
        /\ executing \subseteq executing' /\ skipped \subseteq skipped'
        /\ \/ Arriving /\ cur \in executing' \cup skipped'
           \/ ~Arriving \/ (Arriving' /\ cur' = cur)
    BY <1>5 DEF Shortcut, StartTest, Dispatch, CloseTaskChannels, PickFlaw, LoopReturn,
                InvestigatePanics, feedVars, loopVars, histVars, Arriving, ControlInv
  <2> QED BY <2>1, LocatedFrame DEF Located, Started, Elems
<1>6. CASE UNCHANGED <<feedVars, loopVars, histVars>>
  BY <1>6, LocatedFrame DEF feedVars, loopVars, histVars, Located, Started, Elems, Arriving
<1>7. \/ \E f \in Factories : FactoryStep(f)
      \/ \E v \in VMs : ReadStep(v)
      \/ LoopStep
      \/ UNCHANGED <<feedVars, loopVars, histVars>>
  BY DEF Next, Ended, vars, VMExit, CleanStep, CleanTask, CleanerExit, MainStep, MainEnd, Return,
         Signal, Interrupted
<1> QED BY <1>1, <1>2, <1>3, <1>4, <1>5, <1>6, <1>7 DEF LoopStep

LEMMA CountStep ==
  ASSUME Verdicts, CountInv, [Next]_vars
  PROVE  CountInv'
<1> USE DEF Verdicts, IInv
<1>1. IsFiniteSet(Decided) /\ Cardinality(Decided) \in Nat
  <2>1. Decided \in SUBSET Tests /\ IsFiniteSet(Tests)
    BY ConstantTypes, FS_Interval DEF Decided, Tests
  <2> QED BY <2>1, FS_Subset, FS_CardinalityType
<1>2. ASSUME NEW v \in VMs, ReadStep(v)
      PROVE  CountInv'
  <2>1. /\ verdict' = verdict /\ settling = NoTest
        /\ \/ UNCHANGED <<numTests, settling>>
           \/ numTests' = numTests + 1 /\ settling' = task[v] /\ settling' # NoTest
    BY <1>2 DEF ReadStep, ReadError, ReadResult, Rendezvous, histVars, ControlInv
  <2>2. Decided' = Decided
    BY <2>1 DEF Decided
  <2> QED BY <1>1, <2>1, <2>2 DEF CountInv
<1>3. CASE SettleFlaw \/ SettleClean
  <2>1. PICK u \in Tests : u = settling
    BY <1>3 DEF SettleFlaw, SettleClean, ControlInv, TypeOK, TestOrNone
  <2>2. /\ numTests' = numTests /\ settling' = NoTest /\ verdict[u] = "none" /\ u # NoTest
        /\ \A t \in Tests \ {u} : verdict'[t] = verdict[t]
        /\ verdict'[u] # "none"
    BY <1>3, <2>1, ConstantTypes DEF SettleFlaw, SettleClean, ResultInv, TypeOK
  <2>3. Decided' = Decided \cup {u} /\ u \notin Decided
    BY <2>2 DEF Decided
  <2>4. Cardinality(Decided') = Cardinality(Decided) + 1
    BY <1>1, <2>3, FS_AddElement
  <2> QED BY <1>1, <2>1, <2>2, <2>4 DEF CountInv
<1>4. CASE UNCHANGED <<numTests, settling, verdict>>
  BY <1>4 DEF CountInv, Decided
<1>5. \/ \E v \in VMs : ReadStep(v)
      \/ SettleFlaw \/ SettleClean
      \/ UNCHANGED <<numTests, settling, verdict>>
  BY DEF Next, Ended, vars, FactoryStep, Provide, Ship, FactoryExit, LoopStep, TakeTest, Shortcut,
         StartTest, Dispatch, CloseTaskChannels, PickFlaw, LoopReturn, InvestigatePanics, VMExit,
         CleanStep, CleanTask, CleanerExit, MainStep, MainEnd, Return, Signal, Interrupted, loopVars,
         histVars
<1> QED BY <1>2, <1>3, <1>4, <1>5

LEMMA WaitRead ==
  ASSUME Verdicts, WaitInv, ~VMErrors, NEW v \in VMs, NEW r \in Results, ReadResult(v, r)
  PROVE  WaitInv'
<1> USE DEF Verdicts, IInv
<1>1. PICK u \in Tests : u = task[v]
  BY DEF ReadResult, Rendezvous, TypeOK, TestOrNone
<1> DEFINE e == WithResult(entry[u], v, r)
<1>2. /\ loop = "collect" /\ loop' # "dispatch"
      /\ task' = [task EXCEPT ![v] = NoTest]
      /\ entry' = [entry EXCEPT ![u] = e] /\ e.waiting = entry[u].waiting - 1
      /\ executing' \subseteq executing
  BY <1>1 DEF ReadResult, Rendezvous, WithResult
<1> HIDE DEF e
<1>3. /\ \A t \in Tests : BusyOn(t)' = BusyOn(t) \ {v}
      /\ Cardinality(BusyOn(u)') = Cardinality(BusyOn(u)) - 1
      /\ v \in BusyOn(u)
  BY <1>1, <1>2, BusyAfterReturn
<1>4. \A t \in executing : entry[t].waiting = Cardinality(BusyOn(t)) + 0
  BY <1>2 DEF WaitInv, ToGo
<1>5. ASSUME NEW t \in executing'
      PROVE  entry'[t].waiting = Cardinality(BusyOn(t)') + 0
  <2>1. t \in executing /\ t \in Tests
    BY <1>2 DEF TypeOK
  <2>2. CASE t = u
    <3>1. entry'[u].waiting = entry[u].waiting - 1
      BY <1>2 DEF TypeOK
    <3>2. Cardinality(BusyOn(u)) \in Nat
      BY BusyFinite
    <3>3. entry[u].waiting = Cardinality(BusyOn(u)) + 0
      BY <1>4, <2>1, <2>2
    <3>4. entry'[u].waiting = Cardinality(BusyOn(u)') + 0
      BY <1>3, <3>1, <3>2, <3>3
    <3> QED BY <2>2, <3>4
  <2>3. CASE t # u
    <3>1. v \notin BusyOn(t)
      BY <1>1, <2>3 DEF BusyOn
    <3>2. BusyOn(t)' = BusyOn(t)
      BY <1>3, <2>1, <3>1
    <3>3. entry'[t] = entry[t]
      BY <1>2, <2>1, <2>3 DEF TypeOK
    <3>4. entry[t].waiting = Cardinality(BusyOn(t)) + 0
      BY <1>4, <2>1
    <3> QED BY <3>2, <3>3, <3>4
  <2> QED BY <2>2, <2>3
<1>6. \A t : ToGo(t)' = 0
  BY <1>2 DEF ToGo
<1> QED BY <1>5, <1>6 DEF WaitInv

LEMMA WaitDispatch ==
  ASSUME Verdicts, WaitInv, ~VMErrors, Dispatch
  PROVE  WaitInv'
<1> USE DEF Verdicts, IInv
<1> DEFINE v == Head(ready)
<1>1. PICK u \in Tests : u = cur
  BY DEF Dispatch, ControlInv, TypeOK, TestOrNone
<1>2. /\ loop = "dispatch" /\ need \in Nat \ {0} /\ need' = need - 1
      /\ ToGo(u) = need /\ ToGo(u)' = need'
      /\ \A t \in Tests \ {u} : ToGo(t) = 0 /\ ToGo(t)' = 0
      /\ UNCHANGED <<executing, entry>>
      /\ task' = [task EXCEPT ![v] = u] /\ task[v] = NoTest /\ v \in VMs
  BY <1>1, TailElems DEF Dispatch, ControlInv, TypeOK, ToGo
<1>3. /\ \A t \in Tests \ {u} : BusyOn(t)' = BusyOn(t)
      /\ Cardinality(BusyOn(u)') = Cardinality(BusyOn(u)) + 1
  BY <1>2, BusyAfterDispatch
<1>4. Cardinality(BusyOn(u)) \in Nat
  BY BusyFinite
<1>5. Cardinality(BusyOn(u)) + ToGo(u) = Cardinality(BusyOn(u)') + ToGo(u)'
  BY <1>2, <1>3, <1>4
<1> HIDE DEF v
<1>6. \A t \in Tests : Cardinality(BusyOn(t)) + ToGo(t) = Cardinality(BusyOn(t)') + ToGo(t)'
  BY <1>2, <1>3, <1>5
<1> QED BY <1>2, <1>6 DEF WaitInv, TypeOK

LEMMA WaitStart ==
  ASSUME Verdicts, WaitInv, ~VMErrors, StartTest
  PROVE  WaitInv'
<1> USE DEF Verdicts, IInv
<1>1. PICK u \in Tests : u = cur
  BY DEF StartTest, TypeOK, TestOrNone
<1>2. /\ loop = "collect" /\ loop' = "dispatch" /\ cur' = u /\ need' = ClientCount
      /\ executing' = executing \cup {u} /\ task' = task
      /\ entry' = [entry EXCEPT ![u] = FreshEntry]
      /\ u \notin executing
  BY <1>1, ConstantTypes DEF StartTest, vmVars, FreshFiles, Arriving, Untouched
<1>3. Cardinality(BusyOn(u)) = 0 /\ \A t : BusyOn(t)' = BusyOn(t)
  <2>1. BusyOn(u) = {}
    BY <1>2 DEF EntryInv
  <2> QED BY <1>2, <2>1, FS_EmptySet DEF BusyOn
<1>4. entry'[u].waiting = Cardinality(BusyOn(u)') + ToGo(u)'
  <2>1. entry'[u] = FreshEntry /\ ToGo(u)' = ClientCount
    BY <1>2 DEF ToGo, TypeOK
  <2> QED BY <1>3, <2>1, ConstantTypes DEF FreshEntry
<1>5. ASSUME NEW t \in executing
      PROVE  entry'[t].waiting = Cardinality(BusyOn(t)') + ToGo(t)'
  <2>1. /\ t \in Tests /\ t # u /\ entry'[t] = entry[t]
        /\ ToGo(t) = 0 /\ ToGo(t)' = 0 /\ BusyOn(t)' = BusyOn(t)
    BY <1>2, <1>3 DEF ToGo, TypeOK
  <2>2. entry[t].waiting = Cardinality(BusyOn(t)) + ToGo(t)
    BY DEF WaitInv
  <2> QED BY <2>1, <2>2
<1> QED BY <1>2, <1>4, <1>5 DEF WaitInv

LEMMA WaitStep ==
  ASSUME Verdicts, WaitInv, [Next]_vars
  PROVE  WaitInv'
<1>1. CASE VMErrors
  BY <1>1 DEF WaitInv
<1>2. CASE ~VMErrors
  <2>1. ASSUME NEW v \in VMs, ReadStep(v)
        PROVE  WaitInv'
    BY <1>2, <2>1, WaitRead DEF ReadStep, ReadError
  <2>2. CASE Dispatch
    BY <1>2, <2>2, WaitDispatch
  <2>3. CASE StartTest
    BY <1>2, <2>3, WaitStart
  <2>4. CASE UNCHANGED <<executing, entry, task>> /\ \A t : ToGo(t)' = ToGo(t)
    BY <2>4 DEF WaitInv, BusyOn
  <2>5. CASE \/ TakeTest \/ Shortcut \/ SettleFlaw \/ SettleClean \/ CloseTaskChannels \/ PickFlaw
             \/ LoopReturn
    <3>1. UNCHANGED <<executing, entry, task>> /\ loop # "dispatch" /\ loop' # "dispatch"
      BY <2>5 DEF TakeTest, Shortcut, SettleFlaw, SettleClean, CloseTaskChannels, PickFlaw,
                  LoopReturn, vmVars
    <3> QED BY <2>4, <3>1 DEF ToGo
  <2>6. CASE UNCHANGED <<loopVars, task>>
    BY <2>4, <2>6 DEF loopVars, ToGo
  <2>7. \/ \E v \in VMs : ReadStep(v)
        \/ Dispatch \/ StartTest \/ TakeTest \/ Shortcut \/ SettleFlaw \/ SettleClean
        \/ CloseTaskChannels \/ PickFlaw \/ LoopReturn
        \/ UNCHANGED <<loopVars, task>>
    BY DEF Next, Ended, vars, FactoryStep, Provide, Ship, FactoryExit, LoopStep, VMExit, CleanStep,
           CleanTask, CleanerExit, MainStep, MainEnd, Return, Signal, Interrupted, vmVars,
           InvestigatePanics
  <2> QED BY <2>1, <2>2, <2>3, <2>5, <2>6, <2>7
<1> QED BY <1>1, <1>2

LEMMA EndStep ==
  ASSUME Verdicts, EndInv, [Next]_vars
  PROVE  EndInv'
<1>1. CASE Return
  BY <1>1 DEF Return, EndInv, feedVars, loopVars, FactoriesGone
<1>2. CASE MainEnd \/ Signal
  BY <1>2 DEF MainEnd, Signal, Interrupted, EndInv
<1>3. CASE main' = main /\ (loop = "exit" => loop' = loop) /\ (FactoriesGone => FactoriesGone')
  BY <1>3 DEF EndInv
<1>4. ASSUME NEW f \in Factories, FactoryStep(f)
      PROVE  main' = main /\ loop' = loop /\ ~FactoriesGone
  BY <1>4 DEF FactoryStep, Provide, Ship, FactoryExit, mainVars, loopVars, FactoriesGone
<1>5. ASSUME \/ \E v \in VMs : ReadStep(v) \/ VMExit(v)
             \/ LoopStep \/ CleanStep \/ UNCHANGED vars
      PROVE  main' = main /\ (loop = "exit" => loop' = loop) /\ factory' = factory
  BY <1>5 DEF ReadStep, ReadError, ReadResult, Rendezvous, VMExit, LoopStep, TakeTest, Shortcut,
              StartTest, Dispatch, SettleFlaw, SettleClean, CloseTaskChannels, PickFlaw, LoopReturn,
              InvestigatePanics, CleanStep, CleanTask, CleanerExit, vars, feedVars, loopVars, mainVars
<1> QED BY <1>1, <1>2, <1>3, <1>4, <1>5 DEF Next, Ended, MainStep, FactoriesGone

\* When ExecuteFuzzer returns, every file the provider delivered has its verdict,
\* was skipped after the abort or, if a client failed, is left in the executing
\* map; and meta.numTests is the number of verdicts.
THEOREM NoFileLost == Spec => []AllAccounted
<1> DEFINE Inv == Verdicts /\ LocatedInv /\ CountInv /\ WaitInv /\ EndInv
<1>1. Init => Inv
  <2> SUFFICES ASSUME Init PROVE Inv
    OBVIOUS
  <2>1. Verdicts
    BY InitVerdicts
  <2>2. LocatedInv
    BY DEF Init, LocatedInv, Tests
  <2>3. CountInv
    <3>1. Decided = {} /\ Cardinality({}) = 0
      BY FS_EmptySet DEF Init, Decided
    <3> QED BY <3>1 DEF Init, CountInv
  <2>4. WaitInv /\ EndInv
    BY DEF Init, WaitInv, EndInv
  <2> QED BY <2>1, <2>2, <2>3, <2>4
<1>2. Inv /\ [Next]_vars => Inv'
  BY NextVerdicts, LocatedStep, CountStep, WaitStep, EndStep
<1>3. Inv => AllAccounted
  <2> SUFFICES ASSUME Inv, main = "returned"
               PROVE  /\ \A t \in 1 .. produced : verdict[t] # "none" \/ t \in skipped \/ t \in executing
                      /\ executing # {} => VMErrors
                      /\ numTests = Cardinality({t \in Tests : verdict[t] # "none"})
    BY DEF AllAccounted
  <2> USE DEF Verdicts, IInv
  <2>1. FactoriesGone /\ loop = "exit"
    BY DEF EndInv
  <2>2. /\ cur = NoTest /\ settling = NoTest /\ testCh = <<>> /\ need = 0
        /\ need + Len(ready) = NumVMs
        /\ \A f \in Factories : factory[f].file = NoTest
    BY <2>1 DEF ControlInv, TaskChannelsClosed, FactoriesGone
  <2>3. ASSUME NEW t \in 1 .. produced
        PROVE  verdict[t] # "none" \/ t \in skipped \/ t \in executing
    <3>1. t \in Tests /\ t <= produced
      BY ConstantTypes DEF TypeOK, Tests
    <3>2. Located(t)
      BY <3>1 DEF LocatedInv
    <3>3. t \notin Elems(testCh)
      BY <2>2 DEF Elems
    <3> QED BY <2>2, <3>1, <3>2, <3>3, ConstantTypes DEF Located, Arriving, Started
  <2>4. executing # {} => VMErrors
    <3> SUFFICES ASSUME NEW t \in executing, ~VMErrors PROVE FALSE
      OBVIOUS
    <3>1. Cardinality(Busy) = 0
      BY <2>2, BusyFinite, ConstantTypes DEF ReadyCount, TypeOK
    <3>2. Busy = {} /\ t \in Tests
      BY <3>1, BusyFinite, FS_EmptySet DEF TypeOK
    <3>3. BusyOn(t) = {}
      BY <3>2, ConstantTypes DEF Busy, BusyOn
    <3>4. entry[t].waiting = Cardinality({}) + 0
      BY <2>1, <3>3 DEF WaitInv, ToGo
    <3> QED BY <3>2, <3>4, FS_EmptySet DEF EntryInv
  <2>5. numTests = Cardinality(Decided)
    <3>1. Decided \in SUBSET Tests /\ IsFiniteSet(Tests)
      BY ConstantTypes, FS_Interval DEF Decided, Tests
    <3>2. Cardinality(Decided) \in Nat
      BY <3>1, FS_Subset, FS_CardinalityType
    <3> QED BY <2>2, <3>2 DEF CountInv
  <2> QED BY <2>3, <2>4, <2>5 DEF Decided
<1> QED BY <1>1, <1>2, <1>3, PTL DEF Spec

=============================================================================
