--------------------------- MODULE Minimizer_proofs ---------------------------
(* Proofs about Minimizer: what it leaves behind, whatever the clients make   *)
(* of the candidates and however the comparison is done.                      *)
EXTENDS Minimizer, TraceFilter_proofs

\* The verdict as a function of what it depends on.
AgreeIn(m, f, t) ==
  \A os \in {[i \in DOMAIN Vms |-> Outcome(f, i, t)]} :
    CASE m = "roots" -> LET r == RootsEqual(Vms, os) IN r.err \/ r.agree
      [] m = "crash" -> ~RunErr(Vms[1], os[1])
      [] m = "fulltrace" -> RunSingleTest(Vms, os).agree

LEMMA AgreeDepends ==
  /\ \A t : Agree(t) <=> AgreeIn(mode, flaw, t)
  /\ \A t : Agree(t)' <=> AgreeIn(mode', flaw', t)
BY DEF Agree, AgreeIn, Outcomes

\* The last test known to keep the disagreement: what the .min file holds, or is
\* going to hold.
Current == IF saving = <<>> THEN Kept ELSE saving[1]
Fails(t) == ~AgreeIn(mode, flaw, t)

\* While the gas is searched for, the test in memory is the last probe, and the
\* upper end of the search is the gas of the last test kept; a gas that is no int
\* makes a search that is over before its first probe.
GasInv ==
  phase = "gas" =>
    /\ at = [NoPlace EXCEPT !.lo = at.lo, !.hi = at.hi]
    /\ at.lo \in Nat /\ at.hi \in Int /\ at.hi <= MaxInt
    /\ \/ at.lo <= at.hi /\ [test EXCEPT !.gas = at.hi] = Current
       \/ input.gas > MaxInt /\ at.lo = 0 /\ at.hi < 0 /\ test = Current

\* The gas is the one given until the search; after it, it was found, or it is 0.
MemoryInv ==
  /\ phase \in {"check", "auths"} => test = Current /\ test.gas = input.gas
  /\ BetweenCandidates =>
       \/ test = Current
       \/ input.gas > MaxInt /\ test = [Current EXCEPT !.gas = 0]

MinInv ==
  /\ IsTest(test) /\ IsTest(input)
  /\ good # <<>> => Fails(good[1])
  /\ saving # <<>> => Fails(saving[1])
  /\ phase = "check" => good = <<>> /\ saving = <<>>
  /\ phase \notin {"check", "rejected", "stopped"} => Fails(Current)
  /\ MemoryInv /\ GasInv

\* A candidate that is kept and one that is undone, outside of the gas search.
LEMMA AcceptKeeps ==
  ASSUME MinInv, NEW t, IsTest(t), Keeps(t), Accept(t), Fixed, phase' \notin {"check", "gas"},
         phase' = "auths" => t.gas = input.gas
  PROVE  MinInv'
<1>1. test' = t /\ good' = <<>> /\ saving' = <<t>> /\ UNCHANGED <<mode, flaw, input>>
  BY DEF Accept, Fixed
<1>2. ~AgreeIn(mode', flaw', t)
  BY <1>1, AgreeDepends DEF Keeps
<1>3. saving' # <<>> /\ saving'[1] = t
  BY <1>1
<1> QED
  BY <1>1, <1>2, <1>3 DEF MinInv, MemoryInv, GasInv, Current, Fails

\* A step that leaves the test and the .min file alone, and changes at most the
\* phase.
LEMMA MoveKeeps ==
  ASSUME MinInv, UNCHANGED <<test, disk>>, Fixed, phase' \notin {"check", "gas"},
         phase \in {"check", "rejected", "gas", "stopped"} => phase' \in {"rejected", "stopped"},
         phase' = "auths" => phase = "auths"
  PROVE  MinInv'
BY DEF MinInv, MemoryInv, GasInv, Current, Kept, Fails, Fixed, disk, BetweenCandidates

LEMMA UndoKeeps ==
  ASSUME MinInv, Undo, Fixed, phase' = phase, phase \notin {"check", "rejected", "gas", "stopped"}
  PROVE  MinInv'
BY MoveKeeps DEF Undo

\* A candidate is a test.
LEMMA Candidates ==
  ASSUME IsTest(test)
  PROVE  /\ \A h \in 0 .. MaxInt : IsTest([test EXCEPT !.gas = h])
         /\ \A x : IsTest([test EXCEPT !.auths = x])
         /\ \A x : IsTest([test EXCEPT !.pre = x])
<1>1. \A h \in 0 .. MaxInt : h \in 0 .. 2 * MaxInt + 1
  BY MinimizerAssumption
<1> QED
  BY <1>1 DEF IsTest

LEMMA CheckKeeps == ASSUME MinInv, Check PROVE MinInv'
<1>1. phase = "check" /\ good = <<>> /\ saving = <<>> /\ UNCHANGED <<test, disk>> /\ Fixed
  BY DEF Check, MinInv
<1>2. CASE Agree(test)
  BY <1>1, <1>2, MoveKeeps DEF Check, Goto
<1>3. CASE ~Agree(test)
  <2>1. phase' = "auths"
    BY <1>3 DEF Check, Goto
  <2>2. ~AgreeIn(mode', flaw', test')
    BY <1>1, <1>3, AgreeDepends DEF Fixed
  <2>3. test' = Current' /\ test'.gas = input'.gas
    BY <1>1 DEF MinInv, MemoryInv, Current, Kept, Fixed, disk
  <2> QED
    BY <1>1, <2>1, <2>2, <2>3 DEF MinInv, MemoryInv, GasInv, Fails, Fixed, disk
<1> QED
  BY <1>2, <1>3

\* What int(x) makes of a gas limit: the gas itself, or a number below 0.
LEMMA Int64Range ==
  ASSUME NEW x \in 0 .. 2 * MaxInt + 1
  PROVE  /\ Int64(x) \in Int /\ Int64(x) <= MaxInt
         /\ \/ Int64(x) = x
            \/ x > MaxInt /\ Int64(x) < 0
<1>1. MaxInt \in Nat
  BY MinimizerAssumption
<1> QED
  BY <1>1 DEF Int64

LEMMA AuthsKeep == ASSUME MinInv, DropAuth \/ AuthsDone PROVE MinInv'
<1>1. CASE DropAuth
  <2>1. PICK t \in {[test EXCEPT !.auths = RemoveAt(@, at.i)]} :
          (Keeps(t) /\ Accept(t)) \/ (~Keeps(t) /\ Undo)
    BY <1>1 DEF DropAuth
  <2>2. IsTest(t)
    BY Candidates DEF MinInv
  <2>3. phase = "auths" /\ phase' = "auths" /\ Fixed
    BY <1>1 DEF DropAuth
  <2>4. t.gas = input.gas
    BY <2>3 DEF MinInv, MemoryInv, IsTest
  <2> QED
    BY <2>1, <2>2, <2>3, <2>4, AcceptKeeps, UndoKeeps
<1>2. CASE AuthsDone /\ phase' = "gas"
  <2> DEFINE hi == Int64(test.gas)
  <2>1. /\ at' = [NoPlace EXCEPT !.hi = hi] /\ phase = "auths"
        /\ UNCHANGED <<test, disk>> /\ Fixed
    BY <1>2 DEF AuthsDone, Goto
  <2>2. test.gas \in 0 .. 2 * MaxInt + 1 /\ [test EXCEPT !.gas = test.gas] = test
    BY DEF MinInv, IsTest
  <2>3. /\ hi \in Int /\ hi <= MaxInt
        /\ hi = test.gas \/ (test.gas > MaxInt /\ hi < 0)
    BY <2>2, Int64Range
  <2>4. test = Current /\ test.gas = input.gas
    BY <2>1 DEF MinInv, MemoryInv
  <2> HIDE DEF hi
  <2>5. at'.lo = 0 /\ at'.hi = hi /\ at' = [NoPlace EXCEPT !.lo = at'.lo, !.hi = at'.hi]
    BY <2>1 DEF NoPlace
  <2>6. Current' = Current /\ test' = test /\ input' = input
    BY <2>1 DEF Current, Kept, disk, Fixed
  <2>7. \/ at'.lo <= at'.hi /\ [test' EXCEPT !.gas = at'.hi] = Current'
        \/ input'.gas > MaxInt /\ at'.lo = 0 /\ at'.hi < 0 /\ test' = Current'
    <3>1. CASE hi = test.gas
      <4>1. 0 <= hi
        BY <2>2, <3>1
      <4> QED
        BY <2>2, <2>4, <2>5, <2>6, <3>1, <4>1
    <3>2. CASE test.gas > MaxInt /\ hi < 0
      BY <2>4, <2>5, <2>6, <3>2
    <3> QED
      BY <2>3, <3>1, <3>2
  <2>8. GasInv'
    BY <2>3, <2>5, <2>7 DEF GasInv
  <2> QED
    BY <1>2, <2>1, <2>6, <2>8 DEF MinInv, MemoryInv, Fails, Fixed, disk, BetweenCandidates
<1>3. CASE AuthsDone /\ phase' # "gas"
  BY <1>3, MoveKeeps DEF AuthsDone, Goto
<1> QED
  BY <1>1, <1>2, <1>3

\* A probe that fails becomes the upper end and is kept; another one leaves the
\* upper end and what is kept.
LEMMA ProbeKeeps == ASSUME MinInv, ProbeGas PROVE MinInv'
<1> DEFINE h == (at.lo + at.hi) \div 2
           t == [test EXCEPT !.gas = h]
<1>1. /\ phase = "gas" /\ phase' = "gas" /\ Fixed /\ test' = t
      /\ \/ Keeps(t) /\ Accept(t) /\ at' = [at EXCEPT !.hi = h]
         \/ ~Keeps(t) /\ UNCHANGED disk /\ at' = [at EXCEPT !.lo = h + 1]
  BY DEF ProbeGas, Accept
<1>2. /\ at = [NoPlace EXCEPT !.lo = at.lo, !.hi = at.hi]
      /\ at.lo \in Nat /\ at.hi \in Nat /\ at.lo < at.hi /\ at.hi <= MaxInt
      /\ [test EXCEPT !.gas = at.hi] = Current
  BY <1>1 DEF MinInv, GasInv, ProbeGas
<1>3. h \in Nat /\ at.lo <= h /\ h < at.hi /\ h \in 0 .. MaxInt
  BY <1>2, MinimizerAssumption
<1> HIDE DEF h
<1>4. IsTest(test')
  BY <1>1, <1>3, Candidates DEF MinInv
<1>5. [test' EXCEPT !.gas = at.hi] = Current
  BY <1>1, <1>2 DEF MinInv, IsTest
<1>6. CASE Keeps(t)
  <2>1. /\ good' = <<>> /\ saving' = <<t>> /\ saving' # <<>> /\ saving'[1] = t
        /\ at' = [at EXCEPT !.hi = h]
    BY <1>1, <1>6 DEF Accept
  <2>2. at'.lo = at.lo /\ at'.hi = h /\ at' = [NoPlace EXCEPT !.lo = at'.lo, !.hi = at'.hi]
    BY <1>2, <2>1 DEF NoPlace
  <2>3. [test' EXCEPT !.gas = h] = t
    BY <1>1 DEF MinInv, IsTest
  <2>4. ~AgreeIn(mode', flaw', t)
    BY <1>1, <1>6, AgreeDepends DEF Keeps, Fixed
  <2> HIDE DEF t
  <2>5. Current' = t
    BY <2>1 DEF Current
  <2>6. GasInv'
    BY <1>1, <1>2, <1>3, <2>2, <2>3, <2>5 DEF GasInv
  <2> QED
    BY <1>1, <1>4, <2>1, <2>4, <2>5, <2>6 DEF MinInv, MemoryInv, Fails, Fixed, BetweenCandidates
<1>7. CASE ~Keeps(t)
  <2>1. UNCHANGED disk /\ at' = [at EXCEPT !.lo = h + 1]
    BY <1>1, <1>7
  <2>2. at'.lo = h + 1 /\ at'.hi = at.hi /\ at' = [NoPlace EXCEPT !.lo = at'.lo, !.hi = at'.hi]
    BY <1>2, <2>1 DEF NoPlace
  <2>3. Current' = Current
    BY <1>1, <2>1 DEF Current, Kept, Fixed, disk
  <2> HIDE DEF t
  <2>4. GasInv'
    BY <1>1, <1>2, <1>3, <1>5, <2>2, <2>3 DEF GasInv
  <2> QED
    BY <1>1, <1>4, <2>1, <2>3, <2>4 DEF MinInv, MemoryInv, Fails, Fixed, disk, BetweenCandidates
<1> QED
  BY <1>6, <1>7

LEMMA GasDoneKeeps == ASSUME MinInv, GasDone PROVE MinInv'
<1>1. /\ phase = "gas" /\ phase' = "accounts" /\ UNCHANGED disk /\ Fixed
      /\ test' = [test EXCEPT !.gas = at.lo]
  BY DEF GasDone, Found, Goto
<1>2. Current' = Current /\ input' = input
  BY <1>1 DEF Current, Kept, Fixed, disk
<1>3. at.lo \in 0 .. MaxInt
  BY <1>1, MinimizerAssumption DEF MinInv, GasInv, GasDone
<1>4. IsTest(test')
  BY <1>1, <1>3, Candidates DEF MinInv
<1>5. test' = Current' \/ (input'.gas > MaxInt /\ test' = [Current' EXCEPT !.gas = 0])
  <2>1. CASE at.lo <= at.hi /\ [test EXCEPT !.gas = at.hi] = Current
    <3>1. at.lo = at.hi
      BY <1>1, <2>1 DEF MinInv, GasInv, GasDone
    <3> QED
      BY <1>1, <1>2, <2>1, <3>1
  <2>2. CASE input.gas > MaxInt /\ at.lo = 0 /\ test = Current
    BY <1>1, <1>2, <2>2
  <2> QED
    BY <1>1, <2>1, <2>2 DEF MinInv, GasInv
<1> QED
  BY <1>1, <1>2, <1>4, <1>5 DEF MinInv, MemoryInv, GasInv, Fails, Fixed, disk

LEMMA DropsKeep == ASSUME MinInv, DropAccount \/ DropSlot PROVE MinInv'
<1>1. \E t : IsTest(t) /\ ((Keeps(t) /\ Accept(t)) \/ (~Keeps(t) /\ Undo))
  <2>1. CASE DropAccount
    BY <2>1, Candidates DEF DropAccount, MinInv
  <2>2. CASE DropSlot
    BY <2>2, Candidates DEF DropSlot, MinInv
  <2> QED
    BY <2>1, <2>2
<1>2. phase' = phase /\ phase \in {"accounts", "slots"} /\ Fixed
  BY DEF DropAccount, DropSlot
<1> QED
  BY <1>1, <1>2, AcceptKeeps, UndoKeeps

LEMMA MutateKeeps == ASSUME MinInv, Mutate PROVE MinInv'
<1>1. Undo \/ \E t : IsTest(t) /\ ((Keeps(t) /\ Accept(t)) \/ (~Keeps(t) /\ Undo))
  BY Candidates DEF Mutate, MinInv
<1>2. phase' = phase /\ phase = "mutate" /\ Fixed
  BY DEF Mutate
<1> QED
  BY <1>1, <1>2, AcceptKeeps, UndoKeeps

\* The new .min file is complete: what was going to be in it is.
LEMMA SaveKeeps == ASSUME MinInv, Save PROVE MinInv'
<1>1. /\ saving # <<>> /\ good' = saving /\ saving' = <<>>
      /\ UNCHANGED <<phase, test, at>> /\ Fixed
  BY DEF Save
<1>2. Current' = Current /\ phase # "check"
  BY <1>1 DEF Current, Kept, MinInv
<1> QED
  BY <1>1, <1>2 DEF MinInv, MemoryInv, GasInv, Fails, Fixed, BetweenCandidates

LEMMA MinInvNext == ASSUME MinInv, [Next \/ (Ended /\ UNCHANGED vars)]_vars PROVE MinInv'
<1>1. CASE AccountsDone \/ PickTarget \/ Impatient \/ Panic \/ MutatorDone \/ SlotsDone
  <2>1. /\ UNCHANGED <<test, disk>> /\ Fixed /\ phase' \notin {"check", "auths", "gas"}
        /\ phase \notin {"check", "rejected", "gas", "stopped"}
    BY <1>1 DEF AccountsDone, PickTarget, Impatient, Panic, MutatorDone, SlotsDone, Goto
  <2> QED
    BY <2>1, MoveKeeps
<1>2. CASE UNCHANGED vars
  BY <1>2 DEF vars, disk, MinInv, MemoryInv, GasInv, Current, Kept, Fails, BetweenCandidates
<1>3. Spin => UNCHANGED vars
  BY DEF Spin
<1>4. Stops => MinInv'
  BY MoveKeeps DEF Stops, Goto
<1> QED
  BY <1>1, <1>2, <1>3, <1>4, CheckKeeps, AuthsKeep, ProbeKeeps, GasDoneKeeps, DropsKeep, MutateKeeps,
     SaveKeeps DEF Next, Continues, Step

LEMMA MinInvInit == Init => MinInv
BY MinimizerAssumption DEF Init, MinInv, MemoryInv, GasInv, Current, Kept, BetweenCandidates

THEOREM MinimizerInductive == Spec => []MinInv
BY MinInvInit, MinInvNext, PTL DEF Spec

\* KeptFails: wherever the minimizer is stopped, also while it writes, its .min
\* file or the candidate it was to become still shows the disagreement, and so
\* does the test in memory between two candidates: also when the disagreement
\* does not grow with the gas, which the search assumes.
THEOREM MinimizedStillFails == Spec => []KeptFails
<1>1. MinInv => KeptFails
  <2> SUFFICES ASSUME MinInv PROVE KeptFails
    OBVIOUS
  <2>1. ASSUME BetweenCandidates, input.gas <= MaxInt PROVE test = Current /\ Fails(Current)
    <3>1. ~(input.gas > MaxInt)
      <4>1. input.gas \in Int
        BY MinimizerAssumption DEF MinInv, IsTest
      <4> QED
        BY <2>1, <4>1, MinimizerAssumption
    <3> QED
      BY <2>1, <3>1 DEF MinInv, MemoryInv, BetweenCandidates
  <2> QED
    BY <2>1, AgreeDepends DEF MinInv, KeptFails, Fails
<1> QED
  BY <1>1, MinimizerInductive, PTL

\* MinFileCurrent: nothing accepted is lost and nothing refused survives, but the
\* gas 0 that a gas limit of 2^63 or more is replaced by.
THEOREM MinFileIsCurrent == Spec => []MinFileCurrent
<1>1. MinInv => MinFileCurrent
  BY DEF MinInv, MemoryInv, MinFileCurrent, Current
<1> QED
  BY <1>1, MinimizerInductive, PTL

-----------------------------------------------------------------------------
(* The verdict of RunSingleTest.                                            *)

\* What the clients are taken to do: what they execute are executions.
ClientsExecute == \A i \in DOMAIN Vms : IsExecution(Outcomes(test)[i].exec)

\* What a client's file is, if it is an execution that it prints.
Seen(o) == IF o.starts THEN Canonical(o.exec, o.root) ELSE <<>>

LEMMA OutputSeen ==
  ASSUME NEW c \in Clients, NEW o, IsExecution(o.exec)
  PROVE  RunOutput(c, o) = Seen(o)
<1> DEFINE exec == o.exec
           r == o.root
           chatty == o.chatty
<1>1. IsExecution(exec)
  OBVIOUS
<1> HIDE DEF exec, r, chatty
<1>2. Filtered(c, TraceTexts(c, exec, r, chatty)) = Canonical(exec, r)
  BY <1>1, FilterCanonical
<1> QED
  BY <1>2 DEF RunOutput, Seen, exec, r, chatty

\* No line that is written is an "EOF".
LEMMA SeenLines ==
  ASSUME NEW o, IsExecution(o.exec), NEW R, o.root \in R
  PROVE  Seen(o) \in Seq(OutLines \cup {Root(r) : r \in R})
<1> DEFINE T == OutLines \cup {Root(r) : r \in R}
           m == Marshalled(o.exec)
<1>1. m \in Seq(OutLines)
  <2>1. o.exec \in Seq(Operation)
    BY DEF IsExecution
  <2> QED
    BY <2>1, ExecutionTypes
<1>2. Canonical(o.exec, o.root) = m \o <<Root(o.root)>>
  BY CanonicalIs
<1>3. Root(o.root) \in T
  OBVIOUS
<1> HIDE DEF m
<1>4. m \in Seq(T)
  BY <1>1
<1>5. <<Root(o.root)>> \in Seq(T)
  <2> HIDE DEF T
  <2> QED
    BY <1>3
<1> HIDE DEF T
<1>6. m \o <<Root(o.root)>> \in Seq(T) /\ <<>> \in Seq(T)
  BY <1>4, <1>5
<1>7. Seen(o) \in Seq(T)
  BY <1>2, <1>6 DEF Seen
<1> QED
  BY <1>7 DEF T

LEMMA NoEof == ASSUME NEW R PROVE EOF \notin OutLines \cup {Root(r) : r \in R}
<1>1. \A o : DOMAIN CustomMarshal(o) # DOMAIN EOF
  BY DEF CustomMarshal, EOF
<1>2. \A r : DOMAIN Root(r) # DOMAIN EOF
  BY DEF Root, EOF
<1> QED
  BY <1>1, <1>2 DEF OutLines

\* As long as what the clients execute are executions, RunSingleTest agrees exactly
\* when all clients have executed the same and found the same root, whichever the
\* clients are and whatever else they print.
THEOREM VerdictIsExact == Spec /\ []ClientsExecute => []VerdictExact
<1>1. ASSUME ClientsExecute PROVE VerdictExact
  <2> DEFINE os == Outcomes(test)
             files == [i \in DOMAIN Vms |-> RunOutput(Vms[i], os[i])]
             R == {os[i].root : i \in DOMAIN Vms}
             T == OutLines \cup {Root(r) : r \in R}
  <2>1. Vms \in Seq(Clients) /\ Vms # <<>> /\ DOMAIN Vms = 1 .. Len(Vms) /\ 1 \in DOMAIN Vms
    BY MinimizerAssumption
  <2>2. ASSUME NEW i \in DOMAIN Vms PROVE files[i] = Seen(os[i]) /\ Seen(os[i]) \in Seq(T)
    <3> DEFINE o == os[i]
    <3>1. IsExecution(o.exec) /\ Vms[i] \in Clients /\ o.root \in R
      BY <1>1, <2>1 DEF ClientsExecute
    <3>2. files[i] = RunOutput(Vms[i], o)
      OBVIOUS
    <3> HIDE DEF o, R, files
    <3>3. files[i] = Seen(o)
      BY <3>1, <3>2, OutputSeen
    <3>4. Seen(o) \in Seq(T)
      BY <3>1, SeenLines
    <3> QED
      BY <3>3, <3>4 DEF o
  <2> HIDE DEF T
  <2>3. files \in Seq(Seq(T)) /\ files # <<>> /\ DOMAIN files = DOMAIN Vms
    <3>1. DOMAIN files = 1 .. Len(Vms) /\ Len(Vms) \in Nat
      BY <2>1
    <3>2. \A i \in 1 .. Len(Vms) : files[i] \in Seq(T)
      BY <2>1, <2>2
    <3>3. files = [i \in 1 .. Len(Vms) |-> files[i]]
      BY <2>1
    <3> HIDE DEF files
    <3>4. files \in Seq(Seq(T)) /\ Len(files) = Len(Vms)
      BY <3>1, <3>2, <3>3
    <3> QED
      BY <2>1, <3>1, <3>4
  <2>4. EOF \notin T
    BY NoEof DEF T
  <2>5. CompareFiles(files) <=> \A i \in DOMAIN Vms : Seen(os[i]) = Seen(os[1])
    <3> HIDE DEF files, os
    <3> QED
      BY <2>1, <2>2, <2>3, <2>4, CompareExact
  <2>6. RunSingleTest(Vms, os).agree = CompareFiles(files)
    <3>1. RunSingleTest(Vms, os).agree = (\A y \in {files} : CompareFiles(y))
      BY DEF RunSingleTest
    <3> QED
      BY <3>1 DEF CompareFiles
  <2> HIDE DEF files
  <2>7. RunSingleTest(Vms, os).agree = (\A i \in DOMAIN Vms : Seen(os[i]) = Seen(os[1]))
    BY <2>5, <2>6 DEF CompareFiles
  <2> QED
    BY <2>7 DEF VerdictExact, Seen
<1> QED
  BY <1>1, PTL

=============================================================================
