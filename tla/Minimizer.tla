----------------------------- MODULE Minimizer -----------------------------
(***************************************************************************)
(* goevmlab/cmd/minimizer: a state test on which the clients disagree is   *)
(* made smaller as long as they still do.  Every candidate is written to   *)
(* <test>.tmp and run; one that keeps the disagreement is kept and written *)
(* to <test>.min, another is undone.  It may be stopped anywhere.          *)
(*                                                                         *)
(* A test is [auths, gas, pre]: the authorizations of its transaction, its *)
(* gas limit, and the accounts, each with code and storage slots.  What    *)
(* the clients do with a test is external: Outcome(f, i, t) is what the    *)
(* i-th client does when the flaw is f.                                    *)
(***************************************************************************)
EXTENDS SingleTest, OpTable

CONSTANTS
  Vms,              \* sequence of clients
  InputTests,       \* tests to start from
  Flaws,            \* kinds of disagreement
  Outcome(_, _, _),
  Modes,            \* subset of {"roots", "crash", "fulltrace"}
  Patience,         \* --patience
  MaxInt,           \* the largest int, 2^63 - 1; a uint64 is at most 2 MaxInt + 1
  Revisits          \* bound: times an undone deletion is met again by an iteration

\* A test has three fields; its gas is a uint64.
IsTest(t) == t \in [auths : {t.auths}, gas : 0 .. 2 * MaxInt + 1, pre : {t.pre}]

ASSUME MinimizerAssumption ==
  /\ \A t \in InputTests : IsTest(t)
  /\ Vms \in Seq(Clients) /\ Vms # <<>>
  /\ Modes \subseteq {"roots", "crash", "fulltrace"}
  /\ Patience \in Nat \ {0} /\ Revisits \in Nat /\ MaxInt \in Nat

VARIABLES
  mode,   \* how tests are compared
  flaw,   \* the flaw of this run
  phase,  \* the reduction in progress
  test,   \* the test in memory
  input,  \* the test given
  good,   \* what <test>.min holds: at most one test
  saving, \* what is being written to <test>.min, which os.WriteFile has truncated
  at      \* where the reduction is: see NoPlace

disk == <<good, saving>>
vars == <<mode, flaw, phase, test, input, disk, at>>

\* i: index of the auth; lo, hi: the search for the gas; todo: keys the iteration
\* has still to meet, seen: how often it met those that came back; m, target,
\* k, fails: the mutator, its account, its halvings, the failures in a row.
NoPlace == [i |-> 1, lo |-> 0, hi |-> 0, todo |-> {}, seen |-> <<>>, m |-> 0,
            target |-> 0, k |-> 1, fails |-> 0]

Outcomes(t) == [i \in DOMAIN Vms |-> Outcome(flaw, i, t)]

\* compareFn: with one client a disagreement is an error of it; roots that cannot
\* be had count as agreement ("triggering the revertal").
Agree(t) ==
  \A os \in {Outcomes(t)} :
    CASE mode = "roots" -> LET r == RootsEqual(Vms, os) IN r.err \/ r.agree
      [] mode = "crash" -> ~RunErr(Vms[1], os[1])
      [] mode = "fulltrace" -> RunSingleTest(Vms, os).agree

\* inConsensus: a change that keeps the disagreement is kept and recorded; the
\* old .min file is gone when the new one begins to be written.
AlwaysKeeps(t) == TRUE
Keeps(t)       == ~Agree(t)
Accept(t)   == test' = t /\ good' = <<>> /\ saving' = <<t>>
Undo        == UNCHANGED <<test, disk>>

Fixed == UNCHANGED <<mode, flaw, input>>

\* The .min file is complete, and as on <test>.tmp; only then the next candidate.
Save ==
  /\ saving # <<>>
  /\ phase # "stopped"
  /\ good' = saving /\ saving' = <<>>
  /\ UNCHANGED <<phase, test, at>> /\ Fixed

Init ==
  /\ mode \in Modes
  /\ flaw \in Flaws
  /\ input \in InputTests
  /\ test = input
  /\ phase = "check"
  /\ good = <<>> /\ saving = <<>>
  /\ at = NoPlace

Goto(ph, place) == phase' = ph /\ at' = place

Check ==
  /\ phase = "check"
  /\ Goto(IF Agree(test) THEN "rejected" ELSE "auths", NoPlace)
  /\ UNCHANGED <<test, disk>> /\ Fixed

\* Auths are dropped one by one; the index moves on when one must stay.
DropAuth ==
  /\ phase = "auths"
  /\ at.i <= Len(test.auths)
  /\ \E t \in {[test EXCEPT !.auths = RemoveAt(@, at.i)]} :
       \/ Keeps(t) /\ Accept(t) /\ UNCHANGED at
       \/ ~Keeps(t) /\ Undo /\ at' = [at EXCEPT !.i = @ + 1]
  /\ UNCHANGED phase /\ Fixed

\* int(x) of a uint64.
Int64(x) == IF x <= MaxInt THEN x ELSE x - 2 * (MaxInt + 1)

AuthsDone ==
  /\ phase = "auths"
  /\ at.i > Len(test.auths)
  /\ \/ Goto("gas", [NoPlace EXCEPT !.hi = Int64(test.gas)])
     \/ Goto("accounts", [NoPlace EXCEPT !.todo = DOMAIN test.pre])   \* --skipgas
  /\ UNCHANGED <<test, disk>> /\ Fixed

\* sort.Search for the least gas: each probe leaves its value in the test.
ProbeGas ==
  /\ phase = "gas"
  /\ at.lo < at.hi
  /\ LET h == (at.lo + at.hi) \div 2 IN
     \E t \in {[test EXCEPT !.gas = h]} :
       \/ Keeps(t) /\ Accept(t) /\ at' = [at EXCEPT !.hi = h]
       \/ ~Keeps(t) /\ test' = t /\ UNCHANGED disk /\ at' = [at EXCEPT !.lo = h + 1]
  /\ UNCHANGED phase /\ Fixed

LastProbed == test.gas
Found      == at.lo

\* The gas found; 0 when there was nothing to search, as with a negative bound.
GasDone ==
  /\ phase = "gas"
  /\ at.lo >= at.hi
  /\ test' = [test EXCEPT !.gas = Found]
  /\ Goto("accounts", [NoPlace EXCEPT !.todo = DOMAIN test.pre])
  /\ UNCHANGED disk /\ Fixed

\* A range over a map meets each key; one that is deleted and put back may be met
\* again.
Times(x) == Cardinality({j \in DOMAIN at.seen : at.seen[j] = x})
Passed(x, back) ==
  \/ at' = [at EXCEPT !.todo = @ \ {x}]
  \/ back /\ Times(x) < Revisits /\ at' = [at EXCEPT !.seen = Append(@, x)]

Without(f, x) == [y \in DOMAIN f \ {x} |-> f[y]]

DropAccount ==
  /\ phase = "accounts"
  /\ \E a \in at.todo :
       \E t \in {[test EXCEPT !.pre = Without(@, a)]} :
         \/ Keeps(t) /\ Accept(t) /\ Passed(a, FALSE)
         \/ ~Keeps(t) /\ Undo /\ Passed(a, TRUE)
  /\ UNCHANGED phase /\ Fixed

WithCode == {a \in DOMAIN test.pre : test.pre[a].code # <<>>}

AccountsDone ==
  /\ phase = "accounts"
  /\ at.todo = {}
  /\ Goto("mutate", [NoPlace EXCEPT !.m = 1, !.todo = WithCode])
  /\ UNCHANGED <<test, disk>> /\ Fixed

-----------------------------------------------------------------------------
(* The mutators: the codes that proceed() may come up with.                *)

\* naiveCodeMutator cuts off a half, a quarter, ... of the code.
Shortened(code, k) == SubSeq(code, 1, Len(code) - Len(code) \div 2^k)

\* The list of instructions, and what the iterator shows when it has ended: the
\* last one, or the operation of a cut PUSH with the argument of the one before.
AtEnd(code) ==
  LET ins == Instructions(code) IN
  IF CutPush(code) = 0 THEN Last(ins) ELSE [Last(ins) EXCEPT !.op = CutPush(code)]

\* balancedCodeMutator removes instructions until their stack deltas add up to 0;
\* the one that makes them do so is still appended.  The cut is an index of an
\* instruction, compared with program counters.
Balanced(code, cut) ==
  LET ins == Instructions(code)
      from == {j \in DOMAIN ins : ins[j].pc > cut}
      first == Min(from)
      Delta(j) == FoldLeft(LAMBDA d, x : d + Stackdelta(x.op), 0, SubSeq(ins, first, j))
      zero == {j \in from : Delta(j) = 0}
  IN Assembled(SubSeq(ins, 1, first - 1))
     \o (IF zero = {} THEN Bytes(AtEnd(code))
         ELSE Assembled(SubSeq(ins, Min(zero), Len(ins))))

Cuts(code) == {c \in 0 .. InstructionCount(code) - 1 :
                 \E j \in DOMAIN Instructions(code) : Instructions(code)[j].pc > c}

\* codeRandomMutator replaces an operation by PUSH0s or POPs of the same delta, or
\* drops it.
Replaced(code, cut) ==
  LET ins == Instructions(code)
      j == Min({x \in DOMAIN ins : ins[x].pc >= cut})
      d == Stackdelta(ins[j].op)
      new == IF ins[j].op \in {PUSH0, POP} THEN <<>>
             ELSE [x \in 1 .. (IF d < 0 THEN -d ELSE d) |-> IF d < 0 THEN POP ELSE PUSH0]
  IN Assembled(SubSeq(ins, 1, j - 1)) \o new \o Assembled(SubSeq(ins, j + 1, Len(ins)))

Proposals(m, code, k) ==
  CASE m = 1 -> {Shortened(code, k)}
    [] m = 2 -> {Balanced(code, c) : c \in Cuts(code)}
    [] m = 3 -> {Replaced(code, c) : c \in 0 .. InstructionCount(code) - 1}

\* proceed() == true: the first two when they do not shorten the code.
Exhausted(m, next, code) == m # 3 /\ Len(next) = Len(code)

Code == test.pre[at.target].code

\* The next account with code: the mutator is reset.
PickTarget ==
  /\ phase = "mutate"
  /\ at.target = 0
  /\ \E a \in at.todo :
       at' = [NoPlace EXCEPT !.m = at.m, !.todo = at.todo \ {a}, !.target = a]
  /\ UNCHANGED <<phase, test, disk>> /\ Fixed

StaysOn == [at EXCEPT !.fails = 0, !.k = 1]
Leave   == [at EXCEPT !.target = 0, !.fails = 0, !.k = 1]

\* rand.Intn(max) panics when the iterator finds no instruction.
Intn0 == at.m # 1 /\ InstructionCount(Code) = 0

Mutate ==
  /\ phase = "mutate"
  /\ at.target # 0
  /\ ~Intn0
  /\ at.fails < Patience
  /\ \E next \in Proposals(at.m, Code, at.k) :
       IF Exhausted(at.m, next, Code) THEN at' = Leave /\ Undo
       ELSE \E t \in {[test EXCEPT !.pre[at.target].code = next]} :
            \/ Keeps(t) /\ Accept(t) /\ at' = [at EXCEPT !.fails = 0]
            \/ /\ ~Keeps(t) /\ Undo
               /\ at' = [at EXCEPT !.fails = @ + 1, !.k = IF at.m = 1 THEN @ + 1 ELSE @]
  /\ UNCHANGED phase /\ Fixed

Impatient ==
  /\ phase = "mutate"
  /\ at.target # 0
  /\ at.fails = Patience
  /\ at' = Leave
  /\ UNCHANGED <<phase, test, disk>> /\ Fixed

Panic ==
  /\ phase = "mutate"
  /\ at.target # 0
  /\ Intn0 /\ at.fails < Patience
  /\ Goto("panic", NoPlace)
  /\ UNCHANGED <<test, disk>> /\ Fixed

\* "for removed == 0": with a single instruction no cut removes anything, and
\* the loop in proceed() goes on for ever.
Spin ==
  /\ phase = "mutate"
  /\ at.target # 0
  /\ at.m = 2 /\ ~Intn0 /\ Cuts(Code) = {}
  /\ UNCHANGED vars

Slots == UNION {{a} \X test.pre[a].slots : a \in DOMAIN test.pre}

MutatorDone ==
  /\ phase = "mutate"
  /\ at.target = 0 /\ at.todo = {}
  /\ IF at.m < 3 THEN Goto("mutate", [NoPlace EXCEPT !.m = at.m + 1, !.todo = WithCode])
                 ELSE Goto("slots", [NoPlace EXCEPT !.todo = Slots])
  /\ UNCHANGED <<test, disk>> /\ Fixed

DropSlot ==
  /\ phase = "slots"
  /\ \E x \in at.todo :
       \E t \in {[test EXCEPT !.pre[x[1]].slots = @ \ {x[2]}]} :
         \/ Keeps(t) /\ Accept(t) /\ Passed(x, FALSE)
         \/ ~Keeps(t) /\ Undo /\ Passed(x, TRUE)
  /\ UNCHANGED phase /\ Fixed

SlotsDone ==
  /\ phase = "slots"
  /\ at.todo = {}
  /\ Goto("done", NoPlace)
  /\ UNCHANGED <<test, disk>> /\ Fixed

-----------------------------------------------------------------------------
Step ==
  \/ Check
  \/ DropAuth \/ AuthsDone
  \/ ProbeGas \/ GasDone
  \/ DropAccount \/ AccountsDone
  \/ PickTarget \/ Mutate \/ Impatient \/ Panic \/ Spin \/ MutatorDone
  \/ DropSlot \/ SlotsDone

Ended == phase \in {"rejected", "panic", "done", "stopped"}

\* Killed, or a file cannot be written: a .min file in writing stays as it is.
Stops ==
  /\ ~Ended
  /\ Goto("stopped", NoPlace)
  /\ UNCHANGED <<test, disk>> /\ Fixed

Continues == Save \/ (saving = <<>> /\ Step)
Next == Continues \/ Stops

Spec == Init /\ [][Next \/ (Ended /\ UNCHANGED vars)]_vars

\* It is one sequential program.
FairSpec == Spec /\ WF_vars(Continues)

-----------------------------------------------------------------------------
(* Properties.                                                             *)

\* Between two candidates; a probe of the gas is undone at the end of the search.
BetweenCandidates == phase \notin {"check", "rejected", "gas", "stopped"}

\* What the minimizer leaves behind still shows the flaw, wherever it is stopped:
\* the .min file, if it is not torn, and if it is, <test>.tmp, of which it was to
\* be a copy; also the test in memory, if its gas was an int.
KeptFails ==
  /\ good # <<>> => ~Agree(good[1])
  /\ saving # <<>> => ~Agree(saving[1])
  /\ BetweenCandidates /\ input.gas <= MaxInt => ~Agree(test)

\* The .min file is the test in memory, and without a .min file nothing has been
\* removed: no accepted change is lost and no refused one survives the undo, the
\* search or the iteration over a map that changes under it.  One exception: a
\* gas limit that is no int becomes 0, though no candidate had that gas.
Kept == IF good = <<>> THEN input ELSE good[1]
MinFileCurrent ==
  BetweenCandidates /\ saving = <<>> =>
    \/ test = Kept
    \/ input.gas > MaxInt /\ test = [Kept EXCEPT !.gas = 0]

\* RunSingleTest tells exactly the executions that differ, on all clients and
\* whatever lines they print around them (copyUntilEnd of all clients,
\* CustomMarshal, CompareFiles).
VerdictExact ==
  mode = "fulltrace" =>
    \A os \in {Outcomes(test)} :
      LET Seen(i) == IF os[i].starts THEN Canonical(os[i].exec, os[i].root) ELSE <<>>
      IN RunSingleTest(Vms, os).agree = (\A i \in DOMAIN Vms : Seen(i) = Seen(1))

\* The minimizer comes to an end, except in the one state in which its loop over
\* cut points never removes anything.
SingleInstruction == at.m = 2 /\ at.target # 0 /\ Cuts(Code) = {}
MinimizerEnds == <>(Ended \/ SingleInstruction)

=============================================================================
