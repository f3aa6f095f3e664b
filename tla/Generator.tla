------------------------------ MODULE Generator ------------------------------
(***************************************************************************)
(* FuzzyVM's program generator: bytes of a seed (the filler) choose        *)
(* strategies, weighted by the plan; the strategies append code, read more *)
(* bytes, or note jumps and destinations that are connected at the end.    *)
(* createCallGenerator runs the generator again, with a piece of the seed, *)
(* for the program that it creates and calls.                              *)
(*                                                                         *)
(* Code is abstracted to its length, a filler to how far it is read.  What *)
(* a strategy reads is a sequence of items, an item a set of alternatives, *)
(* an alternative a sequence of reads: 0 is Byte(), n > 0 is ByteSlice(n). *)
(***************************************************************************)
EXTENDS Integers, Sequences, FiniteSets, SequencesExt, FiniteSetsExt

CONSTANTS
  Plans,      \* plans: [weights: function from names of strategies to integers]
  SeedLens,   \* lengths of seeds
  SliceLens,  \* lengths of ByteSlice256()
  Lengths,    \* lengths of the code a strategy appends
  RandomPcs,  \* values of Uint16() taken as program counters
  KeyReads,   \* ecdsa.GenerateKey (external): alternatives of reads
  MaxRounds,  \* bound: strategies per program (a byte in the code), and no more
              \* in a nested program than its caller has left
  MaxPairs,   \* bound: rounds and bloats of a pairing (a byte in the code)
  maxRecursionLevel, minJumpDistance,
  Limit,      \* length of code after which a program ends
  MaxTests    \* bound: tests generated by the process

ASSUME GeneratorAssumption ==
  /\ MaxRounds \in Nat /\ MaxPairs \in Nat /\ MaxTests \in Nat /\ Limit \in Nat
  /\ maxRecursionLevel \in Nat /\ minJumpDistance \in Nat
  /\ SeedLens \subseteq Nat /\ SliceLens \subseteq Nat /\ RandomPcs \subseteq Nat
  /\ Lengths \subseteq Nat \ {0}
  /\ KeyReads \subseteq Seq(Nat)

\* Plan.Weights is a map to int.
ASSUME PlansAssumption ==
  \A p \in Plans : \A name \in DOMAIN p.weights : p.weights[name] \in Int

-----------------------------------------------------------------------------
(* The filler: its length, position, usedUp; read is history.              *)

NewFiller(n) == [len |-> IF n = 0 THEN 1 ELSE n, at |-> 0, used |-> FALSE, read |-> 0]

ReadsPast(f, i) == f.at + i > f.len
Reaches(f, i)   == f.at + i >= f.len
incPointer(f, i) ==
  [f EXCEPT !.used = @ \/ Reaches(f, i), !.at = (@ + i) % f.len, !.read = Min({@ + i, f.len})]

ReadByte(f) == incPointer(f, 1)

\* Without enough data the slice starts over, and so does the pointer.
ByteSlice(f, n) ==
  IF f.at + n < f.len THEN incPointer(f, n)
  ELSE incPointer([f EXCEPT !.at = 0, !.used = TRUE, !.read = f.len], n)

Consume(f, reads) ==
  FoldLeft(LAMBDA g, n : IF n = 0 THEN ReadByte(g) ELSE ByteSlice(g, n), f, reads)
Outcomes(f, items) ==
  FoldLeft(LAMBDA fs, item : UNION {{Consume(g, reads) : reads \in item} : g \in fs}, {f}, items)

B == {<<0>>}
S(n) == {<<n>>}
MemInt == {<<0, 0>>, <<0, 4>>, <<0, 8>>, <<0, 32>>}
GasInt == {<<0, 4>>, <<0, 8>>, <<0, 32>>}
\* ByteSlice(0) reads nothing.
ByteSlice256 == {IF n = 0 THEN <<0>> ELSE <<0, n>> : n \in SliceLens}

-----------------------------------------------------------------------------
(* Strategies: name, importance, reads.                                    *)

Repeat(s, n) == FlattenSeq([i \in 1 .. n |-> s])

CallRandomizer == <<B \cup {<<0>> \o r : r \in MemInt}, B>>
Call(gasFirst) == gasFirst \o <<GasInt, S(4)>> \o CallRandomizer

\* The precompile callers.
ecdsaCaller     == Call(<<KeyReads, S(32)>>)
dataCaller      == Call(<<ByteSlice256>>)      \* sha256, ripemd, identity
bigModExpCaller == Call(<<ByteSlice256, ByteSlice256, ByteSlice256>>)
bn256Caller     == Call(<<S(4), S(4)>>)        \* add, multiplication
\* The bound of the loop that bloats a pairing is read before each round.
Bloat == {<<0, 0>>, <<0, 0, 0, 4>>}
bn256PairingCaller ==
  Call(<<{<<0>> \o Repeat(<<4, 4>>, n) : n \in 0 .. MaxPairs},
         {<<0>>} \cup {<<0>> \o Repeat(r, n) \o <<0>> : r \in Bloat, n \in 0 .. MaxPairs}>>)
blake2fCaller   == Call(<<S(4), {Repeat(<<8>>, 26)}, {<<0, 0>>}>>)

CallPrecompile ==
  {<<B>> \o c : c \in {ecdsaCaller, dataCaller, bigModExpCaller, bn256Caller,
                       bn256PairingCaller, blake2fCaller}}

Strategy(name, imp) == [name |-> name, imp |-> imp]

basicStrategies ==
  << Strategy("opcode", 10), Strategy("memStorage", 1), Strategy("mstore", 3),
     Strategy("sstore", 3), Strategy("tstore", 3), Strategy("returnData", 1),
     Strategy("return", 1), Strategy("push", 4), Strategy("hashAndStore", 2),
     Strategy("mload", 1), Strategy("sload", 1), Strategy("tload", 1), Strategy("blobhash", 1) >>
callStrategies ==
  << Strategy("createCallRNG", 4), Strategy("createCall", 5), Strategy("randomCall", 4),
     Strategy("callPrecompile", 8) >>
jumpStrategies == << Strategy("jumpdest", 5), Strategy("jump", 7) >>
allStrategies  == basicStrategies \o callStrategies \o jumpStrategies

\* What Execute reads, in the strategies that only read and append code.
basicReads(name) ==
  CASE name \in {"opcode", "validOpcode", "push"} -> <<B>>
    [] name = "memStorage" -> <<MemInt, B, MemInt>>
    [] name = "mstore" -> <<ByteSlice256, MemInt>>
    [] name \in {"sstore", "tstore"} -> <<B, MemInt>>
    [] name = "returnData" -> <<ByteSlice256>>
    [] name = "return" -> <<MemInt, MemInt>>
    [] name = "hashAndStore" -> <<>>
    [] name \in {"mload", "sload", "tload", "blobhash"} -> <<MemInt>>
createCallRNGReads == <<ByteSlice256, B, B>>
randomCallReads ==
  <<{<<0, 2>>, <<0, 20>>}, GasInt, S(2), MemInt, MemInt, MemInt, MemInt>> \o CallRandomizer

Reads(name) ==
  CASE name = "createCallRNG" -> {createCallRNGReads}
    [] name = "randomCall" -> {randomCallReads}
    [] name = "callPrecompile" -> CallPrecompile
    [] OTHER -> {basicReads(name)}

Names == {allStrategies[i].name : i \in DOMAIN allStrategies}
Appending == (Names \cup {"validOpcode"}) \ {"createCall", "jumpdest", "jump"}

\* The fillers after a round, by strategy and filler.
Fillers ==
  UNION {[len : {NewFiller(n).len}, at : 0 .. n, used : BOOLEAN, read : 0 .. n + 1] : n \in SeedLens}
After ==
  [name \in Appending |-> [f \in Fillers |->
    UNION {Outcomes(ReadByte(f), items) : items \in Reads(name)}]]

-----------------------------------------------------------------------------
(* The 256 buckets that a byte chooses from.                               *)

Buckets == 0 .. 255
Sum(s) == FoldLeft(LAMBDA a, x : a + x, 0, s)
TotalOf(strats) == Sum([i \in DOMAIN strats |-> Max({strats[i].imp, 1})])

\* math.Round(imp / 100 * 255), at least 1.
Probability(imp) == Max({1, (imp * 51 + 10) \div 20})

Slots(strats, n) == FlattenSeq([i \in DOMAIN strats |-> [b \in 1 .. n[i] |-> strats[i].name]])

\* Byte arithmetic: a bucket belongs to the last strategy that claims it, what
\* lies beyond the sum to validOpcodeGenerator.
makeMap(strats) ==
  CHOOSE m \in
    {[b \in Buckets |->
        IF Len(slots) % 256 # 0 /\ b >= Len(slots) % 256 THEN "validOpcode"
        ELSE slots[b + 1 + 256 * ((Len(slots) - 1 - b) \div 256)]] :
       slots \in {Slots(strats, [i \in DOMAIN strats |-> Probability(strats[i].imp)])}} : TRUE

\* Shares of 256, rounded down; the last strategy takes what is left.
makeMapNormalized(strats) ==
  CHOOSE m \in
    {[b \in Buckets |-> IF b < Len(slots) THEN slots[b + 1] ELSE Last(strats).name] :
       slots \in {Slots(Front(strats), [i \in DOMAIN strats |->
                     (Max({strats[i].imp, 1}) * 256) \div TotalOf(strats)])}} : TRUE

Clamped(w) == IF w < 1 THEN 1 ELSE IF w > 100 THEN 100 ELSE w
Known(p) == DOMAIN p.weights \subseteq Names

weighted(p) ==
  [i \in DOMAIN allStrategies |->
     LET s == allStrategies[i] IN
     IF s.name \in DOMAIN p.weights THEN [s EXCEPT !.imp = Clamped(p.weights[s.name])] ELSE s]

\* A plan without weights leaves the stock map.
ApplyPlan(p) ==
  IF DOMAIN p.weights = {} THEN makeMap(allStrategies) ELSE makeMapNormalized(weighted(p))

-----------------------------------------------------------------------------
(* The jump table.  A placeholder is [pc, cond], the number of condition    *)
(* bytes pushed before it (none for JUMP); a destination is [pc, jumpdest]. *)

JumpSize(cond) == 10 + (IF cond = 0 THEN 0 ELSE cond + 1)

\* The placeholder is looked for in the four bytes after the label.
Offset(j)    == IF j.cond = 0 THEN 1 ELSE j.cond + 2
checkCond(j) == Offset(j) < 5

\* pc - dest.pc is a uint64: it is huge for a destination further on.
Distant(at, d) == at < d.pc \/ at - d.pc > minJumpDistance
Suitable(at, d) == Distant(at, d) \/ at < d.jumpdest

\* rem moves the last destination to the place of the one that is used.
DropLast(dests, i) == Front(dests)
rem(dests, i) == Front(ReplaceAt(dests, i, Last(dests)))

\* One placeholder: the first suitable destination, or 0.
InsertJump(s, j) ==
  LET at == j.pc + Offset(j)
      fit == {i \in DOMAIN s.dests : Suitable(at, s.dests[i])}
  IN IF ~checkCond(j) THEN s
     ELSE IF fit = {} THEN [s EXCEPT !.set = Append(@, [at |-> at, to |-> <<>>])]
     ELSE [dests |-> rem(s.dests, Min(fit)),
           set |-> Append(s.set, [at |-> at, to |-> <<s.dests[Min(fit)]>>])]

InsertJumps(dests, toFill) == FoldLeft(InsertJump, [dests |-> dests, set |-> <<>>], toFill)

-----------------------------------------------------------------------------
VARIABLES
  plan,            \* the active plan
  strategies,      \* bucket -> name of its strategy
  recursionLevel,  \* of the process: it is never decreased
  frames,          \* the programs being generated, the innermost last
  ended,           \* history: destinations, jumps and seed of a program just ended
  tests            \* number of tests generated

genVars == <<plan, strategies, recursionLevel, frames, ended, tests>>

NoneEnded == [had |-> <<>>, set |-> <<>>, seed |-> <<>>]

\* Init is LoadPlanFromEnv: an unknown strategy fails before anything is generated.
GenInit ==
  /\ plan \in {p \in Plans : Known(p)}
  /\ strategies = ApplyPlan(plan)
  /\ recursionLevel = 0
  /\ frames = <<>>
  /\ ended = NoneEnded
  /\ tests = 0

\* GenerateProgram starts with the counter.
Frame(f, rounds) ==
  [f |-> ReadByte(f), left |-> rounds, size |-> 0, dests |-> <<>>, toFill |-> <<>>]

Start ==
  /\ frames = <<>>
  /\ tests < MaxTests
  /\ \E n \in SeedLens, rounds \in 0 .. MaxRounds : frames' = <<Frame(NewFiller(n), rounds)>>
  /\ ended' = NoneEnded
  /\ UNCHANGED <<plan, strategies, recursionLevel, tests>>

Top == Last(frames)

\* A round: its byte is read; the program ends early when it is long.
Round(frame) ==
  [frame EXCEPT !.left = IF frame.size > Limit THEN 0 ELSE @ - 1]
SetTop(frame) == frames' = ReplaceAt(frames, Len(frames), Round(frame))

Reachable == {strategies[b] : b \in Buckets}
Chosen(name) == frames # <<>> /\ Top.left > 0 /\ name \in Reachable

\* Strategies that read and append; opcodeGenerator appends nothing for BLOCKHASH
\* or a banned operation.
AppendCode ==
  /\ frames # <<>> /\ Top.left > 0
  /\ \E f \in UNION {After[name][Top.f] : name \in Reachable \cap Appending} :
     \E n \in Lengths \cup {0} :
       /\ n = 0 => "opcode" \in Reachable /\ f \in After["opcode"][Top.f]
       /\ SetTop([Top EXCEPT !.f = f, !.size = @ + n])
  /\ ended' = NoneEnded
  /\ UNCHANGED <<plan, strategies, recursionLevel, tests>>

\* A label is a program counter; no JUMPDEST is appended.
Jumpdest ==
  /\ Chosen("jumpdest")
  /\ \E random \in {<<>>} \cup {<<pc>> : pc \in RandomPcs} :
       LET reads == IF random = <<>> THEN <<0, 0>> ELSE <<0, 0, 2>>
           pc == IF random = <<>> THEN Top.size ELSE random[1]
       IN SetTop([Top EXCEPT !.f = Consume(@, reads),
                             !.dests = Append(@, [pc |-> pc, jumpdest |-> Top.size])])
  /\ ended' = NoneEnded
  /\ UNCHANGED <<plan, strategies, recursionLevel, tests>>

\* JUMP, or JUMPI with a zero condition (one byte) or a random one.
Jump ==
  /\ Chosen("jump")
  /\ \E c \in {<<0, <<0, 0>>>>, <<1, <<0, 0, 0>>>>} \cup {<<n, <<0, 0, 0, 4>>>> : n \in 1 .. 4} :
       SetTop([Top EXCEPT !.f = Consume(@, c[2]), !.size = @ + JumpSize(c[1]),
                          !.toFill = Append(@, [pc |-> Top.size, cond |-> c[1]])])
  /\ ended' = NoneEnded
  /\ UNCHANGED <<plan, strategies, recursionLevel, tests>>

\* createCallGenerator: a program of its own, or, once the level is used up, none.
CreateCall ==
  /\ Chosen("createCall")
  /\ IF recursionLevel > maxRecursionLevel
       THEN SetTop([Top EXCEPT !.f = ReadByte(@)]) /\ UNCHANGED recursionLevel
       ELSE /\ recursionLevel' = recursionLevel + 1
            /\ \E n \in SeedLens, rounds \in 0 .. Top.left - 1 :
                 LET f == Consume(Top.f, IF n = 0 THEN <<0, 2>> ELSE <<0, 2, n>>) IN
                 frames' = Append(ReplaceAt(frames, Len(frames), [Top EXCEPT !.f = f]),
                                  Frame(NewFiller(n), rounds))
  /\ ended' = NoneEnded
  /\ UNCHANGED <<plan, strategies, tests>>

\* InsertJumps and CreateGstMaker, which takes value and data of the transaction
\* from what is left of the seed; a nested program is then created and called.
Finish ==
  /\ frames # <<>> /\ Top.left = 0
  /\ ended' = [had |-> Top.dests, set |-> InsertJumps(Top.dests, Top.toFill).set,
               seed |-> <<Consume(Top.f, <<4, 100>>)>>]
  /\ IF Len(frames) = 1 THEN frames' = <<>> /\ tests' = tests + 1
     ELSE /\ \E n \in Lengths :
               LET caller == frames[Len(frames) - 1] IN
               frames' = Append(SubSeq(frames, 1, Len(frames) - 2),
                 Round([caller EXCEPT !.f = Consume(@, <<0, 0>>), !.size = @ + n]))
          /\ UNCHANGED tests
  /\ UNCHANGED <<plan, strategies, recursionLevel>>

GenNext == Start \/ AppendCode \/ Jumpdest \/ Jump \/ CreateCall \/ Finish

GenSpec == GenInit /\ [][GenNext]_genVars

GenEnded == frames = <<>> /\ tests = MaxTests

-----------------------------------------------------------------------------
(* Properties.                                                             *)

\* usedUp says exactly that every byte of the seed has been read, although the
\* pointer starts over in two ways (Byte, ByteSlice).  createTest searches the
\* length of a corpus element by it.
UsedUpExact ==
  \A f \in {frames[i].f : i \in DOMAIN frames} \cup ToSet(ended.seed) : f.used = (f.read = f.len)

\* No destination serves two jumps, and none is lost for a later one while it
\* would be suitable for it (rem, while InsertJumps ranges over the table).
Uses(d) == Cardinality({i \in DOMAIN ended.set : ended.set[i].to = <<d>>})
Has(d)  == Cardinality({i \in DOMAIN ended.had : ended.had[i] = d})
DestsUsedOnce ==
  \A d \in ToSet(ended.had) :
    /\ Uses(d) <= Has(d)
    /\ Uses(d) < Has(d) =>
         \A i \in DOMAIN ended.set : ended.set[i].to = <<>> => ~Suitable(ended.set[i].at, d)

\* The weights of a plan are shares: the number of buckets of each strategy is
\* its part of 256 but for rounding, at least that for the last one; nothing
\* overflows a byte (plan.go: "so buckets always sum to 256").
Share(name) == Cardinality({b \in Buckets : strategies[b] = name})
WeightsHonoured ==
  frames = <<>> /\ DOMAIN plan.weights # {} =>
    \A ws \in {weighted(plan)} : \A i \in DOMAIN ws :
      /\ (Share(ws[i].name) + 1) * TotalOf(ws) > ws[i].imp * 256
      /\ i # Len(ws) => Share(ws[i].name) * TotalOf(ws) <= ws[i].imp * 256

=============================================================================
