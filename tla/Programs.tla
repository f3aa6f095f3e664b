------------------------------ MODULE Programs ------------------------------
(***************************************************************************)
(* goevmlab/fuzzing: the factories of state tests.  A filler adds contracts *)
(* with generated code to a basic state test, sets the transaction, and the *)
(* test is filled by running geth.                                          *)
(*                                                                         *)
(* A code is abstracted to what running it from its start does to the      *)
(* stack, until an operation without rhyme or reason makes it wild.        *)
(***************************************************************************)
EXTENDS OpTable

CONSTANTS
  Forks,        \* forks that are tried
  MaxOps,       \* bound: rounds of a loop over operations (10000, 1000, 1024 bytes)
  MaxPieces,    \* bound: pieces of a code of calls (500 bytes), precompile calls
  MaxContracts, \* bound: contracts of a test (ten)
  MaxDepth      \* nesting of created contracts (ten)

ASSUME ProgramsAssumption ==
  /\ MaxOps \in Nat /\ MaxPieces \in Nat /\ MaxContracts \in Nat \ {0} /\ MaxDepth \in Nat
  /\ Forks \subseteq ToSet(ForkNames)

-----------------------------------------------------------------------------
(* What the code builders append, as operations.                           *)

MLOAD == \h51
MSTORE == \h52
SLOAD == \h54
SSTORE == \h55
GAS == \h5A
TLOAD == \h5C
TSTORE == \h5D
PUSH1 == \h60
DUP5 == \h84
DUP6 == \h85
CREATE == \hF0
CREATE2 == \hF5
CALL == \hF1
CALLCODE == \hF2
callTypes == {CALL, CALLCODE, \hF4, \hFA}
RETURN == \hF3
REVERT == \hFD
SELFDESTRUCT == \hFF

Pushed(n) == [i \in 1 .. n |-> PUSH1]
Sstore == Pushed(2) \o <<SSTORE>>
Mstore == Pushed(2) \o <<MSTORE>>
MemToStorage == <<PUSH1, MLOAD, PUSH1, SSTORE>>
PlainCall == Pushed(6) \o <<GAS, CALL>>

RandCall(callOp) ==
  Pushed(4) \o (IF callOp \in {CALL, CALLCODE} THEN <<PUSH1>> ELSE <<>>) \o <<PUSH1, GAS, callOp>>

CreateAndCall(createOp, callOp) ==
  Mstore \o Pushed(IF createOp = CREATE2 THEN 4 ELSE 3) \o <<createOp>> \o Pushed(4)
    \o (IF callOp \in {CALL, CALLCODE} THEN <<PUSH1, DUP6>> ELSE <<DUP5>>)
    \o <<GAS, callOp, POP, POP>>

operations == (\h01 .. \h0B) \cup (\h10 .. \h1D)
memOps == {\h20, \h35, \h37, \h39, \h3C, \h3E, MLOAD, MSTORE, \h5E, \h53, RETURN, REVERT}

\* Pieces of randCall2200 and randCallTStore, the calls that create apart.
RandStorageOps == {Sstore, <<PUSH1, SLOAD, POP>>}
randTStoreOps  == {Pushed(2) \o <<TSTORE>>, <<PUSH1, TLOAD, POP>>}
CallPieces(storageOps) ==
  storageOps \cup {Append(RandCall(op), POP) : op \in callTypes} \cup {<<PUSH1, SELFDESTRUCT>>}
EndPieces == {Pushed(2) \o <<op>> : op \in {RETURN, REVERT}}

\* One call of a precompile: the input, the call, its result, the output.
PrecompileCall(call, result) == Mstore \o call \o result \o MemToStorage
RandCalls(result) == {PrecompileCall(RandCall(op), result) : op \in callTypes}

-----------------------------------------------------------------------------
(* The fillers: the transaction's gas in millions, price in wei and highest *)
(* value in millions of wei; contracts, and rounds and pieces of their code. *)
(* Input data, storage and the authorizations of auth are left out.        *)

Test(gas, price, value, contractCount, rounds, pieces) ==
  [tx |-> [gas |-> gas, price |-> price, value |-> value],
   contracts |-> contractCount, rounds |-> rounds, pieces |-> pieces]
Rounds(n) == Min({n, MaxPieces})

fillEcRecover == Test(8, 16, 17, 1, Rounds(100), RandCalls(<<POP>>))
fillNaive     == Test(8, 16, 17, 1, MaxOps, {})
RandCallBlake == RandCalls(<<POP>>)
fillBlake     == Test(8, 16, 17, 1, 1, RandCallBlake)
RandCallBLS   == RandCalls(<<POP>>)
fillBls       == Test(8, 16, 17, 1, Rounds(7), RandCallBLS)
RandCallBn    == RandCalls(<<POP>>)
fillBn254     == Test(16, 16, 1, 1, Rounds(3), RandCallBn)
randCallPrecompile == RandCalls(<<PUSH1, SSTORE>>)
fillPrecompileTest == Test(8, 32, 17, 1, 1, randCallPrecompile)
randCallModexp == {PrecompileCall(PlainCall, <<POP>>)}
fillModexp    == Test(16, 16, 17, 1, 1, randCallModexp)
fillSimple    == Test(16, 16, 17, 1, MaxOps, {})
fillMemOps    == Test(16, 16, 17, 1, MaxOps, {})
fillSstore    == Test(8, 16, 17, MaxContracts, MaxPieces, CallPieces(RandStorageOps))
randCallSecp256R == {PrecompileCall(PlainCall, <<POP>>)}
fillSecp256R  == Test(16, 16, 17, 1, Rounds(100), randCallSecp256R)
fillTstore    == Test(16, 16, 17, MaxContracts, MaxPieces, CallPieces(RandStorageOps \cup randTStoreOps))
fill7702      == Test(8, 16, 17, MaxContracts, MaxPieces, CallPieces(RandStorageOps))
RandCallPointEval == RandCalls(<<POP>>)
fillPointEvaluation4844 == Test(16, 16, 1, 1, 1, RandCallPointEval)

fillers ==
  [ecrecover |-> fillEcRecover, naive |-> fillNaive, blake |-> fillBlake, bls |-> fillBls,
   bn254 |-> fillBn254, precompiles |-> fillPrecompileTest, modexp |-> fillModexp,
   simpleops |-> fillSimple, memops |-> fillMemOps, sstore_sload |-> fillSstore,
   secp256r |-> fillSecp256R, tstore_tload |-> fillTstore, auth |-> fill7702,
   kzg |-> fillPointEvaluation4844]

OpFillers   == {"simpleops", "memops"}
CallFillers == {"sstore_sload", "tstore_tload", "auth"}

\* BasicStateTest, in millions of wei, and the base fee of NewGstMaker.
SenderBalance == 1099511
BaseFee == 16
Executable(t) == t.price >= BaseFee /\ t.gas * t.price + t.value <= SenderBalance

-----------------------------------------------------------------------------
VARIABLES
  filler, fork,  \* of the test being made
  contracts,     \* contracts whose code is not generated yet
  codes,         \* the codes being generated, that of a created contract last
  tx, result     \* the transaction; what Fill found

progVars == <<filler, fork, contracts, codes, tx, result>>

NoTest == "none"
NewCode == [left |-> fillers[filler].rounds, depth |-> 0, stack |-> 0, wild |-> FALSE, ok |-> TRUE]

ProgInit ==
  /\ filler = NoTest /\ fork = NoTest
  /\ contracts = 0 /\ codes = <<>> /\ tx = <<>> /\ result = "unknown"

\* Factory: BasicStateTest, then the filler.
BasicStateTest ==
  /\ filler = NoTest
  /\ filler' \in DOMAIN fillers /\ fork' \in Forks
  /\ contracts' = fillers[filler'].contracts
  /\ UNCHANGED <<codes, tx, result>>

\* The code of the next contract; naive starts with seven pushes.
NextCode ==
  /\ codes = <<>> /\ contracts > 0
  /\ codes' = <<[NewCode EXCEPT !.stack = IF filler = "naive" THEN 7 ELSE 0]>>
  /\ UNCHANGED <<filler, fork, contracts, tx, result>>

Current == Last(codes)
SetCurrent(c) == codes' = Append(Front(codes), c)

\* Fine: the operation has its arguments and, where the filler chose it for the
\* fork, is one of the fork.
Fine(c, op) == c.stack >= Pops(op) /\ (filler \in OpFillers => op \in ValidOpcodesInFork(fork))
Emit(c, ops) ==
  FoldLeft(LAMBDA b, op : IF b.wild THEN b
                          ELSE [b EXCEPT !.ok = @ /\ Fine(b, op), !.stack = @ + Stackdelta(op)],
           c, ops)

\* The arguments are pushed, all of them, when the depth is too small for one.
Padded(c, op) ==
  IF c.depth >= Pops(op) THEN c
  ELSE [Emit(c, Pushed(Pops(op))) EXCEPT !.depth = @ + Pops(op)]
MaySwapOne(c) == c.depth > 0
MaySwap(c) == c.depth > 1
AppendOp(c, op, swap) ==
  [Emit(c, (IF swap THEN <<SWAP1>> ELSE <<>>) \o <<op>>) EXCEPT !.depth = @ + Stackdelta(op)]

usedOps == IF filler = "simpleops" THEN operations ELSE memOps \cap ValidOpcodesInFork(fork)

\* A round of generateSimpleOpsProgram or generateMemoryInteractingOpsProgram.
AddOp ==
  /\ filler \in OpFillers /\ codes # <<>> /\ Current.left > 0
  /\ \E op \in usedOps, swap \in BOOLEAN :
       LET c == Padded(Current, op) IN
       /\ swap => MaySwap(c)
       /\ SetCurrent([AppendOp(c, op, swap) EXCEPT
            !.left = IF op \in {RETURN, REVERT} THEN 0 ELSE @ - 1])
  /\ UNCHANGED <<filler, fork, contracts, tx, result>>

\* Random operations: naive's, and those between the pieces of a code of calls.
AddRandomOps ==
  /\ filler \in CallFillers \cup {"naive"} /\ codes # <<>> /\ Current.left > 0
  /\ SetCurrent([Current EXCEPT !.wild = TRUE, !.stack = 0, !.left = @ - 1])
  /\ UNCHANGED <<filler, fork, contracts, tx, result>>

AddPiece ==
  /\ codes # <<>> /\ Current.left > 0
  /\ \/ \E ops \in fillers[filler].pieces : SetCurrent([Emit(Current, ops) EXCEPT !.left = @ - 1])
     \/ /\ filler \in CallFillers
        /\ \E ops \in EndPieces : SetCurrent([Emit(Current, ops) EXCEPT !.left = 0])
  /\ UNCHANGED <<filler, fork, contracts, tx, result>>

\* A code of calls creates a contract, whose code is generated in the same way;
\* it is empty from some depth on.
AddCreate ==
  /\ filler \in CallFillers /\ codes # <<>> /\ Current.left > 0
  /\ codes' = Append(codes, IF Len(codes) > MaxDepth THEN [NewCode EXCEPT !.left = 0] ELSE NewCode)
  /\ UNCHANGED <<filler, fork, contracts, tx, result>>

\* The created contract is called; the code of a contract is added to the test.
CodeDone ==
  /\ codes # <<>> /\ Current.left = 0
  /\ IF Len(codes) > 1
       THEN /\ \E op \in callTypes, create \in {CREATE, CREATE2} :
                 LET creator == codes[Len(codes) - 1] IN
                 codes' = Append(SubSeq(codes, 1, Len(codes) - 2),
                   [Emit(creator, CreateAndCall(create, op)) EXCEPT !.left = @ - 1])
            /\ UNCHANGED contracts
       ELSE codes' = <<>> /\ contracts' = contracts - 1
  /\ UNCHANGED <<filler, fork, tx, result>>

SetTx ==
  /\ filler # NoTest /\ contracts = 0 /\ tx = <<>>
  /\ tx' = <<fillers[filler].tx>>
  /\ UNCHANGED <<filler, fork, contracts, codes, result>>

Fill ==
  /\ tx # <<>> /\ result = "unknown"
  /\ result' = IF Executable(tx[1]) THEN "root" ELSE "error"
  /\ UNCHANGED <<filler, fork, contracts, codes, tx>>

ProgNext ==
  \/ BasicStateTest \/ NextCode \/ AddOp \/ AddRandomOps \/ AddPiece \/ AddCreate \/ CodeDone
  \/ SetTx \/ Fill

ProgSpec == ProgInit /\ [][ProgNext]_progVars

ProgEnded == result # "unknown"

-----------------------------------------------------------------------------
(* Properties.                                                             *)

\* generateSimpleOpsProgram "generates non-erroring programs": its stackdepth
\* and the stack of the running code agree well enough that no operation finds
\* too few arguments, and every operation is one of the fork.  The same goes for
\* memory operations and for what the other fillers put together on purpose (the
\* value of a call is pushed for some kinds of call only), up to the first random
\* operation.  And geth can run every test: the sender pays for gas and value.
NonErroring == (\A i \in DOMAIN codes : codes[i].ok) /\ result # "error"

=============================================================================
