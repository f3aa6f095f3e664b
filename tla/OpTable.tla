------------------------------ MODULE OpTable ------------------------------
(***************************************************************************)
(* goevmlab/ops: the table of EVM operations, the forks and what they      *)
(* allow, and the iterator over the instructions of a code.  A code is a   *)
(* sequence of bytes; an operation is its byte.                            *)
(***************************************************************************)
EXTENDS Integers, Sequences, FiniteSets, SequencesExt, FiniteSetsExt

Byte == 0 .. 255

\* The operations by what they take from and leave on the stack.
Binary  == (\h01 .. \h07) \cup {\h0A, \h0B} \cup (\h10 .. \h14) \cup (\h16 .. \h18)
             \cup (\h1A .. \h1D) \cup {\h20}
Unary   == {\h15, \h19, \h1E, \h31, \h35, \h3B, \h3F, \h40, \h49, \h51, \h54, \h5C}
Ternary == {\h08, \h09}
Pushers == {\h30, \h32, \h33, \h34, \h36, \h38, \h3A, \h3D, \h41, \h42, \h43, \h44, \h45,
            \h46, \h47, \h48, \h4A, \h58, \h59, \h5A} \cup (\h5F .. \h7F)
Dups    == \h80 .. \h8F
Swaps   == \h90 .. \h9F
Logs    == \hA0 .. \hA4
\* Take n and leave nothing, and take n and leave one.
Takes  == [n \in 0 .. 4 |->
            CASE n = 0 -> {\h00, \h5B, \hFE}
              [] n = 1 -> {\h50, \h56, \hFF}
              [] n = 2 -> {\h52, \h53, \h55, \h57, \h5D, \hF3, \hFD}
              [] n = 3 -> {\h37, \h39, \h3E, \h5E}
              [] n = 4 -> {\h3C}]
Leaves == [n \in 3 .. 7 |->
            CASE n = 3 -> {\hF0} [] n = 4 -> {\hF5} [] n = 5 -> {}
              [] n = 6 -> {\hF4, \hFA} [] n = 7 -> {\hF1, \hF2}]

Calls == UNION {Leaves[n] : n \in DOMAIN Leaves}

\* opCodeInfo has an entry for these; Pops and Pushes of another byte are nil.
opCodeInfo == Binary \cup Unary \cup Ternary \cup Pushers \cup Dups \cup Swaps \cup Logs
                \cup UNION {Takes[n] : n \in DOMAIN Takes} \cup Calls
IsDefined(op) == op \in opCodeInfo

Pops(op) ==
  CASE op \in Binary -> 2
    [] op \in Unary -> 1
    [] op \in Ternary -> 3
    [] op \in Dups -> op - \h7F
    [] op \in Swaps -> op - \h8E
    [] op \in Logs -> op - \h9E
    [] \E n \in DOMAIN Takes : op \in Takes[n] -> CHOOSE n \in DOMAIN Takes : op \in Takes[n]
    [] op \in Calls -> CHOOSE n \in DOMAIN Leaves : op \in Leaves[n]
    [] OTHER -> 0

Pushes(op) ==
  CASE op \in Binary \cup Unary \cup Ternary \cup Pushers \cup Calls -> 1
    [] op \in Dups -> op - \h7E
    [] op \in Swaps -> op - \h8E
    [] OTHER -> 0

Stackdelta(op) == Pushes(op) - Pops(op)

POP == \h50
PUSH0 == \h5F
JUMP == \h56
JUMPI == \h57
JUMPDEST == \h5B
BLOCKHASH == \h40
SWAP1 == \h90
INVALID == \hFE

Immediates(op) == IF op \in \h60 .. \h7F THEN op - \h5F ELSE 0

-----------------------------------------------------------------------------
(* Forks: the operations valid in each.                                    *)

ForkNames == <<"Istanbul", "Berlin", "London", "Merge", "Shanghai", "Cancun", "Prague", "Osaka">>

istanbul == opCodeInfo \ {\h1E, \h48, \h49, \h4A, \h5C, \h5D, \h5E, \h5F}
london   == istanbul \cup {\h48}
shanghai == london \cup {\h5F}
cancun   == shanghai \cup {\h49, \h4A, \h5C, \h5D, \h5E}
osaka    == cancun \cup {\h1E}

ValidOpcodesInFork(fork) ==
  CASE fork \in {"Istanbul", "Berlin"} -> istanbul
    [] fork \in {"London", "Merge"} -> london
    [] fork = "Shanghai" -> shanghai
    [] fork \in {"Cancun", "Prague"} -> cancun
    [] fork = "Osaka" -> osaka

-----------------------------------------------------------------------------
(* The iterator: the instructions [pc, op, arg] of a code up to its end or  *)
(* to a PUSH whose argument is cut off.                                    *)

Scan(code) ==
  LET Visit(s, i) ==
        LET n == Immediates(code[i]) IN
        IF s.cut # 0 \/ i < s.next THEN s
        ELSE IF i + n > Len(code) THEN [s EXCEPT !.cut = code[i]]
        ELSE [s EXCEPT !.next = i + n + 1,
                       !.ins = Append(@, [pc |-> i - 1, op |-> code[i],
                                          arg |-> SubSeq(code, i + 1, i + n)])]
      Once(s, i) == CHOOSE r \in {Visit(u, i) : u \in {s}} : TRUE   \* for TLC
  IN FoldLeft(Once, [next |-> 1, cut |-> 0, ins |-> <<>>], [i \in 1 .. Len(code) |-> i])

Instructions(code)     == Scan(code).ins
InstructionCount(code) == Len(Instructions(code))

\* The operation of the PUSH that stopped the iterator, 0 when none did.
CutPush(code) == Scan(code).cut

Bytes(ins)      == <<ins.op>> \o ins.arg
Assembled(list) == FlattenSeq([i \in 1 .. Len(list) |-> Bytes(list[i])])

=============================================================================
