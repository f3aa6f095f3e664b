---------------------------- MODULE TraceFilter ----------------------------
(***************************************************************************)
(* What goevmlab/evms makes of the output of a client: the lines are       *)
(* decoded one by one, lines that are no executed operation are dropped,   *)
(* and what remains is printed in one canonical form, ended by the state   *)
(* root.  The verdict on a test is that these texts are equal, so a filter *)
(* that drops too little reports flaws that are none, and one that drops   *)
(* too much hides them.                                                    *)
(*                                                                         *)
(* A line is [kind, set]: a JSON object with the fields it sets, the array *)
(* that some clients print in speed mode, or text that does not parse.     *)
(* FunctionDepth (EOF only) and the wording of the output are left out.    *)
(***************************************************************************)
EXTENDS Integers, Sequences, SequencesExt

Clients == {"geth", "besu", "nimbus", "nethermind", "erigon", "eels", "evmone", "revm"}

STOP == 0
NoRoot == 0

\* opLog: every field of a fresh element has its zero value.
opLog == [depth |-> 0, pc |-> 0, op |-> STOP, gas |-> 0, gasCost |-> 0, stack |-> <<>>,
          stateRoot |-> NoRoot, postHash |-> NoRoot]

\* UnmarshalJSON sets the fields that the line has and keeps the others.
UnmarshalJSON(line, elem) ==
  [x \in DOMAIN elem |-> IF x \in DOMAIN line.set THEN line.set[x] ELSE elem[x]]

\* CustomMarshal prints depth, pc, gas, op and the last six items of the stack.
CustomMarshal(e) ==
  [depth |-> e.depth, pc |-> e.pc, gas |-> e.gas, op |-> e.op,
   stack |-> SubSeq(e.stack, IF Len(e.stack) > 6 THEN Len(e.stack) - 5 ELSE 1, Len(e.stack))]

Root(r) == [root |-> r]

\* The state of one copyUntilEnd: the scanned element, geth's pending one, what
\* has been written, the root found.
NewCopy == [elem |-> opLog, prev |-> <<>>, out |-> <<>>, root |-> NoRoot]

Write(f, e) == [f EXCEPT !.out = Append(@, CustomMarshal(e))]

\* Blank elements (no line of a trace has depth 0) and STOPs are skipped.
Skipped(e) == e.depth = 0 \/ e.op = STOP

-----------------------------------------------------------------------------
(* One line that parses, per client.  f.root is set by the last one read.  *)

\* geth prints a failing operation twice: the pending line is written when the
\* next one comes, and dropped is the repetition.
YieldAll(f, e) ==
  IF f.prev = <<>> THEN [f EXCEPT !.prev = <<e>>]
  ELSE [Write(f, f.prev[1]) EXCEPT !.prev = <<e>>]
Yield(f, e) ==
  IF f.prev = <<>> THEN [f EXCEPT !.prev = <<e>>]
  ELSE LET p == f.prev[1] IN
       [Write(f, p) EXCEPT !.prev = IF p.pc = e.pc /\ p.depth = e.depth THEN <<>> ELSE <<e>>]
Flush(f) == IF f.prev = <<>> THEN f ELSE [Write(f, f.prev[1]) EXCEPT !.prev = <<>>]

Merging(f, line) ==
  LET e == UnmarshalJSON(line, opLog) IN
  IF e.stateRoot # NoRoot THEN [f EXCEPT !.root = e.stateRoot]
  ELSE IF Skipped(e) THEN f
  ELSE Yield(f, e)

GethCopy(f, line)   == Merging(f, line)
NimbusCopy(f, line) == Merging(f, line)

Plain(f, line) ==
  LET e == UnmarshalJSON(line, opLog) IN
  IF e.stateRoot # NoRoot THEN [f EXCEPT !.root = e.stateRoot]
  ELSE IF Skipped(e) THEN f
  ELSE Write(f, e)

NethermindCopy(f, line) == Plain(f, line)
ErigonCopy(f, line)     == Plain(f, line)
EelsCopy(f, line)       == Plain(f, line)
EvmoneCopy(f, line)     == Plain(f, line)

\* besu and revm decode into the element of the line before, so they cannot
\* tell blank lines by their depth.
BesuCopy(f, line) ==
  LET e == UnmarshalJSON(line, f.elem)
      g == [f EXCEPT !.elem = e] IN
  IF e.stateRoot # NoRoot THEN [g EXCEPT !.root = e.stateRoot]
  ELSE IF e.postHash # NoRoot THEN [g EXCEPT !.root = e.postHash]
  ELSE IF e.op = STOP THEN g
  ELSE Write(g, e)

RevmCopy(f, line) ==
  LET e == UnmarshalJSON(line, f.elem)
      g == [f EXCEPT !.elem = e] IN
  IF e.stateRoot # NoRoot THEN [g EXCEPT !.root = e.stateRoot]
  ELSE IF e.op = STOP THEN g
  ELSE Write(g, e)

Copy(c, f, line) ==
  CASE c = "geth" -> GethCopy(f, line)
    [] c = "nimbus" -> NimbusCopy(f, line)
    [] c = "nethermind" -> NethermindCopy(f, line)
    [] c = "erigon" -> ErigonCopy(f, line)
    [] c = "eels" -> EelsCopy(f, line)
    [] c = "evmone" -> EvmoneCopy(f, line)
    [] c = "besu" -> BesuCopy(f, line)
    [] c = "revm" -> RevmCopy(f, line)

\* scanner.Next passes over empty lines, comments and what does not parse; a
\* loop ends at the first line with a root.
Next1(c, f, line) == IF line.kind = "object" /\ f.root = NoRoot THEN Copy(c, f, line) ELSE f

\* The end of a loop: what is pending is flushed and the root written, an empty
\* one when none was read.
Ended1(f) == [Flush(f) EXCEPT !.out = Append(@, Root(f.root))]

\* The state after the lines, from f on.  (e and raw are bound variables, which
\* TLC evaluates once.)
After(c, f, lines) ==
  LET read[n \in 0 .. Len(lines)] ==
        IF n = 0 THEN f
        ELSE CHOOSE g \in {Next1(c, e, lines[n]) : e \in {read[n - 1]}} : TRUE
  IN read[Len(lines)]

Filtered(c, lines) ==
  CHOOSE out \in {Ended1(After(c, NewCopy, raw)).out : raw \in {lines}} : TRUE

-----------------------------------------------------------------------------
(* What the clients print (external): read off how the filters use it and  *)
(* off evms/testdata/traces.                                               *)

Text(set) == [kind |-> "object", set |-> set]
Junk      == [kind |-> "none", set |-> <<>>]
Summary   == Text([output |-> "0x"])
RootText(c, r)  == Text(IF c = "besu" THEN [postHash |-> r] ELSE [stateRoot |-> r])
ArrayText(r)    == [kind |-> "array", set |-> [stateRoot |-> r]]

\* A failing operation is printed again, with the error, by these.
PrintsTwice   == {"geth", "nimbus"}
PrintsSummary == Clients \ {"besu", "revm", "evmone"}

\* An execution: the operations a client executes.  No operation is executed twice
\* in a row: there is no jump to a JUMP.
Operation == [depth : Nat \ {0}, pc : Nat, op : Nat, gas : Nat, stack : Seq(Nat), fails : BOOLEAN]
NextReal(exec, i, j) ==
  /\ i < j /\ exec[i].op # STOP /\ exec[j].op # STOP
  /\ \A k \in i + 1 .. j - 1 : exec[k].op = STOP
IsExecution(exec) ==
  /\ exec \in Seq(Operation)
  /\ \A i, j \in DOMAIN exec :
       NextReal(exec, i, j) => exec[i].pc # exec[j].pc \/ exec[i].depth # exec[j].depth

\* A client may or may not print STOPs, comments and log lines.
OpTexts(c, o) ==
  LET line == Text([depth |-> o.depth, pc |-> o.pc, op |-> o.op, gas |-> o.gas,
                    gasCost |-> o.gas, stack |-> o.stack])
  IN IF o.fails /\ c \in PrintsTwice THEN <<line, line>> ELSE <<line>>

ExecTexts(c, exec, chatty) ==
  FlattenSeq([i \in DOMAIN exec |->
                IF exec[i].op # STOP \/ chatty THEN OpTexts(c, exec[i]) ELSE <<>>])

TraceTexts(c, exec, r, chatty) ==
  (IF chatty THEN <<Junk>> ELSE <<>>)
  \o ExecTexts(c, exec, chatty)
  \o (IF chatty /\ c \in PrintsSummary THEN <<Summary>> ELSE <<>>)
  \o (IF r = NoRoot THEN <<>> ELSE <<RootText(c, r)>>)

\* What a filter should make of it, whichever client printed it.
Canonical(exec, r) ==
  FlattenSeq([i \in DOMAIN exec |->
                IF exec[i].op # STOP THEN <<CustomMarshal(exec[i])>> ELSE <<>>])
  \o <<Root(r)>>

-----------------------------------------------------------------------------
(* CompareFiles reads a line of every file per round; a file that has ended *)
(* gives "EOF".  It stops at the first round with a difference, or when     *)
(* the first file has ended.                                                *)

EOF == [eof |-> TRUE]
LineAt(file, i) == IF i <= Len(file) THEN file[i] ELSE EOF
Differs(files, i) == \E k \in 1 .. Len(files) : LineAt(files[k], i) # LineAt(files[1], i)
Rounds(files) == 1 .. Len(files[1]) + 1

CompareFiles(files) == ~ \E i \in Rounds(files) : Differs(files, i)

=============================================================================
