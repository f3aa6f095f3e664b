-------------------------- MODULE TraceFilter_proofs --------------------------
(* Proofs about TraceFilter: what any client prints of an execution, of any   *)
(* length, is filtered to the same text.                                      *)
EXTENDS TraceFilter, Induction_proofs

-----------------------------------------------------------------------------
(* The loop over the lines, which TraceFilter defines as a recursive         *)
(* function: it exists, and can be taken line by line from either end.      *)

\* read is the function of the states after 0, 1, ... lines.
IsRead(read, c, f, lines) ==
  read = [n \in 0 .. Len(lines) |->
            IF n = 0 THEN f
            ELSE CHOOSE g \in {Next1(c, e, lines[n]) : e \in {read[n - 1]}} : TRUE]

LEMMA OneLine ==
  ASSUME NEW c, NEW e, NEW x
  PROVE  (CHOOSE g \in {Next1(c, y, x) : y \in {e}} : TRUE) = Next1(c, e, x)
<1>1. \A g : g \in {Next1(c, y, x) : y \in {e}} <=> g = Next1(c, e, x)
  OBVIOUS
<1> QED
  BY <1>1

LEMMA AppendStep ==
  ASSUME NEW S, NEW lines \in Seq(S), NEW x \in S, NEW c, NEW f, NEW read,
         IsRead(read, c, f, lines)
  PROVE  LET more == [n \in 0 .. Len(lines) + 1 |->
                        IF n = Len(lines) + 1 THEN Next1(c, read[Len(lines)], x) ELSE read[n]]
         IN  IsRead(more, c, f, Append(lines, x))
<1> DEFINE L == Len(lines)
           more == [n \in 0 .. L + 1 |-> IF n = L + 1 THEN Next1(c, read[L], x) ELSE read[n]]
           l2 == Append(lines, x)
           rhs == [n \in 0 .. Len(l2) |->
                     IF n = 0 THEN f
                     ELSE CHOOSE g \in {Next1(c, e, l2[n]) : e \in {more[n - 1]}} : TRUE]
<1>1. L \in Nat /\ Len(l2) = L + 1 /\ l2[L + 1] = x /\ \A n \in 1 .. L : l2[n] = lines[n]
  OBVIOUS
<1>2. read[0] = f /\ \A n \in 1 .. L : read[n] = Next1(c, read[n - 1], lines[n])
  BY <1>1, OneLine DEF IsRead
<1> HIDE DEF L
<1>3. ASSUME NEW n \in 0 .. L + 1 PROVE more[n] = rhs[n]
  <2>1. CASE n = 0
    BY <1>1, <1>2, <2>1
  <2>2. CASE n \in 1 .. L
    <3>1. more[n - 1] = read[n - 1] /\ more[n] = read[n] /\ l2[n] = lines[n]
      BY <1>1, <2>2
    <3>2. rhs[n] = CHOOSE g \in {Next1(c, e, l2[n]) : e \in {more[n - 1]}} : TRUE
      BY <1>1, <2>2
    <3> HIDE DEF more, l2, rhs
    <3> QED
      BY <1>2, <2>2, <3>1, <3>2, OneLine
  <2>3. CASE n = L + 1
    <3>1. more[n - 1] = read[L] /\ more[n] = Next1(c, read[L], x) /\ l2[n] = x
      BY <1>1, <2>3
    <3>2. rhs[n] = CHOOSE g \in {Next1(c, e, l2[n]) : e \in {more[n - 1]}} : TRUE
      BY <1>1, <2>3
    <3> HIDE DEF more, l2, rhs
    <3> QED
      BY <3>1, <3>2, OneLine
  <2> QED
    BY <1>1, <2>1, <2>2, <2>3
<1>4. more = rhs
  <2>1. more = [n \in 0 .. L + 1 |-> more[n]] /\ rhs = [n \in 0 .. L + 1 |-> rhs[n]]
    BY <1>1
  <2> HIDE DEF more, rhs
  <2> QED
    BY <1>3, <2>1
<1> QED
  BY <1>1, <1>4 DEF IsRead, L

LEMMA ReadUnique ==
  ASSUME NEW S, NEW lines \in Seq(S), NEW c, NEW f, NEW r1, NEW r2,
         IsRead(r1, c, f, lines), IsRead(r2, c, f, lines)
  PROVE  \A n \in 0 .. Len(lines) : r1[n] = r2[n]
<1> DEFINE P == {n \in Nat : n <= Len(lines) => r1[n] = r2[n]}
<1>1. 0 \in P
  <2>1. r1[0] = f /\ r2[0] = f
    BY DEF IsRead
  <2> QED
    BY <2>1
<1>2. ASSUME NEW n \in Nat, n \in P PROVE n + 1 \in P
  <2>1. SUFFICES ASSUME n + 1 <= Len(lines) PROVE r1[n + 1] = r2[n + 1]
    OBVIOUS
  <2>2. n + 1 \in 0 .. Len(lines) /\ n + 1 # 0 /\ (n + 1) - 1 = n /\ r1[n] = r2[n]
    BY <1>2, <2>1
  <2> QED
    BY <2>2 DEF IsRead
<1>3. \A n \in Nat : n \in P
  <2> HIDE DEF P
  <2> QED
    BY <1>1, <1>2, SetInduction
<1> QED
  BY <1>3

LEMMA ReadExists ==
  ASSUME NEW S, NEW lines \in Seq(S), NEW c, NEW f
  PROVE  \E read : IsRead(read, c, f, lines)
<1> DEFINE P == {n \in Nat : \A l \in Seq(S) : Len(l) = n => \E read : IsRead(read, c, f, l)}
<1>1. 0 \in P
  <2> SUFFICES ASSUME NEW l \in Seq(S), Len(l) = 0 PROVE \E read : IsRead(read, c, f, l)
    OBVIOUS
  <2> DEFINE r == [n \in 0 .. 0 |-> f]
  <2>1. IsRead(r, c, f, l)
    BY DEF IsRead
  <2> QED
    BY <2>1
<1>2. ASSUME NEW n \in Nat, n \in P PROVE n + 1 \in P
  <2> SUFFICES ASSUME NEW l \in Seq(S), Len(l) = n + 1 PROVE \E read : IsRead(read, c, f, l)
    OBVIOUS
  <2>1. PICK t \in Seq(S), x \in S : l = Append(t, x) /\ Len(l) = Len(t) + 1
    <3>1. l # <<>>
      OBVIOUS
    <3> QED
      BY <3>1, Split
  <2>2. PICK read : IsRead(read, c, f, t)
    <3>1. Len(t) = n
      BY <2>1
    <3> QED
      BY <1>2, <3>1
  <2> QED
    BY <2>1, <2>2, AppendStep
<1>3. \A n \in Nat : n \in P
  <2> HIDE DEF P
  <2> QED
    BY <1>1, <1>2, SetInduction
<1> QED
  BY <1>3

\* After is the last state of any function of states.
LEMMA AfterRead ==
  ASSUME NEW S, NEW lines \in Seq(S), NEW c, NEW f, NEW read, IsRead(read, c, f, lines)
  PROVE  After(c, f, lines) = read[Len(lines)]
<1> DEFINE r == CHOOSE r : IsRead(r, c, f, lines)
<1>1. IsRead(r, c, f, lines)
  OBVIOUS
<1>2. After(c, f, lines) = r[Len(lines)]
  BY DEF After, IsRead
<1> HIDE DEF r
<1> QED
  BY <1>1, <1>2, ReadUnique

LEMMA AfterEmpty == ASSUME NEW c, NEW f PROVE After(c, f, <<>>) = f
<1>0. <<>> \in Seq({f}) /\ Len(<<>>) = 0
  OBVIOUS
<1>1. PICK read : IsRead(read, c, f, <<>>)
  BY <1>0, ReadExists
<1>2. After(c, f, <<>>) = read[0]
  BY <1>0, <1>1, AfterRead
<1> QED
  BY <1>1, <1>2 DEF IsRead

LEMMA AfterAppend ==
  ASSUME NEW S, NEW lines \in Seq(S), NEW x \in S, NEW c, NEW f
  PROVE  After(c, f, Append(lines, x)) = Next1(c, After(c, f, lines), x)
<1>1. PICK read : IsRead(read, c, f, lines)
  BY ReadExists
<1> DEFINE L == Len(lines)
           more == [n \in 0 .. L + 1 |-> IF n = L + 1 THEN Next1(c, read[L], x) ELSE read[n]]
<1>2. IsRead(more, c, f, Append(lines, x))
  BY <1>1, AppendStep
<1>3. Append(lines, x) \in Seq(S) /\ Len(Append(lines, x)) = L + 1 /\ L \in Nat
  OBVIOUS
<1>4. more[L + 1] = Next1(c, read[L], x)
  BY <1>3
<1> HIDE DEF more
<1>5. After(c, f, Append(lines, x)) = more[L + 1]
  BY <1>2, <1>3, AfterRead
<1>6. After(c, f, lines) = read[L]
  BY <1>1, AfterRead
<1> QED
  BY <1>4, <1>5, <1>6

LEMMA AfterConcat ==
  ASSUME NEW S, NEW a \in Seq(S), NEW b \in Seq(S), NEW c, NEW f
  PROVE  After(c, f, a \o b) = After(c, After(c, f, a), b)
<1> DEFINE P == {n \in Nat : \A l \in Seq(S) :
                   Len(l) = n => After(c, f, a \o l) = After(c, After(c, f, a), l)}
<1>1. 0 \in P
  <2> SUFFICES ASSUME NEW l \in Seq(S), Len(l) = 0
               PROVE  After(c, f, a \o l) = After(c, After(c, f, a), l)
    OBVIOUS
  <2>1. l = <<>> /\ a \o l = a
    OBVIOUS
  <2> QED
    BY <2>1, AfterEmpty
<1>2. ASSUME NEW n \in Nat, n \in P PROVE n + 1 \in P
  <2> SUFFICES ASSUME NEW l \in Seq(S), Len(l) = n + 1
               PROVE  After(c, f, a \o l) = After(c, After(c, f, a), l)
    OBVIOUS
  <2>1. PICK t \in Seq(S), x \in S : l = Append(t, x) /\ Len(l) = Len(t) + 1
    <3>1. l # <<>>
      OBVIOUS
    <3> QED
      BY <3>1, Split
  <2>2. After(c, f, a \o t) = After(c, After(c, f, a), t)
    <3>1. Len(t) = n
      BY <2>1
    <3> QED
      BY <1>2, <3>1
  <2>3. a \o l = Append(a \o t, x) /\ a \o t \in Seq(S)
    BY <2>1
  <2>4. After(c, f, Append(a \o t, x)) = Next1(c, After(c, f, a \o t), x)
    BY <2>3, AfterAppend
  <2>5. After(c, After(c, f, a), Append(t, x)) = Next1(c, After(c, After(c, f, a), t), x)
    BY AfterAppend
  <2> QED
    BY <2>1, <2>2, <2>3, <2>4, <2>5
<1>3. \A n \in Nat : n \in P
  <2> HIDE DEF P
  <2> QED
    BY <1>1, <1>2, SetInduction
<1> QED
  BY <1>3

LEMMA AfterOne == ASSUME NEW c, NEW f, NEW x PROVE After(c, f, <<x>>) = Next1(c, f, x)
<1>1. <<x>> = Append(<<>>, x) /\ <<>> \in Seq({x}) /\ x \in {x}
  OBVIOUS
<1>2. After(c, f, Append(<<>>, x)) = Next1(c, After(c, f, <<>>), x)
  BY <1>1, AfterAppend
<1> QED
  BY <1>1, <1>2, AfterEmpty

-----------------------------------------------------------------------------
(* What is decoded from the lines of a trace.                               *)

Element == [depth : Nat, pc : Nat, op : Nat, gas : Nat, gasCost : Nat, stack : Seq(Nat),
            stateRoot : {NoRoot}, postHash : {NoRoot}]
ElemOf(o) == [depth |-> o.depth, pc |-> o.pc, op |-> o.op, gas |-> o.gas, gasCost |-> o.gas,
              stack |-> o.stack, stateRoot |-> NoRoot, postHash |-> NoRoot]
LineOf(o) == Text([depth |-> o.depth, pc |-> o.pc, op |-> o.op, gas |-> o.gas,
                   gasCost |-> o.gas, stack |-> o.stack])

\* The line of an operation sets every field but the roots.
LEMMA OpDecoded ==
  ASSUME NEW o \in Operation, NEW e \in Element
  PROVE  UnmarshalJSON(LineOf(o), e) = ElemOf(o) /\ ElemOf(o) \in Element
         /\ CustomMarshal(ElemOf(o)) = CustomMarshal(o)
<1>1. UnmarshalJSON(LineOf(o), e) = ElemOf(o)
  BY DEF UnmarshalJSON, LineOf, Text, ElemOf, Element
<1>2. ElemOf(o) \in Element
  BY DEF ElemOf, Element, Operation
<1>3. CustomMarshal(ElemOf(o)) = CustomMarshal(o)
  BY DEF ElemOf, CustomMarshal
<1> QED
  BY <1>1, <1>2, <1>3

LEMMA BlankElement == opLog \in Element
BY DEF opLog, Element, STOP

\* A summary sets no field of an operation, the last line sets a root.
LEMMA EndDecoded ==
  ASSUME NEW e \in Element, NEW r
  PROVE  /\ UnmarshalJSON(Summary, e).stateRoot = NoRoot
         /\ UnmarshalJSON(Summary, e).depth = e.depth
         /\ UnmarshalJSON(Text([stateRoot |-> r]), e).stateRoot = r
         /\ UnmarshalJSON(Text([postHash |-> r]), e).stateRoot = NoRoot
         /\ UnmarshalJSON(Text([postHash |-> r]), e).postHash = r
BY DEF UnmarshalJSON, Summary, Text, Element

-----------------------------------------------------------------------------
(* Executions, operation by operation.                                      *)

Marshalled1(o) == IF o.op # STOP THEN <<CustomMarshal(o)>> ELSE <<>>
Marshalled(exec) == FlattenSeq([i \in DOMAIN exec |-> Marshalled1(exec[i])])
Texts1(c, o, chatty) == IF o.op # STOP \/ chatty THEN OpTexts(c, o) ELSE <<>>

OutLines == {CustomMarshal(o) : o \in Operation}
InLines == {LineOf(o) : o \in Operation}

LEMMA CanonicalIs == ASSUME NEW exec, NEW r PROVE Canonical(exec, r) = Marshalled(exec) \o <<Root(r)>>
BY DEF Canonical, Marshalled, Marshalled1

LEMMA ExecTextsIs ==
  ASSUME NEW c, NEW exec, NEW chatty
  PROVE  ExecTexts(c, exec, chatty) = FlattenSeq([i \in DOMAIN exec |-> Texts1(c, exec[i], chatty)])
BY DEF ExecTexts, Texts1

LEMMA SeqIsFunction ==
  ASSUME NEW S, NEW s \in Seq(S)
  PROVE  s = [i \in 1 .. Len(s) |-> s[i]]
OBVIOUS

LEMMA OneType ==
  ASSUME NEW o \in Operation, NEW c, NEW chatty
  PROVE  /\ Marshalled1(o) \in Seq(OutLines)
         /\ Texts1(c, o, chatty) \in Seq(InLines)
         /\ OpTexts(c, o) = IF o.fails /\ c \in PrintsTwice THEN <<LineOf(o), LineOf(o)>> ELSE <<LineOf(o)>>
<1>1. Marshalled1(o) \in Seq(OutLines)
  <2>1. CustomMarshal(o) \in OutLines
    BY DEF OutLines
  <2> QED
    BY <2>1 DEF Marshalled1
<1>2. OpTexts(c, o) = IF o.fails /\ c \in PrintsTwice THEN <<LineOf(o), LineOf(o)>> ELSE <<LineOf(o)>>
  BY DEF OpTexts, LineOf
<1>3. LineOf(o) \in InLines
  BY DEF InLines
<1>4. Texts1(c, o, chatty) \in Seq(InLines)
  BY <1>2, <1>3 DEF Texts1
<1> QED
  BY <1>1, <1>2, <1>4

LEMMA MarshalledAppend ==
  ASSUME NEW exec \in Seq(Operation), NEW o \in Operation
  PROVE  Marshalled(Append(exec, o)) = Marshalled(exec) \o Marshalled1(o)
<1> DEFINE T == OutLines
           m == [i \in DOMAIN exec |-> Marshalled1(exec[i])]
           e2 == Append(exec, o)
           m2 == [i \in DOMAIN e2 |-> Marshalled1(e2[i])]
<1>1. m \in Seq(Seq(T)) /\ Len(m) = Len(exec)
  BY OneType
<1>2. e2 \in Seq(Operation) /\ Len(e2) = Len(exec) + 1 /\ e2[Len(exec) + 1] = o
      /\ \A i \in 1 .. Len(exec) : e2[i] = exec[i]
  OBVIOUS
<1>3. m2 = Append(m, Marshalled1(o))
  <2>1. DOMAIN e2 = 1 .. Len(exec) + 1 /\ DOMAIN exec = 1 .. Len(exec) /\ Len(exec) \in Nat
    BY <1>2
  <2>2. ASSUME NEW i \in 1 .. Len(exec) + 1 PROVE m2[i] = Append(m, Marshalled1(o))[i]
    <3>1. CASE i = Len(exec) + 1
      BY <1>1, <1>2, <2>1, <3>1
    <3>2. CASE i \in 1 .. Len(exec)
      <4>1. m2[i] = Marshalled1(exec[i]) /\ m[i] = Marshalled1(exec[i])
        BY <1>2, <2>1, <3>2
      <4> HIDE DEF m2, m, e2
      <4>2. Append(m, Marshalled1(o))[i] = m[i]
        BY <1>1, <3>2
      <4> QED
        BY <4>1, <4>2
    <3> QED
      BY <2>1, <3>1, <3>2
  <2>3. m2 = [i \in 1 .. Len(exec) + 1 |-> m2[i]]
    BY <2>1
  <2>4. Append(m, Marshalled1(o)) = [i \in 1 .. Len(exec) + 1 |-> Append(m, Marshalled1(o))[i]]
    <3>1. Marshalled1(o) \in Seq(T)
      BY OneType
    <3> HIDE DEF m, T
    <3>2. Append(m, Marshalled1(o)) \in Seq(Seq(T)) /\ Len(Append(m, Marshalled1(o))) = Len(exec) + 1
      BY <1>1, <3>1, AppendProperties
    <3> QED
      BY <3>2, SeqIsFunction
  <2> HIDE DEF m2, m, e2
  <2> QED
    BY <2>2, <2>3, <2>4
<1>4. Marshalled1(o) \in Seq(T)
  BY OneType
<1>5. Marshalled(e2) = FlattenSeq(m2) /\ Marshalled(exec) = FlattenSeq(m)
  BY DEF Marshalled
<1> HIDE DEF m, m2, e2, T
<1>6. FlattenSeq(Append(m, Marshalled1(o))) = FlattenSeq(m) \o Marshalled1(o)
  BY <1>1, <1>4, FlattenAppend
<1> QED
  BY <1>3, <1>5, <1>6 DEF e2

LEMMA TextsAppend ==
  ASSUME NEW exec \in Seq(Operation), NEW o \in Operation, NEW c, NEW chatty
  PROVE  ExecTexts(c, Append(exec, o), chatty) = ExecTexts(c, exec, chatty) \o Texts1(c, o, chatty)
<1> DEFINE T == InLines
           m == [i \in DOMAIN exec |-> Texts1(c, exec[i], chatty)]
           e2 == Append(exec, o)
           m2 == [i \in DOMAIN e2 |-> Texts1(c, e2[i], chatty)]
<1>1. m \in Seq(Seq(T)) /\ Len(m) = Len(exec)
  BY OneType
<1>2. e2 \in Seq(Operation) /\ Len(e2) = Len(exec) + 1 /\ e2[Len(exec) + 1] = o
      /\ \A i \in 1 .. Len(exec) : e2[i] = exec[i]
  OBVIOUS
<1>3. m2 = Append(m, Texts1(c, o, chatty))
  <2>1. DOMAIN e2 = 1 .. Len(exec) + 1 /\ DOMAIN exec = 1 .. Len(exec) /\ Len(exec) \in Nat
    BY <1>2
  <2>2. ASSUME NEW i \in 1 .. Len(exec) + 1 PROVE m2[i] = Append(m, Texts1(c, o, chatty))[i]
    <3>1. CASE i = Len(exec) + 1
      BY <1>1, <1>2, <2>1, <3>1
    <3>2. CASE i \in 1 .. Len(exec)
      <4>1. m2[i] = Texts1(c, exec[i], chatty) /\ m[i] = Texts1(c, exec[i], chatty)
        BY <1>2, <2>1, <3>2
      <4> HIDE DEF m2, m, e2
      <4>2. Append(m, Texts1(c, o, chatty))[i] = m[i]
        BY <1>1, <3>2
      <4> QED
        BY <4>1, <4>2
    <3> QED
      BY <2>1, <3>1, <3>2
  <2>3. m2 = [i \in 1 .. Len(exec) + 1 |-> m2[i]]
    BY <2>1
  <2>4. Append(m, Texts1(c, o, chatty))
          = [i \in 1 .. Len(exec) + 1 |-> Append(m, Texts1(c, o, chatty))[i]]
    <3>1. Texts1(c, o, chatty) \in Seq(T)
      BY OneType
    <3> HIDE DEF m, T
    <3>2. /\ Append(m, Texts1(c, o, chatty)) \in Seq(Seq(T))
          /\ Len(Append(m, Texts1(c, o, chatty))) = Len(exec) + 1
      BY <1>1, <3>1, AppendProperties
    <3> QED
      BY <3>2, SeqIsFunction
  <2> HIDE DEF m2, m, e2
  <2> QED
    BY <2>2, <2>3, <2>4
<1>4. Texts1(c, o, chatty) \in Seq(T)
  BY OneType
<1>5. ExecTexts(c, e2, chatty) = FlattenSeq(m2) /\ ExecTexts(c, exec, chatty) = FlattenSeq(m)
  BY ExecTextsIs
<1> HIDE DEF m, m2, e2, T
<1>6. FlattenSeq(Append(m, Texts1(c, o, chatty))) = FlattenSeq(m) \o Texts1(c, o, chatty)
  BY <1>1, <1>4, FlattenAppend
<1> QED
  BY <1>3, <1>5, <1>6 DEF e2

LEMMA ExecutionTypes ==
  ASSUME NEW exec \in Seq(Operation), NEW c, NEW chatty
  PROVE  Marshalled(exec) \in Seq(OutLines) /\ ExecTexts(c, exec, chatty) \in Seq(InLines)
<1>1. [i \in DOMAIN exec |-> Marshalled1(exec[i])] \in Seq(Seq(OutLines))
  BY OneType
<1>2. [i \in DOMAIN exec |-> Texts1(c, exec[i], chatty)] \in Seq(Seq(InLines))
  BY OneType
<1> QED
  BY <1>1, <1>2, FlattenType, ExecTextsIs DEF Marshalled

-----------------------------------------------------------------------------
(* One line of an operation, for every client.                              *)

CopyState == [elem : Element, prev : Seq(Element), out : Seq(OutLines), root : {NoRoot}]

LEMMA NewCopyState == NewCopy \in CopyState
BY BlankElement DEF NewCopy, CopyState

LEMMA ElemSet ==
  ASSUME NEW f \in CopyState, NEW e \in Element
  PROVE  LET g == [f EXCEPT !.elem = e]
         IN  g \in CopyState /\ g.prev = f.prev /\ g.out = f.out
BY DEF CopyState

LEMMA PrevSet ==
  ASSUME NEW f \in CopyState, NEW p \in Seq(Element)
  PROVE  LET g == [f EXCEPT !.prev = p]
         IN  g \in CopyState /\ g.prev = p /\ g.out = f.out
BY DEF CopyState

LEMMA Written ==
  ASSUME NEW f \in CopyState, NEW e, CustomMarshal(e) \in OutLines
  PROVE  LET g == Write(f, e)
         IN  g \in CopyState /\ g.prev = f.prev /\ g.out = Append(f.out, CustomMarshal(e))
<1> DEFINE x == CustomMarshal(e)
<1>1. x \in OutLines
  OBVIOUS
<1> HIDE DEF x
<1>2. f.out \in Seq(OutLines)
  BY DEF CopyState
<1>3. Append(f.out, x) \in Seq(OutLines)
  BY <1>1, <1>2, AppendProperties
<1> DEFINE y == Append(f.out, x)
<1>4. [f EXCEPT !.out = y] \in CopyState
  <2> HIDE DEF y
  <2> QED
    BY <1>3 DEF CopyState, y
<1>5. Write(f, e) = [f EXCEPT !.out = y]
  BY DEF Write, x, CopyState
<1> HIDE DEF y
<1>6. [f EXCEPT !.out = y].prev = f.prev /\ [f EXCEPT !.out = y].out = y
  BY DEF CopyState
<1> QED
  BY <1>4, <1>5, <1>6 DEF x, y

Keeping == {"besu", "revm"}

LEMMA OpLine ==
  ASSUME NEW c \in Clients, NEW f \in CopyState, NEW o \in Operation
  PROVE  Next1(c, f, LineOf(o)) =
           IF c \in PrintsTwice THEN IF o.op = STOP THEN f ELSE Yield(f, ElemOf(o))
           ELSE IF c \in Keeping
             THEN IF o.op = STOP THEN [f EXCEPT !.elem = ElemOf(o)]
                  ELSE Write([f EXCEPT !.elem = ElemOf(o)], ElemOf(o))
           ELSE IF o.op = STOP THEN f ELSE Write(f, ElemOf(o))
<1> DEFINE l == LineOf(o)
<1>1. Next1(c, f, l) = Copy(c, f, l)
  BY DEF Next1, LineOf, Text, CopyState
<1>2. UnmarshalJSON(l, opLog) = ElemOf(o) /\ UnmarshalJSON(l, f.elem) = ElemOf(o)
  BY OpDecoded, BlankElement DEF CopyState
<1>3. /\ ElemOf(o).stateRoot = NoRoot /\ ElemOf(o).postHash = NoRoot /\ ElemOf(o).op = o.op
      /\ Skipped(ElemOf(o)) <=> o.op = STOP
  BY DEF ElemOf, Skipped, Operation
<1> HIDE DEF l
<1>4. CASE c \in PrintsTwice
  <2>1. Copy(c, f, l) = Merging(f, l)
    BY <1>4 DEF PrintsTwice, Copy, GethCopy, NimbusCopy
  <2> QED
    BY <1>1, <1>2, <1>3, <1>4, <2>1 DEF Merging, l
<1>5. CASE c \in Keeping
  <2>1. Copy(c, f, l) = BesuCopy(f, l) \/ Copy(c, f, l) = RevmCopy(f, l)
    BY <1>5 DEF Keeping, Copy
  <2>2. c \notin PrintsTwice
    BY <1>5 DEF Keeping, PrintsTwice
  <2> QED
    BY <1>1, <1>2, <1>3, <1>5, <2>1, <2>2 DEF BesuCopy, RevmCopy, l
<1>6. CASE c \notin PrintsTwice /\ c \notin Keeping
  <2>1. Copy(c, f, l) = Plain(f, l)
    BY <1>6 DEF Keeping, PrintsTwice, Clients, Copy, NethermindCopy, ErigonCopy, EelsCopy, EvmoneCopy
  <2> QED
    BY <1>1, <1>2, <1>3, <1>6, <2>1 DEF Plain, l
<1> QED
  BY <1>4, <1>5, <1>6

\* What has been read when the lines of exec have been: all is written, or, from
\* a client that may print an operation twice, all but the last one.
LastReal(exec, j) ==
  /\ j \in DOMAIN exec /\ exec[j].op # STOP
  /\ \A k \in j + 1 .. Len(exec) : exec[k].op = STOP

Pending(c, f, exec, j) ==
  /\ c \in PrintsTwice
  /\ LastReal(exec, j)
  /\ f.prev = <<ElemOf(exec[j])>>
  /\ Append(f.out, CustomMarshal(exec[j])) = Marshalled(exec)

HasRead(c, f, exec) ==
  /\ f \in CopyState
  /\ \/ f.prev = <<>> /\ f.out = Marshalled(exec)
     \/ \E j \in DOMAIN exec : Pending(c, f, exec, j)

LEMMA StopRead ==
  ASSUME NEW c \in Clients, NEW exec \in Seq(Operation), NEW o \in Operation, o.op = STOP,
         NEW f, HasRead(c, f, exec), NEW chatty
  PROVE  HasRead(c, After(c, f, Texts1(c, o, chatty)), Append(exec, o))
<1> DEFINE e2 == Append(exec, o)
<1>1. Marshalled(e2) = Marshalled(exec)
  <2>1. Marshalled1(o) = <<>>
    BY DEF Marshalled1
  <2> QED
    BY <2>1, MarshalledAppend, ExecutionTypes, ConcatEmptySeq
<1>2. e2 \in Seq(Operation) /\ Len(e2) = Len(exec) + 1 /\ e2[Len(exec) + 1] = o
      /\ \A k \in DOMAIN exec : k \in DOMAIN e2 /\ e2[k] = exec[k]
  OBVIOUS
<1>3. \A j \in DOMAIN exec : LastReal(exec, j) => LastReal(e2, j)
  <2> SUFFICES ASSUME NEW j \in DOMAIN exec, LastReal(exec, j) PROVE LastReal(e2, j)
    OBVIOUS
  <2>1. ASSUME NEW k \in j + 1 .. Len(e2) PROVE e2[k].op = STOP
    <3>1. CASE k = Len(exec) + 1
      BY <1>2, <3>1
    <3>2. CASE k # Len(exec) + 1
      <4>1. k \in j + 1 .. Len(exec) /\ k \in DOMAIN exec
        BY <1>2, <3>2
      <4> QED
        BY <1>2, <4>1 DEF LastReal
    <3> QED
      BY <3>1, <3>2
  <2> HIDE DEF e2
  <2> QED
    BY <1>2, <2>1 DEF LastReal
<1> HIDE DEF e2
<1>4. ASSUME NEW g \in CopyState, g.prev = f.prev, g.out = f.out PROVE HasRead(c, g, e2)
  BY <1>1, <1>2, <1>3, <1>4 DEF HasRead, Pending
<1>5. ASSUME NEW g \in CopyState
      PROVE  Next1(c, g, LineOf(o)) \in CopyState
             /\ Next1(c, g, LineOf(o)).prev = g.prev /\ Next1(c, g, LineOf(o)).out = g.out
  <2>1. Next1(c, g, LineOf(o)) = g \/ Next1(c, g, LineOf(o)) = [g EXCEPT !.elem = ElemOf(o)]
    BY OpLine
  <2>2. ElemOf(o) \in Element
    BY BlankElement, OpDecoded
  <2> QED
    BY <2>1, <2>2 DEF CopyState
<1>6. f \in CopyState
  BY DEF HasRead
<1> DEFINE l == LineOf(o)
<1>7. Texts1(c, o, chatty) \in {<<>>, <<l>>, <<l, l>>}
  BY OneType DEF Texts1
<1> HIDE DEF l
<1>8. /\ After(c, f, <<>>) = f
      /\ After(c, f, <<l>>) = Next1(c, f, l)
      /\ After(c, f, <<l, l>>) = Next1(c, Next1(c, f, l), l)
  <2>1. <<l, l>> = Append(<<l>>, l) /\ <<l>> \in Seq({l}) /\ l \in {l}
    OBVIOUS
  <2>2. After(c, f, Append(<<l>>, l)) = Next1(c, After(c, f, <<l>>), l)
    BY <2>1, AfterAppend
  <2> QED
    BY <2>1, <2>2, AfterEmpty, AfterOne
<1> QED
  BY <1>4, <1>5, <1>6, <1>7, <1>8 DEF e2, l

LEMMA RealRead ==
  ASSUME NEW c \in Clients, NEW exec \in Seq(Operation), NEW o \in Operation, o.op # STOP,
         IsExecution(Append(exec, o)), NEW f, HasRead(c, f, exec), NEW chatty
  PROVE  HasRead(c, After(c, f, Texts1(c, o, chatty)), Append(exec, o))
<1> DEFINE e2 == Append(exec, o)
           e == ElemOf(o)
           l == LineOf(o)
           n == Len(exec) + 1
<1>1. /\ e2 \in Seq(Operation) /\ Len(e2) = n /\ e2[n] = o /\ n \in DOMAIN e2 /\ n \in Nat
      /\ \A k \in DOMAIN exec : k \in DOMAIN e2 /\ e2[k] = exec[k] /\ k < n
  OBVIOUS
<1>2. Marshalled(e2) = Append(Marshalled(exec), CustomMarshal(o))
  <2>1. Marshalled1(o) = <<CustomMarshal(o)>>
    BY DEF Marshalled1
  <2>2. Marshalled(e2) = Marshalled(exec) \o <<CustomMarshal(o)>>
    BY <2>1, MarshalledAppend
  <2>3. Marshalled(exec) \in Seq(OutLines) /\ CustomMarshal(o) \in OutLines
    BY ExecutionTypes DEF OutLines
  <2> QED
    BY <2>2, <2>3
<1>3. LastReal(e2, n)
  <2> HIDE DEF e2, n
  <2> QED
    BY <1>1 DEF LastReal
<1>4. e \in Element /\ CustomMarshal(e) = CustomMarshal(o) /\ CustomMarshal(e) \in OutLines
  BY BlankElement, OpDecoded DEF OutLines
<1>5. f \in CopyState
  BY DEF HasRead
<1>6. Texts1(c, o, chatty) = IF o.fails /\ c \in PrintsTwice THEN <<l, l>> ELSE <<l>>
  BY OneType DEF Texts1
<1>7. /\ After(c, f, <<l>>) = Next1(c, f, l)
      /\ After(c, f, <<l, l>>) = Next1(c, Next1(c, f, l), l)
  <2> HIDE DEF l
  <2>1. <<l, l>> = Append(<<l>>, l) /\ <<l>> \in Seq({l}) /\ l \in {l}
    OBVIOUS
  <2>2. After(c, f, Append(<<l>>, l)) = Next1(c, After(c, f, <<l>>), l)
    BY <2>1, AfterAppend
  <2> QED
    BY <2>1, <2>2, AfterOne
<1>8. CASE c \notin PrintsTwice
  <2>1. f.prev = <<>> /\ f.out = Marshalled(exec)
    BY <1>8 DEF HasRead, Pending
  <2> DEFINE g == Next1(c, f, l)
  <2>2. g = Write(f, e) \/ g = Write([f EXCEPT !.elem = e], e)
    BY <1>5, <1>8, OpLine
  <2> HIDE DEF g, e
  <2>3. g \in CopyState /\ g.prev = <<>> /\ g.out = Append(f.out, CustomMarshal(e))
    <3>1. /\ [f EXCEPT !.elem = e] \in CopyState
          /\ [f EXCEPT !.elem = e].prev = f.prev /\ [f EXCEPT !.elem = e].out = f.out
      BY <1>4, <1>5, ElemSet
    <3> DEFINE f1 == [f EXCEPT !.elem = e]
    <3> HIDE DEF f1
    <3>2. f1 \in CopyState /\ f1.prev = f.prev /\ f1.out = f.out
      BY <3>1 DEF f1
    <3>3. g = Write(f, e) \/ g = Write(f1, e)
      BY <2>2 DEF f1
    <3>4. CASE g = Write(f, e)
      BY <1>4, <1>5, <2>1, <3>4, Written
    <3>5. CASE g = Write(f1, e)
      BY <1>4, <2>1, <3>2, <3>5, Written
    <3> QED
      BY <3>3, <3>4, <3>5
  <2>4. After(c, f, Texts1(c, o, chatty)) = g
    BY <1>6, <1>7, <1>8 DEF g
  <2> HIDE DEF e2
  <2> QED
    BY <1>2, <1>4, <2>1, <2>3, <2>4 DEF HasRead, e2
<1>9. CASE c \in PrintsTwice
  <2> DEFINE g == Next1(c, f, l)
             h == Next1(c, g, l)
  <2>1. g = Yield(f, e)
    BY <1>5, <1>9, OpLine
  <2>2. g \in CopyState /\ g.prev = <<e>> /\ g.out = Marshalled(exec)
    <3> HIDE DEF g, e
    <3>1. CASE f.prev = <<>> /\ f.out = Marshalled(exec)
      <4>1. g = [f EXCEPT !.prev = <<e>>]
        BY <2>1, <3>1 DEF Yield
      <4>2. <<e>> \in Seq(Element)
        BY <1>4
      <4> QED
        BY <1>5, <3>1, <4>1, <4>2, PrevSet
    <3>2. ASSUME NEW j \in DOMAIN exec, Pending(c, f, exec, j)
          PROVE  g \in CopyState /\ g.prev = <<e>> /\ g.out = Marshalled(exec)
      <4> DEFINE p == ElemOf(exec[j])
      <4>1. NextReal(e2, j, n)
        <5>1. \A k \in j + 1 .. n - 1 : k \in DOMAIN exec /\ k \in j + 1 .. Len(exec)
          OBVIOUS
        <5> HIDE DEF e2
        <5> QED
          BY <1>1, <3>2, <5>1 DEF NextReal, Pending, LastReal
      <4>2. p.pc # e.pc \/ p.depth # e.depth
        <5>1. e2[j].pc # e2[n].pc \/ e2[j].depth # e2[n].depth
          <6> HIDE DEF e2, n
          <6> QED
            BY <1>1, <4>1 DEF IsExecution, e2
        <5> QED
          BY <1>1, <5>1 DEF ElemOf, e
      <4>3. f.prev = <<p>> /\ f.prev # <<>> /\ f.prev[1] = p
        BY <3>2 DEF Pending
      <4>4. p \in Element /\ CustomMarshal(p) = CustomMarshal(exec[j]) /\ CustomMarshal(p) \in OutLines
        <5>1. exec[j] \in Operation
          OBVIOUS
        <5> QED
          BY <5>1, BlankElement, OpDecoded DEF OutLines
      <4> HIDE DEF p
      <4>5. g = [Write(f, p) EXCEPT !.prev = <<e>>]
        BY <2>1, <4>2, <4>3 DEF Yield
      <4>6. g \in CopyState /\ g.prev = <<e>> /\ g.out = Append(f.out, CustomMarshal(p))
        <5>1. <<e>> \in Seq(Element)
          BY <1>4
        <5> DEFINE w == Write(f, p)
        <5>2. w \in CopyState /\ w.out = Append(f.out, CustomMarshal(p))
          BY <1>5, <4>4, Written
        <5> HIDE DEF w
        <5>3. g = [w EXCEPT !.prev = <<e>>]
          BY <4>5 DEF w
        <5> QED
          BY <5>1, <5>2, <5>3, PrevSet
      <4> QED
        BY <3>2, <4>4, <4>6 DEF Pending
    <3> QED
      BY <3>1, <3>2 DEF HasRead
  <2>3. h = Yield(g, e)
    <3> HIDE DEF g
    <3> QED
      BY <1>9, <2>2, OpLine
  <2> HIDE DEF g, h, e, e2, n
  <2>4. h \in CopyState /\ h.prev = <<>> /\ h.out = Append(Marshalled(exec), CustomMarshal(e))
    <3>1. g.prev # <<>> /\ g.prev[1] = e
      BY <2>2
    <3>2. h = [Write(g, e) EXCEPT !.prev = <<>>]
      BY <2>3, <3>1 DEF Yield
    <3> DEFINE w == Write(g, e)
    <3>3. w \in CopyState /\ w.out = Append(g.out, CustomMarshal(e))
      BY <1>4, <2>2, Written
    <3> HIDE DEF w
    <3>4. h = [w EXCEPT !.prev = <<>>]
      BY <3>2 DEF w
    <3>5. <<>> \in Seq(Element)
      OBVIOUS
    <3> QED
      BY <2>2, <3>3, <3>4, <3>5, PrevSet
  <2>5. HasRead(c, g, e2)
    <3>1. Pending(c, g, e2, n)
      BY <1>1, <1>2, <1>3, <1>9, <2>2 DEF Pending, e
    <3> QED
      BY <1>1, <2>2, <3>1 DEF HasRead
  <2>6. HasRead(c, h, e2)
    BY <1>2, <1>4, <2>4 DEF HasRead
  <2>7. After(c, f, Texts1(c, o, chatty)) \in {g, h}
    BY <1>6, <1>7 DEF g, h
  <2> QED
    BY <2>5, <2>6, <2>7 DEF e2
<1> QED
  BY <1>8, <1>9

\* The execution that has been executed so far is an execution.
LEMMA ExecutionFront ==
  ASSUME NEW exec \in Seq(Operation), NEW o \in Operation, IsExecution(Append(exec, o))
  PROVE  IsExecution(exec)
<1> DEFINE e2 == Append(exec, o)
<1>1. \A k \in DOMAIN exec : k \in DOMAIN e2 /\ e2[k] = exec[k]
  OBVIOUS
<1>2. ASSUME NEW i \in DOMAIN exec, NEW j \in DOMAIN exec, NextReal(exec, i, j)
      PROVE  NextReal(e2, i, j)
  <2>1. \A k \in i + 1 .. j - 1 : k \in DOMAIN exec
    OBVIOUS
  <2> HIDE DEF e2
  <2> QED
    BY <1>1, <1>2, <2>1 DEF NextReal
<1> HIDE DEF e2
<1> QED
  BY <1>1, <1>2 DEF IsExecution, e2

LEMMA ExecutionRead ==
  ASSUME NEW c \in Clients, NEW exec, IsExecution(exec), NEW chatty
  PROVE  HasRead(c, After(c, NewCopy, ExecTexts(c, exec, chatty)), exec)
<1> DEFINE Good(e) == HasRead(c, After(c, NewCopy, ExecTexts(c, e, chatty)), e)
           P == {n \in Nat : \A e \in Seq(Operation) : Len(e) = n /\ IsExecution(e) => Good(e)}
<1>1. 0 \in P
  <2> SUFFICES ASSUME NEW e \in Seq(Operation), Len(e) = 0 PROVE Good(e)
    OBVIOUS
  <2>1. e = <<>>
    BY EmptySeq
  <2>2. Marshalled(<<>>) = <<>> /\ ExecTexts(c, <<>>, chatty) = <<>>
    <3>1. Marshalled(<<>>) = FlattenSeq([i \in DOMAIN <<>> |-> Marshalled1(<<>>[i])])
      BY DEF Marshalled
    <3>2. ExecTexts(c, <<>>, chatty) = FlattenSeq([i \in DOMAIN <<>> |-> Texts1(c, <<>>[i], chatty)])
      BY ExecTextsIs
    <3>3. FlattenSeq(<<>>) = <<>>
      BY DEF FlattenSeq
    <3>4. /\ [i \in DOMAIN <<>> |-> Marshalled1(<<>>[i])] = <<>>
          /\ [i \in DOMAIN <<>> |-> Texts1(c, <<>>[i], chatty)] = <<>>
      OBVIOUS
    <3> QED
      BY <3>1, <3>2, <3>3, <3>4
  <2>3. NewCopy.prev = <<>> /\ NewCopy.out = <<>>
    BY DEF NewCopy
  <2>4. HasRead(c, NewCopy, <<>>)
    BY <2>2, <2>3, NewCopyState DEF HasRead
  <2> QED
    BY <2>1, <2>2, <2>4, AfterEmpty
<1>2. ASSUME NEW n \in Nat, n \in P PROVE n + 1 \in P
  <2> SUFFICES ASSUME NEW e \in Seq(Operation), Len(e) = n + 1, IsExecution(e) PROVE Good(e)
    OBVIOUS
  <2>1. PICK t \in Seq(Operation), o \in Operation : e = Append(t, o) /\ Len(e) = Len(t) + 1
    <3>1. e # <<>>
      BY EmptySeq
    <3> QED
      BY <3>1, Split
  <2>2. Len(t) = n /\ IsExecution(t)
    BY <2>1, ExecutionFront
  <2> DEFINE f == After(c, NewCopy, ExecTexts(c, t, chatty))
  <2>3. HasRead(c, f, t)
    BY <1>2, <2>2
  <2>4. HasRead(c, After(c, f, Texts1(c, o, chatty)), e)
    <3> HIDE DEF f
    <3> QED
      BY <2>1, <2>3, StopRead, RealRead
  <2>5. After(c, f, Texts1(c, o, chatty)) = After(c, NewCopy, ExecTexts(c, t, chatty) \o Texts1(c, o, chatty))
    <3>1. ExecTexts(c, t, chatty) \in Seq(InLines) /\ Texts1(c, o, chatty) \in Seq(InLines)
      BY ExecutionTypes, OneType
    <3> QED
      BY <3>1, AfterConcat
  <2>6. ExecTexts(c, e, chatty) = ExecTexts(c, t, chatty) \o Texts1(c, o, chatty)
    BY <2>1, TextsAppend
  <2> HIDE DEF f
  <2> QED
    BY <2>4, <2>5, <2>6
<1>3. \A n \in Nat : n \in P
  <2> HIDE DEF P
  <2> QED
    BY <1>1, <1>2, SetInduction
<1>4. exec \in Seq(Operation) /\ Len(exec) \in Nat
  BY DEF IsExecution
<1> QED
  BY <1>3, <1>4

-----------------------------------------------------------------------------
(* The last lines of a trace, and the text that becomes of all of them.     *)

Copies(E, R) == [elem : E, prev : Seq(Element), out : Seq(OutLines), root : R]

\* The end of a loop writes what is pending and then the root.
LEMMA EndedOut ==
  ASSUME NEW E, NEW R, NEW g \in Copies(E, R)
  PROVE  Ended1(g).out = IF g.prev = <<>> THEN Append(g.out, Root(g.root))
                         ELSE Append(Append(g.out, CustomMarshal(g.prev[1])), Root(g.root))
<1>1. CASE g.prev = <<>>
  BY <1>1 DEF Copies, Ended1, Flush
<1>2. CASE g.prev # <<>>
  <2> DEFINE w == [Write(g, g.prev[1]) EXCEPT !.prev = <<>>]
  <2>1. w.out = Append(g.out, CustomMarshal(g.prev[1])) /\ "out" \in DOMAIN w
    BY DEF Copies, Write
  <2>2. Flush(g) = w
    BY <1>2 DEF Flush
  <2> HIDE DEF w
  <2> QED
    BY <1>2, <2>1, <2>2 DEF Ended1
<1> QED
  BY <1>1, <1>2

\* g is f but for the scanned element and the root.
Ready(f, g, r) == \E E : g \in Copies(E, {r}) /\ g.prev = f.prev /\ g.out = f.out

LEMMA EndedRead ==
  ASSUME NEW c \in Clients, NEW exec, IsExecution(exec), NEW f, HasRead(c, f, exec),
         NEW r, NEW g, Ready(f, g, r)
  PROVE  Ended1(g).out = Canonical(exec, r)
<1> PICK E : g \in Copies(E, {r}) /\ g.prev = f.prev /\ g.out = f.out
  BY DEF Ready
<1> DEFINE m == Marshalled(exec)
<1>1. m \in Seq(OutLines)
  BY ExecutionTypes DEF IsExecution
<1>2. Canonical(exec, r) = m \o <<Root(r)>>
  BY CanonicalIs
<1>3. m \o <<Root(r)>> = Append(m, Root(r))
  <2> DEFINE T == OutLines \cup {Root(r)}
  <2>1. m \in Seq(T) /\ Root(r) \in T
    BY <1>1
  <2> HIDE DEF m, T
  <2> QED
    BY <2>1
<1>0. Ended1(g).out = IF g.prev = <<>> THEN Append(g.out, Root(r))
                      ELSE Append(Append(g.out, CustomMarshal(g.prev[1])), Root(r))
  <2>1. g.root = r
    BY DEF Copies
  <2> QED
    BY <2>1, EndedOut
<1>4. CASE f.prev = <<>> /\ f.out = m
  BY <1>0, <1>2, <1>3, <1>4
<1>5. ASSUME NEW j \in DOMAIN exec, Pending(c, f, exec, j)
      PROVE  Ended1(g).out = Canonical(exec, r)
  <2>1. f.prev # <<>> /\ f.prev[1] = ElemOf(exec[j])
    BY <1>5 DEF Pending
  <2>2. CustomMarshal(ElemOf(exec[j])) = CustomMarshal(exec[j])
    BY OpDecoded, BlankElement DEF IsExecution
  <2> HIDE DEF m
  <2>3. Append(f.out, CustomMarshal(exec[j])) = m
    BY <1>5 DEF Pending, m
  <2> QED
    BY <1>0, <1>2, <1>3, <2>1, <2>2, <2>3
<1> QED
  BY <1>4, <1>5 DEF HasRead

LEMMA SummaryRead ==
  ASSUME NEW c \in PrintsSummary, NEW f \in CopyState
  PROVE  Next1(c, f, Summary) = f
<1> DEFINE e == UnmarshalJSON(Summary, opLog)
<1>1. e.stateRoot = NoRoot /\ Skipped(e)
  BY EndDecoded, BlankElement DEF Skipped, opLog
<1> HIDE DEF e
<1>2. Plain(f, Summary) = f /\ Merging(f, Summary) = f
  BY <1>1 DEF Plain, Merging, e
<1>3. Copy(c, f, Summary) = f
  BY <1>2 DEF PrintsSummary, Clients, Copy, GethCopy, NimbusCopy, NethermindCopy, ErigonCopy, EelsCopy
<1> QED
  BY <1>3 DEF Next1

LEMMA RootRead ==
  ASSUME NEW c \in Clients, NEW f \in CopyState, NEW r, r # NoRoot
  PROVE  Ready(f, Next1(c, f, RootText(c, r)), r)
<1> DEFINE l == RootText(c, r)
           e == UnmarshalJSON(l, f.elem)
           h == UnmarshalJSON(l, opLog)
<1>1. Next1(c, f, l) = Copy(c, f, l)
  BY DEF Next1, RootText, Text, CopyState
<1>2. f.elem \in Element /\ opLog \in Element
  BY BlankElement DEF CopyState
<1>3. c # "besu" => e.stateRoot = r /\ h.stateRoot = r
  BY <1>2, EndDecoded DEF RootText
<1>4. c = "besu" => e.stateRoot = NoRoot /\ e.postHash = r
  BY <1>2, EndDecoded DEF RootText
<1> HIDE DEF l, e, h
<1>5. Ready(f, [f EXCEPT !.root = r], r) /\ Ready(f, [[f EXCEPT !.elem = e] EXCEPT !.root = r], r)
  <2>1. /\ [f EXCEPT !.root = r] \in Copies({e, f.elem}, {r})
        /\ [[f EXCEPT !.elem = e] EXCEPT !.root = r] \in Copies({e, f.elem}, {r})
    BY DEF CopyState, Copies
  <2>2. /\ [f EXCEPT !.root = r].prev = f.prev /\ [f EXCEPT !.root = r].out = f.out
        /\ [[f EXCEPT !.elem = e] EXCEPT !.root = r].prev = f.prev
        /\ [[f EXCEPT !.elem = e] EXCEPT !.root = r].out = f.out
    BY DEF CopyState
  <2> QED
    BY <2>1, <2>2 DEF Ready
<1>6. CASE c \in Keeping
  <2>1. Copy(c, f, l) = [[f EXCEPT !.elem = e] EXCEPT !.root = r]
    BY <1>3, <1>4, <1>6 DEF Keeping, Copy, BesuCopy, RevmCopy, e
  <2> QED
    BY <1>1, <1>5, <2>1 DEF l
<1>7. CASE c \notin Keeping
  <2>1. Merging(f, l) = [f EXCEPT !.root = r] /\ Plain(f, l) = [f EXCEPT !.root = r]
    BY <1>3, <1>7 DEF Keeping, Merging, Plain, h
  <2>2. Copy(c, f, l) = [f EXCEPT !.root = r]
    BY <1>7, <2>1 DEF Keeping, Clients, Copy, GethCopy, NimbusCopy, NethermindCopy, ErigonCopy,
                      EelsCopy, EvmoneCopy
  <2> QED
    BY <1>1, <1>5, <2>2 DEF l
<1> QED
  BY <1>6, <1>7

\* The lines around the execution are passed over.
LEMMA TraceRead ==
  ASSUME NEW c \in Clients, NEW exec, IsExecution(exec), NEW r, NEW chatty
  PROVE  \E f : /\ HasRead(c, f, exec)
                /\ After(c, NewCopy, TraceTexts(c, exec, r, chatty))
                     = IF r = NoRoot THEN f ELSE Next1(c, f, RootText(c, r))
<1> DEFINE junk == IF chatty THEN <<Junk>> ELSE <<>>
           ops  == ExecTexts(c, exec, chatty)
           sum  == IF chatty /\ c \in PrintsSummary THEN <<Summary>> ELSE <<>>
           last == IF r = NoRoot THEN <<>> ELSE <<RootText(c, r)>>
           T    == InLines \cup {Junk, Summary, RootText(c, r)}
           f    == After(c, NewCopy, ops)
<1>1. junk \in Seq(T) /\ ops \in Seq(T) /\ sum \in Seq(T) /\ last \in Seq(T)
  <2>1. ops \in Seq(InLines)
    BY ExecutionTypes DEF IsExecution
  <2> HIDE DEF ops
  <2>2. ops \in Seq(T)
    BY <2>1
  <2>3. /\ Junk \in T /\ Summary \in T /\ RootText(c, r) \in T
        /\ \A x \in T : <<x>> \in Seq(T)
        /\ <<>> \in Seq(T)
    OBVIOUS
  <2> HIDE DEF T
  <2> QED
    BY <2>2, <2>3
<1>2. TraceTexts(c, exec, r, chatty) = junk \o ops \o sum \o last
  BY DEF TraceTexts
<1>3. HasRead(c, f, exec)
  BY ExecutionRead
<1>4. f \in CopyState
  BY <1>3 DEF HasRead
<1>5. After(c, NewCopy, junk) = NewCopy
  BY AfterEmpty, AfterOne DEF Next1, Junk
<1>6. After(c, f, sum) = f
  <2> HIDE DEF f
  <2> QED
    BY <1>4, AfterEmpty, AfterOne, SummaryRead
<1>7. After(c, f, last) = IF r = NoRoot THEN f ELSE Next1(c, f, RootText(c, r))
  <2> HIDE DEF f
  <2> QED
    BY AfterEmpty, AfterOne
<1> HIDE DEF junk, ops, sum, last, T
<1> DEFINE jo  == junk \o ops
           jos == jo \o sum
<1>8. jo \in Seq(T) /\ jos \in Seq(T)
  BY <1>1
<1>9. After(c, NewCopy, jo) = f
  BY <1>1, <1>5, AfterConcat DEF f
<1> HIDE DEF jo, f
<1>10. After(c, NewCopy, jos) = f
  BY <1>1, <1>6, <1>8, <1>9, AfterConcat
<1> HIDE DEF jos
<1>11. After(c, NewCopy, jos \o last) = After(c, f, last)
  BY <1>1, <1>8, <1>10, AfterConcat
<1> QED
  BY <1>2, <1>3, <1>7, <1>11 DEF jo, jos

LEMMA FilteredIs ==
  ASSUME NEW c, NEW lines
  PROVE  Filtered(c, lines) = Ended1(After(c, NewCopy, lines)).out
<1> DEFINE x == Ended1(After(c, NewCopy, lines)).out
<1>1. \A y : y \in {Ended1(After(c, NewCopy, raw)).out : raw \in {lines}} <=> y = x
  OBVIOUS
<1> QED
  BY <1>1 DEF Filtered

\* Whatever a client prints of an execution - comments, STOPs, the repetition of
\* failing operations, a summary, its form of the root - the filter of that client
\* makes the one canonical text of it: the executed operations in order, each once,
\* and the root, or an empty root when none was printed.
THEOREM FilterCanonical ==
  ASSUME NEW c \in Clients, NEW exec, IsExecution(exec), NEW r, NEW chatty
  PROVE  Filtered(c, TraceTexts(c, exec, r, chatty)) = Canonical(exec, r)
<1> DEFINE lines == TraceTexts(c, exec, r, chatty)
<1>1. PICK f : HasRead(c, f, exec)
               /\ After(c, NewCopy, lines) = IF r = NoRoot THEN f ELSE Next1(c, f, RootText(c, r))
  BY TraceRead
<1>2. f \in CopyState
  BY <1>1 DEF HasRead
<1>3. Filtered(c, lines) = Ended1(After(c, NewCopy, lines)).out
  BY FilteredIs
<1>4. CASE r = NoRoot
  <2>1. f \in Copies(Element, {NoRoot})
    BY <1>2 DEF CopyState, Copies
  <2>2. Ready(f, f, r)
    BY <1>4, <2>1 DEF Ready
  <2> HIDE DEF lines
  <2>3. Filtered(c, lines) = Canonical(exec, r)
    BY <1>1, <1>3, <1>4, <2>2, EndedRead
  <2> QED
    BY <2>3 DEF lines
<1>5. CASE r # NoRoot
  <2> HIDE DEF lines
  <2>1. Filtered(c, lines) = Canonical(exec, r)
    BY <1>1, <1>2, <1>3, <1>5, RootRead, EndedRead
  <2> QED
    BY <2>1 DEF lines
<1> QED
  BY <1>4, <1>5

-----------------------------------------------------------------------------
(* A filter stopped anywhere: what it has written by then.                 *)

\* A loop has ended when it has a root.
LEMMA RootStays ==
  ASSUME NEW S, NEW lines \in Seq(S), NEW c, NEW f, f.root # NoRoot
  PROVE  After(c, f, lines) = f
<1> DEFINE P == {n \in Nat : \A l \in Seq(S) : Len(l) = n => After(c, f, l) = f}
<1>1. 0 \in P
  BY AfterEmpty, EmptySeq
<1>2. ASSUME NEW n \in Nat, n \in P PROVE n + 1 \in P
  <2> SUFFICES ASSUME NEW l \in Seq(S), Len(l) = n + 1 PROVE After(c, f, l) = f
    OBVIOUS
  <2>1. PICK t \in Seq(S), x \in S : l = Append(t, x) /\ Len(l) = Len(t) + 1
    <3>1. l # <<>>
      BY EmptySeq
    <3> QED
      BY <3>1, Split
  <2>2. After(c, f, t) = f
    <3>1. Len(t) = n
      BY <2>1
    <3> QED
      BY <1>2, <3>1
  <2>3. After(c, f, l) = Next1(c, After(c, f, t), x)
    BY <2>1, AfterAppend
  <2> QED
    BY <2>2, <2>3 DEF Next1
<1>3. \A n \in Nat : n \in P
  <2> HIDE DEF P
  <2> QED
    BY <1>1, <1>2, SetInduction
<1> QED
  BY <1>3

IsSeq(s) == \E S : s \in Seq(S)

LEMMA SeqAppend ==
  ASSUME NEW s, IsSeq(s), NEW x
  PROVE  IsSeq(Append(s, x)) /\ IsPrefix(s, Append(s, x))
<1>1. PICK S : s \in Seq(S)
  BY DEF IsSeq
<1> DEFINE T == S \cup {x}
<1>2. s \in Seq(T) /\ x \in T
  BY <1>1
<1> HIDE DEF T
<1>3. Append(s, x) \in Seq(T) /\ Len(Append(s, x)) = Len(s) + 1 /\ Len(s) \in Nat
      /\ \A i \in 1 .. Len(s) : Append(s, x)[i] = s[i]
  BY <1>2
<1>4. SubSeq(s, 1, Len(s)) = SubSeq(Append(s, x), 1, Len(s))
  BY <1>2, <1>3
<1> QED
  BY <1>3, <1>4 DEF IsSeq, IsPrefix

LEMMA PrefixTransitive ==
  ASSUME NEW s, NEW t, NEW u, IsSeq(s), IsSeq(t), IsSeq(u), IsPrefix(s, t), IsPrefix(t, u)
  PROVE  IsPrefix(s, u)
<1>1. PICK S, T, U : s \in Seq(S) /\ t \in Seq(T) /\ u \in Seq(U)
  BY DEF IsSeq
<1>2. Len(s) \in Nat /\ Len(t) \in Nat /\ Len(u) \in Nat /\ Len(s) <= Len(t) /\ Len(t) <= Len(u)
  BY <1>1 DEF IsPrefix
<1>3. ASSUME NEW i \in 1 .. Len(s) PROVE s[i] = u[i]
  <2>1. SubSeq(s, 1, Len(s))[i] = s[i] /\ SubSeq(t, 1, Len(s))[i] = t[i]
    BY <1>1, <1>2
  <2>2. SubSeq(t, 1, Len(t))[i] = t[i] /\ SubSeq(u, 1, Len(t))[i] = u[i]
    BY <1>1, <1>2
  <2> QED
    BY <2>1, <2>2 DEF IsPrefix
<1>4. SubSeq(s, 1, Len(s)) = [i \in 1 .. Len(s) |-> s[i]]
      /\ SubSeq(u, 1, Len(s)) = [i \in 1 .. Len(s) |-> u[i]]
  BY <1>1, <1>2
<1> QED
  BY <1>2, <1>3, <1>4 DEF IsPrefix

LEMMA PrefixReflexive == ASSUME NEW s, IsSeq(s) PROVE IsPrefix(s, s)
BY DEF IsSeq, IsPrefix

\* What the filter would have written if it stopped at f.
OutOf(f) == Flush(f).out

CopyShape(f) == DOMAIN f = {"elem", "prev", "out", "root"} /\ f = [x \in DOMAIN f |-> f[x]] /\ IsSeq(f.out)

LEMMA OutIs ==
  ASSUME NEW f, CopyShape(f)
  PROVE  /\ OutOf(f) = IF f.prev = <<>> THEN f.out ELSE Append(f.out, CustomMarshal(f.prev[1]))
         /\ IsSeq(OutOf(f))
         /\ Ended1(f).out = Append(OutOf(f), Root(f.root))
<1>1. CASE f.prev = <<>>
  BY <1>1 DEF OutOf, Flush, CopyShape, Ended1
<1>2. CASE f.prev # <<>>
  <2> DEFINE w == Write(f, f.prev[1])
             g == [w EXCEPT !.prev = <<>>]
  <2>1. w.out = Append(f.out, CustomMarshal(f.prev[1])) /\ DOMAIN w = DOMAIN f
    BY DEF Write, CopyShape
  <2>2. g.out = w.out /\ DOMAIN g = DOMAIN f
    BY <2>1 DEF CopyShape
  <2>3. Flush(f) = g
    BY <1>2 DEF Flush
  <2> HIDE DEF w, g
  <2>4. OutOf(f) = Append(f.out, CustomMarshal(f.prev[1]))
    BY <2>1, <2>2, <2>3 DEF OutOf
  <2>5. Ended1(f).out = Append(g.out, Root(f.root))
    BY <2>2, <2>3 DEF Ended1, CopyShape
  <2>6. IsSeq(OutOf(f))
    BY <2>4, SeqAppend DEF CopyShape
  <2> QED
    BY <1>2, <2>1, <2>2, <2>4, <2>5, <2>6
<1> QED
  BY <1>1, <1>2

\* Only geth's filter and nimbus' have a pending element.
Shape(c, f) == CopyShape(f) /\ (c \notin PrintsTwice => f.prev = <<>>)

\* g is f but for the scanned element and the root.
Near(f, g) == CopyShape(g) /\ g.prev = f.prev /\ g.out = f.out
Grows(c, f, g) == Shape(c, g) /\ IsPrefix(OutOf(f), OutOf(g))

LEMMA NearStep ==
  ASSUME NEW f, NEW g, Near(f, g), NEW x
  PROVE  Near(f, [g EXCEPT !.elem = x]) /\ Near(f, [g EXCEPT !.root = x])
BY DEF Near, CopyShape

LEMMA NearGrows == ASSUME NEW c, NEW f, Shape(c, f), NEW g, Near(f, g) PROVE Grows(c, f, g)
<1>1. OutOf(g) = OutOf(f) /\ IsSeq(OutOf(f))
  BY OutIs DEF Near, Shape
<1> QED
  BY <1>1, PrefixReflexive DEF Near, Shape, Grows

LEMMA WriteGrows ==
  ASSUME NEW c, c \notin PrintsTwice, NEW f, Shape(c, f), NEW g, Near(f, g), NEW e
  PROVE  Grows(c, f, Write(g, e))
<1> DEFINE w == Write(g, e)
<1>1. g.prev = <<>> /\ IsSeq(g.out) /\ CopyShape(g) /\ g.out = f.out /\ f.prev = <<>>
  BY DEF Near, Shape, CopyShape
<1>2. w.out = Append(g.out, CustomMarshal(e)) /\ w.prev = <<>> /\ DOMAIN w = DOMAIN g
      /\ w = [x \in DOMAIN w |-> w[x]]
  BY <1>1 DEF Write, CopyShape
<1> HIDE DEF w
<1>3. IsSeq(w.out) /\ IsPrefix(g.out, w.out)
  BY <1>1, <1>2, SeqAppend
<1>4. Shape(c, w)
  BY <1>1, <1>2, <1>3 DEF Shape, CopyShape
<1>5. OutOf(w) = w.out /\ OutOf(f) = g.out
  BY <1>1, <1>2, <1>4, OutIs DEF Shape
<1> QED
  BY <1>3, <1>4, <1>5 DEF Grows, w

LEMMA YieldGrows ==
  ASSUME NEW c \in PrintsTwice, NEW f, Shape(c, f), NEW e
  PROVE  Grows(c, f, Yield(f, e))
<1> DEFINE g == Yield(f, e)
<1>1. CopyShape(f) /\ IsSeq(f.out)
  BY DEF Shape, CopyShape
<1>2. CASE f.prev = <<>>
  <2>1. g = [f EXCEPT !.prev = <<e>>]
    BY <1>2 DEF Yield
  <2>2. g.prev = <<e>> /\ g.out = f.out /\ DOMAIN g = DOMAIN f /\ g = [x \in DOMAIN g |-> g[x]]
    BY <1>1, <2>1 DEF CopyShape
  <2> HIDE DEF g
  <2>3. CopyShape(g) /\ g.prev # <<>>
    BY <1>1, <2>2 DEF CopyShape
  <2>4. OutOf(g) = Append(f.out, CustomMarshal(g.prev[1])) /\ OutOf(f) = f.out
    BY <1>1, <1>2, <2>2, <2>3, OutIs
  <2> QED
    BY <1>1, <2>3, <2>4, SeqAppend DEF Grows, Shape, g
<1>3. CASE f.prev # <<>>
  <2> DEFINE w == Write(f, f.prev[1])
             new == IF f.prev[1].pc = e.pc /\ f.prev[1].depth = e.depth THEN <<>> ELSE <<e>>
  <2>1. w.out = Append(f.out, CustomMarshal(f.prev[1])) /\ DOMAIN w = DOMAIN f
        /\ w = [x \in DOMAIN w |-> w[x]]
    BY <1>1 DEF Write, CopyShape
  <2>2. g = [w EXCEPT !.prev = new]
    BY <1>3 DEF Yield
  <2>3. new = <<>> \/ new = <<e>>
    OBVIOUS
  <2> HIDE DEF w, new, g
  <2>4. g.prev = new /\ g.out = w.out /\ DOMAIN g = DOMAIN f /\ g = [x \in DOMAIN g |-> g[x]]
    BY <1>1, <2>1, <2>2 DEF CopyShape
  <2>5. IsSeq(w.out) /\ OutOf(f) = w.out
    BY <1>1, <1>3, <2>1, OutIs
  <2>6. CopyShape(g)
    BY <1>1, <2>4, <2>5 DEF CopyShape
  <2>7. OutOf(g) = w.out \/ OutOf(g) = Append(w.out, CustomMarshal(g.prev[1]))
    BY <2>4, <2>6, OutIs
  <2>8. IsPrefix(w.out, OutOf(g))
    BY <2>5, <2>7, SeqAppend, PrefixReflexive
  <2> QED
    BY <2>5, <2>6, <2>8 DEF Grows, Shape, g
<1> QED
  BY <1>2, <1>3

\* A line adds to what would have been written, or leaves it.
LEMMA NextGrows ==
  ASSUME NEW c \in Clients, NEW f, Shape(c, f), NEW line
  PROVE  Grows(c, f, Next1(c, f, line))
<1>1. Near(f, f)
  BY DEF Near, Shape
<1>2. \A x : Near(f, [f EXCEPT !.elem = x]) /\ Near(f, [f EXCEPT !.root = x])
  BY <1>1, NearStep
<1>3. \A x, y : Near(f, [[f EXCEPT !.elem = x] EXCEPT !.root = y])
  BY <1>2, NearStep
<1>4. CASE c \in PrintsTwice
  <2>1. Copy(c, f, line) = Merging(f, line)
    BY <1>4 DEF PrintsTwice, Copy, GethCopy, NimbusCopy
  <2>2. Grows(c, f, Merging(f, line))
    BY <1>1, <1>2, <1>4, NearGrows, YieldGrows DEF Merging
  <2> QED
    BY <1>1, <2>1, <2>2, NearGrows DEF Next1
<1>5. CASE c \in Keeping
  <2>1. c \notin PrintsTwice
    BY <1>5 DEF Keeping, PrintsTwice
  <2>2. Copy(c, f, line) = BesuCopy(f, line) \/ Copy(c, f, line) = RevmCopy(f, line)
    BY <1>5 DEF Keeping, Copy
  <2> DEFINE e == UnmarshalJSON(line, f.elem)
             g == [f EXCEPT !.elem = e]
  <2>3. Near(f, g) /\ \A y : Near(f, [g EXCEPT !.root = y])
    <3> HIDE DEF e
    <3> QED
      BY <1>2, <1>3, Zenon
  <2>4. /\ BesuCopy(f, line) \in {g, Write(g, e), [g EXCEPT !.root = e.stateRoot],
                                  [g EXCEPT !.root = e.postHash]}
        /\ RevmCopy(f, line) \in {g, Write(g, e), [g EXCEPT !.root = e.stateRoot]}
    BY DEF BesuCopy, RevmCopy
  <2> HIDE DEF e, g
  <2>5. Grows(c, f, BesuCopy(f, line)) /\ Grows(c, f, RevmCopy(f, line))
    BY <2>1, <2>3, <2>4, NearGrows, WriteGrows
  <2> QED
    BY <1>1, <2>2, <2>5, NearGrows DEF Next1
<1>6. CASE c \notin PrintsTwice /\ c \notin Keeping
  <2>1. Copy(c, f, line) = Plain(f, line)
    BY <1>6 DEF Keeping, PrintsTwice, Clients, Copy, NethermindCopy, ErigonCopy, EelsCopy, EvmoneCopy
  <2>2. Grows(c, f, Plain(f, line))
    BY <1>1, <1>2, <1>6, NearGrows, WriteGrows DEF Plain
  <2> QED
    BY <1>1, <2>1, <2>2, NearGrows DEF Next1
<1> QED
  BY <1>4, <1>5, <1>6

LEMMA AfterGrows ==
  ASSUME NEW c \in Clients, NEW f, Shape(c, f), NEW S, NEW lines \in Seq(S)
  PROVE  Grows(c, f, After(c, f, lines))
<1> DEFINE P == {n \in Nat : \A l \in Seq(S) : Len(l) = n => Grows(c, f, After(c, f, l))}
<1>1. 0 \in P
  <2>1. Grows(c, f, f)
    BY NearGrows DEF Near, Shape
  <2> QED
    BY <2>1, AfterEmpty, EmptySeq
<1>2. ASSUME NEW n \in Nat, n \in P PROVE n + 1 \in P
  <2> SUFFICES ASSUME NEW l \in Seq(S), Len(l) = n + 1 PROVE Grows(c, f, After(c, f, l))
    OBVIOUS
  <2>1. PICK t \in Seq(S), x \in S : l = Append(t, x) /\ Len(l) = Len(t) + 1
    <3>1. l # <<>>
      BY EmptySeq
    <3> QED
      BY <3>1, Split
  <2> DEFINE g == After(c, f, t)
             h == Next1(c, g, x)
  <2>2. Grows(c, f, g)
    <3>1. Len(t) = n
      BY <2>1
    <3> QED
      BY <1>2, <3>1
  <2>3. After(c, f, l) = h
    BY <2>1, AfterAppend
  <2> HIDE DEF g
  <2>4. Grows(c, g, h)
    BY <2>2, NextGrows DEF Grows
  <2> HIDE DEF h
  <2>5. IsSeq(OutOf(f)) /\ IsSeq(OutOf(g)) /\ IsSeq(OutOf(h))
    BY <2>2, <2>4, OutIs DEF Grows, Shape
  <2>6. IsPrefix(OutOf(f), OutOf(h))
    BY <2>2, <2>4, <2>5, PrefixTransitive DEF Grows
  <2> QED
    BY <2>3, <2>4, <2>6 DEF Grows
<1>3. \A n \in Nat : n \in P
  <2> HIDE DEF P
  <2> QED
    BY <1>1, <1>2, SetInduction
<1> QED
  BY <1>3

LEMMA NewShape == ASSUME NEW c PROVE Shape(c, NewCopy)
<1>1. IsSeq(<<>>)
  <2>1. <<>> \in Seq({})
    OBVIOUS
  <2> QED
    BY <2>1 DEF IsSeq
<1> QED
  BY <1>1 DEF Shape, CopyShape, NewCopy

\* A trace without its root, and the root as its last line.
TraceLines(c, r) == InLines \cup {Junk, Summary, RootText(c, r)}

LEMMA TraceEnds ==
  ASSUME NEW c \in Clients, NEW exec, IsExecution(exec), NEW r, r # NoRoot, NEW chatty
  PROVE  LET front == TraceTexts(c, exec, NoRoot, chatty)
         IN  /\ front \in Seq(TraceLines(c, r))
             /\ TraceTexts(c, exec, r, chatty) = Append(front, RootText(c, r))
             /\ After(c, NewCopy, front).root = NoRoot
<1> DEFINE junk == IF chatty THEN <<Junk>> ELSE <<>>
           ops  == ExecTexts(c, exec, chatty)
           sum  == IF chatty /\ c \in PrintsSummary THEN <<Summary>> ELSE <<>>
           T    == TraceLines(c, r)
           jos  == (junk \o ops) \o sum
           front == TraceTexts(c, exec, NoRoot, chatty)
<1>1. ops \in Seq(T)
  <2>1. ops \in Seq(InLines)
    BY ExecutionTypes DEF IsExecution
  <2> HIDE DEF ops
  <2> QED
    BY <2>1 DEF TraceLines
<1>2. junk \in Seq(T) /\ sum \in Seq(T) /\ RootText(c, r) \in T
  <2>1. Junk \in T /\ Summary \in T /\ RootText(c, r) \in T
    BY DEF TraceLines
  <2> HIDE DEF T
  <2> QED
    BY <2>1
<1>3. TraceTexts(c, exec, r, chatty) = jos \o <<RootText(c, r)>> /\ front = jos \o <<>>
  BY DEF TraceTexts
<1> HIDE DEF junk, ops, sum, T
<1>4. jos \in Seq(T)
  BY <1>1, <1>2
<1> HIDE DEF jos, front
<1>5. jos \o <<>> = jos /\ jos \o <<RootText(c, r)>> = Append(jos, RootText(c, r))
  BY <1>2, <1>4
<1>6. After(c, NewCopy, front).root = NoRoot
  <2>1. PICK f : HasRead(c, f, exec) /\ After(c, NewCopy, front) = f
    BY TraceRead DEF front
  <2> QED
    BY <2>1 DEF HasRead, CopyState
<1> QED
  BY <1>3, <1>4, <1>5, <1>6 DEF front, T

-----------------------------------------------------------------------------
(* The comparison.                                                          *)

\* The texts are equal exactly when CompareFiles finds no difference, which looks
\* for one only as long as the first file lasts, and one line further: no line that
\* is written is the "EOF" of a file that has ended.
THEOREM CompareExact ==
  ASSUME NEW T, EOF \notin T, NEW files \in Seq(Seq(T)), files # <<>>
  PROVE  CompareFiles(files) <=> \A k \in DOMAIN files : files[k] = files[1]
<1>1. DOMAIN files = 1 .. Len(files) /\ 1 \in 1 .. Len(files) /\ Len(files) \in Nat
  OBVIOUS
<1>2. ASSUME \A k \in DOMAIN files : files[k] = files[1] PROVE CompareFiles(files)
  BY <1>1, <1>2 DEF CompareFiles, Differs
<1>3. ASSUME CompareFiles(files), NEW k \in DOMAIN files PROVE files[k] = files[1]
  <2> DEFINE a == files[1]
             b == files[k]
  <2>1. a \in Seq(T) /\ b \in Seq(T)
    BY <1>1
  <2>2. \A i \in 1 .. Len(a) + 1 : LineAt(b, i) = LineAt(a, i)
    BY <1>1, <1>3 DEF CompareFiles, Differs, Rounds
  <2> HIDE DEF a, b
  <2>3. Len(a) \in Nat /\ Len(b) \in Nat
    BY <2>1
  <2>4. ~ (Len(b) < Len(a))
    <3>1. SUFFICES ASSUME Len(b) < Len(a) PROVE FALSE
      OBVIOUS
    <3>2. LineAt(b, Len(a)) = EOF /\ LineAt(a, Len(a)) \in T /\ Len(a) \in 1 .. Len(a) + 1
      BY <2>1, <2>3, <3>1 DEF LineAt
    <3> QED
      BY <2>2, <3>2
  <2>5. ~ (Len(a) < Len(b))
    <3>1. SUFFICES ASSUME Len(a) < Len(b) PROVE FALSE
      OBVIOUS
    <3>2. LineAt(a, Len(a) + 1) = EOF /\ LineAt(b, Len(a) + 1) \in T /\ Len(a) + 1 \in 1 .. Len(a) + 1
      BY <2>1, <2>3, <3>1 DEF LineAt
    <3> QED
      BY <2>2, <3>2
  <2>6. Len(a) = Len(b)
    BY <2>3, <2>4, <2>5
  <2>7. ASSUME NEW i \in 1 .. Len(a) PROVE b[i] = a[i]
    <3>1. i <= Len(a) /\ i <= Len(b) /\ i \in 1 .. Len(a) + 1
      BY <2>3, <2>6
    <3>2. LineAt(b, i) = b[i] /\ LineAt(a, i) = a[i]
      BY <3>1 DEF LineAt
    <3> QED
      BY <2>2, <3>1, <3>2
  <2>8. a = b
    <3>1. a = [i \in 1 .. Len(a) |-> a[i]] /\ b = [i \in 1 .. Len(b) |-> b[i]]
      BY <2>1, SeqIsFunction
    <3> QED
      BY <2>6, <2>7, <3>1
  <2> QED
    BY <2>8 DEF a, b
<1> QED
  BY <1>2, <1>3

=============================================================================
