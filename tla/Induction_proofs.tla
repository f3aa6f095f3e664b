--------------------------- MODULE Induction_proofs ---------------------------
(* Lemmas that the proofs about data rest on: induction over the naturals    *)
(* for properties given as sets, and what follows from it for FlattenSeq and *)
(* the folds of the community modules.                                       *)
EXTENDS Integers, Sequences, FiniteSets, SequencesExt, FiniteSetsExt, TLAPS,
        WellFoundedInduction, SequenceTheorems

-----------------------------------------------------------------------------
(* Induction over the naturals, for a property given as a set.             *)

LEMMA SetInduction ==
  ASSUME NEW S, 0 \in S, \A n \in Nat : n \in S => n + 1 \in S
  PROVE  \A n \in Nat : n \in S
<1>1. SUFFICES ASSUME Nat \ S # {} PROVE FALSE
  OBVIOUS
<1> DEFINE R == OpToRel(<, Nat)
<1>2. IsWellFoundedOn(R, Nat)
  BY NatLessThanWellFounded
<1>3. \A m, n \in Nat : m < n => <<m, n>> \in R
  BY DEF OpToRel
<1> HIDE DEF R
<1>4. PICK x \in Nat \ S : \A y \in Nat \ S : ~ (<<y, x>> \in R)
  BY <1>1, <1>2, WFMin, Zenon
<1>5. x # 0
  OBVIOUS
<1>6. x - 1 \in Nat /\ x - 1 < x
  BY <1>5, SMT
<1>7. x - 1 \in S
  BY <1>3, <1>4, <1>6
<1> QED
  BY <1>5, <1>6, <1>7, SMT

LEMMA Split ==
  ASSUME NEW S, NEW s \in Seq(S), s # <<>>
  PROVE  \E t \in Seq(S), x \in S : s = Append(t, x) /\ Len(s) = Len(t) + 1
BY SequenceEmptyOrAppend

-----------------------------------------------------------------------------
(* FlattenSeq of the community modules, taken from the end.                *)

IsFlat(fl, seqs) ==
  fl = [i \in 1 .. Len(seqs) |-> IF i = 1 THEN seqs[i] ELSE fl[i - 1] \o seqs[i]]

LEMMA FlatStep ==
  ASSUME NEW T, NEW seqs \in Seq(Seq(T)), NEW x \in Seq(T), NEW fl, IsFlat(fl, seqs), seqs # <<>>
  PROVE  LET L == Len(seqs)
             more == [i \in 1 .. L + 1 |-> IF i = L + 1 THEN fl[L] \o x ELSE fl[i]]
         IN  IsFlat(more, Append(seqs, x))
<1> DEFINE L == Len(seqs)
           more == [i \in 1 .. L + 1 |-> IF i = L + 1 THEN fl[L] \o x ELSE fl[i]]
           s2 == Append(seqs, x)
           rhs == [i \in 1 .. Len(s2) |-> IF i = 1 THEN s2[i] ELSE more[i - 1] \o s2[i]]
<1>1. L \in Nat /\ L # 0 /\ Len(s2) = L + 1 /\ s2[L + 1] = x /\ \A i \in 1 .. L : s2[i] = seqs[i]
  OBVIOUS
<1>2. fl[1] = seqs[1] /\ \A i \in 2 .. L : fl[i] = fl[i - 1] \o seqs[i]
  <2>1. \A i \in 1 .. L : fl[i] = IF i = 1 THEN seqs[i] ELSE fl[i - 1] \o seqs[i]
    BY DEF IsFlat
  <2>2. 1 \in 1 .. L /\ \A i \in 2 .. L : i \in 1 .. L /\ i # 1
    BY <1>1
  <2> HIDE DEF L
  <2> QED
    BY <2>1, <2>2
<1> HIDE DEF L
<1>3. ASSUME NEW i \in 1 .. L + 1 PROVE more[i] = rhs[i]
  <2>1. CASE i = 1
    <3>1. more[1] = fl[1] /\ rhs[1] = s2[1] /\ s2[1] = seqs[1]
      BY <1>1
    <3> QED
      BY <1>2, <2>1, <3>1
  <2>2. CASE i \in 2 .. L
    <3>1. more[i - 1] = fl[i - 1] /\ more[i] = fl[i] /\ s2[i] = seqs[i]
      BY <1>1, <2>2
    <3>2. rhs[i] = more[i - 1] \o s2[i]
      <4>1. i \in 1 .. Len(s2) /\ i # 1
        BY <1>1, <2>2
      <4> HIDE DEF more, s2
      <4> QED
        BY <4>1
    <3> HIDE DEF more, s2, rhs
    <3> QED
      BY <1>2, <2>2, <3>1, <3>2
  <2>3. CASE i = L + 1
    <3>1. more[i - 1] = fl[L] /\ more[i] = fl[L] \o x /\ s2[i] = x
      BY <1>1, <2>3
    <3>2. rhs[i] = more[i - 1] \o s2[i]
      <4>1. i \in 1 .. Len(s2) /\ i # 1
        BY <1>1, <2>3
      <4> HIDE DEF more, s2
      <4> QED
        BY <4>1
    <3> HIDE DEF more, s2, rhs
    <3> QED
      BY <3>1, <3>2
  <2> QED
    BY <1>1, <2>1, <2>2, <2>3
<1>4. more = rhs
  <2>1. more = [i \in 1 .. L + 1 |-> more[i]] /\ rhs = [i \in 1 .. L + 1 |-> rhs[i]]
    BY <1>1
  <2> HIDE DEF more, rhs
  <2> QED
    BY <1>3, <2>1
<1> QED
  BY <1>1, <1>4 DEF IsFlat, L

LEMMA FlatUnique ==
  ASSUME NEW T, NEW seqs \in Seq(Seq(T)), NEW f1, NEW f2, IsFlat(f1, seqs), IsFlat(f2, seqs)
  PROVE  \A i \in 1 .. Len(seqs) : f1[i] = f2[i]
<1> DEFINE P == {n \in Nat : n + 1 <= Len(seqs) => f1[n + 1] = f2[n + 1]}
<1>1. 0 \in P
  BY DEF IsFlat
<1>2. ASSUME NEW n \in Nat, n \in P PROVE n + 1 \in P
  <2>1. SUFFICES ASSUME n + 2 <= Len(seqs) PROVE f1[n + 2] = f2[n + 2]
    OBVIOUS
  <2>2. n + 2 \in 1 .. Len(seqs) /\ n + 2 # 1 /\ (n + 2) - 1 = n + 1 /\ f1[n + 1] = f2[n + 1]
    BY <1>2, <2>1
  <2>3. f1[n + 2] = f1[n + 1] \o seqs[n + 2] /\ f2[n + 2] = f2[n + 1] \o seqs[n + 2]
    BY <2>2 DEF IsFlat
  <2> QED
    BY <2>2, <2>3
<1>3. \A n \in Nat : n \in P
  <2> HIDE DEF P
  <2> QED
    BY <1>1, <1>2, SetInduction
<1>4. ASSUME NEW i \in 1 .. Len(seqs) PROVE f1[i] = f2[i]
  <2>1. i - 1 \in Nat /\ (i - 1) + 1 = i /\ i <= Len(seqs)
    OBVIOUS
  <2>2. i - 1 \in P
    BY <1>3, <2>1
  <2> QED
    BY <2>1, <2>2
<1> QED
  BY <1>4

LEMMA FlatOne == ASSUME NEW T, NEW x \in Seq(T) PROVE IsFlat([i \in 1 .. 1 |-> x], <<x>>)
<1> DEFINE fl == [i \in 1 .. 1 |-> x]
<1>1. ASSUME NEW i \in 1 .. 1
      PROVE  fl[i] = IF i = 1 THEN <<x>>[i] ELSE fl[i - 1] \o <<x>>[i]
  OBVIOUS
<1> QED
  BY <1>1 DEF IsFlat

LEMMA FlatExists ==
  ASSUME NEW T, NEW seqs \in Seq(Seq(T)), seqs # <<>>
  PROVE  \E fl : IsFlat(fl, seqs)
<1> DEFINE P == {n \in Nat : \A s \in Seq(Seq(T)) : Len(s) = n + 1 => \E fl : IsFlat(fl, s)}
<1>1. 0 \in P
  <2> SUFFICES ASSUME NEW s \in Seq(Seq(T)), Len(s) = 1 PROVE \E fl : IsFlat(fl, s)
    OBVIOUS
  <2>1. s # <<>>
    <3> HIDE DEF P
    <3>1. Len(<<>>) # Len(s)
      OBVIOUS
    <3> QED
      BY <3>1, Zenon
  <2>2. PICK t \in Seq(Seq(T)), x \in Seq(T) : s = Append(t, x) /\ Len(s) = Len(t) + 1
    BY <2>1, Split
  <2>3. t = <<>>
    BY <2>2
  <2>4. s = <<x>>
    BY <2>2, <2>3
  <2> QED
    BY <2>4, FlatOne
<1>2. ASSUME NEW n \in Nat, n \in P PROVE n + 1 \in P
  <2> SUFFICES ASSUME NEW s \in Seq(Seq(T)), Len(s) = n + 2 PROVE \E fl : IsFlat(fl, s)
    OBVIOUS
  <2>1. PICK t \in Seq(Seq(T)), x \in Seq(T) : s = Append(t, x) /\ Len(s) = Len(t) + 1
    <3>1. s # <<>>
      OBVIOUS
    <3> QED
      BY <3>1, Split
  <2>2. Len(t) = n + 1 /\ t # <<>>
    BY <2>1
  <2>3. PICK fl : IsFlat(fl, t)
    BY <1>2, <2>2
  <2> QED
    BY <2>1, <2>2, <2>3, FlatStep
<1>3. \A n \in Nat : n \in P
  <2> HIDE DEF P
  <2> QED
    BY <1>1, <1>2, SetInduction
<1>4. Len(seqs) - 1 \in Nat /\ (Len(seqs) - 1) + 1 = Len(seqs)
  OBVIOUS
<1> QED
  BY <1>3, <1>4

LEMMA FlatFrom ==
  ASSUME NEW T, NEW seqs \in Seq(Seq(T)), seqs # <<>>, NEW fl, IsFlat(fl, seqs)
  PROVE  FlattenSeq(seqs) = fl[Len(seqs)]
<1> DEFINE r == CHOOSE r : IsFlat(r, seqs)
<1>1. IsFlat(r, seqs)
  OBVIOUS
<1>2. FlattenSeq(seqs) = r[Len(seqs)]
  BY DEF FlattenSeq, IsFlat
<1>3. Len(seqs) \in 1 .. Len(seqs)
  OBVIOUS
<1> HIDE DEF r
<1> QED
  BY <1>1, <1>2, <1>3, FlatUnique

LEMMA FlattenAppend ==
  ASSUME NEW T, NEW seqs \in Seq(Seq(T)), NEW x \in Seq(T)
  PROVE  FlattenSeq(Append(seqs, x)) = FlattenSeq(seqs) \o x
<1> DEFINE s2 == Append(seqs, x)
           L == Len(seqs)
<1>1. s2 \in Seq(Seq(T)) /\ s2 # <<>> /\ Len(s2) = L + 1 /\ L \in Nat
  <2>1. s2 \in Seq(Seq(T)) /\ Len(s2) = L + 1
    BY AppendProperties
  <2>2. L \in Nat
    OBVIOUS
  <2> HIDE DEF s2, L
  <2> QED
    BY <2>1, <2>2, EmptySeq
<1>2. CASE seqs = <<>>
  <2>1. s2 = <<x>> /\ FlattenSeq(seqs) = <<>> /\ Len(s2) = 1
    BY <1>2 DEF FlattenSeq
  <2>2. FlattenSeq(s2) = [i \in 1 .. 1 |-> x][1]
    BY <1>1, <2>1, FlatOne, FlatFrom
  <2>3. <<>> \o x = x
    OBVIOUS
  <2> QED
    BY <2>1, <2>2, <2>3
<1>3. CASE seqs # <<>>
  <2>1. PICK fl : IsFlat(fl, seqs)
    BY <1>3, FlatExists
  <2> DEFINE more == [i \in 1 .. L + 1 |-> IF i = L + 1 THEN fl[L] \o x ELSE fl[i]]
  <2>2. IsFlat(more, s2)
    BY <1>3, <2>1, FlatStep
  <2>3. more[L + 1] = fl[L] \o x
    BY <1>1
  <2> HIDE DEF more
  <2>4. FlattenSeq(s2) = more[L + 1]
    BY <1>1, <2>2, FlatFrom
  <2>5. FlattenSeq(seqs) = fl[L]
    BY <1>3, <2>1, FlatFrom
  <2> QED
    BY <2>3, <2>4, <2>5
<1> QED
  BY <1>2, <1>3

LEMMA FlattenType ==
  ASSUME NEW T, NEW seqs \in Seq(Seq(T))
  PROVE  FlattenSeq(seqs) \in Seq(T)
<1> DEFINE P == {n \in Nat : \A s \in Seq(Seq(T)) : Len(s) = n => FlattenSeq(s) \in Seq(T)}
<1>1. 0 \in P
  <2> SUFFICES ASSUME NEW s \in Seq(Seq(T)), Len(s) = 0 PROVE FlattenSeq(s) \in Seq(T)
    OBVIOUS
  <2>1. FlattenSeq(s) = s /\ s = <<>>
    BY DEF FlattenSeq
  <2>2. <<>> \in Seq(T)
    OBVIOUS
  <2> QED
    BY <2>1, <2>2
<1>2. ASSUME NEW n \in Nat, n \in P PROVE n + 1 \in P
  <2> SUFFICES ASSUME NEW s \in Seq(Seq(T)), Len(s) = n + 1 PROVE FlattenSeq(s) \in Seq(T)
    OBVIOUS
  <2>1. PICK t \in Seq(Seq(T)), x \in Seq(T) : s = Append(t, x) /\ Len(s) = Len(t) + 1
    <3>1. s # <<>>
      OBVIOUS
    <3> QED
      BY <3>1, Split
  <2>2. Len(t) = n
    BY <2>1
  <2>3. FlattenSeq(t) \in Seq(T)
    BY <1>2, <2>2
  <2>4. FlattenSeq(s) = FlattenSeq(t) \o x
    BY <2>1, FlattenAppend
  <2> QED
    BY <2>3, <2>4
<1>3. \A n \in Nat : n \in P
  <2> HIDE DEF P
  <2> QED
    BY <1>1, <1>2, SetInduction
<1> QED
  BY <1>3

-----------------------------------------------------------------------------
(* FoldLeft of the community modules: it works on sets of indices, and takes *)
(* the largest first.  F is the operator that is folded, with the elements   *)
(* of the sequence given by their index: F[<<i, v>>] is the value after      *)
(* element i, from v.                                                        *)

LEMMA MaxOfSome ==
  ASSUME NEW N \in Nat, NEW s \in SUBSET (1 .. N), s # {}
  PROVE  Max(s) \in s /\ \A y \in s : Max(s) >= y
<1> DEFINE P == {n \in Nat : \A u \in SUBSET (1 .. n) : u # {} => \E x \in u : \A y \in u : x >= y}
<1>1. 0 \in P
  <2>1. 1 .. 0 = {}
    OBVIOUS
  <2> QED
    BY <2>1
<1>2. ASSUME NEW n \in Nat, n \in P PROVE n + 1 \in P
  <2> SUFFICES ASSUME NEW u \in SUBSET (1 .. n + 1), u # {}
               PROVE  \E x \in u : \A y \in u : x >= y
    OBVIOUS
  <2>1. CASE n + 1 \in u
    BY <2>1
  <2>2. CASE n + 1 \notin u
    <3>1. u \in SUBSET (1 .. n)
      BY <2>2
    <3> QED
      BY <1>2, <3>1
  <2> QED
    BY <2>1, <2>2
<1>3. \A n \in Nat : n \in P
  <2> HIDE DEF P
  <2> QED
    BY <1>1, <1>2, SetInduction
<1>4. \E x \in s : \A y \in s : x >= y
  BY <1>3
<1> QED
  BY <1>4 DEF Max

LEMMA MinOfSome ==
  ASSUME NEW N \in Nat, NEW s \in SUBSET (1 .. N), s # {}
  PROVE  Min(s) \in s /\ \A y \in s : Min(s) <= y
<1> DEFINE u == {N + 1 - x : x \in s}
<1>1. u \in SUBSET (1 .. N) /\ u # {}
  <2>1. \A x \in s : N + 1 - x \in 1 .. N
    OBVIOUS
  <2> QED
    BY <2>1
<1>2. PICK m \in u : \A y \in u : m >= y
  BY <1>1, MaxOfSome
<1>3. \E x \in s : \A y \in s : x <= y
  <2>1. PICK x \in s : m = N + 1 - x
    BY <1>2
  <2>2. \A y \in s : N + 1 - y \in u
    OBVIOUS
  <2>3. ASSUME NEW y \in s PROVE x <= y
    <3>1. m >= N + 1 - y
      BY <1>2, <2>2
    <3>2. x \in 1 .. N /\ y \in 1 .. N
      OBVIOUS
    <3> QED
      BY <2>1, <3>1, <3>2
  <2> QED
    BY <2>3
<1> QED
  BY <1>3 DEF Min

LEMMA MaxOfAll ==
  ASSUME NEW n \in Nat \ {0}
  PROVE  Max(1 .. n) = n /\ (1 .. n) \ {n} = 1 .. (n - 1)
<1>1. Max(1 .. n) \in 1 .. n /\ \A y \in 1 .. n : Max(1 .. n) >= y
  <2>1. 1 .. n # {} /\ 1 .. n \in SUBSET (1 .. n)
    OBVIOUS
  <2> QED
    BY <2>1, MaxOfSome
<1> QED
  BY <1>1

IsIter(it, F, base, N) ==
  it = [s \in SUBSET (1 .. N) |->
          IF s = {} THEN base ELSE F[<<Max(s), it[s \ {Max(s)}]>>]]

LEMMA IterStep ==
  ASSUME NEW N \in Nat, NEW V, NEW base \in V, NEW F \in [(1 .. N + 1) \X V -> V], NEW it,
         IsIter(it, F, base, N), \A s \in SUBSET (1 .. N) : it[s] \in V
  PROVE  \E more : /\ IsIter(more, F, base, N + 1)
                   /\ \A s \in SUBSET (1 .. N + 1) : more[s] \in V
<1> DEFINE more == [s \in SUBSET (1 .. N + 1) |->
                      IF N + 1 \in s THEN F[<<N + 1, it[s \ {N + 1}]>>] ELSE it[s]]
           rhs == [s \in SUBSET (1 .. N + 1) |->
                     IF s = {} THEN base ELSE F[<<Max(s), more[s \ {Max(s)}]>>]]
<1>1. ASSUME NEW s \in SUBSET (1 .. N + 1) PROVE more[s] = rhs[s] /\ more[s] \in V
  <2>1. CASE N + 1 \in s
    <3> DEFINE t == s \ {N + 1}
    <3>1. t \in SUBSET (1 .. N) /\ N + 1 \notin t /\ s # {}
      BY <2>1
    <3>2. Max(s) = N + 1
      <4>1. N + 1 \in Nat
        OBVIOUS
      <4>2. Max(s) \in s /\ \A y \in s : Max(s) >= y
        BY <3>1, <4>1, MaxOfSome
      <4>3. Max(s) \in 1 .. N + 1 /\ Max(s) >= N + 1
        BY <2>1, <4>2
      <4> QED
        BY <4>3
    <3>3. more[t] = it[t] /\ it[t] \in V
      BY <3>1
    <3>4. more[s] = F[<<N + 1, it[t]>>]
      BY <2>1
    <3>5. rhs[s] = F[<<N + 1, more[t]>>]
      BY <3>1, <3>2
    <3>6. F[<<N + 1, it[t]>>] \in V
      BY <3>3
    <3> QED
      BY <3>3, <3>4, <3>5, <3>6
  <2>2. CASE N + 1 \notin s
    <3>1. s \in SUBSET (1 .. N)
      BY <2>2
    <3>2. more[s] = it[s] /\ it[s] \in V
      BY <2>2, <3>1
    <3>3. CASE s = {}
      BY <3>1, <3>2, <3>3 DEF IsIter
    <3>4. CASE s # {}
      <4> DEFINE t == s \ {Max(s)}
      <4>1. t \in SUBSET (1 .. N) /\ N + 1 \notin t
        BY <3>1
      <4>2. more[t] = it[t]
        BY <4>1
      <4>3. it[s] = F[<<Max(s), it[t]>>]
        BY <3>1, <3>4 DEF IsIter
      <4>4. rhs[s] = F[<<Max(s), more[t]>>]
        BY <3>4
      <4> QED
        BY <3>2, <4>2, <4>3, <4>4
    <3> QED
      BY <3>3, <3>4
  <2> QED
    BY <2>1, <2>2
<1>2. more = rhs
  <2>1. more = [s \in SUBSET (1 .. N + 1) |-> more[s]] /\ rhs = [s \in SUBSET (1 .. N + 1) |-> rhs[s]]
    OBVIOUS
  <2> HIDE DEF more, rhs
  <2> QED
    BY <1>1, <2>1
<1> QED
  BY <1>1, <1>2 DEF IsIter

IsRule(F, base, N, V) == N \in Nat /\ base \in V /\ F \in [(1 .. N) \X V -> V]

LEMMA IterExists ==
  ASSUME NEW N, NEW V, NEW base, NEW F, IsRule(F, base, N, V)
  PROVE  \E it : /\ IsIter(it, F, base, N)
                 /\ \A s \in SUBSET (1 .. N) : it[s] \in V
<1> DEFINE Typed(it, n) == \A s \in SUBSET (1 .. n) : it[s] \in V
           Sub(n) == [p \in (1 .. n) \X V |-> F[p]]
           P == {n \in Nat : n <= N => \E it : IsIter(it, Sub(n), base, n) /\ Typed(it, n)}
<1>0. N \in Nat /\ base \in V /\ F \in [(1 .. N) \X V -> V]
  BY DEF IsRule
<1>1. 0 \in P
  <2> DEFINE it == [s \in SUBSET (1 .. 0) |-> base]
  <2>1. IsIter(it, Sub(0), base, 0) /\ Typed(it, 0)
    BY <1>0 DEF IsIter
  <2> QED
    BY <2>1
<1>2. ASSUME NEW n \in Nat, n \in P PROVE n + 1 \in P
  <2> SUFFICES ASSUME n + 1 <= N
               PROVE  \E it : IsIter(it, Sub(n + 1), base, n + 1) /\ Typed(it, n + 1)
    <3> HIDE DEF Sub, Typed
    <3> QED
      OBVIOUS
  <2>1. PICK it : IsIter(it, Sub(n), base, n) /\ Typed(it, n)
    <3>1. n <= N
      BY <1>0
    <3> HIDE DEF Sub, Typed
    <3> QED
      BY <1>2, <3>1
  <2>2. Sub(n + 1) \in [(1 .. n + 1) \X V -> V]
    BY <1>0
  <2>3. IsIter(it, Sub(n + 1), base, n)
    <3>1. ASSUME NEW s \in SUBSET (1 .. n), s # {}
          PROVE  Sub(n)[<<Max(s), it[s \ {Max(s)}]>>] = Sub(n + 1)[<<Max(s), it[s \ {Max(s)}]>>]
      <4>1. Max(s) \in 1 .. n /\ Max(s) \in 1 .. n + 1
        <5>1. Max(s) \in s
          BY <3>1, MaxOfSome
        <5>2. \A m \in s : m \in 1 .. n /\ m \in 1 .. n + 1
          OBVIOUS
        <5> QED
          BY <5>1, <5>2, Zenon
      <4>2. it[s \ {Max(s)}] \in V
        BY <2>1
      <4> QED
        BY <4>1, <4>2
    <3> HIDE DEF Sub
    <3> QED
      BY <2>1, <3>1 DEF IsIter
  <2> HIDE DEF Sub
  <2> QED
    BY <1>0, <2>1, <2>2, <2>3, IterStep
<1>3. N \in P
  <2> HIDE DEF P
  <2> QED
    BY <1>0, <1>1, <1>2, SetInduction
<1>4. Sub(N) = F
  BY <1>0
<1> HIDE DEF Sub
<1> QED
  BY <1>0, <1>3, <1>4

\* What FoldLeft of this operator comes to, value by value.
IsTrace(tr, F, base, N) ==
  tr[0] = base /\ \A i \in 1 .. N : tr[i] = F[<<i, tr[i - 1]>>]

\* g is a function on sets of indices that takes the steps of F as long as it
\* stays in V: so it does stay there.
Follows(g, F, base, N, V) ==
  /\ g[{}] = base
  /\ \A s \in SUBSET (1 .. N) :
       s # {} /\ g[s \ {Max(s)}] \in V => g[s] = F[<<Max(s), g[s \ {Max(s)}]>>]

EndsTrace(x, F, base, N, V) ==
  \E tr \in [0 .. N -> V] : IsTrace(tr, F, base, N) /\ x = tr[N]

LEMMA IterTrace ==
  ASSUME NEW N, NEW V, NEW base, NEW F, NEW g,
         IsRule(F, base, N, V), Follows(g, F, base, N, V)
  PROVE  EndsTrace(g[1 .. N], F, base, N, V)
<1> DEFINE tr == [i \in 0 .. N |-> g[1 .. i]]
<1>0. N \in Nat /\ base \in V /\ F \in [(1 .. N) \X V -> V]
  BY DEF IsRule
<1>1. tr[0] = base
  <2>1. 1 .. 0 = {}
    OBVIOUS
  <2> QED
    BY <1>0, <2>1 DEF Follows
<1>2. ASSUME NEW i \in 1 .. N, tr[i - 1] \in V
      PROVE  tr[i] = F[<<i, tr[i - 1]>>]
  <2>1. tr[i] = g[1 .. i] /\ tr[i - 1] = g[1 .. (i - 1)]
    BY <1>0
  <2>2. /\ 1 .. i \in SUBSET (1 .. N) /\ 1 .. i # {}
        /\ Max(1 .. i) = i /\ (1 .. i) \ {i} = 1 .. (i - 1)
    BY <1>0, MaxOfAll
  <2>3. (1 .. i) \ {Max(1 .. i)} = 1 .. (i - 1)
    BY <2>2, Zenon
  <2> HIDE DEF tr
  <2>4. g[(1 .. i) \ {Max(1 .. i)}] \in V
    BY <1>2, <2>1, <2>3
  <2>5. g[1 .. i] = F[<<Max(1 .. i), g[(1 .. i) \ {Max(1 .. i)}]>>]
    BY <2>2, <2>4, Zenon DEF Follows
  <2> QED
    BY <2>1, <2>2, <2>3, <2>5, Zenon
<1>3. \A i \in 0 .. N : tr[i] \in V
  <2> DEFINE P == {n \in Nat : n <= N => tr[n] \in V}
  <2> HIDE DEF tr
  <2>1. 0 \in P
    BY <1>0, <1>1
  <2>2. ASSUME NEW n \in Nat, n \in P PROVE n + 1 \in P
    <3> SUFFICES ASSUME n + 1 <= N PROVE tr[n + 1] \in V
      OBVIOUS
    <3>1. n + 1 \in 1 .. N /\ (n + 1) - 1 = n /\ tr[n] \in V
      BY <1>0, <2>2
    <3>2. tr[n + 1] = F[<<n + 1, tr[n]>>]
      BY <1>2, <3>1
    <3> QED
      BY <1>0, <3>1, <3>2
  <2>3. \A n \in Nat : n \in P
    <3> HIDE DEF P
    <3> QED
      BY <2>1, <2>2, SetInduction
  <2> QED
    BY <1>0, <2>3
<1>4. tr \in [0 .. N -> V] /\ g[1 .. N] = tr[N]
  BY <1>0, <1>3
<1>5. \A i \in 1 .. N : tr[i - 1] \in V
  BY <1>0, <1>3
<1> HIDE DEF tr
<1> QED
  BY <1>1, <1>2, <1>4, <1>5 DEF IsTrace, EndsTrace

\* A property of the values, by their index, that every step keeps.
LEMMA TraceInduction ==
  ASSUME NEW N \in Nat, NEW tr, NEW S, NEW F, NEW base, IsTrace(tr, F, base, N),
         <<0, base>> \in S,
         \A i \in 1 .. N : <<i - 1, tr[i - 1]>> \in S => <<i, F[<<i, tr[i - 1]>>]>> \in S
  PROVE  \A i \in 0 .. N : <<i, tr[i]>> \in S
<1> DEFINE P == {n \in Nat : n <= N => <<n, tr[n]>> \in S}
<1>1. 0 \in P
  BY DEF IsTrace
<1>2. ASSUME NEW n \in Nat, n \in P PROVE n + 1 \in P
  <2> SUFFICES ASSUME n + 1 <= N PROVE <<n + 1, tr[n + 1]>> \in S
    OBVIOUS
  <2>1. n + 1 \in 1 .. N /\ (n + 1) - 1 = n /\ <<n, tr[n]>> \in S
    BY <1>2
  <2>2. tr[n + 1] = F[<<n + 1, tr[n]>>]
    BY <2>1 DEF IsTrace
  <2> QED
    BY <2>1, <2>2
<1>3. \A n \in Nat : n \in P
  <2> HIDE DEF P
  <2> QED
    BY <1>1, <1>2, SetInduction
<1> QED
  BY <1>3

=============================================================================
