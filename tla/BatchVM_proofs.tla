---------------------------- MODULE BatchVM_proofs ----------------------------
(* Proofs about BatchVM: what a call delivers, however the output is split   *)
(* and whenever the master dies.                                             *)
EXTENDS BatchVM, TraceFilter_proofs

-----------------------------------------------------------------------------
(* The output of the master for one test.                                   *)

Mode == {"trace", "speed"}
ExecOf(t, m) == IF m = "trace" THEN Exec[t] ELSE <<>>
ExpectedOf(t, m) == IF m = "trace" THEN Canonical(Exec[t], t) ELSE <<Root(t)>>
LinesOf(c) == UNION {ToSet(out) : out \in UNION {OutputsOf(c, t, m) : t \in Tests, m \in Mode}}

LEMMA LinesIs == Lines = LinesOf(client) /\ Lines' = LinesOf(client')
BY DEF Lines, LinesOf, Mode

LEMMA NothingExecuted ==
  /\ IsExecution(<<>>)
  /\ \A r : Canonical(<<>>, r) = <<Root(r)>>
<1>1. IsExecution(<<>>)
  <2>1. <<>> \in Seq(Operation) /\ DOMAIN <<>> = {}
    OBVIOUS
  <2> QED
    BY <2>1 DEF IsExecution
<1>2. \A r : Canonical(<<>>, r) = <<Root(r)>>
  <2> TAKE r
  <2>1. Marshalled(<<>>) = FlattenSeq([i \in DOMAIN <<>> |-> Marshalled1(<<>>[i])])
    BY DEF Marshalled
  <2>2. [i \in DOMAIN <<>> |-> Marshalled1(<<>>[i])] = <<>>
    OBVIOUS
  <2>3. FlattenSeq(<<>>) = <<>>
    BY DEF FlattenSeq
  <2>4. Marshalled(<<>>) = <<>>
    BY <2>1, <2>2, <2>3
  <2>5. Canonical(<<>>, r) = <<>> \o <<Root(r)>>
    BY <2>4, CanonicalIs
  <2> QED
    BY <2>5
<1> QED
  BY <1>1, <1>2

\* The output in speed mode of a client that prints no array is a trace of nothing.
LEMMA NothingPrinted ==
  ASSUME NEW c, NEW r, r # NoRoot
  PROVE  TraceTexts(c, <<>>, r, FALSE) = <<RootText(c, r)>>
<1>1. ExecTexts(c, <<>>, FALSE) = <<>>
  <2>1. ExecTexts(c, <<>>, FALSE) = FlattenSeq([i \in DOMAIN <<>> |-> Texts1(c, <<>>[i], FALSE)])
    BY ExecTextsIs
  <2>2. [i \in DOMAIN <<>> |-> Texts1(c, <<>>[i], FALSE)] = <<>>
    OBVIOUS
  <2>3. FlattenSeq(<<>>) = <<>>
    BY DEF FlattenSeq
  <2> QED
    BY <2>1, <2>2, <2>3
<1>2. TraceTexts(c, <<>>, r, FALSE) = ((<<>> \o <<>>) \o <<>>) \o <<RootText(c, r)>>
  BY <1>1 DEF TraceTexts
<1>3. <<>> \o <<>> = <<>> /\ \A x : <<>> \o <<x>> = <<x>>
  OBVIOUS
<1> QED
  BY <1>2, <1>3

PrintsArray(c, m) == c \in ArrayClients /\ m = "speed"

LEMMA OutputIs ==
  ASSUME NEW c \in Batchers, NEW t \in Tests, NEW m \in Mode, NEW all \in OutputsOf(c, t, m)
  PROVE  IF PrintsArray(c, m) THEN all = <<ArrayText(t)>>
         ELSE \E chatty : all = TraceTexts(c, ExecOf(t, m), t, chatty)
<1>1. t # NoRoot
  BY BatchAssumption
<1>2. CASE m = "trace"
  BY <1>2 DEF OutputsOf, ExecOf, PrintsArray
<1>3. CASE m = "speed" /\ c \in ArrayClients
  BY <1>3 DEF OutputsOf, PrintsArray
<1>4. CASE m = "speed" /\ c \notin ArrayClients
  <2>1. all = TraceTexts(c, <<>>, t, FALSE)
    BY <1>1, <1>4, NothingPrinted DEF OutputsOf
  <2> QED
    BY <1>4, <2>1 DEF ExecOf, PrintsArray
<1> QED
  BY <1>2, <1>3, <1>4 DEF Mode

LEMMA ExpectedIs ==
  ASSUME NEW t \in Tests, NEW m \in Mode
  PROVE  IsExecution(ExecOf(t, m)) /\ ExpectedOf(t, m) = Canonical(ExecOf(t, m), t)
BY BatchAssumption, NothingExecuted DEF ExecOf, ExpectedOf

LEMMA SeqOfItsElements ==
  ASSUME NEW S, NEW s \in Seq(S), NEW T, ToSet(s) \subseteq T
  PROVE  s \in Seq(T)
<1>1. \A i \in 1 .. Len(s) : s[i] \in T
  BY DEF ToSet
<1>2. s = [i \in 1 .. Len(s) |-> s[i]] /\ Len(s) \in Nat
  BY SeqIsFunction
<1> QED
  BY <1>1, <1>2

LEMMA FrontOfSeq ==
  ASSUME NEW S, NEW s \in Seq(S), NEW x \in S, NEW T, Append(s, x) \in Seq(T)
  PROVE  s \in Seq(T) /\ x \in T
<1> DEFINE a == Append(s, x)
<1>1. Len(s) \in Nat /\ Len(a) = Len(s) + 1 /\ a[Len(s) + 1] = x /\ \A i \in 1 .. Len(s) : a[i] = s[i]
  OBVIOUS
<1> HIDE DEF a
<1>2. \A i \in 1 .. Len(s) + 1 : a[i] \in T
  BY <1>1 DEF a
<1>3. x \in T /\ \A i \in 1 .. Len(s) : s[i] \in T
  BY <1>1, <1>2
<1>4. s = [i \in 1 .. Len(s) |-> s[i]]
  BY SeqIsFunction
<1> QED
  BY <1>1, <1>3, <1>4

\* It is a sequence of lines; the last one, and no other, has the root; and what the
\* filter makes of a beginning of it is a beginning of what it makes of all of it.
LEMMA OutputFacts ==
  ASSUME NEW c \in Batchers, NEW t \in Tests, NEW m \in Mode, NEW all \in OutputsOf(c, t, m)
  PROVE  /\ all \in Seq(LinesOf(c))
         /\ IsPrefix(OutOf(After(c, NewCopy, all)), ExpectedOf(t, m))
         /\ ~PrintsArray(c, m) =>
              /\ Ended1(After(c, NewCopy, all)).out = ExpectedOf(t, m)
              /\ \E front \in Seq(LinesOf(c)), x \in LinesOf(c) :
                   all = Append(front, x) /\ After(c, NewCopy, front).root = NoRoot
<1>1. c \in Clients /\ t # NoRoot
  BY BatchAssumption DEF Clients
<1>2. ToSet(all) \subseteq LinesOf(c)
  BY DEF LinesOf
<1>3. CASE PrintsArray(c, m)
  <2>1. all = <<ArrayText(t)>>
    BY <1>3, OutputIs
  <2>2. all \in Seq({ArrayText(t)})
    BY <2>1
  <2>3. all \in Seq(LinesOf(c))
    BY <1>2, <2>2, SeqOfItsElements
  <2>4. After(c, NewCopy, all) = NewCopy
    BY <2>1, AfterOne DEF Next1, ArrayText
  <2>5. OutOf(NewCopy) = <<>>
    BY DEF OutOf, Flush, NewCopy
  <2>6. IsPrefix(<<>>, ExpectedOf(t, m))
    <3>1. ExpectedOf(t, m) = <<Root(t)>>
      BY <1>3 DEF PrintsArray, ExpectedOf
    <3>2. IsSeq(<<>>) /\ <<Root(t)>> = Append(<<>>, Root(t))
      <4>1. <<>> \in Seq({})
        OBVIOUS
      <4> QED
        BY <4>1 DEF IsSeq
    <3> QED
      BY <3>1, <3>2, SeqAppend
  <2> QED
    BY <1>3, <2>3, <2>4, <2>5, <2>6
<1>4. CASE ~PrintsArray(c, m)
  <2>1. PICK chatty : all = TraceTexts(c, ExecOf(t, m), t, chatty)
    BY <1>4, OutputIs
  <2> DEFINE exec == ExecOf(t, m)
             front == TraceTexts(c, exec, NoRoot, chatty)
             x == RootText(c, t)
             T == TraceLines(c, t)
             f == After(c, NewCopy, all)
  <2>2. IsExecution(exec) /\ ExpectedOf(t, m) = Canonical(exec, t)
    BY ExpectedIs
  <2> HIDE DEF exec
  <2>3. front \in Seq(T) /\ all = Append(front, x) /\ After(c, NewCopy, front).root = NoRoot
    BY <1>1, <2>1, <2>2, TraceEnds DEF exec
  <2>4. x \in T
    BY DEF TraceLines
  <2> HIDE DEF x, T, front
  <2>5. all \in Seq(T)
    BY <2>3, <2>4
  <2>6. all \in Seq(LinesOf(c))
    BY <1>2, <2>5, SeqOfItsElements
  <2>7. front \in Seq(LinesOf(c)) /\ x \in LinesOf(c)
    BY <2>3, <2>4, <2>6, FrontOfSeq
  <2>8. Ended1(f).out = ExpectedOf(t, m)
    <3>1. Filtered(c, all) = Canonical(exec, t)
      BY <1>1, <2>1, <2>2, FilterCanonical DEF exec
    <3> QED
      BY <2>2, <3>1, FilteredIs
  <2>9. IsPrefix(OutOf(f), ExpectedOf(t, m))
    <3>1. Shape(c, f)
      BY <1>1, <2>5, NewShape, AfterGrows DEF Grows
    <3> HIDE DEF f
    <3>2. IsSeq(OutOf(f)) /\ Ended1(f).out = Append(OutOf(f), Root(f.root))
      BY <3>1, OutIs DEF Shape
    <3> QED
      BY <2>8, <3>2, SeqAppend
  <2> QED
    BY <2>3, <2>6, <2>7, <2>8, <2>9
<1> QED
  BY <1>3, <1>4

\* Some output there is.
LEMMA SomeOutput == ASSUME NEW c, NEW t, NEW m PROVE \E all : all \in OutputsOf(c, t, m)
<1>1. CASE m = "trace"
  <2>1. TraceTexts(c, Exec[t], t, TRUE) \in OutputsOf(c, t, m)
    BY <1>1 DEF OutputsOf
  <2> QED
    BY <2>1
<1>2. CASE m # "trace"
  BY <1>2 DEF OutputsOf
<1> QED
  BY <1>1, <1>2

\* front and a last line x are d and z.
Cut(L, front, x, d, z) ==
  /\ front \in Seq(L) /\ x \in L /\ d \in Seq(L) /\ z \in Seq(L)
  /\ Append(front, x) = d \o z

\* When the lines up to d have given a root, there are no others.
LEMMA LastLine ==
  ASSUME NEW L, NEW front, NEW x, NEW d, NEW z, Cut(L, front, x, d, z), NEW c,
         After(c, NewCopy, front).root = NoRoot, After(c, NewCopy, d).root # NoRoot
  PROVE  z = <<>>
<1> /\ front \in Seq(L) /\ x \in L /\ d \in Seq(L) /\ z \in Seq(L)
    /\ Append(front, x) = d \o z
  BY DEF Cut
<1>1. SUFFICES ASSUME z # <<>> PROVE FALSE
  OBVIOUS
<1>2. PICK y \in Seq(L), v \in L : z = Append(y, v)
  BY <1>1, Split
<1>3. d \o z = Append(d \o y, v) /\ d \o y \in Seq(L)
  BY <1>2
<1>4. front = d \o y
  <2> DEFINE w == d \o y
  <2>1. w \in Seq(L) /\ Append(front, x) = Append(w, v)
    BY <1>3
  <2> HIDE DEF w
  <2>2. Len(front) = Len(w)
    <3>1. Len(Append(front, x)) = Len(front) + 1 /\ Len(Append(w, v)) = Len(w) + 1
      BY <2>1
    <3> QED
      BY <2>1, <3>1
  <2>3. \A i \in 1 .. Len(front) : front[i] = w[i]
    <3>1. \A i \in 1 .. Len(front) : Append(front, x)[i] = front[i] /\ Append(w, v)[i] = w[i]
      BY <2>1, <2>2
    <3> QED
      BY <2>1, <3>1
  <2>4. front = [i \in 1 .. Len(front) |-> front[i]] /\ w = [i \in 1 .. Len(w) |-> w[i]]
    BY <2>1, SeqIsFunction
  <2> QED
    BY <2>2, <2>3, <2>4 DEF w
<1>5. After(c, NewCopy, d \o y) = After(c, NewCopy, d)
  BY AfterConcat, RootStays
<1> QED
  BY <1>4, <1>5

-----------------------------------------------------------------------------
(* The inductive invariant.                                                 *)

\* The output for the file of the call in progress: what of it has been through the
\* filter, what has been read and is buffered, what is in the pipe, and the rest,
\* which the master has still to print, or which is lost with it.
Channel(all, done, rest) ==
  /\ all = (done \o call.buf) \o (pipe \o rest)
  /\ call.copy = After(client, NewCopy, done)
  /\ call.copy.root = NoRoot
  /\ Decodes => done = <<>>
  /\ \/ /\ alive /\ stdin = <<call.file>> /\ writing = <<>>
        /\ done = <<>> /\ call.buf = <<>> /\ pipe = <<>>
     \/ stdin = <<>> /\ writing = IF alive THEN rest ELSE <<>>

ReadInv ==
  ~Idle =>
    \E all \in OutputsOf(client, call.file, cmd) :
      \E done \in Seq(LinesOf(client)), rest \in Seq(LinesOf(client)) : Channel(all, done, rest)

\* Nothing is underway between two calls, and the master's mode is that of the calls.
ModeInv ==
  /\ Idle => call = NoCall /\ stdin = <<>> /\ writing = <<>> /\ pipe = <<>>
  /\ Idle /\ cmd = "trace" => last.req = "trace"
  /\ ~Idle => /\ call.file \in Tests /\ cmd \in Mode
              /\ call.req # "trace" => cmd = "speed"
              /\ DOMAIN call = {"st", "file", "req", "buf", "copy"}
  /\ calls = 0 => cmd = "nil"
  /\ Finished => cmd # "nil"

BatchInv == TypeOK /\ ModeInv /\ ReadInv /\ OwnOutput

LEMMA BatchInit == Init => BatchInv
<1> SUFFICES ASSUME Init PROVE BatchInv
  OBVIOUS
<1>1. TypeOK
  BY BatchAssumption DEF Init, TypeOK, NoCall
<1>2. ModeInv /\ ReadInv /\ OwnOutput
  BY DEF Init, ModeInv, ReadInv, OwnOutput, Finished, Idle, NoCall, NoLast
<1> QED
  BY <1>1, <1>2 DEF BatchInv

\* A step that leaves the last call, the mode and the master's life alone.
LEMMA OwnStays ==
  ASSUME OwnOutput, UNCHANGED <<last, cmd>>, alive' => alive
  PROVE  OwnOutput'
BY DEF OwnOutput, Finished, Expected

LEMMA CallKeeps ==
  ASSUME BatchInv, NEW t \in Tests, NEW req \in Requests, Call(t, req)
  PROVE  BatchInv'
<1>1. /\ Idle /\ MayCall(req) /\ calls' = calls + 1 /\ cmd' = Kept(req)
      /\ alive' = (alive \/ cmd = "nil")
      /\ stdin' = (IF alive' THEN Append(stdin, t) ELSE stdin)
      /\ call' = [NoCall EXCEPT !.st = "read", !.file = t, !.req = req]
      /\ UNCHANGED <<client, writing, pipe, last, crashes>>
  BY DEF Call, MayCall
<1>2. /\ call'.st = "read" /\ call'.file = t /\ call'.req = req /\ call'.buf = <<>>
      /\ call'.copy = NewCopy /\ DOMAIN call' = {"st", "file", "req", "buf", "copy"}
  BY <1>1 DEF NoCall
<1>3. stdin = <<>> /\ writing = <<>> /\ pipe = <<>>
  BY <1>1 DEF BatchInv, ModeInv
<1>4. cmd' \in Mode /\ (cmd # "nil" => cmd' = cmd)
  BY <1>1 DEF BatchInv, TypeOK, Kept, ModeFor, Mode
<1>5. req # "trace" => cmd' = "speed"
  <2>1. SUFFICES ASSUME req # "trace" PROVE cmd' = "speed"
    OBVIOUS
  <2>2. CASE cmd = "nil"
    BY <1>1, <2>1, <2>2 DEF Kept, ModeFor
  <2>3. CASE cmd # "nil"
    <3>1. last.req \in {"none", "speed"}
      BY <1>1, <2>1, <2>3 DEF MayCall, BatchInv, ModeInv
    <3>2. cmd # "trace"
      BY <1>1, <3>1 DEF BatchInv, ModeInv
    <3> QED
      BY <1>1, <2>3, <3>2 DEF Kept, BatchInv, TypeOK
  <2> QED
    BY <2>2, <2>3
<1>6. TypeOK'
  <2>1. stdin' \in Seq(Tests)
    BY <1>1, <1>3
  <2>2. calls' \in 0 .. MaxCalls
    BY <1>1, BatchAssumption DEF MayCall, BatchInv, TypeOK
  <2>3. writing' \in Seq(Lines') /\ pipe' \in Seq(Lines') /\ call'.buf \in Seq(Lines')
    <3>1. \A S : <<>> \in Seq(S)
      OBVIOUS
    <3>2. writing' = <<>> /\ pipe' = <<>> /\ call'.buf = <<>>
      BY <1>1, <1>2, <1>3
    <3> QED
      BY <3>1, <3>2, Zenon
  <2> QED
    BY <1>1, <1>2, <1>4, <2>1, <2>2, <2>3 DEF BatchInv, TypeOK, Mode
<1>7. ModeInv'
  BY <1>1, <1>2, <1>4, <1>5 DEF ModeInv, BatchInv, TypeOK, Idle, Finished, Mode
<1>8. ReadInv'
  <2>1. PICK all : all \in OutputsOf(client', t, cmd')
    BY SomeOutput
  <2>2. all \in Seq(LinesOf(client')) /\ <<>> \in Seq(LinesOf(client'))
    BY <1>1, <1>4, <2>1, OutputFacts DEF BatchInv, TypeOK
  <2>3. all = (<<>> \o <<>>) \o (<<>> \o all)
    BY <2>2
  <2>4. call'.copy = After(client', NewCopy, <<>>) /\ NewCopy.root = NoRoot
    BY <1>2, AfterEmpty DEF NewCopy
  <2>5. alive' => stdin' = <<t>>
    BY <1>1, <1>3
  <2>6. Channel(all, <<>>, all)'
    BY <1>1, <1>2, <1>3, <2>3, <2>4, <2>5 DEF Channel
  <2> QED
    BY <1>2, <2>1, <2>2, <2>6 DEF ReadInv
<1>9. OwnOutput'
  <2>1. CASE cmd = "nil"
    BY <1>1, <2>1 DEF BatchInv, ModeInv, OwnOutput, Finished
  <2>2. CASE cmd # "nil"
    BY <1>1, <1>4, <2>2, OwnStays DEF BatchInv
  <2> QED
    BY <2>1, <2>2
<1> QED
  BY <1>6, <1>7, <1>8, <1>9 DEF BatchInv

LEMMA StartFailsKeeps ==
  ASSUME BatchInv, NEW t \in Tests, NEW req \in Requests, StartFails(t, req)
  PROVE  BatchInv'
<1>1. /\ Idle /\ MayCall(req) /\ cmd = "nil" /\ calls' = calls + 1
      /\ last' = [NoLast EXCEPT !.file = t, !.req = req, !.err = TRUE]
      /\ UNCHANGED <<client, cmd, alive, stdin, writing, pipe, call, crashes>>
  BY DEF StartFails, MayCall, masterVars
<1>2. last'.err
  BY <1>1 DEF NoLast
<1>3. TypeOK'
  <2>1. calls' \in 0 .. MaxCalls
    BY <1>1, BatchAssumption DEF MayCall, BatchInv, TypeOK
  <2> QED
    BY <1>1, <2>1, LinesIs DEF BatchInv, TypeOK
<1>4. ModeInv'
  BY <1>1, <1>2 DEF BatchInv, ModeInv, Idle, Finished, TypeOK
<1>5. ReadInv' /\ OwnOutput'
  BY <1>1, <1>2 DEF ReadInv, OwnOutput, Finished, Idle
<1> QED
  BY <1>3, <1>4, <1>5 DEF BatchInv

\* Between Idle states: the call in progress stays, and so does what has finished.
LEMMA ReadingFrame ==
  ASSUME BatchInv, ~Idle, call'.st = "read", call'.file = call.file, call'.req = call.req,
         DOMAIN call' = DOMAIN call, UNCHANGED <<client, cmd, last, calls>>, alive' => alive,
         crashes' \in 0 .. MaxCrashes, stdin' \in Seq(Tests), writing' \in Seq(LinesOf(client)),
         pipe' \in Seq(LinesOf(client)), call'.buf \in Seq(LinesOf(client)), ReadInv'
  PROVE  BatchInv'
<1>1. TypeOK'
  BY LinesIs DEF BatchInv, TypeOK
<1>2. ModeInv'
  BY DEF BatchInv, ModeInv, Idle, Finished
<1>3. OwnOutput'
  BY OwnStays DEF BatchInv
<1> QED
  BY <1>1, <1>2, <1>3 DEF BatchInv

\* What is known of the output while a call is in progress.
LEMMA Underway ==
  ASSUME BatchInv, ~Idle
  PROVE  /\ client \in Batchers /\ client \in Clients /\ call.file \in Tests /\ cmd \in Mode
         /\ call.buf \in Seq(LinesOf(client)) /\ pipe \in Seq(LinesOf(client))
         /\ writing \in Seq(LinesOf(client)) /\ stdin \in Seq(Tests)
         /\ crashes \in 0 .. MaxCrashes /\ MaxCrashes \in Nat
         /\ Expected(call.file) = ExpectedOf(call.file, cmd)
         /\ DOMAIN call = {"st", "file", "req", "buf", "copy"} /\ call.st = "read"
BY BatchAssumption, LinesIs
   DEF BatchInv, TypeOK, ModeInv, Clients, Expected, ExpectedOf, Idle

LEMMA FillKeeps == ASSUME BatchInv, Fill PROVE BatchInv'
<1>1. /\ ~Idle /\ call.buf = <<>> /\ call' = [call EXCEPT !.buf = pipe] /\ pipe' = <<>>
      /\ UNCHANGED <<client, cmd, alive, stdin, writing, last, calls, crashes>>
  BY DEF Fill, Idle
<1>2. /\ call'.buf = pipe /\ call'.st = "read" /\ call'.file = call.file /\ call'.req = call.req
      /\ call'.copy = call.copy /\ DOMAIN call' = DOMAIN call
  BY <1>1, Underway
<1> DEFINE L == LinesOf(client)
<1>3. PICK all \in OutputsOf(client, call.file, cmd), done \in Seq(L), rest \in Seq(L) :
        Channel(all, done, rest)
  BY <1>1 DEF BatchInv, ReadInv
<1>4. pipe \in Seq(L)
  BY <1>1, Underway
<1> HIDE DEF L
<1>5. (done \o <<>>) \o (pipe \o rest) = (done \o pipe) \o (<<>> \o rest)
  BY <1>4
<1>6. Channel(all, done, rest)'
  <2>1. all = (done \o call'.buf) \o (pipe' \o rest)
    BY <1>1, <1>2, <1>3, <1>5 DEF Channel
  <2>2. Decodes' <=> Decodes
    BY <1>1, <1>2 DEF Decodes
  <2> QED
    BY <1>1, <1>2, <1>3, <2>1, <2>2 DEF Channel
<1>7. ReadInv'
  BY <1>1, <1>2, <1>3, <1>6 DEF ReadInv, L
<1>8. <<>> \in Seq(L)
  OBVIOUS
<1> QED
  BY <1>1, <1>2, <1>4, <1>7, <1>8, ReadingFrame, Underway DEF L

\* A call that ends with its own output, or with a beginning of it after a crash.
LEMMA FinishKeeps ==
  ASSUME BatchInv, ~Idle, NEW out, Finish(out),
         UNCHANGED <<client, cmd, alive, masterVars, calls, crashes>>,
         stdin = <<>>, writing = <<>>, pipe = <<>>,
         \/ out = Expected(call.file)
         \/ ~alive /\ out = <<>>
         \/ ~alive /\ Last(out) = Root(NoRoot) /\ IsPrefix(Front(out), Expected(call.file))
  PROVE  BatchInv'
<1>1. /\ call' = NoCall /\ last'.file = call.file /\ last'.req = call.req /\ last'.out = out
      /\ UNCHANGED <<client, cmd, alive, stdin, writing, pipe, calls, crashes>>
  BY DEF Finish, masterVars
<1>2. TypeOK'
  <2>1. \A S : <<>> \in Seq(S)
    OBVIOUS
  <2>2. call'.st = "none" /\ call'.buf = <<>>
    BY <1>1 DEF NoCall
  <2>3. call'.buf \in Seq(Lines')
    BY <2>1, <2>2, Zenon
  <2> QED
    BY <1>1, <2>2, <2>3, LinesIs DEF BatchInv, TypeOK
<1>3. ModeInv'
  <2>1. cmd = "trace" => call.req = "trace"
    BY DEF BatchInv, ModeInv
  <2>2. cmd # "nil" /\ Idle'
    BY <1>1 DEF BatchInv, ModeInv, Mode, Idle, NoCall
  <2> QED
    BY <1>1, <2>1, <2>2 DEF BatchInv, ModeInv
<1>4. ReadInv' /\ OwnOutput'
  BY <1>1 DEF ReadInv, Idle, NoCall, OwnOutput, Finished, Expected
<1> QED
  BY <1>2, <1>3, <1>4 DEF BatchInv

LEMMA AppendConcat ==
  ASSUME NEW S, NEW s \in Seq(S), NEW x \in S
  PROVE  Append(s, x) = s \o <<x>> /\ <<x>> \in Seq(S)
OBVIOUS

LEMMA SumZero ==
  ASSUME NEW a \in Nat, NEW b \in Nat, NEW c \in Nat, a + (b + c) = 0
  PROVE  a = 0 /\ b = 0 /\ c = 0
OBVIOUS

\* The one line y is d, x and z.
IsOneLine(S, y, d, x, z) ==
  /\ d \in Seq(S) /\ x \in S /\ z \in Seq(S)
  /\ <<y>> = Append(d, x) \o z

LEMMA OneLineOutput ==
  ASSUME NEW S, NEW d, NEW x, NEW z, NEW y, IsOneLine(S, y, d, x, z)
  PROVE  d = <<>> /\ z = <<>> /\ x = y
<1> /\ d \in Seq(S) /\ x \in S /\ z \in Seq(S)
    /\ <<y>> = Append(d, x) \o z
  BY DEF IsOneLine
<1>1. Len(<<y>>) = 1 /\ <<y>>[1] = y
  OBVIOUS
<1>2. Len(Append(d, x) \o z) = (Len(d) + 1) + Len(z) /\ Len(d) \in Nat /\ Len(z) \in Nat
  OBVIOUS
<1>3. Len(d) = 0 /\ Len(z) = 0
  BY <1>1, <1>2
<1>4. d = <<>> /\ z = <<>>
  BY <1>3, EmptySeq
<1>5. (Append(d, x) \o z)[1] = x
  BY <1>3, <1>4
<1> QED
  BY <1>1, <1>4, <1>5

LEMMA LineKeeps == ASSUME BatchInv, Line PROVE BatchInv'
<1> DEFINE L == LinesOf(client)
           line == Head(call.buf)
           t == call.file
           f == Next1(client, call.copy, line)
           left == Tail(call.buf)
<1>1. ~Idle /\ call.buf # <<>> /\ UNCHANGED <<client, cmd, alive, masterVars, calls, crashes>>
      /\ IF Decodes THEN Finish(Decoded(line))
         ELSE IF EndsOutput(f) THEN Finish(Ended1(f).out)
         ELSE call' = [call EXCEPT !.buf = left, !.copy = f] /\ UNCHANGED last
  <2>1. call' = [call EXCEPT !.buf = Tail(@), !.copy = f]
          => call' = [call EXCEPT !.buf = left, !.copy = f]
    OBVIOUS
  <2> QED
    BY <2>1 DEF Line, Idle
<1>2. PICK all \in OutputsOf(client, t, cmd), done \in Seq(L), rest \in Seq(L) :
        Channel(all, done, rest)
  BY <1>1 DEF BatchInv, ReadInv
<1>3. call.buf \in Seq(L) /\ pipe \in Seq(L)
  BY <1>1, Underway
<1> DEFINE d2 == Append(done, line)
           z == left \o (pipe \o rest)
<1>4. /\ line \in L /\ left \in Seq(L) /\ d2 \in Seq(L) /\ z \in Seq(L)
      /\ done \in Seq(L) /\ rest \in Seq(L)
  <2> HIDE DEF L
  <2> QED
    BY <1>1, <1>3
<1>5. all = d2 \o z /\ d2 \o left = done \o call.buf /\ all = (d2 \o left) \o (pipe \o rest)
  <2> HIDE DEF L
  <2>1. call.buf = <<line>> \o left
    BY <1>1, <1>3
  <2>2. d2 = done \o <<line>> /\ <<line>> \in Seq(L)
    <3> HIDE DEF line
    <3> QED
      BY <1>4, AppendConcat
  <2>3. d2 \o left = done \o call.buf
    <3> HIDE DEF line, left, d2
    <3> QED
      BY <1>3, <1>4, <2>1, <2>2
  <2>4. all = (done \o call.buf) \o (pipe \o rest)
    BY <1>2 DEF Channel
  <2> HIDE DEF line, left, d2
  <2>5. (d2 \o left) \o (pipe \o rest) = d2 \o z
    BY <1>3, <1>4
  <2> QED
    BY <2>3, <2>4, <2>5
<1>6. f = After(client, NewCopy, d2)
  <2> HIDE DEF L, line
  <2> QED
    BY <1>2, <1>4, AfterAppend DEF Channel
<1>7. stdin = <<>> /\ writing = IF alive THEN rest ELSE <<>>
  BY <1>1, <1>2 DEF Channel
<1>8. call.file \in Tests /\ cmd \in Mode /\ client \in Batchers /\ Expected(t) = ExpectedOf(t, cmd)
  BY <1>1, Underway
<1> HIDE DEF L, line, left, d2, z, f
<1>9. ASSUME z = <<>> PROVE pipe = <<>> /\ rest = <<>> /\ left = <<>>
  <2>1. Len(z) = Len(left) + (Len(pipe) + Len(rest))
    BY <1>3, <1>4 DEF z
  <2>2. Len(z) = 0 /\ Len(left) \in Nat /\ Len(pipe) \in Nat /\ Len(rest) \in Nat
    BY <1>3, <1>4, <1>9
  <2>3. Len(left) = 0 /\ Len(pipe) = 0 /\ Len(rest) = 0
    <3>1. Len(left) + (Len(pipe) + Len(rest)) = 0
      BY <2>1, <2>2
    <3> QED
      BY <2>2, <3>1, SumZero
  <2> QED
    BY <1>3, <1>4, <2>3, EmptySeq
<1>10. CASE Decodes
  <2>1. PrintsArray(client, cmd) /\ done = <<>>
    BY <1>1, <1>2, <1>10 DEF Decodes, PrintsArray, Channel, BatchInv, ModeInv
  <2>2. all = <<ArrayText(t)>>
    BY <1>8, <2>1, OutputIs
  <2>4. z = <<>> /\ line = ArrayText(t)
    <3>1. IsOneLine(L, ArrayText(t), done, line, z)
      BY <1>4, <1>5, <2>2 DEF IsOneLine, d2
    <3> QED
      BY <1>4, <3>1, OneLineOutput
  <2>5. Decoded(line) = Expected(t)
    BY <1>8, <2>1, <2>4 DEF Decoded, ArrayText, ExpectedOf, PrintsArray
  <2> QED
    BY <1>1, <1>7, <1>9, <1>10, <2>4, <2>5, FinishKeeps DEF t
<1>11. CASE ~Decodes /\ EndsOutput(f)
  <2>1. f.root # NoRoot
    BY <1>11 DEF EndsOutput
  <2>2. ~PrintsArray(client, cmd)
    <3>1. SUFFICES ASSUME PrintsArray(client, cmd) PROVE FALSE
      OBVIOUS
    <3>2. all = <<ArrayText(t)>>
      BY <1>8, <3>1, OutputIs
    <3>3. line = ArrayText(t)
      <4>1. IsOneLine(L, ArrayText(t), done, line, z)
        BY <1>4, <1>5, <3>2 DEF IsOneLine, d2
      <4> QED
        BY <1>4, <4>1, OneLineOutput
    <3>4. f = call.copy
      BY <3>3 DEF f, Next1, ArrayText
    <3> QED
      BY <1>2, <2>1, <3>4 DEF Channel
  <2>3. Ended1(After(client, NewCopy, all)).out = Expected(t)
    BY <1>8, <2>2, OutputFacts
  <2>4. PICK front \in Seq(L), x \in L :
          all = Append(front, x) /\ After(client, NewCopy, front).root = NoRoot
    BY <1>8, <2>2, OutputFacts DEF L
  <2>5. z = <<>>
    <3>1. Cut(L, front, x, d2, z)
      BY <1>4, <1>5, <2>4 DEF Cut
    <3> QED
      BY <1>6, <2>1, <2>4, <3>1, LastLine
  <2>6. all = d2
    BY <1>4, <1>5, <2>5, ConcatEmptySeq
  <2>7. Ended1(f).out = Expected(t)
    BY <1>6, <2>3, <2>6
  <2> QED
    BY <1>1, <1>7, <1>9, <1>11, <2>5, <2>7, FinishKeeps DEF t
<1>12. CASE ~Decodes /\ ~EndsOutput(f)
  <2>1. call' = [call EXCEPT !.buf = left, !.copy = f] /\ UNCHANGED last
    BY <1>1, <1>12
  <2>2. /\ call'.buf = left /\ call'.st = "read" /\ call'.file = call.file
        /\ call'.req = call.req /\ call'.copy = f /\ DOMAIN call' = DOMAIN call
    BY <1>1, <2>1, Underway
  <2>3. UNCHANGED <<client, cmd, alive, stdin, writing, pipe, calls, crashes>>
    BY <1>1 DEF masterVars
  <2> PICK d : d = d2
    OBVIOUS
  <2>4. Channel(all, d, rest)'
    <3>1. ~Decodes'
      BY <1>12, <2>2, <2>3 DEF Decodes
    <3>2. f.root = NoRoot
      BY <1>12 DEF EndsOutput
    <3>3. all = (d \o call'.buf) \o (pipe' \o rest)
      BY <1>5, <2>2, <2>3
    <3>4. call'.copy = After(client', NewCopy, d) /\ call'.copy.root = NoRoot
      BY <1>6, <2>2, <2>3, <3>2
    <3>5. stdin' = <<>> /\ writing' = IF alive' THEN rest ELSE <<>>
      BY <1>7, <2>3
    <3> QED
      BY <3>1, <3>3, <3>4, <3>5 DEF Channel
  <2>5. ReadInv'
    <3>1. all \in OutputsOf(client', call'.file, cmd')
      BY <1>2, <2>2, <2>3 DEF t
    <3>2. d \in Seq(LinesOf(client')) /\ rest \in Seq(LinesOf(client'))
      BY <1>4, <2>3 DEF L
    <3> QED
      BY <2>4, <3>1, <3>2 DEF ReadInv
  <2> QED
    BY <1>1, <1>3, <1>4, <2>1, <2>2, <2>3, <2>5, ReadingFrame, Underway DEF L
<1> QED
  BY <1>10, <1>11, <1>12

LEMMA FrontOfAppend ==
  ASSUME NEW s, IsSeq(s), NEW x
  PROVE  Front(Append(s, x)) = s /\ Last(Append(s, x)) = x
<1>1. PICK S : s \in Seq(S)
  BY DEF IsSeq
<1> DEFINE T == S \cup {x}
           a == Append(s, x)
<1>2. s \in Seq(T) /\ x \in T
  BY <1>1
<1> HIDE DEF T
<1>3. a \in Seq(T) /\ Len(a) = Len(s) + 1 /\ Len(s) \in Nat /\ a[Len(s) + 1] = x
      /\ \A i \in 1 .. Len(s) : a[i] = s[i]
  BY <1>2
<1> HIDE DEF a
<1>4. SubSeq(a, 1, Len(s)) = [i \in 1 .. Len(s) |-> a[i]]
  BY <1>3
<1>5. s = [i \in 1 .. Len(s) |-> s[i]]
  BY <1>2, SeqIsFunction
<1>6. Front(a) = SubSeq(a, 1, Len(s)) /\ Last(a) = x
  BY <1>3 DEF Front, Last
<1> QED
  BY <1>3, <1>4, <1>5, <1>6 DEF a

\* The master has died, and all that it had printed has been read.
LEMMA EofKeeps == ASSUME BatchInv, Eof, OutputEnded PROVE BatchInv'
<1> DEFINE L == LinesOf(client)
           t == call.file
           f == call.copy
           out == IF Decodes THEN <<>> ELSE Ended1(f).out
<1>1. /\ ~Idle /\ call.buf = <<>> /\ pipe = <<>> /\ ~alive /\ Finish(out)
      /\ UNCHANGED <<client, cmd, alive, masterVars, calls, crashes>>
  BY DEF Eof, OutputEnded, Idle
<1>2. PICK all \in OutputsOf(client, t, cmd), done \in Seq(L), rest \in Seq(L) :
        Channel(all, done, rest)
  BY <1>1 DEF BatchInv, ReadInv
<1>3. stdin = <<>> /\ writing = <<>>
  BY <1>1, <1>2 DEF Channel
<1>4. all = done \o rest
  <2>1. all = (done \o <<>>) \o (<<>> \o rest)
    BY <1>1, <1>2 DEF Channel
  <2> HIDE DEF L
  <2>2. done \o <<>> = done /\ <<>> \o rest = rest
    OBVIOUS
  <2> QED
    BY <2>1, <2>2
<1>5. /\ call.file \in Tests /\ cmd \in Mode /\ client \in Batchers /\ client \in Clients
      /\ Expected(t) = ExpectedOf(t, cmd)
  BY <1>1, Underway
<1> HIDE DEF L
<1>6. f = After(client, NewCopy, done) /\ f.root = NoRoot
  BY <1>2 DEF Channel
<1>7. Shape(client, f)
  BY <1>5, <1>6, NewShape, AfterGrows DEF Grows
<1> DEFINE g == After(client, NewCopy, all)
<1>8. g = After(client, f, rest)
  BY <1>4, <1>6, AfterConcat
<1>9. Shape(client, g) /\ IsPrefix(OutOf(f), OutOf(g))
  <2> HIDE DEF f, g
  <2> QED
    BY <1>5, <1>7, <1>8, AfterGrows DEF Grows
<1>10. IsPrefix(OutOf(g), ExpectedOf(t, cmd))
  BY <1>5, OutputFacts
<1>11. IsSeq(ExpectedOf(t, cmd))
  <2> DEFINE exec == ExecOf(t, cmd)
             T == OutLines \cup {Root(t)}
  <2>1. ExpectedOf(t, cmd) = Marshalled(exec) \o <<Root(t)>>
    BY <1>5, ExpectedIs, CanonicalIs
  <2>2. Marshalled(exec) \in Seq(OutLines)
    BY <1>5, ExpectedIs, ExecutionTypes DEF IsExecution
  <2> HIDE DEF exec
  <2>3. Marshalled(exec) \in Seq(T) /\ Root(t) \in T
    BY <2>2
  <2> HIDE DEF T
  <2>4. ExpectedOf(t, cmd) \in Seq(T)
    BY <2>1, <2>3
  <2> QED
    BY <2>4 DEF IsSeq
<1> HIDE DEF f, g
<1>12. /\ IsSeq(OutOf(f)) /\ IsSeq(OutOf(g))
       /\ Ended1(f).out = Append(OutOf(f), Root(f.root))
  BY <1>7, <1>9, OutIs DEF Shape
<1>13. IsPrefix(OutOf(f), Expected(t))
  BY <1>5, <1>9, <1>10, <1>11, <1>12, PrefixTransitive
<1>14. CASE Decodes
  BY <1>1, <1>3, <1>14, FinishKeeps
<1>15. CASE ~Decodes
  <2>1. Front(Ended1(f).out) = OutOf(f) /\ Last(Ended1(f).out) = Root(NoRoot)
    BY <1>6, <1>12, FrontOfAppend
  <2>2. Finish(Ended1(f).out)
    BY <1>1, <1>15
  <2> QED
    BY <1>1, <1>3, <1>13, <2>1, <2>2, FinishKeeps DEF t
<1> QED
  BY <1>14, <1>15

\* Steps of the master between two calls: there is nothing for it to do but die.
LEMMA IdleFrame ==
  ASSUME BatchInv, Idle, UNCHANGED <<client, cmd, call, last, calls>>, alive' => alive,
         crashes' \in 0 .. MaxCrashes, stdin' = <<>>, writing' = <<>>, pipe' = <<>>
  PROVE  BatchInv'
<1>1. TypeOK'
  <2>1. \A S : <<>> \in Seq(S)
    OBVIOUS
  <2>2. stdin' \in Seq(Tests) /\ writing' \in Seq(Lines') /\ pipe' \in Seq(Lines')
    BY <2>1, Zenon
  <2> QED
    BY <2>2, LinesIs DEF BatchInv, TypeOK
<1>2. ModeInv' /\ ReadInv'
  BY DEF BatchInv, ModeInv, ReadInv, Idle, Finished
<1>3. OwnOutput'
  BY OwnStays DEF BatchInv
<1> QED
  BY <1>1, <1>2, <1>3 DEF BatchInv

LEMMA CloseKeeps == ASSUME BatchInv, Close PROVE BatchInv'
<1>1. crashes' \in 0 .. MaxCrashes
  BY DEF Close, BatchInv, TypeOK
<1> QED
  BY <1>1, IdleFrame DEF Close

LEMMA TakesKeeps == ASSUME BatchInv, MasterTakes PROVE BatchInv'
<1>1. /\ alive /\ stdin # <<>> /\ writing' \in OutputsOf(client, Head(stdin), cmd)
      /\ stdin' = Tail(stdin)
      /\ UNCHANGED <<client, cmd, alive, pipe, call, last, calls, crashes>>
  BY DEF MasterTakes
<1>2. ~Idle
  BY <1>1 DEF BatchInv, ModeInv
<1> DEFINE L == LinesOf(client)
<1>3. PICK old \in OutputsOf(client, call.file, cmd), done \in Seq(L), rest \in Seq(L) :
        Channel(old, done, rest)
  BY <1>2 DEF BatchInv, ReadInv
<1>4. stdin = <<call.file>> /\ call.buf = <<>> /\ pipe = <<>> /\ call.copy.root = NoRoot
      /\ done = <<>>
  BY <1>1, <1>3 DEF Channel
<1>5. Head(stdin) = call.file /\ Tail(stdin) = <<>>
  BY <1>4
<1> PICK all : all = writing'
  OBVIOUS
<1>6. all \in OutputsOf(client, call.file, cmd) /\ stdin' = <<>>
  BY <1>1, <1>5
<1>7. all \in Seq(L) /\ <<>> \in Seq(L)
  BY <1>2, <1>6, OutputFacts, Underway
<1>8. Channel(all, <<>>, all)'
  <2>1. all = (<<>> \o <<>>) \o (<<>> \o all)
    <3> HIDE DEF L
    <3> QED
      BY <1>7
  <2>2. all = (<<>> \o call'.buf) \o (pipe' \o all)
    BY <1>1, <1>4, <2>1
  <2>3. call'.copy = After(client', NewCopy, <<>>) /\ call'.copy.root = NoRoot
    BY <1>1, <1>3, <1>4 DEF Channel
  <2> QED
    BY <1>1, <1>6, <2>2, <2>3 DEF Channel
<1>9. ReadInv'
  BY <1>1, <1>6, <1>7, <1>8 DEF ReadInv
<1>10. /\ stdin' \in Seq(Tests) /\ writing' \in Seq(LinesOf(client))
       /\ DOMAIN call' = DOMAIN call /\ call'.st = "read"
  <2>1. \A S : <<>> \in Seq(S)
    OBVIOUS
  <2>2. stdin' \in Seq(Tests)
    BY <1>6, <2>1, Zenon
  <2> QED
    BY <1>1, <1>2, <1>7, <2>2, Underway
<1> QED
  BY <1>1, <1>2, <1>9, <1>10, ReadingFrame, Underway

LEMMA PrintsKeeps == ASSUME BatchInv, MasterPrints PROVE BatchInv'
<1>1. /\ alive /\ writing # <<>> /\ pipe' = Append(pipe, Head(writing)) /\ writing' = Tail(writing)
      /\ UNCHANGED <<client, cmd, alive, stdin, call, last, calls, crashes>>
  BY DEF MasterPrints
<1>2. ~Idle
  BY <1>1 DEF BatchInv, ModeInv
<1> DEFINE L == LinesOf(client)
<1>3. PICK all \in OutputsOf(client, call.file, cmd), done \in Seq(L), rest \in Seq(L) :
        Channel(all, done, rest)
  BY <1>2 DEF BatchInv, ReadInv
<1>4. stdin = <<>> /\ writing = rest
  BY <1>1, <1>3 DEF Channel
<1>5. pipe \in Seq(L) /\ call.buf \in Seq(L) /\ writing \in Seq(L)
  BY <1>2, Underway
<1> HIDE DEF L
<1>6. pipe' \in Seq(L) /\ writing' \in Seq(L) /\ pipe' \o writing' = pipe \o writing
  <2> DEFINE x == Head(writing)
             w == Tail(writing)
  <2>1. x \in L /\ w \in Seq(L) /\ writing = <<x>> \o w
    BY <1>1, <1>5
  <2> HIDE DEF x, w
  <2>2. Append(pipe, x) = pipe \o <<x>> /\ <<x>> \in Seq(L) /\ Append(pipe, x) \in Seq(L)
    BY <1>5, <2>1, AppendConcat
  <2>3. (pipe \o <<x>>) \o w = pipe \o (<<x>> \o w)
    BY <1>5, <2>1, <2>2
  <2> QED
    BY <1>1, <2>1, <2>2, <2>3 DEF x, w
<1> PICK left : left = writing'
  OBVIOUS
<1>7. Channel(all, done, left)'
  <2>1. all = (done \o call'.buf) \o (pipe' \o left)
    BY <1>1, <1>3, <1>4, <1>6 DEF Channel
  <2>2. Decodes' <=> Decodes
    BY <1>1 DEF Decodes
  <2> QED
    BY <1>1, <1>3, <1>4, <2>1, <2>2 DEF Channel
<1>8. ReadInv'
  <2>1. done \in Seq(LinesOf(client')) /\ left \in Seq(LinesOf(client'))
    BY <1>1, <1>6 DEF L
  <2>2. all \in OutputsOf(client', call'.file, cmd')
    BY <1>1, <1>3
  <2> QED
    BY <1>7, <2>1, <2>2 DEF ReadInv
<1>9. DOMAIN call' = DOMAIN call /\ call'.st = "read" /\ stdin' \in Seq(Tests)
      /\ crashes' \in 0 .. MaxCrashes
  BY <1>1, <1>2, Underway
<1> QED
  BY <1>1, <1>2, <1>5, <1>6, <1>8, <1>9, ReadingFrame DEF L

LEMMA DiesKeeps == ASSUME BatchInv, MasterDies PROVE BatchInv'
<1>1. /\ alive /\ ~alive' /\ crashes < MaxCrashes /\ crashes' = crashes + 1
      /\ stdin' = <<>> /\ writing' = <<>>
      /\ UNCHANGED <<client, cmd, pipe, call, last, calls>>
  BY DEF MasterDies
<1>2. crashes' \in 0 .. MaxCrashes
  BY <1>1, BatchAssumption DEF BatchInv, TypeOK
<1>3. CASE Idle
  <2>1. pipe' = <<>>
    BY <1>1, <1>3 DEF BatchInv, ModeInv
  <2> QED
    BY <1>1, <1>2, <1>3, <2>1, IdleFrame
<1>4. CASE ~Idle
  <2> DEFINE L == LinesOf(client)
  <2>1. PICK all \in OutputsOf(client, call.file, cmd), done \in Seq(L), rest \in Seq(L) :
          Channel(all, done, rest)
    BY <1>4 DEF BatchInv, ReadInv
  <2>2. Decodes' <=> Decodes
    BY <1>1 DEF Decodes
  <2>3. Channel(all, done, rest)'
    BY <1>1, <2>1, <2>2 DEF Channel
  <2>4. ReadInv'
    BY <1>1, <2>1, <2>3 DEF ReadInv
  <2>5. /\ stdin' \in Seq(Tests) /\ writing' \in Seq(LinesOf(client))
        /\ pipe' \in Seq(LinesOf(client)) /\ call'.buf \in Seq(LinesOf(client))
        /\ DOMAIN call' = DOMAIN call /\ call'.st = "read"
    <3>1. \A S : <<>> \in Seq(S)
      OBVIOUS
    <3>2. stdin' \in Seq(Tests) /\ writing' \in Seq(LinesOf(client))
      BY <1>1, <3>1, Zenon
    <3> QED
      BY <1>1, <1>4, <3>2, Underway
  <2> QED
    BY <1>1, <1>2, <1>4, <2>4, <2>5, ReadingFrame
<1> QED
  BY <1>3, <1>4

LEMMA BatchNext == ASSUME BatchInv, [Next]_vars PROVE BatchInv'
<1>1. CASE UNCHANGED vars
  <2>1. UNCHANGED <<client, cmd, alive, stdin, writing, pipe, call, last, calls, crashes>>
    BY <1>1 DEF vars, masterVars
  <2>2. TypeOK'
    BY <2>1, LinesIs DEF BatchInv, TypeOK
  <2>3. ModeInv'
    BY <2>1 DEF BatchInv, ModeInv, Idle, Finished
  <2>4. ReadInv'
    BY <2>1 DEF BatchInv, ReadInv, Idle, Channel, Decodes
  <2>5. OwnOutput'
    BY <2>1, OwnStays DEF BatchInv
  <2> QED
    BY <2>2, <2>3, <2>4, <2>5 DEF BatchInv
<1>2. CASE CallerStep
  BY <1>2, CallKeeps, StartFailsKeeps DEF CallerStep
<1>3. CASE ReadStep
  BY <1>3, FillKeeps, LineKeeps, EofKeeps DEF ReadStep, Eof
<1>4. CASE Close
  BY <1>4, CloseKeeps
<1>5. CASE MasterStep
  BY <1>5, TakesKeeps, PrintsKeeps DEF MasterStep
<1>6. CASE MasterDies
  BY <1>6, DiesKeeps
<1>7. CASE Ended
  BY <1>1, <1>7 DEF Ended
<1> QED
  BY <1>1, <1>2, <1>3, <1>4, <1>5, <1>6, <1>7 DEF Next

\* The invariant of a batch client: at any moment of a call what has been filtered,
\* what is buffered, what is in the pipe and what is still to come make up exactly
\* the output for the file of that call; between two calls there is nothing.
THEOREM BatchInductive == Spec => []BatchInv
<1>1. Init => BatchInv
  BY BatchInit
<1>2. BatchInv /\ [Next]_vars => BatchInv'
  BY BatchNext
<1> QED
  BY <1>1, <1>2, PTL DEF Spec

\* The types of the client's state, for any clients, tests and numbers of calls and
\* crashes.
THEOREM BatchTypeCorrect == Spec => []TypeOK
<1>1. BatchInv => TypeOK
  BY DEF BatchInv
<1> QED
  BY <1>1, BatchInductive, PTL

\* A finished call has delivered the canonical trace, or the root, of its own file,
\* or, of a master that has died, a beginning of it with an empty root.
THEOREM CallsDeliverOwnOutput == Spec => []OwnOutput
<1>1. BatchInv => OwnOutput
  BY DEF BatchInv
<1> QED
  BY <1>1, BatchInductive, PTL

\* A finished call leaves nothing in the pipes that the next one would read.
THEOREM CallsLeaveNothing == Spec => []NothingLeftOver
<1>1. BatchInv => NothingLeftOver
  <2> SUFFICES ASSUME BatchInv, Idle PROVE stdin \o writing \o pipe = <<>>
    BY DEF NothingLeftOver
  <2>1. stdin = <<>> /\ writing = <<>> /\ pipe = <<>>
    BY DEF BatchInv, ModeInv
  <2>2. (<<>> \o <<>>) \o <<>> = <<>>
    OBVIOUS
  <2> QED
    BY <2>1, <2>2
<1> QED
  BY <1>1, BatchInductive, PTL

=============================================================================
