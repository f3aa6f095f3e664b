------------------------------ MODULE BatchVM ------------------------------
(***************************************************************************)
(* A batch client of goevmlab/evms (gethbatch, besubatch, eelsbatch,       *)
(* nimbusbatch, nethbatch, erigonbatch): one long-lived master process of  *)
(* the EVM is started at the first test; the path of each test is written  *)
(* to its stdin, and what it prints is read up to the first line with a    *)
(* state root (TraceFilter) or, from a client that prints a JSON array     *)
(* when it does not trace, one array is decoded.                           *)
(*                                                                         *)
(* The caller is sequential: the engine gives each client its own vmLoop,  *)
(* and handleConsensusFlaw runs when these have ended.  The master process *)
(* is external; it may die.  Reading can split its output anywhere.        *)
(***************************************************************************)
EXTENDS TraceFilter

CONSTANTS
  Batchers,   \* clients to choose from
  Tests,      \* test files, each named by its state root
  Exec,       \* [Tests -> the operations a test executes]
  Requests,   \* subset of {"trace", "speed", "root"}: kinds of calls
  MaxCalls,   \* bound: calls made
  MaxCrashes  \* bound: deaths of the master

ASSUME BatchAssumption ==
  /\ MaxCalls \in Nat /\ MaxCrashes \in Nat
  /\ Batchers \subseteq {"geth", "besu", "eels", "nimbus", "nethermind", "erigon"}
  /\ Requests \subseteq {"trace", "speed", "root"}
  /\ \A t \in Tests : t # NoRoot /\ IsExecution(Exec[t])

VARIABLES
  client,   \* the client; never changes
  cmd,      \* evm.cmd: "nil", or the mode the master was started in
  alive,    \* the master process is alive
  stdin,    \* paths in the master's stdin
  writing,  \* lines the master has still to print
  pipe,     \* its output, not read yet
  call,     \* the call in progress: [st, file, req, buf, copy]
  last,     \* the last call finished: [file, req, out, err]
  calls,    \* number of calls made
  crashes   \* number of deaths of the master

masterVars == <<stdin, writing, pipe>>
vars == <<client, cmd, alive, masterVars, call, last, calls, crashes>>

ArrayClients == {"nimbus", "nethermind", "erigon"}

\* The master's output for a test: a trace unless it was started for speed.
OutputsOf(c, t, mode) ==
  IF mode = "trace" THEN {TraceTexts(c, Exec[t], t, chatty) : chatty \in BOOLEAN}
  ELSE {<<IF c \in ArrayClients THEN ArrayText(t) ELSE RootText(c, t)>>}

NoCall == [st |-> "none", file |-> 0, req |-> "none", buf |-> <<>>, copy |-> NewCopy]
NoLast == [file |-> 0, req |-> "none", out |-> <<>>, err |-> FALSE]

Init ==
  /\ client \in Batchers
  /\ cmd = "nil"
  /\ alive = FALSE
  /\ stdin = <<>> /\ writing = <<>> /\ pipe = <<>>
  /\ call = NoCall
  /\ last = NoLast
  /\ calls = 0
  /\ crashes = 0

\* RunStateTest chooses the command line by its speedTest argument; GetStateRoot
\* always starts the master without traces.
ModeFor(req) == IF req = "trace" THEN "trace" ELSE "speed"

\* The engine's calls have one speedTest value until the investigation of a flaw
\* asks for a trace; RootsEqual calls a fresh client once.
Idle == call.st = "none"
MayCall(req) ==
  /\ Idle
  /\ calls < MaxCalls
  /\ \/ req = "trace" /\ last.req # "root"
     \/ req = "speed" /\ last.req \in {"none", "speed"}
     \/ req = "root" /\ calls = 0

\* Once set, evm.cmd stays, and so does the mode of its master.
NotKept(req) == cmd
Kept(req)    == IF cmd = "nil" THEN ModeFor(req) ELSE cmd

\* RunStateTest or GetStateRoot: start the master unless evm.cmd is set, write
\* the path.  A write to a dead master fails; the error is dropped or logged.
Call(t, req) ==
  LET started == cmd = "nil" IN
  /\ MayCall(req)
  /\ calls' = calls + 1
  /\ cmd' = Kept(req)
  /\ alive' = (alive \/ started)
  /\ stdin' = IF alive' THEN Append(stdin, t) ELSE stdin
  /\ call' = [NoCall EXCEPT !.st = "read", !.file = t, !.req = req]
  /\ UNCHANGED <<client, writing, pipe, last, crashes>>

\* The master cannot be started: the caller gets the error.  (GetStateRoot has
\* set evm.cmd already, but its callers use the client once.)
StartFails(t, req) ==
  /\ MayCall(req)
  /\ cmd = "nil"
  /\ calls' = calls + 1
  /\ last' = [NoLast EXCEPT !.file = t, !.req = req, !.err = TRUE]
  /\ UNCHANGED <<client, cmd, alive, masterVars, call, crashes>>

\* The scanner or decoder reads whatever the pipe holds.
Fill ==
  /\ call.st = "read"
  /\ call.buf = <<>>
  /\ pipe # <<>>
  /\ call' = [call EXCEPT !.buf = pipe]
  /\ pipe' = <<>>
  /\ UNCHANGED <<client, cmd, alive, stdin, writing, last, calls, crashes>>

Finish(out) ==
  /\ last' = [file |-> call.file, req |-> call.req, err |-> FALSE, out |-> out]
  /\ call' = NoCall

\* copyUntilEnd(.., speedMode): nimbus, nethermind and erigon decode an array.
Decodes == client \in ArrayClients /\ call.req # "trace"

\* r[0] is the root; when the value is no array nothing is written.
Decoded(line) == IF line.kind = "array" THEN <<Root(line.set.stateRoot)>> ELSE <<>>

EndsAtAnyLine(f) == f.out # <<>> \/ f.root # NoRoot
EndsOutput(f)    == f.root # NoRoot

\* A line goes through the filter of the client.  "If we have a stateroot, we're
\* done": what the scanner has buffered after it is dropped with the scanner.
Line ==
  /\ call.st = "read"
  /\ call.buf # <<>>
  /\ LET line == Head(call.buf)
         f == Next1(client, call.copy, line) IN
       IF Decodes THEN Finish(Decoded(line))
       ELSE IF EndsOutput(f) THEN Finish(Ended1(f).out)
       ELSE /\ call' = [call EXCEPT !.buf = Tail(@), !.copy = f]
            /\ UNCHANGED last
  /\ UNCHANGED <<client, cmd, alive, masterVars, calls, crashes>>

NeverEnds   == FALSE
EmptyIsEnd  == TRUE
OutputEnded == ~alive

\* The pipe is closed and drained: the output ends with an empty state root (an
\* array decoder writes nothing), and the caller is told nothing.
Eof ==
  /\ call.st = "read"
  /\ call.buf = <<>>
  /\ pipe = <<>>
  /\ OutputEnded
  /\ Finish(IF Decodes THEN <<>> ELSE Ended1(call.copy).out)
  /\ UNCHANGED <<client, cmd, alive, masterVars, calls, crashes>>

\* RootsEqual closes the client after its one GetStateRoot: stdin is closed and
\* the master waited for.
Close ==
  /\ Idle
  /\ last.req = "root"
  /\ alive
  /\ alive' = FALSE
  /\ stdin' = <<>> /\ writing' = <<>> /\ pipe' = <<>>
  /\ UNCHANGED <<client, cmd, call, last, calls, crashes>>

-----------------------------------------------------------------------------
(* The master process (external).                                          *)

MasterTakes ==
  /\ alive
  /\ writing = <<>>
  /\ stdin # <<>>
  /\ writing' \in OutputsOf(client, Head(stdin), cmd)
  /\ stdin' = Tail(stdin)
  /\ UNCHANGED <<client, cmd, alive, pipe, call, last, calls, crashes>>

MasterPrints ==
  /\ alive
  /\ writing # <<>>
  /\ pipe' = Append(pipe, Head(writing))
  /\ writing' = Tail(writing)
  /\ UNCHANGED <<client, cmd, alive, stdin, call, last, calls, crashes>>

MasterDies ==
  /\ alive
  /\ crashes < MaxCrashes
  /\ crashes' = crashes + 1
  /\ alive' = FALSE
  /\ stdin' = <<>> /\ writing' = <<>>
  /\ UNCHANGED <<client, cmd, pipe, call, last, calls>>

-----------------------------------------------------------------------------
CallerStep == \E t \in Tests, req \in Requests : Call(t, req) \/ StartFails(t, req)
ReadStep   == Fill \/ Line \/ Eof
MasterStep == MasterTakes \/ MasterPrints

Ended ==
  /\ Idle /\ ~ \E req \in Requests : MayCall(req)
  /\ (last.req = "root" => ~alive)
  /\ UNCHANGED vars

Next == CallerStep \/ ReadStep \/ Close \/ MasterStep \/ MasterDies \/ Ended

Spec == Init /\ [][Next]_vars

\* The reader runs, and a master that lives answers.
FairSpec == Spec /\ WF_vars(ReadStep) /\ WF_vars(MasterStep)

-----------------------------------------------------------------------------
(* Properties.                                                             *)

Lines ==
  UNION {ToSet(out) : out \in UNION {OutputsOf(client, t, m) : t \in Tests, m \in {"trace", "speed"}}}

\* The types of the client's state (gethbatcher.go and its siblings).
TypeOK ==
  /\ client \in Batchers
  /\ cmd \in {"nil", "trace", "speed"}
  /\ alive => cmd # "nil"
  /\ stdin \in Seq(Tests)
  /\ writing \in Seq(Lines) /\ pipe \in Seq(Lines)
  /\ call.st \in {"none", "read"}
  /\ call.buf \in Seq(Lines)
  /\ calls \in 0 .. MaxCalls
  /\ crashes \in 0 .. MaxCrashes

Finished == last.req # "none" /\ ~last.err

Expected(t) == IF cmd = "trace" THEN Canonical(Exec[t], t) ELSE <<Root(t)>>

\* A finished call has delivered exactly the canonical trace of its own file,
\* the same for every client and however it prints, or, the master having died,
\* a beginning of it and an empty root (copyUntilEnd, CustomMarshal).
OwnOutput ==
  Finished =>
    \/ last.out = Expected(last.file)
    \/ ~alive /\ last.out = <<>>
    \/ /\ ~alive
       /\ Last(last.out) = Root(NoRoot)
       /\ IsPrefix(Front(last.out), Expected(last.file))

\* Nothing is left of a finished call that the next one would take for its own
\* (copyUntilEnd stops at the root, and drops what it has buffered).
NothingLeftOver == Idle /\ Finished /\ alive => stdin \o writing \o pipe = <<>>

\* A call that has the master it expects returns, whatever happens to the
\* master.  (A master started for speed prints an array, which the trace reader
\* of nimbus, nethermind and erigon passes over: that call waits for ever.)
Mismatched == client \in ArrayClients /\ cmd = "speed" /\ call.req = "trace"
CallReturns == (call.st = "read" /\ ~Mismatched) ~> Idle

\* The investigation of a flaw dumps the trace of every client: a run without
\* skipTrace delivers the operations of the file (handleConsensusFlaw).
TraceDumped ==
  Finished /\ last.req = "trace" /\ crashes = 0
    => last.out = Canonical(Exec[last.file], last.file)

=============================================================================
