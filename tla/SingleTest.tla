----------------------------- MODULE SingleTest -----------------------------
(***************************************************************************)
(* One state test on every client, a process each (goevmlab/evms and the   *)
(* single-test runners of common/utils.go): what counts as an error of a   *)
(* client, and what the tools conclude from the outcomes.                  *)
(*                                                                         *)
(* The outcome of a client is                                              *)
(*   [starts, exit, exec, root, chatty]:                                   *)
(* whether the process starts, its exit code, the operations it executes,  *)
(* the root it prints (NoRoot for none), and whether it prints more than   *)
(* it has to.                                                              *)
(***************************************************************************)
EXTENDS TraceFilter, FiniteSets

-----------------------------------------------------------------------------
(* RunStateTest: an error of the process is returned, unless the client is  *)
(* known to exit with it when the post state is not the expected one.       *)

GethRunErr(o)       == ~o.starts \/ o.exit # 0
BesuRunErr(o)       == ~o.starts \/ o.exit # 0
EelsRunErr(o)       == ~o.starts \/ o.exit # 0
ErigonRunErr(o)     == ~o.starts \/ o.exit # 0
NimbusRunErr(o)     == ~o.starts
NethermindRunErr(o) == ~o.starts
EvmoneRunErr(o)     == ~o.starts \/ o.exit \notin {0, 1}
RevmRunErr(o)       == ~o.starts \/ o.exit \notin {0, 1}

RunErr(c, o) ==
  CASE c = "geth" -> GethRunErr(o)
    [] c = "besu" -> BesuRunErr(o)
    [] c = "eels" -> EelsRunErr(o)
    [] c = "erigon" -> ErigonRunErr(o)
    [] c = "nimbus" -> NimbusRunErr(o)
    [] c = "nethermind" -> NethermindRunErr(o)
    [] c = "evmone" -> EvmoneRunErr(o)
    [] c = "revm" -> RevmRunErr(o)

\* What is written is the filtered output, whatever became of the process.
RunOutput(c, o) ==
  IF o.starts THEN Filtered(c, TraceTexts(c, o.exec, o.root, o.chatty)) ELSE <<>>

-----------------------------------------------------------------------------
(* GetStateRoot: the root is cut out of the output (ParseStateRoot); without *)
(* one, or with an error of the process, there is an error.                 *)

Parsed(o, err) == [root |-> IF err THEN NoRoot ELSE o.root, err |-> err \/ o.root = NoRoot]

GethRoot(o)       == Parsed(o, ~o.starts \/ o.exit # 0)
BesuRoot(o)       == Parsed(o, ~o.starts \/ o.exit # 0)
EelsRoot(o)       == Parsed(o, ~o.starts \/ o.exit # 0)
ErigonRoot(o)     == Parsed(o, ~o.starts \/ o.exit # 0)
NethermindRoot(o) == Parsed(o, ~o.starts \/ o.exit # 0)
NimbusRoot(o)     == Parsed(o, ~o.starts)
EvmoneRoot(o)     == Parsed(o, ~o.starts \/ o.exit \notin {0, 1})
RevmRoot(o)       == Parsed(o, ~o.starts \/ o.exit \notin {0, 1})

GetStateRoot(c, o) ==
  CASE c = "geth" -> GethRoot(o)
    [] c = "besu" -> BesuRoot(o)
    [] c = "eels" -> EelsRoot(o)
    [] c = "erigon" -> ErigonRoot(o)
    [] c = "nimbus" -> NimbusRoot(o)
    [] c = "nethermind" -> NethermindRoot(o)
    [] c = "evmone" -> EvmoneRoot(o)
    [] c = "revm" -> RevmRoot(o)

-----------------------------------------------------------------------------
(* The tools; vms is a sequence of clients, os their outcomes.              *)

\* RootsEqual: the first error wins, then the roots are compared.
RootsEqual(vms, os) ==
  LET Got(i) == GetStateRoot(vms[i], os[i])
      err == \E i \in DOMAIN vms : Got(i).err
  IN [agree |-> ~err /\ \A i \in DOMAIN vms : Got(i).root = Got(1).root, err |-> err]

\* RunSingleTest: errors of the clients are logged, the files compared.  (A bound
\* variable over one value: TLC evaluates it once.)
RunSingleTest(vms, os) ==
  LET eq == \A files \in {[i \in DOMAIN vms |-> RunOutput(vms[i], os[i])]} : CompareFiles(files)
  IN [agree |-> eq, err |-> ~eq]

=============================================================================
