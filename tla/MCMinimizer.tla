---------------------------- MODULE MCMinimizer ----------------------------
(* Instances of Minimizer for TLC: see the .cfg files.                     *)
EXTENDS Minimizer

AllClients == <<"geth", "besu", "nimbus", "nethermind", "erigon", "eels", "evmone", "revm">>
AllModes == {"roots", "crash", "fulltrace"}

Account(code, slots) == [code |-> code, slots |-> slots]

\* PUSH1 5, PUSH1 3, ADD, POP; a PUSH2 without its argument; nothing but STOP; a
\* gas that is no int.
ThreeTests ==
  { [auths |-> <<1, 2>>, gas |-> 3,
     pre |-> (1 :> Account(<<96, 5, 96, 3, 1, 80>>, {1, 2})) @@ (2 :> Account(<<97>>, {}))],
    [auths |-> <<1>>, gas |-> 2,
     pre |-> (1 :> Account(<<95, 95, 1>>, {1})) @@ (2 :> Account(<<0, 0>>, {2}))],
    [auths |-> <<1>>, gas |-> 5,
     pre |-> (1 :> Account(<<95, 95, 1>>, {1})) @@ (2 :> Account(<<>>, {}))] }

\* What makes the clients differ, in a test with enough gas: an ADD is executed;
\* account 2 exists; slot 1 is set or there is an auth.
AllFlaws == {"add", "account", "slot", "trace", "crash"}

Code1(t) == IF 1 \in DOMAIN t.pre THEN t.pre[1].code ELSE <<>>
Executes(t, op) == \E i \in DOMAIN Instructions(Code1(t)) : Instructions(Code1(t))[i].op = op

Shows(f, t) ==
  /\ t.gas >= 1
  /\ CASE f \in {"add", "trace"} -> Executes(t, 1)
       [] f \in {"account", "crash"} -> 2 \in DOMAIN t.pre
       [] f = "slot" -> t.auths # <<>> \/ (1 \in DOMAIN t.pre /\ 1 \in t.pre[1].slots)

\* The execution of account 1; an ADD is the last operation and fails.
Executed(t, gas) ==
  CHOOSE exec \in
    {[j \in 1 .. Len(ins) |-> [depth |-> 1, pc |-> ins[j].pc, op |-> ins[j].op, gas |-> gas,
                              stack |-> <<ins[j].pc>>, fails |-> ins[j].op = 1]] :
       ins \in {Instructions(Code1(t))}} : TRUE

\* The last client has the flaw; the first one crashes on it.  Without gas the
\* transaction is invalid: every client exits with an error.  Every other one is
\* chatty.
FlawedOutcome(f, i, t) ==
  LET flawed == Shows(f, t) /\ i = Len(Vms) IN
  [starts |-> TRUE,
   exit |-> IF t.gas = 0 \/ (i = 1 /\ Shows(f, t) /\ f = "crash") THEN 2
            ELSE IF f = "add" THEN 1 ELSE 0,
   exec |-> Executed(t, IF flawed /\ f = "trace" THEN 2 ELSE 1),
   root |-> IF t.gas = 0 THEN NoRoot ELSE IF flawed /\ f # "trace" THEN 2 ELSE 1,
   chatty |-> i % 2 = 0]
=============================================================================
