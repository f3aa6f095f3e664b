------------------------------ MODULE DiffTest ------------------------------
(***************************************************************************)
(* What goevmlab's differential engine promises for each test file, with   *)
(* no word on goroutines or channels: a delivered file is either skipped   *)
(* or executed; an executed file is decided once, when Quorum different    *)
(* clients have reported a hash; it is a flaw exactly when the hashes      *)
(* differ; only a file the clients agreed on may be deleted.               *)
(***************************************************************************)
EXTENDS Naturals, FiniteSets

CONSTANTS Tests, VMs, Hashes, Quorum

VARIABLES
  phase,    \* per file: new, delivered, skipped, executing, or the verdict
  results,  \* per file: set of <<client, hash>>
  deleted   \* files deleted from disk

vars == <<phase, results, deleted>>

Init ==
  /\ phase = [t \in Tests |-> "new"]
  /\ results = [t \in Tests |-> {}]
  /\ deleted = {}

Move(t, from, to) ==
  /\ phase[t] = from
  /\ phase' = [phase EXCEPT ![t] = to]

Deliver(t) == Move(t, "new", "delivered") /\ UNCHANGED <<results, deleted>>
Skip(t)    == Move(t, "delivered", "skipped") /\ UNCHANGED <<results, deleted>>
Execute(t) == Move(t, "delivered", "executing") /\ UNCHANGED <<results, deleted>>

Report(t, v, h) ==
  /\ phase[t] = "executing"
  /\ \A p \in results[t] : p[1] # v
  /\ Cardinality(results[t]) < Quorum
  /\ results' = [results EXCEPT ![t] = @ \cup {<<v, h>>}]
  /\ UNCHANGED <<phase, deleted>>

Agreed(t) == \A p, q \in results[t] : p[2] = q[2]

Decide(t) ==
  /\ Cardinality(results[t]) = Quorum
  /\ \E verdict \in IF Agreed(t) THEN {"agree", "slow"} ELSE {"flaw"} :
       Move(t, "executing", verdict)
  /\ UNCHANGED <<results, deleted>>

Delete(t) ==
  /\ phase[t] = "agree"
  /\ t \notin deleted
  /\ deleted' = deleted \cup {t}
  /\ UNCHANGED <<phase, results>>

Next ==
  \E t \in Tests :
    \/ Deliver(t) \/ Skip(t) \/ Execute(t) \/ Decide(t) \/ Delete(t)
    \/ \E v \in VMs, h \in Hashes : Report(t, v, h)

Spec == Init /\ [][Next]_vars

=============================================================================
