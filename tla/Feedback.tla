------------------------------ MODULE Feedback ------------------------------
(***************************************************************************)
(* What a new run_batch reads off the reports of earlier batches           *)
(* (orchestrator/rotate.py), and what a report does to them.  written      *)
(* orders the plans by the mtime of their diff_report.json, oldest first;  *)
(* found are the plans whose report lists a divergence.                    *)
(***************************************************************************)
EXTENDS Naturals, Sequences, SequencesExt

\* A report is written over the old one: its mtime is now the newest.
Rewritten(written, p) == Append(RemoveFirst(written, p), p)

\* Tests on which clients differ stay in the directory: a runtest that runs to
\* its end finds again what it has found, and more only among more tests.  If
\* runtest may fail (it cannot start, is killed or gives up) run_diff writes what
\* its log shows so far, down to no divergence at all, over a report that may
\* have listed one; a later report may list it again.
Results(found, p, more, fails) ==
  {found} \cup (IF more \/ fails THEN {found \cup {p}} ELSE {})
          \cup (IF fails THEN {found \ {p}} ELSE {})

MostRecent(written, k) ==
  SubSeq(written, IF Len(written) > k THEN Len(written) - k + 1 ELSE 1, Len(written))

AnyBatches(written, k)    == written # <<>>
EnoughBatches(written, k) == Len(written) >= k

\* detect_plateau: the k most recent reports, none of them with a divergence.
DetectPlateau(written, found, k) ==
  /\ k > 0
  /\ EnoughBatches(written, k)
  /\ ToSet(MostRecent(written, k)) \cap found = {}

=============================================================================
