--------------------------- MODULE TaskProperties ---------------------------
(***************************************************************************)
(* What the frontier, the gate and the fingerprints of the task graph are  *)
(* worth.                                                                  *)
(***************************************************************************)
EXTENDS TaskGraph

\* Where the structure has no problem the work can go on: as long as a task is
\* undischarged one of them has every dependency discharged (the cycle and
\* dangling checks of task_graph_problems against tasks_status's frontier, over
\* every dependency graph of the instance, bands, duplicate anchors and cross-
\* milestone edges included).
FrontierMoves ==
    (~task_structure_problems /\ ~(Keys \subseteq discharged)) => frontier # {}

\* A milestone that is marked complete under a clean gate owes nothing: each of
\* its tasks was at some time vouched for by a receipt about that very task,
\* under the verify it has now or by a decision to skip it, whatever was
\* renamed, removed, regrouped or reworded since (task_gate, task_verdict).
GateStands ==
    task_check_clean =>
        \A t \in parse_tasks : t.key[1] \in complete =>
            \E v \in vouched :
                /\ v.key = t.key
                /\ v.disposition = "skip" \/ v.verify = t.verify

\* A fingerprinted task the gate takes for fresh was vouched for on the contents
\* its inputs have now, every one of them and in this order, and on these very
\* files if the receipt names them, unless an edit came between a re-derivation's
\* run and its fingerprint.  The gate compares no names: inputs exchanged for
\* others of the same contents are fresh (input_digest, tasks_rederive).
FreshMeansVouched ==
    (task_check_clean /\ ~raced) =>
        \A t \in parse_tasks :
            LET r == receipt[t.key]
            IN  (r.disposition = "done" /\ t.verify[1] = "command"
                 /\ t.inputs # << >> /\ r.digest # NoDigest) =>
                    \E v \in vouched :
                        /\ v.key = t.key /\ v.verify = t.verify
                        /\ v.saw = Contents(t.inputs)
                        /\ r.inputs = t.inputs => v.inputs = t.inputs
=============================================================================
