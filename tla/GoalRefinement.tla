--------------------------- MODULE GoalRefinement ---------------------------
(***************************************************************************)
(* The files implement the promise: read through the fold, the receipt log *)
(* of GoalLifecycle is a GoalRecord, crashes, repairs, edits and stale     *)
(* sidecars included, as long as complete and accept name the goal that    *)
(* the log tracks.                                                         *)
(***************************************************************************)
EXTENDS GoalProperties

ClosedSet == {t \in Target : Recorded(ledger, "complete", t)}
AcceptedSet == {t \in Target : Recorded(ledger, "accept", t)}

Record == INSTANCE GoalRecord
            WITH goal <- Goal, closed <- ClosedSet, accepted <- AcceptedSet

\* Every step of the orderly verbs is a step of the abstract goal record, or
\* leaves it alone (goal.rs, whose log is its only durable goal state).
ImplementsRecord == Record!RecordSpec
=============================================================================
