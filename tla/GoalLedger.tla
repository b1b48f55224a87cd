----------------------------- MODULE GoalLedger -----------------------------
(***************************************************************************)
(* The goal receipts of `.host-lifecycle-receipts` and everything the goal *)
(* verbs derive from them (src/src/goal.rs).  A receipt is reduced to what *)
(* the fold reads: the verb (the receipt's component) and the milestone it *)
(* names.  No state of its own; GoalLifecycle extends it.                  *)
(***************************************************************************)
EXTENDS Naturals, Sequences

CONSTANTS
    Target,     \* the plan/NNNN milestones of the repository
    NoTarget    \* no milestone: an absent argument, claim or goal

ASSUME NoTargetAssumption == NoTarget \notin Target

GoalVerb == {"set", "park", "unpark", "abandon", "complete", "accept"}
GoalReceipt == [verb : GoalVerb, target : Target]

(***************************************************************************)
(* The goal the receipts fold to.  The park reason is not kept.            *)
(***************************************************************************)
NoGoal == [kind |-> "none", target |-> NoTarget]
OpenGoal == [kind : {"active", "parked", "pending"}, target : Target]
GoalState == OpenGoal \cup {NoGoal}

KindAfter == [set |-> "active", park |-> "parked", unpark |-> "active",
              complete |-> "pending"]

\* One arm of the fold: a transition that names no milestone is skipped,
\* except abandon, which needs none; every other component is skipped too.
Apply(state, r) ==
    IF r.verb \in DOMAIN KindAfter /\ r.target # NoTarget
    THEN [kind |-> KindAfter[r.verb], target |-> r.target]
    ELSE IF r.verb = "abandon" \/ (r.verb = "accept" /\ r.target # NoTarget)
         THEN NoGoal
         ELSE state

\* The fold itself, over the receipts in file order.
goal_state(receipts) ==
    LET after[i \in 0 .. Len(receipts)] ==
            IF i = 0 THEN NoGoal ELSE Apply(after[i - 1], receipts[i])
    IN  after[Len(receipts)]

\* Some receipt of the log is this verb on this milestone.
Recorded(receipts, verb, t) ==
    \E i \in DOMAIN receipts : receipts[i] = [verb |-> verb, target |-> t]

(***************************************************************************)
(* The status marker each verb leaves in the milestone's README, and the   *)
(* last closure of the log: the receipt the pair check starts from.        *)
(***************************************************************************)
Mark == {"none", "active", "parked", "complete", "accepted", "abandoned"}
MarkOf == [set |-> "active", park |-> "parked", unpark |-> "active",
           abandon |-> "abandoned", complete |-> "complete",
           accept |-> "accepted"]

IsClosure(r) == r.verb \in {"complete", "abandon"}

\* The closure receipts with no later closure: the last one, or none.
LastClosure(receipts) ==
    {receipts[i] : i \in {j \in DOMAIN receipts :
        /\ IsClosure(receipts[j])
        /\ \A k \in DOMAIN receipts : IsClosure(receipts[k]) => k <= j}}
=============================================================================
