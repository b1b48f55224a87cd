--------------------------- MODULE GoalProperties ---------------------------
(***************************************************************************)
(* What the goal verbs guarantee.  "clean" marks the behaviours in which   *)
(* no verb was cut short and repair was never run.                         *)
(***************************************************************************)
EXTENDS GoalLifecycle

\* The variables hold what their files can hold.
TypeOK ==
    /\ ledger \in Seq(GoalReceipt)
    /\ status \in [Target -> Mark]
    /\ plan \in [Target -> AllShapes]
    /\ owed \in [Target -> Nat]
    /\ table \in BOOLEAN
    /\ surface \in GoalState
    /\ claim \in [Worktree -> Target \cup {NoTarget}]
    /\ here \in Worktree
    /\ op \in [verb   : GoalVerb \cup {"repair", "idle"},
               target : Target \cup {NoTarget},
               mark   : Mark,
               claim  : Target \cup {NoTarget},
               todo   : SUBSET Stage]
    /\ clean \in BOOLEAN
    /\ missed \subseteq Target

\* The receipts a verb may append when the log folds to `goal`.  complete and
\* accept take their milestone from the command line and are not among them.
Answers(goal, r) ==
    CASE r.verb = "set"     -> goal = NoGoal
      [] r.verb = "park"    -> goal = [kind |-> "active", target |-> r.target]
      [] r.verb = "unpark"  -> goal.kind \in {"active", "parked"} /\ goal.target = r.target
      [] r.verb = "abandon" -> goal # NoGoal /\ goal.target = r.target
      [] OTHER              -> TRUE

\* No declaration displaces an open goal, and every park, unpark and abandon
\* receipt is about the goal that stood when it was written: set refuses over
\* an active, parked or pending goal (goal.rs set/park/unpark/abandon), one verb
\* after the other, whatever is cut short, repaired, moved or dropped in between.
LedgerIsLegal ==
    \A i \in DOMAIN ledger :
        Answers(goal_state(SubSeq(ledger, 1, i - 1)), ledger[i])

AbandonsOf(t) ==
    Cardinality({i \in DOMAIN ledger : ledger[i] = [verb |-> "abandon", target |-> t]})

\* The receipt is written before anything it explains: at every instant, across
\* crashes and repairs, a README marker has its receipt in the log.  A reader
\* never meets a closed, parked or accepted milestone the log does not know.
ReceiptFirst ==
    \A t \in Target : status[t] # "none" =>
        \E verb \in GoalVerb : MarkOf[verb] = status[t] /\ Recorded(ledger, verb, t)

\* The debt is never written twice and never without its abandonment: there are
\* at most as many OWED rows for a milestone as abandon receipts, and exactly
\* as many once every verb has run to its end (goal.rs abandon).
DebtCarried ==
    \A t \in Target :
        /\ owed[t] <= AbandonsOf(t)
        /\ clean /\ op = Idle => owed[t] = AbandonsOf(t)

\* When every verb ran to its end the three tracked surfaces tell one story:
\* GOAL.md shows the goal the log folds to and each README marker is that of
\* the last receipt about its milestone, unless that receipt's verb met no README
\* there and said nothing of it (goal.rs write_readme_status).
RecordAgrees ==
    clean /\ op = Idle =>
        /\ surface = Goal
        /\ \A t \in Target \ missed : HasReadme(t) /\ status[t] # "none" =>
              \E i \in DOMAIN ledger :
                  /\ ledger[i].target = t
                  /\ MarkOf[ledger[i].verb] = status[t]
                  /\ \A j \in DOMAIN ledger : ledger[j].target = t => j <= i

\* One repair that reaches its last write is enough, whatever was cut short before
\* it, other repairs included: no closure is torn any more, and the sidecar claims
\* nothing or the goal of the log (goal.rs repair, "repair finishes the interrupted
\* write").
RepairConverges ==
    [][op.verb = "repair" /\ WriteSurface =>
          /\ unresolved_closure' = {}
          /\ claim'[here'] \in {NoTarget, Goal'.target}]_vars

\* A sidecar that survives is the goal's: in a repository with one worktree and
\* no verb cut short, the claim is absent or names the goal of the log.
ClaimAgrees ==
    clean /\ op = Idle /\ Cardinality(Worktree) = 1 =>
        claim[here] \in {NoTarget, Goal.target}

-----------------------------------------------------------------------------
Pending(t) == Goal = [kind |-> "pending", target |-> t] /\ Len(ledger) < MaxLedger

\* "The operator's semantic acceptance (`goal accept`) closes the goal": while there is
\* room in the log, an operator who keeps accepting gets a pending goal off the slot, if
\* its milestone was never accepted before (a second acceptance writes nothing).
FirstAcceptanceClosesGoal ==
    \A t \in Target :
        Pending(t) /\ ~Recorded(ledger, "accept", t) ~> ~Pending(t)
=============================================================================
