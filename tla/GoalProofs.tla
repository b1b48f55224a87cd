----------------------------- MODULE GoalProofs -----------------------------
(***************************************************************************)
(* The safety of the goal verbs for every set of milestones and worktrees, *)
(* every length of the log and every sequence of verbs, cut short,         *)
(* repaired and edited under in between.  IInv adds to the properties of the log what the     *)
(* running verb still knows of the log it read (RunningVerb); JInv says    *)
(* which file is still behind the receipt the verb has written; OInv what  *)
(* an orderly one knows of the goal it named.                              *)
(***************************************************************************)
EXTENDS GoalRefinement, FiniteSetTheorems, TLAPS

(* The fold. *)

\* What a receipt makes of the goal does not depend on the goal before it: each
\* arm of the fold of goal_state replaces it.
LEMMA ApplyForgets ==
    ASSUME NEW r \in GoalReceipt, NEW s1, NEW s2
    PROVE  Apply(s1, r) = Apply(s2, r)
BY NoTargetAssumption DEF Apply, GoalReceipt, GoalVerb, KindAfter

\* An arm of the fold yields a goal, whatever stood before.
LEMMA ApplyType ==
    ASSUME NEW r \in GoalReceipt, NEW s
    PROVE  Apply(s, r) \in GoalState
BY NoTargetAssumption DEF Apply, GoalReceipt, GoalVerb, KindAfter, GoalState, OpenGoal

\* So goal_state is the last receipt's word alone: no goal for an empty log.
LEMMA FoldIsLast ==
    ASSUME NEW L \in Seq(GoalReceipt)
    PROVE  goal_state(L) = IF L = << >> THEN NoGoal ELSE Apply(NoGoal, L[Len(L)])
<1> DEFINE Good(g) == g = [i \in 0 .. Len(L) |->
                             IF i = 0 THEN NoGoal ELSE Apply(g[i - 1], L[i])]
           F == [i \in 0 .. Len(L) |->
                    IF i = 0 THEN NoGoal ELSE Apply(NoGoal, L[i])]
<1>1. \A i \in 1 .. Len(L) : L[i] \in GoalReceipt
  OBVIOUS
<1>2. \A g : \A i \in 1 .. Len(L) : Apply(g[i - 1], L[i]) = Apply(NoGoal, L[i])
  BY <1>1, ApplyForgets
<1>3. Good(F)
  BY <1>2
<1>4. Good(CHOOSE g : Good(g))
  <2> HIDE DEF Good, F
  <2> QED BY <1>3
<1>5. goal_state(L) = (CHOOSE g : Good(g))[Len(L)]
  BY DEF goal_state
<1>6. (CHOOSE g : Good(g))[Len(L)] =
         IF Len(L) = 0 THEN NoGoal ELSE Apply((CHOOSE g : Good(g))[Len(L) - 1], L[Len(L)])
  <2> DEFINE c == CHOOSE g : Good(g)
  <2>1. c = [i \in 0 .. Len(L) |-> IF i = 0 THEN NoGoal ELSE Apply(c[i - 1], L[i])]
    BY <1>4
  <2> HIDE DEF c
  <2>2. Len(L) \in 0 .. Len(L)
    OBVIOUS
  <2>3. c[Len(L)] = IF Len(L) = 0 THEN NoGoal ELSE Apply(c[Len(L) - 1], L[Len(L)])
    BY <2>1, <2>2
  <2> QED BY <2>3 DEF c
<1> HIDE DEF Good
<1>7. CASE L = << >>
  BY <1>5, <1>6, <1>7
<1>8. CASE L # << >>
  <2>1. Len(L) \in 1 .. Len(L)
    BY <1>8
  <2>2. Apply((CHOOSE g : Good(g))[Len(L) - 1], L[Len(L)]) = Apply(NoGoal, L[Len(L)])
    BY <1>2, <2>1
  <2> QED BY <1>5, <1>6, <1>8, <2>1, <2>2
<1> QED BY <1>7, <1>8

\* Appending a receipt makes the goal what that receipt says.
COROLLARY FoldAppend ==
    ASSUME NEW L \in Seq(GoalReceipt), NEW r \in GoalReceipt
    PROVE  goal_state(Append(L, r)) = Apply(NoGoal, r)
<1>1. /\ Append(L, r) \in Seq(GoalReceipt)
      /\ Append(L, r) # << >>
      /\ Append(L, r)[Len(Append(L, r))] = r
  OBVIOUS
<1> QED BY <1>1, FoldIsLast

\* goal_state of any log of receipts is a goal.
COROLLARY FoldType ==
    ASSUME NEW L \in Seq(GoalReceipt)
    PROVE  goal_state(L) \in GoalState
<1>1. NoGoal \in GoalState
  BY DEF GoalState
<1>2. CASE L = << >>
  BY <1>1, <1>2, FoldIsLast
<1>3. CASE L # << >>
  <2>1. L[Len(L)] \in GoalReceipt
    BY <1>3
  <2> QED BY <1>3, <2>1, FoldIsLast, ApplyType
<1> QED BY <1>2, <1>3

\* Appending a receipt changes neither the receipts before it nor what stood
\* before each of them.
LEMMA PrefixesKept ==
    ASSUME NEW L \in Seq(GoalReceipt), NEW r \in GoalReceipt
    PROVE  /\ \A i \in 1 .. Len(L) :
                  /\ Append(L, r)[i] = L[i]
                  /\ SubSeq(Append(L, r), 1, i - 1) = SubSeq(L, 1, i - 1)
           /\ Append(L, r)[Len(L) + 1] = r
           /\ SubSeq(Append(L, r), 1, Len(L)) = L
           /\ DOMAIN L = 1 .. Len(L)
           /\ DOMAIN Append(L, r) = 1 .. (Len(L) + 1)
           /\ Append(L, r) \in Seq(GoalReceipt)
OBVIOUS

\* What is recorded after an append: what was, and the new receipt.
LEMMA RecordedAppend ==
    ASSUME NEW L \in Seq(GoalReceipt), NEW r \in GoalReceipt, NEW verb, NEW t
    PROVE  Recorded(Append(L, r), verb, t)
             <=> Recorded(L, verb, t) \/ r = [verb |-> verb, target |-> t]
BY PrefixesKept DEF Recorded

-----------------------------------------------------------------------------
\* Until its receipt is written a verb is still the answer to the goal it read;
\* from then on its receipt is in the log.
VerbKnows ==
    op.verb \in GoalVerb =>
        /\ op.target \in Target
        /\ op.mark = MarkOf[op.verb]
        /\ "receipt" \in op.todo => Answers(Goal, [verb |-> op.verb, target |-> op.target])
        /\ "receipt" \notin op.todo => Recorded(ledger, op.verb, op.target)

\* A repair writes no receipt, and marks a README only as the log says.
RepairKnows ==
    op.verb = "repair" =>
        /\ op.todo \subseteq {"status", "claim", "surface"}
        /\ "status" \in op.todo =>
              /\ op.target \in Target
              /\ \E verb \in GoalVerb :
                    MarkOf[verb] = op.mark /\ Recorded(ledger, verb, op.target)

RunningVerb ==
    /\ VerbKnows
    /\ RepairKnows
    /\ op.verb = "idle" => op.todo = {}

\* The inductive invariant.
IInv == TypeOK /\ RunningVerb /\ LedgerIsLegal /\ ReceiptFirst

\* The invariant holds of a repository with no goal receipts.
LEMMA InitIInv == Init => IInv
<1> SUFFICES ASSUME Init PROVE IInv
  OBVIOUS
<1> USE DEF Init
<1>1. TypeOK
  <2>1. plan \in [Target -> AllShapes]
    BY GoalAssumption
  <2>2. ledger \in Seq(GoalReceipt) /\ surface \in GoalState
    BY DEF GoalState
  <2>3. Idle \in [verb   : GoalVerb \cup {"repair", "idle"},
                  target : Target \cup {NoTarget},
                  mark   : Mark,
                  claim  : Target \cup {NoTarget},
                  todo   : SUBSET Stage]
    BY DEF Idle, Mark
  <2> QED BY <2>1, <2>2, <2>3 DEF TypeOK, Mark
<1>2. RunningVerb
  BY DEF RunningVerb, VerbKnows, RepairKnows, Idle, GoalVerb
<1>3. LedgerIsLegal
  BY DEF LedgerIsLegal
<1>4. ReceiptFirst
  BY DEF ReceiptFirst
<1> QED BY <1>1, <1>2, <1>3, <1>4 DEF IInv

\* The log folds to a goal.
LEMMA GoalInState == TypeOK => Goal \in GoalState
BY FoldType DEF TypeOK, Goal

\* A verb that starts leaves every file alone, and knows what it will record.
LEMMA StartVerb ==
    ASSUME IInv, NEW verb \in GoalVerb, NEW t \in Target, Run(verb, t),
           Answers(Goal, [verb |-> verb, target |-> t])
    PROVE  IInv'
<1> USE DEF IInv, Run, tracked, ground
<1>1. Command(verb, t) \in [verb   : GoalVerb \cup {"repair", "idle"},
                            target : Target \cup {NoTarget},
                            mark   : Mark,
                            claim  : Target \cup {NoTarget},
                            todo   : SUBSET Stage]
  BY DEF Command, GoalVerb, MarkOf, Mark, ClaimOf, Writes, Stage
<1>2. TypeOK'
  BY <1>1 DEF TypeOK
<1>3. "receipt" \in Writes[verb]
  BY DEF Writes, GoalVerb
<1>4. RunningVerb'
  BY <1>3 DEF RunningVerb, VerbKnows, RepairKnows, Command, GoalVerb, Goal
<1>5. LedgerIsLegal' /\ ReceiptFirst'
  BY DEF LedgerIsLegal, ReceiptFirst
<1> QED BY <1>2, <1>4, <1>5

\* Whatever leaves the log and the READMEs alone and ends the running verb
\* leaves the invariant to its types.
LEMMA EndVerb ==
    ASSUME IInv, TypeOK', op' = Idle, UNCHANGED <<ledger, status>>
    PROVE  IInv'
BY DEF IInv, RunningVerb, VerbKnows, RepairKnows, LedgerIsLegal, ReceiptFirst,
       Idle, GoalVerb

\* After a write the verb is over, or the same verb with that write made.
LEMMA OpType ==
    ASSUME TypeOK, NEW stage \in Stage, Done(stage)
    PROVE  /\ op' \in [verb   : GoalVerb \cup {"repair", "idle"},
                       target : Target \cup {NoTarget},
                       mark   : Mark,
                       claim  : Target \cup {NoTarget},
                       todo   : SUBSET Stage]
           /\ \/ op' = Idle
              \/ /\ op'.verb = op.verb
                 /\ op'.target = op.target
                 /\ op'.mark = op.mark
                 /\ op'.todo = op.todo \ {stage}
BY DEF TypeOK, Done, Idle, Mark, Stage

\* A write other than the receipt's moves the verb on and leaves the log alone.
LEMMA OtherWrite ==
    ASSUME IInv, NEW stage \in Stage \ {"receipt"}, Done(stage),
           UNCHANGED ledger
    PROVE  RunningVerb' /\ LedgerIsLegal'
<1> USE DEF IInv
<1>1. LedgerIsLegal'
  BY DEF LedgerIsLegal
<1>2. RunningVerb'
  <2>1. CASE op' = Idle
    BY <2>1 DEF RunningVerb, VerbKnows, RepairKnows, Idle, GoalVerb
  <2>2. CASE /\ op'.verb = op.verb /\ op'.target = op.target
             /\ op'.mark = op.mark /\ op'.todo = op.todo \ {stage}
    <3>1. Goal' = Goal
      BY DEF Goal
    <3>2. VerbKnows'
      BY <2>2, <3>1 DEF RunningVerb, VerbKnows
    <3>3. RepairKnows'
      BY <2>2 DEF RunningVerb, RepairKnows
    <3>4. op'.verb = "idle" => op'.todo = {}
      BY <2>2 DEF RunningVerb
    <3> QED BY <2>2, <3>2, <3>3, <3>4 DEF RunningVerb
  <2> QED BY <2>1, <2>2, OpType
<1> QED BY <1>1, <1>2

-----------------------------------------------------------------------------
(* The invariant across each action. *)

\* An open goal names a milestone.
LEMMA OpenGoalTarget ==
    ASSUME TypeOK, Goal.kind \in {"active", "parked", "pending"}
    PROVE  Goal \in OpenGoal /\ Goal.target \in Target /\ Goal # NoGoal
BY GoalInState DEF GoalState, OpenGoal, NoGoal

\* set, park, unpark and abandon start on the goal they read.
LEMMA TrackedStep ==
    ASSUME IInv, (\E t \in Target : set(t)) \/ park \/ unpark \/ abandon
    PROVE  IInv'
<1> USE DEF IInv
<1>1. ASSUME NEW t \in Target, set(t) PROVE IInv'
  BY <1>1, StartVerb DEF set, GoalVerb, Answers
<1>2. CASE park
  BY <1>2, OpenGoalTarget, StartVerb DEF park, GoalVerb, Answers, OpenGoal
<1>3. CASE unpark
  BY <1>3, OpenGoalTarget, StartVerb DEF unpark, GoalVerb, Answers
<1>4. CASE abandon
  BY <1>4, OpenGoalTarget, StartVerb DEF abandon, GoalVerb, Answers
<1> QED BY <1>1, <1>2, <1>3, <1>4

\* complete starts on a milestone, the goal's or the named one.
LEMMA CompleteStep ==
    ASSUME IInv, NEW arg \in Target \cup {NoTarget}, complete(arg)
    PROVE  IInv'
<1>1. PICK m \in Target : Run("complete", m)
  BY OpenGoalTarget DEF complete, IInv
<1> QED BY <1>1, StartVerb DEF GoalVerb, Answers

\* accept starts on the milestone it was given.
LEMMA AcceptStep ==
    ASSUME IInv, NEW t \in Target, accept(t)
    PROVE  IInv'
BY StartVerb DEF accept, GoalVerb, Answers

\* repair starts from a closure of the log, or from the goal.
LEMMA RepairStep == ASSUME IInv, repair PROVE IInv'
<1> USE DEF IInv, repair, tracked, ground
<1>1. LedgerIsLegal' /\ ReceiptFirst'
  BY DEF LedgerIsLegal, ReceiptFirst
<1>2. CASE unresolved_closure # {}
  <2>1. PICK r \in unresolved_closure :
            op' = Repair(r.target, MarkOf[r.verb], NoTarget,
                         {"status", "claim", "surface"})
    BY <1>2
  <2>2. PICK i \in DOMAIN ledger : r = ledger[i]
    BY <2>1 DEF unresolved_closure, LastClosure
  <2>3. r \in GoalReceipt
    BY <2>2 DEF TypeOK
  <2>4. r.verb \in GoalVerb /\ r.target \in Target /\ Recorded(ledger, r.verb, r.target)
    BY <2>2, <2>3 DEF Recorded, GoalReceipt
  <2>5. TypeOK'
    <3>1. MarkOf[r.verb] \in Mark
      BY <2>4 DEF GoalVerb, MarkOf, Mark
    <3>2. {"status", "claim", "surface"} \in SUBSET Stage
      BY DEF Stage
    <3>3. UNCHANGED <<ledger, status, plan, owed, table, surface, claim, here>>
          /\ clean' \in BOOLEAN
      OBVIOUS
    <3>4. op' \in [verb   : GoalVerb \cup {"repair", "idle"},
                   target : Target \cup {NoTarget},
                   mark   : Mark,
                   claim  : Target \cup {NoTarget},
                   todo   : SUBSET Stage]
      BY <2>1, <2>4, <3>1, <3>2 DEF Repair
    <3> QED BY <3>3, <3>4 DEF TypeOK
  <2>6. RunningVerb'
    BY <2>1, <2>4 DEF RunningVerb, VerbKnows, RepairKnows, Repair, GoalVerb
  <2> QED BY <1>1, <2>5, <2>6
<1>3. CASE unresolved_closure = {}
  <2>1. op' = Repair(Goal.target, "none", Goal.target, {"claim", "surface"})
    BY <1>3
  <2>2. Goal.target \in Target \cup {NoTarget}
    BY GoalInState DEF GoalState, OpenGoal, NoGoal
  <2>3. TypeOK'
    BY <2>1, <2>2 DEF TypeOK, Repair, Mark, Stage
  <2>4. RunningVerb'
    BY <2>1 DEF RunningVerb, VerbKnows, RepairKnows, Repair, GoalVerb
  <2> QED BY <1>1, <2>3, <2>4
<1> QED BY <1>2, <1>3

\* The receipt appended is still the answer to the goal the verb read.
LEMMA AppendReceiptStep == ASSUME IInv, AppendReceipt PROVE IInv'
<1> USE DEF IInv
<1> DEFINE r == [verb |-> op.verb, target |-> op.target]
<1>1. "receipt" \in op.todo /\ op.verb \in GoalVerb
  BY DEF AppendReceipt, Due, TypeOK, RunningVerb, RepairKnows
<1>2. /\ r \in GoalReceipt
      /\ Answers(Goal, r)
  BY <1>1 DEF RunningVerb, VerbKnows, GoalReceipt
<1>3. /\ ledger \in Seq(GoalReceipt)
      /\ ledger' = Append(ledger, r)
      /\ Done("receipt")
      /\ UNCHANGED <<status, owed, surface, plan, table, here, claim, clean, missed>>
  BY DEF AppendReceipt, TypeOK, ground
<1> HIDE DEF r
<1>4. ledger' \in Seq(GoalReceipt)
  BY <1>2, <1>3
<1>5. TypeOK'
  BY <1>3, <1>4, OpType DEF TypeOK, Stage
<1>6. \A verb, t : Recorded(ledger, verb, t) => Recorded(ledger', verb, t)
  BY <1>2, <1>3, RecordedAppend
<1>7. Recorded(ledger', op.verb, op.target)
  BY <1>2, <1>3, RecordedAppend DEF r
<1>8. RunningVerb'
  <2>1. CASE op' = Idle
    BY <2>1 DEF RunningVerb, VerbKnows, RepairKnows, Idle, GoalVerb
  <2>2. CASE /\ op'.verb = op.verb /\ op'.target = op.target
             /\ op'.mark = op.mark /\ op'.todo = op.todo \ {"receipt"}
    <3>1. VerbKnows'
      BY <1>1, <1>7, <2>2 DEF RunningVerb, VerbKnows
    <3>2. op'.verb \notin {"repair", "idle"}
      BY <1>1, <2>2 DEF GoalVerb
    <3> QED BY <3>1, <3>2 DEF RunningVerb, RepairKnows
  <2> QED BY <1>3, <2>1, <2>2, OpType DEF Stage
<1>9. ReceiptFirst'
  BY <1>3, <1>6 DEF ReceiptFirst
<1>10. LedgerIsLegal'
  <2> SUFFICES ASSUME NEW i \in DOMAIN ledger'
               PROVE  Answers(goal_state(SubSeq(ledger', 1, i - 1)), ledger'[i])
    BY DEF LedgerIsLegal
  <2>1. CASE i \in 1 .. Len(ledger)
    BY <1>2, <1>3, <2>1, PrefixesKept DEF LedgerIsLegal
  <2>2. CASE i = Len(ledger) + 1
    <3>1. SubSeq(ledger', 1, i - 1) = ledger /\ ledger'[i] = r
      <4>1. i - 1 = Len(ledger)
        BY <1>3, <2>2
      <4> QED BY <1>2, <1>3, <2>2, <4>1, PrefixesKept
    <3> QED BY <1>2, <3>1 DEF Goal
  <2> QED BY <1>2, <1>3, <2>1, <2>2, PrefixesKept
<1> QED BY <1>5, <1>8, <1>9, <1>10

\* The marker written is that of a receipt in the log.
LEMMA WriteStatusStep == ASSUME IInv, WriteStatus PROVE IInv'
<1> USE DEF IInv
<1>1. /\ "status" \in op.todo /\ "receipt" \notin op.todo
      /\ Done("status")
      /\ UNCHANGED <<ledger, owed, surface, plan, table, here, claim, clean>>
  BY DEF WriteStatus, set_status_suffix, Due, Earlier, ground
<1>2. /\ op.target \in Target
      /\ \E verb \in GoalVerb :
            MarkOf[verb] = op.mark /\ Recorded(ledger, verb, op.target)
  BY <1>1 DEF TypeOK, RunningVerb, VerbKnows, RepairKnows
<1>3. RunningVerb' /\ LedgerIsLegal'
  BY <1>1, OtherWrite DEF Stage
<1>4. status' \in [Target -> Mark] /\ missed' \subseteq Target
  BY <1>2 DEF WriteStatus, set_status_suffix, TypeOK
<1>5. TypeOK'
  BY <1>1, <1>4, OpType DEF TypeOK, Stage
<1>6. ReceiptFirst'
  <2> SUFFICES ASSUME NEW t \in Target, status'[t] # "none"
               PROVE  \E verb \in GoalVerb :
                          MarkOf[verb] = status'[t] /\ Recorded(ledger, verb, t)
    BY <1>1 DEF ReceiptFirst
  <2>1. CASE t = op.target /\ HasReadme(t)
    BY <1>2, <2>1 DEF WriteStatus, set_status_suffix, TypeOK
  <2>2. CASE ~(t = op.target /\ HasReadme(t))
    <3>1. status'[t] = status[t]
      BY <2>2 DEF WriteStatus, set_status_suffix, TypeOK
    <3> QED BY <3>1 DEF ReceiptFirst
  <2> QED BY <2>1, <2>2
<1> QED BY <1>3, <1>5, <1>6

\* The OWED row, the sidecar and GOAL.md change no receipt and no marker.
LEMMA OtherWriteStep ==
    ASSUME IInv, AppendOwedRow \/ WriteClaim \/ WriteSurface
    PROVE  IInv'
<1> USE DEF IInv, ground, tracked
<1>1. UNCHANGED <<ledger, status, plan, table, here, clean, missed>>
  BY DEF AppendOwedRow, WriteClaim, WriteSurface
<1>2. PICK stage \in {"owed", "claim", "surface"} : stage \in op.todo /\ Done(stage)
  BY DEF AppendOwedRow, WriteClaim, WriteSurface, Due
<1>3. RunningVerb' /\ LedgerIsLegal'
  BY <1>1, <1>2, OtherWrite DEF Stage
<1>4. ReceiptFirst'
  BY <1>1 DEF ReceiptFirst
<1>5. /\ owed' \in [Target -> Nat]
      /\ claim' \in [Worktree -> Target \cup {NoTarget}]
      /\ surface' \in GoalState
  <2>1. CASE AppendOwedRow
    <3>1. owed \in [Target -> Nat]
      BY DEF TypeOK
    <3>2. owed' = [owed EXCEPT ![op.target] = @ + 1]
      BY <2>1 DEF AppendOwedRow
    <3>3. \A m \in Target : owed[m] \in Nat /\ (owed[m] + 1) \in Nat
      BY <3>1
    <3>4. \A m : [owed EXCEPT ![m] = @ + 1] \in [Target -> Nat]
      BY <3>1, <3>3
    <3>5. owed' \in [Target -> Nat]
      BY <3>2, <3>4
    <3>6. UNCHANGED <<claim, surface>>
      BY <2>1 DEF AppendOwedRow
    <3> QED BY <3>5, <3>6 DEF TypeOK
  <2>2. CASE WriteClaim
    BY <2>2 DEF WriteClaim, TypeOK
  <2>3. CASE WriteSurface
    <3>1. surface' \in GoalState
      BY <2>3, GoalInState DEF WriteSurface
    <3> QED BY <2>3, <3>1 DEF WriteSurface, TypeOK
  <2> QED BY <2>1, <2>2, <2>3
<1>6. TypeOK'
  BY <1>1, <1>2, <1>5, OpType DEF TypeOK, Stage
<1> QED BY <1>3, <1>4, <1>6

\* Crashes, refusals, edits and checkouts write no receipt and no marker.
LEMMA EnvironmentStep ==
    ASSUME IInv, Environment \/ OwedRowRefused
    PROVE  IInv'
<1> USE DEF IInv, tracked, ground
<1>1. CASE Crash \/ OwedRowRefused
  <2>1. op' = Idle /\ UNCHANGED <<ledger, status>>
    BY <1>1 DEF Crash, OwedRowRefused
  <2>2. Idle \in [verb   : GoalVerb \cup {"repair", "idle"},
                  target : Target \cup {NoTarget},
                  mark   : Mark,
                  claim  : Target \cup {NoTarget},
                  todo   : SUBSET Stage]
    BY DEF Idle, Mark
  <2>3. TypeOK'
    BY <1>1, <2>1, <2>2 DEF TypeOK, Crash, OwedRowRefused
  <2> QED BY <2>1, <2>3, EndVerb
<1>2. ASSUME NEW t \in Target, NEW shape \in PlanShape, EditPlan(t, shape)
      PROVE  IInv'
  <2>1. op' = Idle /\ UNCHANGED <<ledger, owed, surface, table, here, claim, clean, missed>>
    BY <1>2 DEF EditPlan
  <2>2. /\ plan' \in [Target -> AllShapes]
        /\ status' \in [Target -> Mark]
        /\ \A m \in Target : status'[m] \in {status[m], "none"}
    BY <1>2, GoalAssumption DEF EditPlan, TypeOK, Mark
  <2>3. TypeOK'
    BY <1>2, <2>1, <2>2 DEF TypeOK, EditPlan
  <2>4. ReceiptFirst'
    BY <2>1, <2>2 DEF ReceiptFirst
  <2>5. RunningVerb' /\ LedgerIsLegal'
    BY <2>1 DEF RunningVerb, VerbKnows, RepairKnows, Idle, GoalVerb,
                LedgerIsLegal
  <2> QED BY <2>3, <2>4, <2>5
<1>3. CASE AddTable \/ DropSidecar \/ \E w \in Worktree : Switch(w)
  <2>1. op' = Idle /\ UNCHANGED <<ledger, status>>
    BY <1>3 DEF AddTable, DropSidecar, Switch
  <2>2. TypeOK'
    BY <1>3 DEF TypeOK, AddTable, DropSidecar, Switch
  <2> QED BY <2>1, <2>2, EndVerb
<1> QED BY <1>1, <1>2, <1>3 DEF Environment

\* A step of something else changes nothing here.
LEMMA StutterStep == ASSUME IInv, UNCHANGED vars PROVE IInv'
BY DEF IInv, vars, TypeOK, RunningVerb, VerbKnows, RepairKnows, LedgerIsLegal,
       ReceiptFirst, Goal

\* Every step keeps the invariant.
LEMMA NextIInv == IInv /\ [Next]_vars => IInv'
<1> SUFFICES ASSUME IInv, [Next]_vars PROVE IInv'
  OBVIOUS
<1>1. CASE TrackedVerb
  BY <1>1, TrackedStep, RepairStep DEF TrackedVerb
<1>2. CASE \E arg \in Target \cup {NoTarget} : complete(arg)
  BY <1>2, CompleteStep
<1>3. CASE \E t \in Target : accept(t)
  BY <1>3, AcceptStep
<1>4. CASE Write
  BY <1>4, AppendReceiptStep, WriteStatusStep, OtherWriteStep, EnvironmentStep DEF Write
<1>5. CASE Environment
  BY <1>5, EnvironmentStep
<1>6. CASE UNCHANGED vars
  BY <1>6, StutterStep
<1> QED BY <1>1, <1>2, <1>3, <1>4, <1>5, <1>6 DEF Next

-----------------------------------------------------------------------------
(* The theorems. *)

\* The invariant holds in every state of every behaviour.
THEOREM Invariance == Spec => []IInv
BY InitIInv, NextIInv, PTL DEF Spec

\* Every file holds what it can hold, whatever is interrupted (goal.rs, all verbs).
THEOREM TypeCorrect == Spec => []TypeOK
<1>1. IInv => TypeOK
  BY DEF IInv
<1> QED BY <1>1, Invariance, PTL

\* No verb ever records a transition the goal of the log does not allow: set only
\* over no goal, park, unpark and abandon only about the goal that stands
\* (goal.rs set, park, unpark, abandon).
THEOREM LegalLedger == Spec => []LedgerIsLegal
<1>1. IInv => LedgerIsLegal
  BY DEF IInv
<1> QED BY <1>1, Invariance, PTL

\* No README shows a marker whose receipt is not in the log, at any instant
\* (goal.rs, the order of the writes in every verb and in repair).
THEOREM MarkerHasReceipt == Spec => []ReceiptFirst
<1>1. IInv => ReceiptFirst
  BY DEF IInv
<1> QED BY <1>1, Invariance, PTL
-----------------------------------------------------------------------------
(* Debt, markers, surface and claim: what the running verb has still to     *)
(* bring in line with the receipt it has written.                           *)

\* The writes of a verb, and what it knows of the log once its receipt is there.
VerbDoes ==
    /\ op.verb \in GoalVerb =>
          /\ op.todo \subseteq Writes[op.verb]
          /\ op.claim = ClaimOf(op.verb, op.target)
          /\ "receipt" \in op.todo => op.todo = Writes[op.verb]
          /\ "receipt" \notin op.todo =>
                /\ ledger # << >>
                /\ ledger[Len(ledger)] = [verb |-> op.verb, target |-> op.target]
    /\ op.verb = "repair" => ~clean /\ op.todo \subseteq {"status", "claim", "surface"}
    /\ op.verb = "idle" => op = Idle

\* The running verb has recorded its receipt and has still this file to write.
Behind(file) == op.verb \in GoalVerb /\ "receipt" \notin op.todo /\ file \in op.todo

\* An abandonment is recorded whose row is still to be written.
Owes(t) == op.verb = "abandon" /\ op.target = t /\ Behind("owed")
Debt(t) == IF Owes(t) THEN owed[t] + 1 ELSE owed[t]
Indebted ==
    \A t \in Target : /\ Debt(t) <= AbandonsOf(t)
                      /\ clean => Debt(t) = AbandonsOf(t)

\* The marker is that of the last receipt about the milestone.
MarkStands(t) ==
    \E i \in DOMAIN ledger :
        /\ ledger[i].target = t
        /\ MarkOf[ledger[i].verb] = status[t]
        /\ \A j \in DOMAIN ledger : ledger[j].target = t => j <= i
Marked ==
    clean => \A t \in Target \ missed :
        status[t] # "none" => MarkStands(t) \/ (op.target = t /\ Behind("status"))

Surfaced == clean => surface = Goal \/ Behind("surface")

\* The only worktree claims the goal, or nothing.
Claimed ==
    clean /\ (\A w \in Worktree : w = here) =>
        claim[here] \in {NoTarget, Goal.target} \/ Behind("claim")

JInv == VerbDoes /\ Indebted /\ Marked /\ Surfaced /\ Claimed

\* The abandon receipts of a milestone are counted.
LEMMA AbandonsCounted ==
    ASSUME NEW t, ledger \in Seq(GoalReceipt)
    PROVE  AbandonsOf(t) \in Nat
<1> DEFINE at == {i \in DOMAIN ledger : ledger[i] = [verb |-> "abandon", target |-> t]}
<1>1. at \subseteq 1 .. Len(ledger) /\ Len(ledger) \in Nat
  OBVIOUS
<1>2. IsFiniteSet(at)
  BY <1>1, FS_Interval, FS_Subset
<1> QED BY <1>2, FS_CardinalityType DEF AbandonsOf

\* One more is one more.
LEMMA AbandonsAppend ==
    ASSUME NEW t, NEW r \in GoalReceipt, ledger \in Seq(GoalReceipt), ledger' = Append(ledger, r)
    PROVE  AbandonsOf(t)' = IF r = [verb |-> "abandon", target |-> t]
                            THEN AbandonsOf(t) + 1 ELSE AbandonsOf(t)
<1> DEFINE a == [verb |-> "abandon", target |-> t]
           at == {i \in DOMAIN ledger : ledger[i] = a}
           next == {i \in DOMAIN ledger' : ledger'[i] = a}
           n == Len(ledger) + 1
<1>1. /\ DOMAIN ledger = 1 .. Len(ledger) /\ Len(ledger) \in Nat
      /\ DOMAIN ledger' = 1 .. n /\ ledger'[n] = r
      /\ \A i \in 1 .. Len(ledger) : ledger'[i] = ledger[i]
  BY PrefixesKept
<1>2. AbandonsOf(t) = Cardinality(at) /\ AbandonsOf(t)' = Cardinality(next)
  BY DEF AbandonsOf
<1>3. IsFiniteSet(at) /\ n \notin at
  <2>1. at \subseteq 1 .. Len(ledger)
    BY <1>1
  <2>2. 1 \in Int /\ Len(ledger) \in Int
    BY <1>1
  <2>3. IsFiniteSet(1 .. Len(ledger))
    BY <2>2, FS_Interval
  <2>4. n \notin 1 .. Len(ledger)
    BY <1>1
  <2> HIDE DEF at, n
  <2> QED BY <2>1, <2>3, <2>4, FS_Subset
<1> HIDE DEF a
<1>4. CASE r = a
  <2>1. next = at \cup {n}
    BY <1>1, <1>4
  <2> HIDE DEF at, next, n
  <2> QED BY <1>2, <1>3, <1>4, <2>1, FS_AddElement DEF a
<1>5. CASE r # a
  <2>1. next = at
    BY <1>1, <1>5
  <2> QED BY <1>2, <1>5, <2>1 DEF a
<1> QED BY <1>4, <1>5

\* At first nothing is owed, marked, shown or claimed.
LEMMA InitJInv == Init => JInv
<1> SUFFICES ASSUME Init PROVE JInv
  OBVIOUS
<1> USE DEF Init
<1>1. VerbDoes
  BY DEF VerbDoes, Idle, GoalVerb
<1>2. ~Behind("owed")
  BY DEF Behind, Idle, GoalVerb
<1>3. Indebted
  <2>1. ASSUME NEW t \in Target PROVE Debt(t) = 0 /\ AbandonsOf(t) = 0
    <3>1. {i \in DOMAIN ledger : ledger[i] = [verb |-> "abandon", target |-> t]} = {}
      OBVIOUS
    <3>2. AbandonsOf(t) = 0
      BY <3>1, FS_EmptySet DEF AbandonsOf
    <3> QED BY <1>2, <3>2 DEF Debt, Owes
  <2> HIDE DEF Init
  <2>2. ASSUME NEW t \in Target PROVE Debt(t) <= AbandonsOf(t)
    <3>1. \A d, a : d = 0 /\ a = 0 => d <= a
      OBVIOUS
    <3> QED BY <2>1, <3>1
  <2> QED BY <2>1, <2>2 DEF Indebted
<1>4. Marked
  BY DEF Marked
<1>5. Surfaced
  <2>1. << >> \in Seq(GoalReceipt)
    OBVIOUS
  <2>2. Goal = NoGoal
    BY <2>1, FoldIsLast DEF Goal
  <2> QED BY <2>2 DEF Surfaced
<1>6. Claimed
  BY DEF Claimed
<1> QED BY <1>1, <1>3, <1>4, <1>5, <1>6 DEF JInv

\* A verb that starts has every file of its own still to write.
LEMMA StartJInv ==
    ASSUME IInv, JInv, op = Idle, NEW verb \in GoalVerb, NEW t, Run(verb, t)
    PROVE  JInv'
<1> USE DEF JInv, Run, tracked, ground
<1>1. op'.verb = verb /\ op'.todo = Writes[verb] /\ op'.claim = ClaimOf(verb, t)
      /\ op'.target = t
  BY DEF Command
<1>2. "receipt" \in Writes[verb]
  BY DEF Writes, GoalVerb
<1>3. VerbDoes'
  BY <1>1, <1>2 DEF VerbDoes, GoalVerb
<1>4. \A f : ~Behind(f) /\ ~Behind(f)'
  BY <1>1, <1>2 DEF Behind, Idle, GoalVerb
<1>5. Indebted'
  BY <1>4 DEF Indebted, Debt, Owes, AbandonsOf
<1>6. Marked'
  BY <1>4 DEF Marked, MarkStands
<1>7. Surfaced' /\ Claimed'
  BY <1>4 DEF Surfaced, Claimed, Goal
<1> QED BY <1>3, <1>5, <1>6, <1>7

\* A repair is never clean, and changes no debt.
LEMMA RepairJInv == ASSUME IInv, JInv, repair PROVE JInv'
<1> USE DEF JInv, repair, tracked, ground
<1>1. op'.verb = "repair" /\ op'.todo \subseteq {"status", "claim", "surface"} /\ clean' = FALSE
  <2>1. CASE unresolved_closure # {}
    BY <2>1 DEF Repair
  <2>2. CASE unresolved_closure = {}
    BY <2>2 DEF Repair
  <2> QED BY <2>1, <2>2
<1>2. VerbDoes'
  BY <1>1 DEF VerbDoes, GoalVerb
<1>3. ~Behind("owed") /\ ~Behind("owed")'
  BY <1>1 DEF Behind, Idle, GoalVerb
<1>4. Indebted'
  BY <1>1, <1>3 DEF Indebted, Debt, Owes, AbandonsOf
<1> QED BY <1>1, <1>2, <1>4 DEF Marked, Surfaced, Claimed

\* A verb that ends before its time is not clean: it may owe a row it recorded.
LEMMA CutJInv ==
    ASSUME IInv, JInv, op' = Idle, clean' = FALSE, UNCHANGED <<tracked, ground, claim>>
    PROVE  JInv'
<1> USE DEF JInv, tracked, ground
<1>1. VerbDoes'
  BY DEF VerbDoes, Idle, GoalVerb
<1>2. Indebted'
  <2> SUFFICES ASSUME NEW t \in Target PROVE Debt(t)' <= AbandonsOf(t)'
    BY DEF Indebted
  <2>1. Debt(t)' = owed[t] /\ owed[t] \in Nat
    BY DEF Debt, Owes, Idle, IInv, TypeOK
  <2>2. owed[t] <= Debt(t) /\ Debt(t) <= AbandonsOf(t)
    BY <2>1 DEF Indebted, Debt
  <2>3. AbandonsOf(t) \in Nat
    BY AbandonsCounted DEF IInv, TypeOK
  <2>4. AbandonsOf(t)' = AbandonsOf(t)
    BY DEF AbandonsOf
  <2>5. Debt(t) \in Nat
    BY <2>1 DEF Debt
  <2> QED BY <2>1, <2>2, <2>3, <2>4, <2>5
<1> QED BY <1>1, <1>2 DEF Marked, Surfaced, Claimed

\* The running verb after one of its writes.
LEMMA VerbAfter ==
    ASSUME IInv, JInv, NEW stage \in Stage, stage \in op.todo, Done(stage)
    PROVE  /\ op' = Idle \/ /\ op'.verb = op.verb /\ op'.target = op.target
                            /\ op'.claim = op.claim /\ op'.todo = op.todo \ {stage}
           /\ op' = Idle => op.todo = {stage}
<1>1. op \in [verb : GoalVerb \cup {"repair", "idle"}, target : Target \cup {NoTarget},
              mark : Mark, claim : Target \cup {NoTarget}, todo : SUBSET Stage]
  BY DEF IInv, TypeOK
<1>2. CASE op.todo = {stage}
  BY <1>2 DEF Done
<1>3. CASE op.todo # {stage}
  <2> DEFINE new == [op EXCEPT !.todo = @ \ {stage}]
  <2>1. op' = new
    BY <1>3 DEF Done
  <2>2. /\ new.verb = op.verb /\ new.target = op.target /\ new.claim = op.claim
        /\ new.todo = op.todo \ {stage}
    BY <1>1
  <2>3. new.todo # {}
    BY <1>1, <1>3, <2>2
  <2>4. Idle.todo = {}
    BY DEF Idle
  <2> HIDE DEF new
  <2> QED BY <2>1, <2>2, <2>3, <2>4
<1> QED BY <1>2, <1>3

\* A write other than the receipt's brings its file in line and no other.
LEMMA BehindAfter ==
    ASSUME IInv, JInv, NEW stage \in Stage, stage \in op.todo, Done(stage)
    PROVE  \A f : f # stage /\ stage # "receipt" => (Behind(f)' <=> Behind(f))
<1>1. CASE op' = Idle
  BY <1>1, VerbAfter DEF Behind, Idle, GoalVerb
<1>2. CASE /\ op'.verb = op.verb /\ op'.todo = op.todo \ {stage}
  BY <1>2 DEF Behind
<1> QED BY <1>1, <1>2, VerbAfter

\* A verb that goes on knows the receipt it has written.
LEMMA VerbDoesOn ==
    ASSUME IInv, JInv, NEW stage \in Stage \ {"receipt"}, Due(stage), Done(stage),
           UNCHANGED <<ledger, clean>>
    PROVE  VerbDoes'
<1>1. "receipt" \notin op.todo /\ stage \in op.todo
  <2>1. stage \in op.todo /\ op.todo \cap Earlier[stage] = {}
    BY DEF Due
  <2>2. "receipt" \in Earlier[stage]
    BY DEF Earlier, Stage
  <2> QED BY <2>1, <2>2
<1>2. CASE op' = Idle
  BY <1>2 DEF VerbDoes, Idle, GoalVerb
<1>3. CASE /\ op'.verb = op.verb /\ op'.target = op.target
           /\ op'.claim = op.claim /\ op'.todo = op.todo \ {stage}
  <2>1. op.verb # "idle"
    BY <1>1 DEF JInv, VerbDoes, Idle
  <2> QED BY <1>1, <1>3, <2>1 DEF JInv, VerbDoes
<1> QED BY <1>1, <1>2, <1>3, VerbAfter

\* What the running verb still owes its milestone is untouched by the write of
\* another file.
LEMMA OwnAfter ==
    ASSUME IInv, JInv, NEW stage \in Stage \ {"receipt"}, stage \in op.todo, Done(stage)
    PROVE  \A f, t : f # stage =>
              ((op'.target = t /\ Behind(f)') <=> (op.target = t /\ Behind(f)))
<1>1. \A f : f # stage => (Behind(f)' <=> Behind(f))
  BY BehindAfter
<1>2. CASE op' = Idle
  <2>1. \A f : ~Behind(f)'
    BY <1>2 DEF Behind, Idle, GoalVerb
  <2> QED BY <1>1, <2>1
<1>3. CASE op'.target = op.target
  BY <1>1, <1>3
<1> QED BY <1>2, <1>3, VerbAfter

\* The debt is untouched by the write of another file.
LEMMA DebtOn ==
    ASSUME IInv, JInv, NEW stage \in Stage \ {"receipt", "owed"}, stage \in op.todo, Done(stage),
           UNCHANGED <<ledger, owed, clean>>
    PROVE  Indebted'
<1>1. \A t : Owes(t)' <=> Owes(t)
  <2>1. CASE op' = Idle
    <3>1. ~Behind("owed")'
      BY <2>1 DEF Behind, Idle, GoalVerb
    <3>2. ~Behind("owed")
      BY <3>1, BehindAfter
    <3> QED BY <3>1, <3>2 DEF Owes
  <2>2. CASE op'.verb = op.verb /\ op'.target = op.target
    BY <2>2, BehindAfter DEF Owes
  <2> QED BY <2>1, <2>2, VerbAfter
<1>2. \A t : Debt(t)' = Debt(t) /\ AbandonsOf(t)' = AbandonsOf(t)
  BY <1>1 DEF Debt, AbandonsOf
<1> QED BY <1>2 DEF JInv, Indebted

\* The receipt puts every other file of its verb behind.
LEMMA AppendReceiptJInv == ASSUME IInv, JInv, AppendReceipt PROVE JInv'
<1> DEFINE r == [verb |-> op.verb, target |-> op.target]
<1>1. /\ "receipt" \in op.todo
      /\ UNCHANGED <<status, owed, surface, plan, table, here, claim, clean, missed>>
      /\ ledger' = Append(ledger, r)
      /\ Done("receipt")
  BY DEF AppendReceipt, Due, ground
<1>2. /\ op.verb \in GoalVerb
      /\ op.todo = Writes[op.verb]
      /\ op.claim = ClaimOf(op.verb, op.target)
      /\ op.target \in Target
      /\ Answers(Goal, r)
  BY <1>1 DEF IInv, JInv, TypeOK, RunningVerb, RepairKnows, VerbKnows, VerbDoes
<1>3. /\ ledger \in Seq(GoalReceipt)
      /\ r \in GoalReceipt
      /\ r.verb = op.verb /\ r.target = op.target
  BY <1>2 DEF IInv, TypeOK, GoalReceipt
<1>4. \A t : r = [verb |-> "abandon", target |-> t] <=> op.verb = "abandon" /\ op.target = t
  OBVIOUS
<1> HIDE DEF r
<1>5. {"status", "surface"} \subseteq Writes[op.verb]
  BY <1>2 DEF Writes, GoalVerb
<1>6. /\ op'.verb = op.verb /\ op'.target = op.target
      /\ op'.claim = op.claim /\ op'.todo = Writes[op.verb] \ {"receipt"}
  <2>1. "receipt" \in Stage
    BY DEF Stage
  <2>2. op.todo # {"receipt"}
    BY <1>2, <1>5
  <2> QED BY <1>1, <1>2, <2>1, <2>2, VerbAfter
<1>7. \A f : ~Behind(f)
  BY <1>1 DEF Behind
<1>8. \A f : Behind(f)' <=> f \in Writes[op.verb] /\ f # "receipt"
  BY <1>2, <1>6 DEF Behind
<1>9. VerbDoes'
  <2>1. ledger' # << >> /\ ledger'[Len(ledger')] = r
    BY <1>1, <1>3
  <2>2. op'.verb \notin {"repair", "idle"}
    BY <1>2, <1>6 DEF GoalVerb
  <2> QED BY <1>2, <1>6, <2>1, <2>2 DEF VerbDoes, r
<1>10. Indebted'
  <2>1. ASSUME NEW t \in Target
        PROVE  Debt(t)' <= AbandonsOf(t)' /\ (clean' => Debt(t)' = AbandonsOf(t)')
    <3>1. Owes(t)' <=> op.verb = "abandon" /\ op.target = t
      <4>1. op.verb = "abandon" => "owed" \in Writes[op.verb]
        BY DEF Writes
      <4> QED BY <1>6, <1>8, <4>1 DEF Owes
    <3>2. Debt(t) = owed[t]
      BY <1>7 DEF Debt, Owes
    <3>3. owed[t] \in Nat /\ AbandonsOf(t) \in Nat
      BY AbandonsCounted DEF IInv, TypeOK
    <3>4. owed[t] <= AbandonsOf(t) /\ (clean => owed[t] = AbandonsOf(t))
      BY <3>2 DEF JInv, Indebted
    <3>5. AbandonsOf(t)' = IF r = [verb |-> "abandon", target |-> t]
                           THEN AbandonsOf(t) + 1 ELSE AbandonsOf(t)
      BY <1>1, <1>3, AbandonsAppend
    <3>6. CASE op.verb = "abandon" /\ op.target = t
      <4>1. Debt(t)' = owed[t] + 1 /\ AbandonsOf(t)' = AbandonsOf(t) + 1
        BY <1>1, <1>4, <3>1, <3>5, <3>6 DEF Debt
      <4> QED BY <1>1, <3>3, <3>4, <4>1
    <3>7. CASE ~(op.verb = "abandon" /\ op.target = t)
      <4>1. Debt(t)' = owed[t] /\ AbandonsOf(t)' = AbandonsOf(t)
        BY <1>1, <1>4, <3>1, <3>5, <3>7 DEF Debt
      <4> QED BY <1>1, <3>3, <3>4, <4>1
    <3> QED BY <3>6, <3>7
  <2> QED BY <2>1 DEF Indebted
<1>11. Marked'
  <2> SUFFICES ASSUME clean, NEW t \in Target \ missed, status[t] # "none"
               PROVE  MarkStands(t)' \/ (op'.target = t /\ Behind("status")')
    BY <1>1 DEF Marked
  <2>1. CASE op.target = t
    BY <1>5, <1>6, <1>8, <2>1
  <2>2. CASE op.target # t
    <3>1. MarkStands(t)
      BY <1>7 DEF JInv, Marked
    <3>2. PICK i \in DOMAIN ledger :
              /\ ledger[i].target = t
              /\ MarkOf[ledger[i].verb] = status[t]
              /\ \A j \in DOMAIN ledger : ledger[j].target = t => j <= i
      BY <3>1 DEF MarkStands
    <3>3. /\ DOMAIN ledger = 1 .. Len(ledger)
          /\ DOMAIN ledger' = 1 .. (Len(ledger) + 1)
          /\ \A j \in 1 .. Len(ledger) : ledger'[j] = ledger[j]
          /\ ledger'[Len(ledger) + 1] = r
      BY <1>1, <1>3, PrefixesKept
    <3>4. Len(ledger) \in Nat
      BY <1>3
    <3>5. i \in DOMAIN ledger' /\ ledger'[i] = ledger[i]
      BY <3>2, <3>3, <3>4
    <3>6. \A j \in DOMAIN ledger' : ledger'[j].target = t => j <= i
      <4>1. ASSUME NEW j \in DOMAIN ledger', ledger'[j].target = t PROVE j <= i
        <5>1. j # Len(ledger) + 1
          BY <1>3, <2>2, <3>3, <4>1
        <5>2. j \in DOMAIN ledger
          BY <3>3, <3>4, <5>1
        <5> QED BY <3>2, <3>3, <4>1, <5>2
      <4> QED BY <4>1
    <3> QED BY <1>1, <3>2, <3>5, <3>6 DEF MarkStands
  <2> QED BY <2>1, <2>2
<1>12. Surfaced'
  BY <1>5, <1>8 DEF Surfaced
<1>13. Claimed'
  <2>1. CASE op.verb # "park"
    <3>1. "claim" \in Writes[op.verb]
      BY <1>2, <2>1 DEF Writes, GoalVerb
    <3> QED BY <1>8, <3>1 DEF Claimed
  <2>2. CASE op.verb = "park"
    <3>1. Goal = [kind |-> "active", target |-> op.target]
      BY <1>2, <1>3, <2>2 DEF Answers
    <3>2. Goal' = Apply(NoGoal, r)
      BY <1>1, <1>3, FoldAppend DEF Goal
    <3>3. Goal'.target = op.target
      BY <1>2, <1>3, <2>2, <3>2, NoTargetAssumption DEF Apply, KindAfter, NoGoal
    <3> QED BY <1>1, <1>7, <3>1, <3>3 DEF JInv, Claimed
  <2> QED BY <2>1, <2>2
<1> QED BY <1>9, <1>10, <1>11, <1>12, <1>13 DEF JInv

\* The row is paid: what was owed is in the file.
LEMMA AppendOwedRowJInv == ASSUME IInv, JInv, AppendOwedRow PROVE JInv'
<1>1. /\ Due("owed") /\ "owed" \in op.todo /\ Done("owed")
      /\ owed' = [owed EXCEPT ![op.target] = @ + 1]
      /\ UNCHANGED <<ledger, status, surface, plan, table, here, claim, clean, missed>>
  BY DEF AppendOwedRow, Due, ground
<1>2. "owed" \in Stage \ {"receipt"} /\ "owed" \in Stage
  BY DEF Stage
<1>3. VerbDoes'
  BY <1>1, <1>2, VerbDoesOn
<1>4. \A f : f # "owed" => (Behind(f)' <=> Behind(f))
  BY <1>1, <1>2, BehindAfter
<1>5. \A f, t : f # "owed" =>
          ((op'.target = t /\ Behind(f)') <=> (op.target = t /\ Behind(f)))
  BY <1>1, <1>2, OwnAfter
<1>6. op.verb = "abandon" /\ Behind("owed") /\ op.target \in Target
  <2>1. op.verb # "repair" /\ op.verb # "idle"
    BY <1>1 DEF JInv, VerbDoes, Idle
  <2>2. op.verb \in GoalVerb
    BY <2>1 DEF IInv, TypeOK
  <2>3. op.verb = "abandon"
    BY <1>1, <2>2 DEF JInv, VerbDoes, Writes, GoalVerb
  <2>4. "receipt" \notin op.todo
    BY <1>1 DEF Due, Earlier
  <2> QED BY <1>1, <2>2, <2>3, <2>4 DEF Behind, IInv, RunningVerb, VerbKnows
<1>7. ~Behind("owed")'
  <2>1. CASE op' = Idle
    BY <2>1 DEF Behind, Idle, GoalVerb
  <2>2. CASE op'.todo = op.todo \ {"owed"}
    BY <2>2 DEF Behind
  <2> QED BY <1>1, <1>2, <2>1, <2>2, VerbAfter
<1>8. Indebted'
  <2>1. ASSUME NEW t \in Target PROVE Debt(t)' = Debt(t) /\ AbandonsOf(t)' = AbandonsOf(t)
    <3>1. Debt(t)' = owed'[t]
      BY <1>7 DEF Debt, Owes
    <3>2. Debt(t) = IF op.target = t THEN owed[t] + 1 ELSE owed[t]
      BY <1>6 DEF Debt, Owes
    <3>3. owed \in [Target -> Nat]
      BY DEF IInv, TypeOK
    <3>4. owed'[t] = IF op.target = t THEN owed[t] + 1 ELSE owed[t]
      BY <1>1, <1>6, <3>3
    <3> QED BY <1>1, <3>1, <3>2, <3>4 DEF AbandonsOf
  <2> QED BY <1>1, <2>1 DEF JInv, Indebted
<1>9. Marked'
  BY <1>1, <1>5 DEF JInv, Marked, MarkStands
<1>10. Surfaced' /\ Claimed'
  BY <1>1, <1>4 DEF JInv, Surfaced, Claimed, Goal
<1> QED BY <1>3, <1>8, <1>9, <1>10 DEF JInv

\* A verb past its receipt is a goal verb with its receipt last in the log, or an
\* unclean repair.
LEMMA PastReceipt ==
    ASSUME IInv, JInv, NEW stage \in {"status", "claim", "surface"}, Due(stage)
    PROVE  \/ /\ op.verb \in GoalVerb
              /\ Behind(stage)
              /\ op.target \in Target
              /\ op.mark = MarkOf[op.verb]
              /\ op.claim = ClaimOf(op.verb, op.target)
              /\ ledger # << >>
              /\ ledger[Len(ledger)] = [verb |-> op.verb, target |-> op.target]
           \/ ~clean
<1>1. stage \in op.todo /\ "receipt" \notin op.todo
  BY DEF Due, Earlier
<1>2. CASE op.verb \in GoalVerb
  BY <1>1, <1>2 DEF Behind, IInv, RunningVerb, VerbKnows, JInv, VerbDoes
<1>3. CASE op.verb = "repair"
  BY <1>3 DEF JInv, VerbDoes
<1>4. op.verb # "idle"
  BY <1>1 DEF JInv, VerbDoes, Idle
<1> QED BY <1>2, <1>3, <1>4 DEF IInv, TypeOK

\* The README takes the marker of the last receipt.
LEMMA WriteStatusJInv == ASSUME IInv, JInv, WriteStatus PROVE JInv'
<1>1. /\ Due("status") /\ "status" \in op.todo /\ Done("status")
      /\ status' = IF HasReadme(op.target)
                   THEN [status EXCEPT ![op.target] = op.mark] ELSE status
      /\ missed' = IF HasReadme(op.target)
                   THEN missed \ {op.target} ELSE missed \cup {op.target}
      /\ UNCHANGED <<ledger, owed, surface, plan, table, here, claim, clean>>
  BY DEF WriteStatus, Due, ground, set_status_suffix
<1>2. "status" \in Stage \ {"receipt"} /\ "status" \in Stage \ {"receipt", "owed"}
  BY DEF Stage
<1>3. VerbDoes' /\ Indebted'
  BY <1>1, <1>2, VerbDoesOn, DebtOn
<1>4. \A f : f # "status" => (Behind(f)' <=> Behind(f))
  BY <1>1, <1>2, BehindAfter
<1>5. status \in [Target -> Mark]
  BY DEF IInv, TypeOK
<1>6. \A t \in Target : status'[t] = IF t = op.target /\ HasReadme(t) THEN op.mark ELSE status[t]
  BY <1>1, <1>5
<1>7. Marked'
  <2> SUFFICES ASSUME clean, NEW t \in Target \ missed', status'[t] # "none"
               PROVE  MarkStands(t)'
    BY <1>1 DEF Marked
  <2>1. /\ op.verb \in GoalVerb /\ op.mark = MarkOf[op.verb]
        /\ ledger # << >>
        /\ ledger[Len(ledger)] = [verb |-> op.verb, target |-> op.target]
    BY <1>1, PastReceipt
  <2>2. CASE t = op.target
    <3>1. HasReadme(t)
      BY <1>1, <2>2
    <3>2. status'[t] = MarkOf[op.verb]
      BY <1>6, <2>1, <2>2, <3>1
    <3>3. ledger \in Seq(GoalReceipt)
      BY DEF IInv, TypeOK
    <3>4. Len(ledger) \in DOMAIN ledger /\ \A j \in DOMAIN ledger : j <= Len(ledger)
      BY <2>1, <3>3
    <3> QED BY <1>1, <2>1, <2>2, <3>2, <3>4 DEF MarkStands
  <2>3. CASE t # op.target
    <3>1. status'[t] = status[t]
      BY <1>6, <2>3
    <3>2. t \notin missed
      BY <1>1, <2>3
    <3>3. MarkStands(t)
      BY <2>3, <3>1, <3>2 DEF JInv, Marked
    <3> QED BY <1>1, <3>1, <3>3 DEF MarkStands
  <2> QED BY <2>2, <2>3
<1>8. Surfaced' /\ Claimed'
  BY <1>1, <1>4 DEF JInv, Surfaced, Claimed, Goal
<1> QED BY <1>3, <1>7, <1>8 DEF JInv

\* The sidecar takes the goal the last receipt leaves, or nothing.
LEMMA WriteClaimJInv == ASSUME IInv, JInv, WriteClaim PROVE JInv'
<1>1. /\ Due("claim") /\ "claim" \in op.todo /\ Done("claim")
      /\ claim' = [claim EXCEPT ![here] = op.claim]
      /\ UNCHANGED <<ledger, status, owed, surface, plan, table, here, clean, missed>>
  BY DEF WriteClaim, Due, ground, tracked
<1>2. "claim" \in Stage \ {"receipt"} /\ "claim" \in Stage \ {"receipt", "owed"}
  BY DEF Stage
<1>3. VerbDoes' /\ Indebted'
  BY <1>1, <1>2, VerbDoesOn, DebtOn
<1>4. \A f : f # "claim" => (Behind(f)' <=> Behind(f))
  BY <1>1, <1>2, BehindAfter
<1>5. \A f, t : f # "claim" =>
          ((op'.target = t /\ Behind(f)') <=> (op.target = t /\ Behind(f)))
  BY <1>1, <1>2, OwnAfter
<1>6. Marked'
  BY <1>1, <1>5 DEF JInv, Marked, MarkStands
<1>7. Surfaced'
  BY <1>1, <1>4 DEF JInv, Surfaced, Goal
<1>8. Claimed'
  <2> SUFFICES ASSUME clean PROVE claim'[here] \in {NoTarget, Goal.target}
    BY <1>1 DEF Claimed, Goal
  <2>1. /\ op.verb \in GoalVerb /\ op.target \in Target
        /\ op.claim = ClaimOf(op.verb, op.target)
        /\ ledger # << >>
        /\ ledger[Len(ledger)] = [verb |-> op.verb, target |-> op.target]
    BY <1>1, PastReceipt
  <2>2. claim'[here] = op.claim
    BY <1>1 DEF IInv, TypeOK
  <2>3. Goal = Apply(NoGoal, [verb |-> op.verb, target |-> op.target])
    BY <2>1, FoldIsLast DEF IInv, TypeOK, Goal
  <2>4. CASE op.verb \in {"abandon", "accept"}
    BY <2>1, <2>2, <2>4 DEF ClaimOf
  <2>5. CASE op.verb \notin {"abandon", "accept"}
    <3>1. op.claim = op.target
      BY <2>1, <2>5 DEF ClaimOf
    <3>2. op.verb \in DOMAIN KindAfter
      BY <2>1, <2>5 DEF KindAfter, GoalVerb
    <3>3. Goal.target = op.target
      BY <2>1, <2>3, <3>2, NoTargetAssumption DEF Apply
    <3> QED BY <2>2, <3>1, <3>3
  <2> QED BY <2>4, <2>5
<1> QED BY <1>3, <1>6, <1>7, <1>8 DEF JInv

\* GOAL.md takes the goal of the log.
LEMMA WriteSurfaceJInv == ASSUME IInv, JInv, WriteSurface PROVE JInv'
<1>1. /\ Due("surface") /\ "surface" \in op.todo /\ Done("surface")
      /\ surface' = Goal
      /\ UNCHANGED <<ledger, status, owed, plan, table, here, claim, clean, missed>>
  BY DEF WriteSurface, Due, ground
<1>2. "surface" \in Stage \ {"receipt"} /\ "surface" \in Stage \ {"receipt", "owed"}
  BY DEF Stage
<1>3. VerbDoes' /\ Indebted'
  BY <1>1, <1>2, VerbDoesOn, DebtOn
<1>4. \A f : f # "surface" => (Behind(f)' <=> Behind(f))
  BY <1>1, <1>2, BehindAfter
<1>5. \A f, t : f # "surface" =>
          ((op'.target = t /\ Behind(f)') <=> (op.target = t /\ Behind(f)))
  BY <1>1, <1>2, OwnAfter
<1>6. Marked'
  BY <1>1, <1>5 DEF JInv, Marked, MarkStands
<1>7. Surfaced'
  BY <1>1 DEF Surfaced, Goal
<1>8. Claimed'
  BY <1>1, <1>4 DEF JInv, Claimed, Goal
<1> QED BY <1>3, <1>6, <1>7, <1>8 DEF JInv

\* Between two verbs nothing is behind, and the edits of the operator and of git
\* take a marker away with its README and a claim with its sidecar.
LEMMA EditJInv ==
    ASSUME IInv, JInv, op = Idle,
           \/ \E t \in Target, shape \in PlanShape : EditPlan(t, shape)
           \/ AddTable
           \/ DropSidecar
           \/ \E w \in Worktree : Switch(w)
    PROVE  JInv'
<1>1. op' = op /\ UNCHANGED <<ledger, owed, surface, clean>>
  BY DEF EditPlan, AddTable, DropSidecar, Switch, tracked
<1>2. VerbDoes'
  BY <1>1 DEF JInv, VerbDoes
<1>3. \A f : ~Behind(f) /\ ~Behind(f)'
  BY <1>1 DEF Behind, Idle, GoalVerb
<1>4. Indebted'
  BY <1>1, <1>3 DEF JInv, Indebted, Debt, Owes, AbandonsOf
<1>5. Surfaced'
  BY <1>1, <1>3 DEF JInv, Surfaced, Goal
<1>6. missed' = missed /\ \A t \in Target : status'[t] \in {status[t], "none"}
  <2>1. ASSUME NEW t \in Target, NEW shape \in PlanShape, EditPlan(t, shape)
        PROVE  missed' = missed /\ \A m \in Target : status'[m] \in {status[m], "none"}
    BY <2>1 DEF EditPlan, IInv, TypeOK
  <2>2. CASE AddTable \/ DropSidecar \/ \E w \in Worktree : Switch(w)
    BY <2>2 DEF AddTable, DropSidecar, Switch, tracked
  <2> QED BY <2>1, <2>2
<1>7. Marked'
  <2> SUFFICES ASSUME clean, NEW t \in Target \ missed, status'[t] # "none" PROVE MarkStands(t)'
    BY <1>1, <1>6 DEF Marked
  <2>1. status'[t] = status[t]
    BY <1>6
  <2>2. MarkStands(t)
    BY <1>3, <2>1 DEF JInv, Marked
  <2> QED BY <1>1, <2>1, <2>2 DEF MarkStands
<1>8. Claimed'
  <2>1. CASE \E w \in Worktree : Switch(w)
    <3>1. PICK w \in Worktree : Switch(w)
      BY <2>1
    <3>2. here # w /\ here' = w /\ here \in Worktree
      BY <3>1 DEF Switch, IInv, TypeOK
    <3> QED BY <3>2 DEF Claimed
  <2>2. CASE DropSidecar
    <3>1. claim'[here'] = NoTarget
      BY <2>2 DEF DropSidecar, ground, IInv, TypeOK
    <3> QED BY <3>1 DEF Claimed
  <2>3. CASE AddTable \/ \E t \in Target, shape \in PlanShape : EditPlan(t, shape)
    <3>1. UNCHANGED <<claim, here>>
      BY <2>3 DEF AddTable, EditPlan
    <3> QED BY <1>1, <1>3, <3>1 DEF JInv, Claimed, Goal
  <2> QED BY <2>1, <2>2, <2>3
<1> QED BY <1>2, <1>4, <1>5, <1>6, <1>7, <1>8 DEF JInv

\* Every step keeps the four surfaces in step with the running verb.
LEMMA NextJInv == IInv /\ JInv /\ [Next]_vars => JInv'
<1> SUFFICES ASSUME IInv, JInv, [Next]_vars PROVE JInv'
  OBVIOUS
<1>1. CASE TrackedVerb
  <2>1. CASE repair
    BY <2>1, RepairJInv
  <2>2. CASE (\E t \in Target : set(t)) \/ park \/ unpark \/ abandon
    BY <2>2, StartJInv DEF set, park, unpark, abandon, CanAppend, GoalVerb
  <2> QED BY <1>1, <2>1, <2>2 DEF TrackedVerb
<1>2. CASE \E arg \in Target \cup {NoTarget} : complete(arg)
  BY <1>2, StartJInv DEF complete, CanAppend, GoalVerb
<1>3. CASE \E t \in Target : accept(t)
  BY <1>3, StartJInv DEF accept, CanAppend, GoalVerb
<1>4. CASE Write
  <2>1. CASE OwedRowRefused
    BY <2>1, CutJInv DEF OwedRowRefused
  <2> QED BY <1>4, <2>1, AppendReceiptJInv, AppendOwedRowJInv, WriteStatusJInv, WriteClaimJInv,
             WriteSurfaceJInv DEF Write
<1>5. CASE Environment
  <2>1. CASE Crash
    BY <2>1, CutJInv DEF Crash
  <2>2. CASE \/ \E t \in Target, shape \in PlanShape : EditPlan(t, shape)
             \/ AddTable \/ DropSidecar \/ \E w \in Worktree : Switch(w)
    <3>1. op = Idle
      BY <2>2 DEF EditPlan, AddTable, DropSidecar, Switch
    <3> QED BY <2>2, <3>1, EditJInv
  <2> QED BY <1>5, <2>1, <2>2 DEF Environment
<1>6. CASE UNCHANGED vars
  BY <1>6 DEF vars, JInv, VerbDoes, Indebted, Debt, Owes, Behind, AbandonsOf, Marked, MarkStands,
              Surfaced, Claimed, Goal
<1> QED BY <1>1, <1>2, <1>3, <1>4, <1>5, <1>6 DEF Next

\* Both invariants hold in every state of every behaviour.
THEOREM Surfaces == Spec => [](IInv /\ JInv)
<1>1. Init => IInv /\ JInv
  BY InitIInv, InitJInv
<1>2. IInv /\ JInv /\ [Next]_vars => (IInv /\ JInv)'
  BY NextIInv, NextJInv
<1> QED BY <1>1, <1>2, PTL DEF Spec

\* No OWED row stands without its abandonment, and none is missing once every
\* verb has run to its end: the debt of an abandoned milestone is written exactly
\* once, whatever is interrupted (goal.rs abandon).
THEOREM DebtIsCarried == Spec => []DebtCarried
<1>1. IInv /\ JInv => DebtCarried
  <2> SUFFICES ASSUME IInv, JInv, NEW t \in Target
               PROVE  /\ owed[t] <= AbandonsOf(t)
                      /\ clean /\ op = Idle => owed[t] = AbandonsOf(t)
    BY DEF DebtCarried
  <2>1. owed[t] \in Nat /\ AbandonsOf(t) \in Nat
    BY AbandonsCounted DEF IInv, TypeOK
  <2>2. Debt(t) <= AbandonsOf(t) /\ (clean => Debt(t) = AbandonsOf(t))
    BY DEF JInv, Indebted
  <2>3. CASE Owes(t)
    <3>1. Debt(t) = owed[t] + 1
      BY <2>3 DEF Debt
    <3>2. op # Idle
      BY <2>3 DEF Owes, Idle
    <3> QED BY <2>1, <2>2, <3>1, <3>2
  <2>4. CASE ~Owes(t)
    <3>1. Debt(t) = owed[t]
      BY <2>4 DEF Debt
    <3> QED BY <2>2, <3>1
  <2> QED BY <2>3, <2>4
<1> QED BY <1>1, Surfaces, PTL

\* When every verb ran to its end, GOAL.md shows the goal of the log and every
\* README marker is that of the last receipt about its milestone, but where that
\* receipt's verb met no README (goal.rs, all verbs and the order of their writes).
THEOREM RecordsAgree == Spec => []RecordAgrees
<1>1. IInv /\ JInv => RecordAgrees
  <2> SUFFICES ASSUME IInv, JInv, clean, op = Idle
               PROVE  surface = Goal /\ \A t \in Target \ missed : status[t] # "none" => MarkStands(t)
    BY DEF RecordAgrees, MarkStands
  <2>1. \A f : ~Behind(f)
    BY DEF Behind, Idle, GoalVerb
  <2> QED BY <2>1 DEF JInv, Surfaced, Marked
<1> QED BY <1>1, Surfaces, PTL

\* With one worktree and no verb cut short, a sidecar names the goal of the log or
\* is absent (goal.rs, the claim each verb leaves).
THEOREM ClaimsAgree == Spec => []ClaimAgrees
<1>1. IInv /\ JInv => ClaimAgrees
  <2> SUFFICES ASSUME IInv, JInv, clean, op = Idle, Cardinality(Worktree) = 1
               PROVE  claim[here] \in {NoTarget, Goal.target}
    BY DEF ClaimAgrees
  <2>1. \A f : ~Behind(f)
    BY DEF Behind, Idle, GoalVerb
  <2>2. \E x : Worktree = {x}
    BY GoalAssumption, FS_Singleton
  <2>3. \A w \in Worktree : w = here
    BY <2>2 DEF IInv, TypeOK
  <2> QED BY <2>1, <2>3 DEF JInv, Claimed
<1> QED BY <1>1, Surfaces, PTL

-----------------------------------------------------------------------------
(* What a repair leaves.  Nothing runs beside it, so what it found torn and    *)
(* what it has mended stay so until it ends or is cut short.                   *)

\* What a running repair has still to mend, and what it has mended.
RepairDoes ==
    op.verb = "repair" =>
        /\ op.claim \in {NoTarget, Goal.target}
        /\ "claim" \notin op.todo => claim[here] \in {NoTarget, Goal.target}
        /\ "status" \notin op.todo => unresolved_closure = {}
        /\ "status" \in op.todo =>
              /\ HasReadme(op.target)
              /\ \A r \in LastClosure(ledger) : r.target = op.target /\ MarkOf[r.verb] = op.mark

\* A log has at most one last closure.
LEMMA OneLastClosure ==
    ASSUME ledger \in Seq(GoalReceipt), NEW r1 \in LastClosure(ledger), NEW r2 \in LastClosure(ledger)
    PROVE  r1 = r2
<1>1. PICK i \in DOMAIN ledger :
          /\ r1 = ledger[i] /\ IsClosure(ledger[i])
          /\ \A k \in DOMAIN ledger : IsClosure(ledger[k]) => k <= i
  BY DEF LastClosure
<1>2. PICK j \in DOMAIN ledger :
          /\ r2 = ledger[j] /\ IsClosure(ledger[j])
          /\ \A k \in DOMAIN ledger : IsClosure(ledger[k]) => k <= j
  BY DEF LastClosure
<1>3. i <= j /\ j <= i /\ i \in Nat /\ j \in Nat
  BY <1>1, <1>2
<1>4. i = j
  BY <1>3
<1> QED BY <1>1, <1>2, <1>4

\* A repair starts on the last closure, if it is torn, or on the goal.
LEMMA RepairStarts == ASSUME IInv, repair PROVE RepairDoes'
<1>1. UNCHANGED <<ledger, status, plan, claim, here>>
  BY DEF repair, tracked, ground
<1>2. Goal' = Goal /\ unresolved_closure' = unresolved_closure
  BY <1>1 DEF Goal, unresolved_closure, HasReadme
<1>3. CASE unresolved_closure # {}
  <2>1. PICK r \in unresolved_closure :
            op' = Repair(r.target, MarkOf[r.verb], NoTarget, {"status", "claim", "surface"})
    BY <1>3 DEF repair
  <2>2. r \in LastClosure(ledger) /\ HasReadme(r.target)
    BY <2>1 DEF unresolved_closure
  <2>3. \A q \in LastClosure(ledger) : q = r
    BY <2>2, OneLastClosure DEF IInv, TypeOK
  <2>4. /\ op'.target = r.target /\ op'.mark = MarkOf[r.verb] /\ op'.claim = NoTarget
        /\ op'.todo = {"status", "claim", "surface"}
    BY <2>1 DEF Repair
  <2>5. HasReadme(op.target)'
    BY <1>1, <2>2, <2>4 DEF HasReadme
  <2> QED BY <1>1, <2>3, <2>4, <2>5 DEF RepairDoes
<1>4. CASE unresolved_closure = {}
  <2>1. op' = Repair(Goal.target, "none", Goal.target, {"claim", "surface"})
    BY <1>4 DEF repair
  <2>2. op'.claim = Goal.target /\ op'.todo = {"claim", "surface"}
    BY <2>1 DEF Repair
  <2> QED BY <1>2, <1>4, <2>2 DEF RepairDoes
<1> QED BY <1>3, <1>4

\* The torn closure's README takes the marker the closure asks for.
LEMMA RepairMarks == ASSUME IInv, RepairDoes, op.verb = "repair", WriteStatus PROVE RepairDoes'
<1>1. /\ "status" \in op.todo /\ Done("status")
      /\ UNCHANGED <<ledger, plan, claim, here>>
  BY DEF WriteStatus, Due, ground
<1>2. Goal' = Goal
  BY <1>1 DEF Goal
<1>3. /\ HasReadme(op.target)
      /\ \A r \in LastClosure(ledger) : r.target = op.target /\ MarkOf[r.verb] = op.mark
  BY <1>1 DEF RepairDoes
<1>4. op.target \in Target /\ status' = [status EXCEPT ![op.target] = op.mark]
  BY <1>1, <1>3 DEF WriteStatus, set_status_suffix, IInv, RunningVerb, RepairKnows
<1>5. status'[op.target] = op.mark
  BY <1>4 DEF IInv, TypeOK
<1>6. unresolved_closure' = {}
  BY <1>1, <1>3, <1>5 DEF unresolved_closure
<1>7. op' = Idle \/ (op'.verb = op.verb /\ op'.claim = op.claim /\ op'.todo = op.todo \ {"status"})
  BY <1>1 DEF Done, IInv, TypeOK
<1> QED BY <1>1, <1>2, <1>6, <1>7 DEF RepairDoes, Idle

\* The sidecar and GOAL.md tear nothing.
LEMMA RepairGoesOn ==
    ASSUME IInv, RepairDoes, op.verb = "repair", WriteClaim \/ WriteSurface
    PROVE  RepairDoes'
<1>1. /\ UNCHANGED <<ledger, status, plan, here>>
      /\ claim' \in {claim, [claim EXCEPT ![here] = op.claim]}
      /\ here \in Worktree /\ claim \in [Worktree -> Target \cup {NoTarget}]
  BY DEF WriteClaim, WriteSurface, tracked, ground, IInv, TypeOK
<1>2. Goal' = Goal /\ unresolved_closure' = unresolved_closure
  BY <1>1 DEF Goal, unresolved_closure, HasReadme
<1>3. op.claim \in {NoTarget, Goal.target}
  BY DEF RepairDoes
<1>4. claim'[here'] \in {claim[here], op.claim} /\ (WriteClaim => claim'[here'] = op.claim)
  BY <1>1 DEF WriteClaim
<1>5. PICK stage \in {"claim", "surface"} : Done(stage) /\ (stage = "claim" => WriteClaim)
  BY DEF WriteClaim, WriteSurface
<1>6. op' = Idle \/ (/\ op'.verb = op.verb /\ op'.claim = op.claim /\ op'.target = op.target
                    /\ op'.mark = op.mark /\ op'.todo = op.todo \ {stage})
  BY <1>5 DEF Done, IInv, TypeOK
<1>7. CASE op' = Idle
  BY <1>7 DEF RepairDoes, Idle
<1>8. CASE /\ op'.verb = op.verb /\ op'.claim = op.claim /\ op'.target = op.target
           /\ op'.mark = op.mark /\ op'.todo = op.todo \ {stage}
  <2>1. "claim" \notin op'.todo => claim'[here'] \in {NoTarget, Goal'.target}
    BY <1>2, <1>3, <1>4, <1>5, <1>8 DEF RepairDoes
  <2>2. "status" \in op'.todo <=> "status" \in op.todo
    BY <1>8
  <2>3. HasReadme(op.target)' <=> HasReadme(op.target)
    BY <1>1, <1>8 DEF HasReadme
  <2> QED BY <1>1, <1>2, <1>3, <1>8, <2>1, <2>2, <2>3 DEF RepairDoes
<1> QED BY <1>6, <1>7, <1>8

\* Every step keeps a repair's bargain.
LEMMA NextRepair == IInv /\ RepairDoes /\ [Next]_vars => RepairDoes'
<1> SUFFICES ASSUME IInv, RepairDoes, [Next]_vars, op'.verb = "repair" PROVE RepairDoes'
  BY DEF RepairDoes
<1>1. CASE repair
  BY <1>1, RepairStarts
<1>2. CASE Write
  <2>1. op.verb = "repair"
    BY <1>2 DEF Write, AppendReceipt, AppendOwedRow, OwedRowRefused, WriteStatus, WriteClaim,
                WriteSurface, Done, Idle, IInv, TypeOK
  <2>2. op.todo \subseteq {"status", "claim", "surface"}
    BY <2>1 DEF IInv, RunningVerb, RepairKnows
  <2>3. WriteStatus \/ WriteClaim \/ WriteSurface
    BY <1>2, <2>2 DEF Write, AppendReceipt, AppendOwedRow, OwedRowRefused, Due
  <2> QED BY <2>1, <2>3, RepairMarks, RepairGoesOn
<1>3. CASE \/ (\E t \in Target : set(t)) \/ park \/ unpark \/ abandon
           \/ (\E arg \in Target \cup {NoTarget} : complete(arg)) \/ (\E t \in Target : accept(t))
  BY <1>3 DEF set, park, unpark, abandon, complete, accept, Run, Command
<1>4. CASE Environment
  BY <1>4 DEF Environment, Crash, EditPlan, AddTable, DropSidecar, Switch, Idle
<1>5. CASE UNCHANGED vars
  BY <1>5 DEF vars, RepairDoes, Goal, unresolved_closure, HasReadme
<1> QED BY <1>1, <1>2, <1>3, <1>4, <1>5 DEF Next, TrackedVerb

\* One repair that reaches its last write is enough: no closure stays torn and the
\* sidecar claims nothing but the goal, whatever was cut short before it and
\* wherever (goal.rs repair, unresolved_closure).
THEOREM OneRepairIsEnough == Spec => RepairConverges
<1>1. Init => RepairDoes
  BY DEF Init, Idle, RepairDoes
<1>2. IInv /\ RepairDoes /\ [Next]_vars =>
          [op.verb = "repair" /\ WriteSurface =>
              /\ unresolved_closure' = {}
              /\ claim'[here'] \in {NoTarget, Goal'.target}]_vars
  <2> SUFFICES ASSUME IInv, RepairDoes, op.verb = "repair", WriteSurface
               PROVE  /\ unresolved_closure' = {}
                      /\ claim'[here'] \in {NoTarget, Goal'.target}
    OBVIOUS
  <2>1. /\ "status" \notin op.todo /\ "claim" \notin op.todo
        /\ UNCHANGED <<ledger, status, plan, claim, here>>
    BY DEF WriteSurface, Due, Earlier, ground
  <2>2. Goal' = Goal /\ unresolved_closure' = unresolved_closure
    BY <2>1 DEF Goal, unresolved_closure, HasReadme
  <2> QED BY <2>1, <2>2 DEF RepairDoes
<1> QED BY <1>1, <1>2, NextRepair, Invariance, PTL DEF Spec, RepairConverges

-----------------------------------------------------------------------------
(* The receipt log implements the goal record.  Beyond IInv the argument     *)
(* needs what an orderly complete or accept knows until its receipt is       *)
(* written: the goal the operator named is still the goal of the log.        *)

\* The goal an orderly closure or acceptance read is the goal it will record.
OrderlyKnows ==
    op.verb \in GoalVerb /\ "receipt" \in op.todo =>
        /\ op.verb = "complete" =>
              Goal.kind \in {"active", "parked"} /\ Goal.target = op.target
        /\ op.verb = "accept" => Goal = [kind |-> "pending", target |-> op.target]

OInv == IInv /\ OrderlyKnows

\* An orderly step is a step.
LEMMA OrderlyIsNext == ASSUME TypeOK, OrderlyNext PROVE Next
BY OpenGoalTarget DEF OrderlyNext, Next

\* The invariant holds at the start.
LEMMA InitOInv == Init => OInv
BY InitIInv DEF OInv, OrderlyKnows, Init, Idle, GoalVerb

\* A step that starts no closure and no acceptance and writes no receipt leaves
\* OrderlyKnows alone.
LEMMA KnowsKept ==
    ASSUME OrderlyKnows, UNCHANGED ledger,
           \/ op'.verb = op.verb /\ op'.target = op.target /\ op'.todo \subseteq op.todo
           \/ op'.verb \in {"idle", "repair", "set", "park", "unpark", "abandon"}
    PROVE  OrderlyKnows'
BY DEF OrderlyKnows, Goal, GoalVerb

\* A verb whose receipt is written knows nothing more of the goal.
LEMMA KnowsAfterReceipt ==
    ASSUME IInv, AppendReceipt PROVE OrderlyKnows'
<1>1. Done("receipt")
  BY DEF AppendReceipt
<1>2. "receipt" \notin op'.todo
  BY <1>1, OpType DEF IInv, Stage, Idle
<1> QED BY <1>2 DEF OrderlyKnows

\* Every orderly step keeps the invariant.
LEMMA NextOInv == OInv /\ [OrderlyNext]_vars => OInv'
<1> SUFFICES ASSUME OInv, [OrderlyNext]_vars PROVE OrderlyKnows'
  BY OrderlyIsNext, NextIInv DEF OInv, IInv
<1> USE DEF OInv
<1>1. CASE TrackedVerb
  <2>1. UNCHANGED ledger /\ op'.verb \in {"repair", "set", "park", "unpark", "abandon"}
    BY <1>1 DEF TrackedVerb, set, park, unpark, abandon, repair, Run, Command,
                Repair, tracked
  <2> QED BY <2>1, KnowsKept
<1>2. CASE complete(NoTarget)
  <2>1. /\ op' = Command("complete", Goal.target) /\ UNCHANGED ledger
        /\ Goal.kind \in {"active", "parked"}
    BY <1>2 DEF complete, Run, tracked
  <2>2. op'.verb = "complete" /\ op'.target = Goal.target
    BY <2>1 DEF Command
  <2> QED BY <2>1, <2>2 DEF OrderlyKnows, Goal
<1>3. CASE Goal.kind = "pending" /\ accept(Goal.target)
  <2>1. op' = Command("accept", Goal.target) /\ UNCHANGED ledger
    BY <1>3 DEF accept, Run, tracked
  <2>2. op'.verb = "accept" /\ op'.target = Goal.target
    BY <2>1 DEF Command
  <2>3. Goal = [kind |-> "pending", target |-> Goal.target]
    BY <1>3, OpenGoalTarget DEF IInv, OpenGoal
  <2> QED BY <2>1, <2>2, <2>3 DEF OrderlyKnows, Goal
<1>4. CASE AppendReceipt
  BY <1>4, KnowsAfterReceipt
<1>5. CASE AppendOwedRow \/ WriteStatus \/ WriteClaim \/ WriteSurface
  <2>1. PICK stage \in Stage : Done(stage)
    BY <1>5 DEF AppendOwedRow, WriteStatus, WriteClaim, WriteSurface, Stage
  <2>2. UNCHANGED ledger
    BY <1>5 DEF AppendOwedRow, WriteStatus, WriteClaim, WriteSurface, tracked
  <2>3. Idle.verb = "idle"
    BY DEF Idle
  <2> QED BY <2>1, <2>2, <2>3, OpType, KnowsKept DEF IInv
<1>6. CASE OwedRowRefused \/ Environment
  <2>1. UNCHANGED ledger /\ op' = Idle
    BY <1>6 DEF OwedRowRefused, Environment, Crash, EditPlan, AddTable, DropSidecar,
                Switch, tracked
  <2> QED BY <2>1, KnowsKept DEF Idle
<1>7. CASE UNCHANGED vars
  BY <1>7, KnowsKept DEF vars
<1> QED BY <1>1, <1>2, <1>3, <1>4, <1>5, <1>6, <1>7 DEF OrderlyNext, Write

-----------------------------------------------------------------------------
(* What each step does to the record. *)

\* The initial repository is the initial record.
LEMMA InitRecord == Init => Record!RecordInit
<1> SUFFICES ASSUME Init PROVE Record!RecordInit
  OBVIOUS
<1>1. ledger = << >> /\ ledger \in Seq(GoalReceipt)
  BY DEF Init
<1>2. Goal = NoGoal
  BY <1>1, FoldIsLast DEF Goal
<1>3. ClosedSet = {} /\ AcceptedSet = {}
  BY <1>1 DEF ClosedSet, AcceptedSet, Recorded
<1> QED BY <1>2, <1>3 DEF Record!RecordInit, Record!Free, Record!Slot, NoGoal

\* Writing an orderly verb's receipt takes the record the step that verb is named
\* for, or leaves it alone (unpark of an active goal).
LEMMA ReceiptIsRecordStep ==
    ASSUME OInv, AppendReceipt
    PROVE  [Record!RecordNext]_(Record!gvars)
<1> DEFINE t == op.target
           r == [verb |-> op.verb, target |-> t]
<1>1. /\ op.verb \in GoalVerb /\ t \in Target
      /\ Answers(Goal, r)
      /\ OrderlyKnows /\ "receipt" \in op.todo
  BY DEF OInv, IInv, AppendReceipt, Due, TypeOK, RunningVerb, RepairKnows, VerbKnows
<1>2. ledger \in Seq(GoalReceipt) /\ ledger' = Append(ledger, r) /\ r \in GoalReceipt
  BY <1>1 DEF AppendReceipt, OInv, IInv, TypeOK, GoalReceipt
<1>3. Goal' = Apply(NoGoal, r)
  BY <1>2, FoldAppend DEF Goal
<1>4. \A verb, m : Recorded(ledger', verb, m)
                    <=> Recorded(ledger, verb, m) \/ r = [verb |-> verb, target |-> m]
  BY <1>2, RecordedAppend
<1>5. /\ ClosedSet' = IF op.verb = "complete" THEN ClosedSet \cup {t} ELSE ClosedSet
      /\ AcceptedSet' = IF op.verb = "accept" THEN AcceptedSet \cup {t} ELSE AcceptedSet
  BY <1>1, <1>4 DEF ClosedSet, AcceptedSet
<1>6. Goal \in GoalState
  BY GoalInState DEF OInv, IInv
<1>7. t # NoTarget
  BY <1>1, NoTargetAssumption
<1> USE DEF Record!Slot, Record!Free
<1>8. CASE op.verb = "set"
  <2>1. Record!Declare(t)
    BY <1>1, <1>3, <1>5, <1>7, <1>8 DEF Record!Declare, Apply, KindAfter, Answers, NoGoal
  <2> QED BY <1>1, <2>1 DEF Record!RecordNext
<1>9. CASE op.verb = "park"
  <2>1. Record!Park(t)
    BY <1>1, <1>3, <1>5, <1>7, <1>9 DEF Record!Park, Apply, KindAfter, Answers
  <2> QED BY <1>1, <2>1 DEF Record!RecordNext
<1>10. CASE op.verb = "unpark"
  <2>1. Goal.kind \in {"active", "parked"} /\ Goal.target = t
    BY <1>1, <1>10 DEF Answers
  <2>2. Goal = [kind |-> Goal.kind, target |-> t]
    BY <1>6, <2>1 DEF GoalState, OpenGoal, NoGoal
  <2>3. Goal' = [kind |-> "active", target |-> t]
    BY <1>3, <1>7, <1>10 DEF Apply, KindAfter
  <2>4. CASE Goal.kind = "active"
    BY <1>5, <1>10, <2>2, <2>3, <2>4 DEF Record!gvars
  <2>5. CASE Goal.kind = "parked"
    <3>1. Record!Resume(t)
      BY <1>5, <1>10, <2>2, <2>3, <2>5 DEF Record!Resume
    <3> QED BY <1>1, <3>1 DEF Record!RecordNext
  <2> QED BY <2>1, <2>4, <2>5
<1>11. CASE op.verb = "abandon"
  <2>1. Goal \in OpenGoal /\ Goal.target = t
    BY <1>1, <1>6, <1>11 DEF Answers, GoalState
  <2>2. Record!Drop(t)
    BY <1>3, <1>5, <1>11, <2>1 DEF Record!Drop, Apply, KindAfter, OpenGoal, NoGoal
  <2> QED BY <1>1, <2>2 DEF Record!RecordNext
<1>12. CASE op.verb = "complete"
  <2>1. Goal \in OpenGoal /\ Goal.target = t /\ Goal.kind \in {"active", "parked"}
    BY <1>1, <1>6, <1>12 DEF OrderlyKnows, GoalState, NoGoal
  <2>2. Record!Close(t)
    BY <1>3, <1>5, <1>7, <1>12, <2>1 DEF Record!Close, Apply, KindAfter, OpenGoal
  <2> QED BY <1>1, <2>2 DEF Record!RecordNext
<1>13. CASE op.verb = "accept"
  <2>1. Goal = [kind |-> "pending", target |-> t]
    BY <1>1, <1>13 DEF OrderlyKnows
  <2>2. Record!Accept(t)
    BY <1>3, <1>5, <1>7, <1>13, <2>1 DEF Record!Accept, Apply, KindAfter, NoGoal
  <2> QED BY <1>1, <2>2 DEF Record!RecordNext
<1> QED BY <1>1, <1>8, <1>9, <1>10, <1>11, <1>12, <1>13 DEF GoalVerb

\* Every orderly step is a step of the record or leaves it alone.
LEMMA StepIsRecordStep ==
    OInv /\ [OrderlyNext]_vars => [Record!RecordNext]_(Record!gvars)
<1> SUFFICES ASSUME OInv, [OrderlyNext]_vars
             PROVE  [Record!RecordNext]_(Record!gvars)
  OBVIOUS
<1>1. CASE AppendReceipt
  BY <1>1, ReceiptIsRecordStep
<1>2. CASE UNCHANGED ledger
  BY <1>2 DEF Record!gvars, Goal, ClosedSet, AcceptedSet
<1>3. UNCHANGED ledger \/ AppendReceipt
  <2>1. CASE TrackedVerb
    BY <2>1 DEF TrackedVerb, set, park, unpark, abandon, repair, Run, tracked
  <2>2. CASE complete(NoTarget) \/ \E m : accept(m)
    BY <2>2 DEF complete, accept, Run, tracked
  <2>3. CASE Write \/ Environment
    BY <2>3 DEF Write, AppendOwedRow, OwedRowRefused, WriteStatus, WriteClaim,
                WriteSurface, Environment, Crash, EditPlan, AddTable, DropSidecar,
                Switch, tracked
  <2>4. CASE UNCHANGED vars
    BY <2>4 DEF vars
  <2> QED BY <2>1, <2>2, <2>3, <2>4 DEF OrderlyNext
<1> QED BY <1>1, <1>2, <1>3

\* The receipts, read through the fold, are a goal record: one goal at a time,
\* closed before it is accepted, whatever is interrupted, repaired or edited, as
\* long as complete and accept name the goal the log tracks (goal.rs).
THEOREM LogImplementsRecord == OrderlySpec => ImplementsRecord
BY InitOInv, NextOInv, InitRecord, StepIsRecordStep, PTL
   DEF OrderlySpec, ImplementsRecord, Record!RecordSpec
=============================================================================
