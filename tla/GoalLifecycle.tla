--------------------------- MODULE GoalLifecycle ---------------------------
(***************************************************************************)
(* The goal verbs of src/src/goal.rs.  Each verb is one process run: it    *)
(* reads the receipts, refuses or decides, then makes its writes one file  *)
(* at a time in a fixed order:                                             *)
(*                                                                         *)
(*     receipt -> OWED row -> README status -> sidecar claim -> GOAL.md    *)
(*                                                                         *)
(* and may stop between any two of them (a kill, or a failed write, which  *)
(* exits).  The tracked files (receipts, READMEs, PLAN.md, GOAL.md) are    *)
(* one record shared by all the worktrees, synchronised by git between     *)
(* commands; the `.host-goal` sidecar is gitignored and per worktree.      *)
(* A refusal changes nothing and has no action.                            *)
(***************************************************************************)
EXTENDS GoalLedger, FiniteSets

CONSTANTS
    Worktree,   \* the checkouts a verb may be run in
    PlanShape,  \* the shapes a milestone directory may take in this instance
    MaxLedger   \* bound: no verb that appends is started beyond this length

AllShapes == {"missing", "bare", "unshaped", "shaped"}

ASSUME GoalAssumption ==
    /\ Worktree # {} /\ IsFiniteSet(Worktree)
    /\ PlanShape \subseteq AllShapes
    /\ MaxLedger \in Nat

VARIABLES
    ledger,     \* the goal receipts, in file order
    status,     \* the goal marker of each milestone's README, or of the one moved away
    plan,       \* what stands at each milestone's path
    owed,       \* the OWED rows of PLAN.md's follow-up table, per milestone
    table,      \* whether PLAN.md carries the follow-up table at all
    surface,    \* the goal GOAL.md declares
    claim,      \* each worktree's `.host-goal` sidecar
    here,       \* the worktree the next verb runs in
    op,         \* the running verb and the writes it still has to make
    clean,      \* history: no verb was cut short and no repair was run
    missed      \* history: the milestones whose last marker met no README

vars == <<ledger, status, plan, owed, table, surface, claim, here, op, clean, missed>>
tracked == <<ledger, status, owed, surface>>
ground == <<plan, table, here>>

-----------------------------------------------------------------------------
(* The running verb. *)

Stage == {"receipt", "owed", "status", "claim", "surface"}
\* Faulty variant: the README is marked before the receipt is written.
StatusBeforeReceipt ==
    [receipt |-> {"owed", "status"}, owed |-> {}, status |-> {"owed"},
     claim   |-> {"receipt", "owed", "status"},
     surface |-> {"receipt", "owed", "status", "claim"}]
Earlier == [receipt |-> {},
            owed    |-> {"receipt"},
            status  |-> {"receipt", "owed"},
            claim   |-> {"receipt", "owed", "status"},
            surface |-> {"receipt", "owed", "status", "claim"}]

\* Faulty variants: a verb that forgets one of its files.
AllWrites(verb) == IF verb = "abandon" THEN Stage ELSE Stage \ {"owed"}
Forgetting(verb, file) ==
    [v \in GoalVerb |-> IF v = verb THEN AllWrites(v) \ {file} ELSE AllWrites(v)]
AbandonForgetsDebt == Forgetting("abandon", "owed")
ParkForgetsSurface == Forgetting("park", "surface")
AcceptForgetsReceipt == Forgetting("accept", "receipt")

\* The files each verb rewrites.  park leaves the sidecar alone; only
\* abandon owes a row.
Writes == [set      |-> {"receipt", "status", "claim", "surface"},
           park     |-> {"receipt", "status", "surface"},
           unpark   |-> {"receipt", "status", "claim", "surface"},
           abandon  |-> {"receipt", "owed", "status", "claim", "surface"},
           complete |-> {"receipt", "status", "claim", "surface"},
           accept   |-> {"receipt", "status", "claim", "surface"}]

\* Faulty variant: an abandoned goal keeps its claim.
ClaimKeptOnAbandon(verb, t) == IF verb = "accept" THEN NoTarget ELSE t

\* The sidecar a verb leaves: abandon and accept clear the claim.
ClaimOf(verb, t) == IF verb \in {"abandon", "accept"} THEN NoTarget ELSE t

Idle == [verb |-> "idle", target |-> NoTarget, mark |-> "none",
         claim |-> NoTarget, todo |-> {}]
Command(verb, t) ==
    [verb |-> verb, target |-> t, mark |-> MarkOf[verb],
     claim |-> ClaimOf(verb, t), todo |-> Writes[verb]]

\* Faulty variant: repair leaves the torn closure's README as it is.
RepairSkipsMarker(t, mark, c, todo) ==
    [verb |-> "repair", target |-> t, mark |-> mark, claim |-> c, todo |-> todo \ {"status"}]

Repair(t, mark, c, todo) ==
    [verb |-> "repair", target |-> t, mark |-> mark, claim |-> c, todo |-> todo]

Due(stage) == stage \in op.todo /\ op.todo \cap Earlier[stage] = {}
Done(stage) ==
    op' = IF op.todo = {stage} THEN Idle
          ELSE [op EXCEPT !.todo = @ \ {stage}]

-----------------------------------------------------------------------------
(* What the verbs read. *)

Goal == goal_state(ledger)
HasReadme(t) == plan[t] \in {"unshaped", "shaped"}

\* target_defect finds no defect: the README has the task structure, or there
\* is a directory whose README cannot be read.
valid_target(t) == plan[t] \in {"bare", "shaped"}

\* The last complete or abandon whose marker the README does not show.  An
\* unreadable README is not an unresolved closure.
unresolved_closure ==
    {r \in LastClosure(ledger) :
        HasReadme(r.target) /\ status[r.target] # MarkOf[r.verb]}

-----------------------------------------------------------------------------
(* The verbs, up to their first write. *)

CanAppend == op = Idle /\ Len(ledger) < MaxLedger
Run(verb, t) ==
    /\ op' = Command(verb, t)
    /\ UNCHANGED <<tracked, ground, claim, clean, missed>>

\* Faulty variant: a declaration over an open goal.
SetOverGoal(t) == CanAppend /\ valid_target(t) /\ Run("set", t)

set(t) ==
    /\ CanAppend
    /\ valid_target(t)
    /\ Goal = NoGoal
    /\ Run("set", t)

park ==
    /\ CanAppend
    /\ Goal.kind = "active"
    /\ Run("park", Goal.target)

\* Faulty variant: a goal pending acceptance is reopened.
UnparkAnyGoal == CanAppend /\ Goal # NoGoal /\ Run("unpark", Goal.target)

unpark ==
    /\ CanAppend
    /\ Goal.kind \in {"active", "parked"}
    /\ Run("unpark", Goal.target)

\* Faulty variant: there need be no goal.
AbandonNothing == CanAppend /\ Run("abandon", Goal.target)

abandon ==
    /\ CanAppend
    /\ Goal.kind \in {"active", "parked", "pending"}
    /\ Run("abandon", Goal.target)

\* The sidecar claims nothing else and the milestone is there.  What more the gate asks
\* (PLAN.md's row, the tasks' receipts, the gate verbs, a clean and pushed tree) is the
\* environment's: an enabled complete is one that met none of those hazards.
complete_gate(t) == claim[here] \in {NoTarget, t} /\ valid_target(t)

\* With no milestone named, the active or parked goal is the one to close; a
\* named one is taken as it is.
complete(arg) ==
    LET t == IF arg = NoTarget THEN Goal.target ELSE arg
    IN  /\ CanAppend
        /\ arg = NoTarget => Goal.kind \in {"active", "parked"}
        /\ complete_gate(t)
        /\ Run("complete", t)

\* Any closure of the milestone in the log will do, and a second acceptance
\* of the same milestone writes nothing.
accept(t) ==
    /\ CanAppend
    /\ Recorded(ledger, "complete", t)
    /\ ~Recorded(ledger, "accept", t)
    /\ Run("accept", t)

repair ==
    /\ op = Idle
    /\ IF unresolved_closure # {}
       THEN \E r \in unresolved_closure :
                op' = Repair(r.target, MarkOf[r.verb], NoTarget,
                             {"status", "claim", "surface"})
       ELSE /\ Goal # NoGoal => valid_target(Goal.target)
            /\ op' = Repair(Goal.target, "none", Goal.target,
                            {"claim", "surface"})
    /\ clean' = FALSE
    /\ UNCHANGED <<tracked, ground, claim, missed>>

-----------------------------------------------------------------------------
(* The writes. *)

AppendReceipt ==
    /\ Due("receipt")
    /\ ledger' = Append(ledger, [verb |-> op.verb, target |-> op.target])
    /\ Done("receipt")
    /\ UNCHANGED <<status, owed, surface, ground, claim, clean, missed>>

AppendOwedRow ==
    /\ Due("owed")
    /\ table
    /\ owed' = [owed EXCEPT ![op.target] = @ + 1]
    /\ Done("owed")
    /\ UNCHANGED <<ledger, status, surface, ground, claim, clean, missed>>

\* PLAN.md has no follow-up table: abandon exits with its receipt appended
\* and nothing else written.
OwedRowRefused ==
    /\ Due("owed")
    /\ ~table
    /\ op' = Idle
    /\ clean' = FALSE
    /\ UNCHANGED <<tracked, ground, claim, missed>>

\* The markers on the status paragraph's first and last line are cut; the verb's goes to its end.
set_status_suffix(t, mark) == [status EXCEPT ![t] = mark]

\* An unreadable README is passed over in silence.
WriteStatus ==
    /\ Due("status")
    /\ IF HasReadme(op.target)
       THEN /\ status' = set_status_suffix(op.target, op.mark)
            /\ missed' = missed \ {op.target}
       ELSE /\ missed' = missed \cup {op.target}
            /\ UNCHANGED status
    /\ Done("status")
    /\ UNCHANGED <<ledger, owed, surface, ground, claim, clean>>

WriteClaim ==
    /\ Due("claim")
    /\ claim' = [claim EXCEPT ![here] = op.claim]
    /\ Done("claim")
    /\ UNCHANGED <<tracked, ground, clean, missed>>

WriteSurface ==
    /\ Due("surface")
    /\ surface' = Goal
    /\ Done("surface")
    /\ UNCHANGED <<ledger, status, owed, ground, claim, clean, missed>>

\* Killed, or a write failed and the verb exited, with writes still to make.
Crash ==
    /\ op # Idle
    /\ op' = Idle
    /\ clean' = FALSE
    /\ UNCHANGED <<tracked, ground, claim, missed>>

-----------------------------------------------------------------------------
(* The operator and git, between commands. *)

\* The milestone directory is moved away or brought back, or its README edited: the
\* marker goes and comes with the README, unless a new one is cut.
EditPlan(t, shape) ==
    /\ op = Idle
    /\ plan[t] # shape
    /\ plan' = [plan EXCEPT ![t] = shape]
    /\ status' \in {status, [status EXCEPT ![t] = "none"]}
    /\ UNCHANGED <<ledger, owed, surface, table, here, claim, op, clean, missed>>

AddTable ==
    /\ op = Idle
    /\ ~table
    /\ table' = TRUE
    /\ UNCHANGED <<tracked, plan, here, claim, op, clean, missed>>

\* The sidecar is untracked: a fresh checkout or a clean removes it.
DropSidecar ==
    /\ op = Idle
    /\ claim[here] # NoTarget
    /\ claim' = [claim EXCEPT ![here] = NoTarget]
    /\ UNCHANGED <<tracked, ground, op, clean, missed>>

Switch(w) ==
    /\ op = Idle
    /\ here # w
    /\ here' = w
    /\ UNCHANGED <<tracked, plan, table, claim, op, clean, missed>>

-----------------------------------------------------------------------------
Init ==
    /\ ledger = << >>
    /\ status = [t \in Target |-> "none"]
    /\ plan \in [Target -> PlanShape]
    /\ owed = [t \in Target |-> 0]
    /\ table \in BOOLEAN
    /\ surface = NoGoal
    /\ claim = [w \in Worktree |-> NoTarget]
    /\ here \in Worktree
    /\ op = Idle
    /\ clean = TRUE
    /\ missed = {}

Write == AppendReceipt \/ AppendOwedRow \/ OwedRowRefused
         \/ WriteStatus \/ WriteClaim \/ WriteSurface

Environment ==
    \/ Crash
    \/ \E t \in Target, shape \in PlanShape : EditPlan(t, shape)
    \/ AddTable
    \/ DropSidecar
    \/ \E w \in Worktree : Switch(w)

\* The verbs whose milestone is the fold's, not the command line's.
TrackedVerb ==
    (\E t \in Target : set(t)) \/ park \/ unpark \/ abandon \/ repair

Next ==
    \/ TrackedVerb
    \/ \E arg \in Target \cup {NoTarget} : complete(arg)
    \/ \E t \in Target : accept(t)
    \/ Write
    \/ Environment

Spec == Init /\ [][Next]_vars

(***************************************************************************)
(* The verbs as the printed remedies give them: complete names no          *)
(* milestone, accept names the one that is pending.                        *)
(***************************************************************************)
OrderlyNext ==
    \/ TrackedVerb
    \/ complete(NoTarget)
    \/ Goal.kind = "pending" /\ accept(Goal.target)
    \/ Write
    \/ Environment

OrderlySpec == Init /\ [][OrderlyNext]_vars

(***************************************************************************)
(* A started verb runs on to its exit unless it is killed, and one that is *)
(* started over and over is not killed before its receipt every time; the  *)
(* operator runs the acceptance the tool asks for until it is taken.       *)
(***************************************************************************)
OrderlyFair ==
    /\ OrderlySpec
    /\ WF_vars(Write)
    /\ SF_vars(AppendReceipt)
    /\ SF_vars(Goal.kind = "pending" /\ accept(Goal.target))
=============================================================================
