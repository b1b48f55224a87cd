----------------------------- MODULE GoalRecord -----------------------------
(***************************************************************************)
(* What the goal subsystem promises, with no files in it: one goal at a    *)
(* time, declared on a free slot, parked and resumed, closed by the gates  *)
(* (the work is done) and then ended by the operator's acceptance, or      *)
(* dropped at any point.  GoalLifecycle implements this when every verb    *)
(* names the goal the record tracks; GoalRefinement states it.             *)
(***************************************************************************)
CONSTANTS Target, NoTarget

VARIABLES
    goal,       \* the goal and where it stands
    closed,     \* the milestones the gates have closed
    accepted    \* the milestones the operator has accepted

gvars == <<goal, closed, accepted>>

Slot(kind, t) == [kind |-> kind, target |-> t]
Free == Slot("none", NoTarget)

Declare(t) ==
    /\ goal = Free
    /\ goal' = Slot("active", t)
    /\ UNCHANGED <<closed, accepted>>

Park(t) ==
    /\ goal = Slot("active", t)
    /\ goal' = Slot("parked", t)
    /\ UNCHANGED <<closed, accepted>>

Resume(t) ==
    /\ goal = Slot("parked", t)
    /\ goal' = Slot("active", t)
    /\ UNCHANGED <<closed, accepted>>

Close(t) ==
    /\ goal \in {Slot("active", t), Slot("parked", t)}
    /\ goal' = Slot("pending", t)
    /\ closed' = closed \cup {t}
    /\ UNCHANGED accepted

Accept(t) ==
    /\ goal = Slot("pending", t)
    /\ goal' = Free
    /\ accepted' = accepted \cup {t}
    /\ UNCHANGED closed

Drop(t) ==
    /\ goal \in {Slot(k, t) : k \in {"active", "parked", "pending"}}
    /\ goal' = Free
    /\ UNCHANGED <<closed, accepted>>

RecordInit == goal = Free /\ closed = {} /\ accepted = {}

RecordNext ==
    \E t \in Target :
        Declare(t) \/ Park(t) \/ Resume(t) \/ Close(t) \/ Accept(t) \/ Drop(t)

RecordSpec == RecordInit /\ [][RecordNext]_gvars
=============================================================================
