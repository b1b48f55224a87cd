CONSTANTS
    NoTarget = NoTarget
    Target = {A, B}
    Worktree = {w1}
    PlanShape = {"missing", "shaped"}
    MaxLedger = 4
SPECIFICATION OrderlyFair
INVARIANT ClaimAgrees
PROPERTIES
    ImplementsRecord
    FirstAcceptanceClosesGoal
CHECK_DEADLOCK FALSE
