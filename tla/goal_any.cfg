\* Any verb on any milestone, two worktrees, crashes between the writes.
CONSTANTS
    NoTarget = NoTarget
    Target = {A, B}
    Worktree = {w1, w2}
    PlanShape = {"missing", "shaped"}
    MaxLedger = 3
SPECIFICATION Spec
INVARIANTS TypeOK LedgerIsLegal ReceiptFirst DebtCarried RecordAgrees
 
SYMMETRY Symmetry
CHECK_DEADLOCK FALSE
