CONSTANTS
    Plan = {"p", "q"}
    Anchor = {"a", "b"}
    Command = {"test", "gate"}
    Unsafe = {"gate"}
    Decision = {"call"}
    Input = {"in", "out"}
    Prose <- TheProse
    Plans <- ThePlans
    Complete = {"q"}
    Verify <- TheVerify
    Lists <- TheLists
    MaxEdits = 2
    MaxVouched = 3
SPECIFICATION Spec
INVARIANTS FrontierMoves GateStands FreshMeansVouched
CHECK_DEADLOCK FALSE
