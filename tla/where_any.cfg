\* Every kind of worktree, any selection, killed anywhere, the operator at work between.
CONSTANTS
    Recipe <- OneComponent
    Trees <- EveryTree
    Kind <- FourKinds
    Commit = {c1, c2}
    NoCommit = NoCommit
    Mine = Mine
    MaxEdits = 1
SPECIFICATION Spec
INVARIANTS TypeOK DoneMeansRealized
PROPERTY WorkKept
SYMMETRY Symmetry
VIEW Seen
CHECK_DEADLOCK FALSE
