\* Two components: one is realized, the other is not.
CONSTANTS
    Recipe <- TwoComponents
    Trees <- ThreeTrees
    Kind <- FourKinds
    Commit = {c1}
    NoCommit = NoCommit
    Mine = Mine
    MaxEdits = 1
SPECIFICATION Spec
INVARIANT ReceiptMeansRealized
SYMMETRY Symmetry
VIEW Seen
CHECK_DEADLOCK FALSE
