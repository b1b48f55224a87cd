\* Teardown of one branch takes the component.
CONSTANTS
    Recipe <- OneComponent
    Trees <- EveryTree
    Kind <- FourKinds
    Commit = {c1}
    NoCommit = NoCommit
    Mine = Mine
    MaxEdits = 1
SPECIFICATION Spec
PROPERTY TeardownKeepsWork
SYMMETRY Symmetry
VIEW Seen
CHECK_DEADLOCK FALSE
