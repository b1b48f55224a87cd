CONSTANTS
    Id = {"o", "n"}
    Source = {0, 1}
    Bound = {1, 2}
    Provable <- TheProvable
    First <- TheFirst
    Sources = {0}
    Derived <- TheDerived
    Declared = {1}
    BuildRecorded = TRUE
    Untracked <- TheUntracked
    Phases <- ThePhases
    Crates = {"a", "b"}
    Inherits = {"a"}
    MaxTroubles = 1
    MaxTags = 2
    MaxReceipts = 2
SPECIFICATION Spec
INVARIANTS TagIsCoherent PinReproduces BumpsOnce OnlyTheBump TagIsProved CleanMeansPublished
CHECK_DEADLOCK FALSE
