CONSTANTS
    Recipe <- TheRecipe
    Trees <- TheTrees
    Provider = "lint"
    Submodule = {"tools"}
    Offers <- TheOffers
    Declares = {"prove"}
    Deriver = "prove"
    Version = {1, 2}
    Torn = 9
    MaxEdits = 2
SPECIFICATION Spec
INVARIANTS GapsAreOwed FreshIsQuiet NothingUnreported
PROPERTY SecondRunChangesNothing
CHECK_DEADLOCK FALSE
VIEW Seen
