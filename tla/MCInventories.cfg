SPECIFICATION Spec
CONSTANTS
    Items = {"a", "b"}
    NoItem = "none"
    Size <- Sizes
    StackMax <- Maxima
    InitialStacks <- Starts
    Recipe <- ABecomesB
    Counts = {0, 1, 2}
    Answers <- Replies
    ModStacks <- Stacks
    Races = {}
    MaxEvents = 2
INVARIANTS
    BooksBalance
    WithinLimits
    DifferencesGetCorrected
CHECK_DEADLOCK FALSE
