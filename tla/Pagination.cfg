SPECIFICATION FairSpec
CONSTANTS
    Documents <- Stored
    Sorts <- AllSorts
    Dotted = {"n.a"}
    Limits = {0, 1, 2}
    MaxWrites = 1
    MaxPage = 6
    None = None
INVARIANTS TypeOK SteadyDocumentsAreListed
PROPERTIES NothingIsListedTwice ImplementsScan EveryWalkEnds
CHECK_DEADLOCK FALSE
