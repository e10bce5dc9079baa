SPECIFICATION FairSpec
CONSTANTS
    Workspaces <- Slugs
    Callers <- Everyone
    Asked <- Groups
    Handlers <- Functions
    Faults = {"connection", "keys"}
    Public = "everyone"
    Within <- ContainedNames
    None = None
INVARIANTS TypeOK  PublishedOnly WritersHoldScope
PROPERTIES UpdatesStayInWorkspace EveryRequestEnds
