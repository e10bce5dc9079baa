CONSTANTS
    l = l
    m = m
    x = x
    o1 = o1
    o2 = o2
    Home <- Homes
    Layers = {l, m}
    Others = {x}
    Model <- ModelOfOthers
    Orgs = {o1, o2}
    MaxRequests = 2
    MaxRepeats = 1
    None = None
SPECIFICATION FairSpec
PROPERTIES
    ExistingWorkspacesAreKept
    TilesGoAway
    
CHECK_DEADLOCK FALSE
