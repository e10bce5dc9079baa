CONSTANTS
    owner = owner
    viewer = viewer
    readAll = readAll
    writeAll = writeAll
    readMetrics = readMetrics
    Orgs = {o1}
    Types = {owner, viewer}
    Scopes = {readAll, writeAll, readMetrics}
    ScopesOf <- RoleScopes
    Calls = {c1, c2}
    MaxRequests = 3
    MaxFailures = 2
    None = None
SPECIFICATION Spec
SYMMETRY Symmetry
INVARIANTS
    NothingOutlivesPrimary
    SerialWorkspacesAreWhole
PROPERTIES
    UpdateMends
    PublishedWhenGone
CHECK_DEADLOCK FALSE
