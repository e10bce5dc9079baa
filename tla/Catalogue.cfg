CONSTANTS
    l = l
    m = m
    w = w
    b = b
    o1 = o1
    o2 = o2
    n1 = n1
    n2 = n2
    Docs = {l, m, w, b}
    Kind <- Models
    Calls = {c1, c2}
    Orgs = {o1, o2}
    Names = {n1, n2}
    Requests <- Asked
    MaxAttempts = 1
    None = None
SPECIFICATION Spec
SYMMETRY Symmetry
INVARIANTS
    TypeOK
    ReferencesHold
    IndexIsCurrent
PROPERTIES
    SlugIsFound
CHECK_DEADLOCK FALSE
