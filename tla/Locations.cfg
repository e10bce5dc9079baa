CONSTANTS
    Docs = {d1, d2}
    Calls = {c1, c2}
    Orgs = {o1, o2}
    Changes <- References
    None = None
SPECIFICATION Spec
SYMMETRY Symmetry
INVARIANTS
    VersionIdentifiesEdit
    SerialConsistency
PROPERTIES
    SerialUpdatesKeepEdits
    ListWritesConflict
CHECK_DEADLOCK FALSE
