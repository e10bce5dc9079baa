CONSTANTS
    Docs = {d1}
    Calls = {c1, c2}
    Orgs = {o1}
    Changes <- Edits
    None = None
SPECIFICATION Spec
PROPERTY VersionedUpdatesKeepEdits
CHECK_DEADLOCK FALSE
