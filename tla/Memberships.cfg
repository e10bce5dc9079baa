CONSTANTS
    Users = {u1, u2}
    Groups = {owner, admin}
    Owner = owner
    Admin = admin
    Primary = primary
    Calls = {c1, c2}
    Bound = 3
    None = None
SPECIFICATION Spec
SYMMETRY Symmetry
INVARIANTS
    CacheIsCurrent
    OnlyRacedKeysAreStale
PROPERTIES
    OwnerRemains
    AdminsAreMadeByOwners
CHECK_DEADLOCK FALSE
