CONSTANTS
    Users = {u1, u2}
    Groups = {owner, admin}
    Owner = owner
    Admin = admin
    Primary = primary
    Calls = {c1, c2}
    Bound = 2
    None = None
SPECIFICATION Spec
SYMMETRY Symmetry
PROPERTIES
    OnlyOwnerStays
CHECK_DEADLOCK FALSE
