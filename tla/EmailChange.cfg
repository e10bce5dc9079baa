CONSTANTS
    Users = {u1, u2}
    Temps = {t1, t2}
    Emails = {e1, e2, e3}
    Calls = {c1, c2}
    None = None
SPECIFICATION Spec
SYMMETRY Symmetry
INVARIANTS
    PendingRequestIsCoherent
PROPERTIES
    EmailComesFromOwnRequest
    DeletesOwnTempsOnly
    ChangeIsThePendingRequest
    NoSelfLockout
CHECK_DEADLOCK FALSE
