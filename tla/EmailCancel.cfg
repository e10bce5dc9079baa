CONSTANTS
    Users = {u1}
    Temps = {t1, t2}
    Emails = {e1, e2}
    Calls = {c1, c2}
    None = None
SPECIFICATION FairSpec
PROPERTY CancelInvalidates
CHECK_DEADLOCK FALSE
