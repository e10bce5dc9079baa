CONSTANTS
    Saves = {s1, s2}
    Removals = {r1, r2}
    Locations = {l1}
    Slugs = {k1, k2}
    KeepVersions = FALSE
    None = None
SPECIFICATION FairSpec
CONSTRAINT InOrder
INVARIANTS
    OneVersionAtRest
    StoredMetricIsReferenced
    SerialConsistency
PROPERTIES
    SerialSavesReplacePrevious
    SupersededGoesAway
CHECK_DEADLOCK FALSE
