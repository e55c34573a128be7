SPECIFICATION Spec
CONSTANTS
    Versions = {1, 2, 3}
    First = 1
    Broken = {2}
    PreReleases = {3}
    Unverifiable = {}
    None = None
    MaxCrashes = 1
    MayAbort = TRUE
    FeedMayShrink = TRUE
    StaleRequests = TRUE
INVARIANTS
    ConsentHeld
PROPERTIES
    FailureRemembered
CHECK_DEADLOCK FALSE
