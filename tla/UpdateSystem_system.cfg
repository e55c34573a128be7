SPECIFICATION SysSpec
CONSTANTS
    Versions = {1, 2}
    First = 1
    Broken = {}
    PreReleases = {}
    Unverifiable = {}
    None = None
    MaxCrashes = 1
    MayAbort = FALSE
    FeedMayShrink = FALSE
    StaleRequests = TRUE
    Ops = {o1}
    Timer = Timer
    TimerRuns = FALSE
    MayFail = FALSE
INVARIANTS
    ServiceUp
PROPERTIES
    AppIsAUser
