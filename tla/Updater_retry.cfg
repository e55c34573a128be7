SPECIFICATION Spec
CONSTANTS
    Versions = {1, 2, 3}
    First = 1
    Broken = {2}
    PreReleases = {3}
    Unverifiable = {}
    None = None
    MaxCrashes = 0
    MayAbort = FALSE
    FeedMayShrink = FALSE
    StaleRequests = FALSE
PROPERTIES
    NoBlindRetry
