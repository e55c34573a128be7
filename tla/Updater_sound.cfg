SPECIFICATION FairSpec
CONSTANTS
    Versions = {1, 2, 3, 4}
    First = 1
    Broken = {2}
    PreReleases = {4}
    Unverifiable = {3}
    None = None
    MaxCrashes = 0
    MayAbort = FALSE
    FeedMayShrink = FALSE
    StaleRequests = FALSE
INVARIANTS
    OkIsLive
PROPERTIES
    UpdateIsAtomic
    BrokenRecovers
    RequestServed
