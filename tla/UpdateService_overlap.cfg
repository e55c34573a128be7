SPECIFICATION FairSpec
CONSTANTS
    Versions = {1, 2}
    PreReleases = {2}
    Ops = {o1}
    Timer = Timer
    TimerRuns = TRUE
    MayRestart = TRUE
    MayFail = TRUE
    None = None
INVARIANTS
    MirrorAgrees
    FreshLook
PROPERTIES
    ChecksEnd
