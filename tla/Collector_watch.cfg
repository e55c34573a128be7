SPECIFICATION FairSpec
CONSTANTS
    Hosts = {h1, h2, h3}
    Subnets = {{h1, h2}, {h3}}
    Configured = h1
    MaxTime = 2
    Threshold = 2
    Window = 2
    MaxMoves = 1
    DbMayFail = TRUE
    MayHang = TRUE
    MayRestart = TRUE
    UserActs = TRUE
    PingMayFail = TRUE
    None = None
INVARIANTS
    StoredOnce
    NoHalfReading
    OnlyHungExpires
PROPERTIES
    OutageIsReal
    GatewayFound
