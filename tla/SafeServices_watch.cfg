SPECIFICATION AllSpec
CONSTANTS
    LastDay = 2
    Peak = 3
    Decays = TRUE
    MissesPolls = FALSE
    RestartsInWindow = FALSE
    DayLen = 4
    SlotHour = 1
    Grace = 1
    Keep = 2
    MaxTime = 9
    MaxByHand = 1
    MaxFailures = 1
    Ticks = {t1, t2}
    ScheduleDays = 2
    MaxRestarts = 1
    Editors = {e1, e2}
    MaxEdits = 3
    IdlePoll = 10
    MaxBackoff = 30
    SessionGap = 20
    MaxFailedPolls = 6
    Limit = 4
    Share = 2
    MaxBlind = 1
    MaxDate = 4
    Opening = {0, 2}
    Expiry = 2
    MaxBills = 2
    None = None
INVARIANTS
    AllTypesOK
    NoCarryover
    NothingLost
    
    FiringsAreExcused
    EditsAreMerged
    OneLoop
    SessionHolds
    BudgetHeld
    DerivedIsRight
PROPERTIES
    EverySlotServed
