SPECIFICATION AllFairSpec
CONSTANTS
    LastDay = 2
    Energies = {1, 2}
    West = TRUE
    HalfHour = FALSE
    MaxDaysPerRun = 1
    MaxEvents = 1
    Polls = {p1, p2}
    None = None
    BounceAfter = 2
    ReloadAfter = 3
    RebootAfter = 5
    MaxKills = 2
    MaxFaults = 3
INVARIANTS
    HoursSumToDay
    RebootIsLast
    NoRebootLoop
PROPERTIES
    PastIsFolded
    HistoryFollows
    NetworkReturns
