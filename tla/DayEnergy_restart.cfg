SPECIFICATION Spec
CONSTANTS
    LastDay = 2
    Peak = 3
    Decays = TRUE
    MissesPolls = FALSE
    RestartsInWindow = TRUE
    None = None
INVARIANTS
    NoCarryover
