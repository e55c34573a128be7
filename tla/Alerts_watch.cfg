SPECIFICATION FairSpec
CONSTANTS
    Conditions = {c1, c2}
    Serious = {c1}
    Confirm = 2
    Clear = 2
    MaxFailures = 1
    MaxRestarts = 1
INVARIANTS
    OpenMirrorsRows
    ResolvedWasRaised
PROPERTIES
    NoFlicker
    AlertsFollow
