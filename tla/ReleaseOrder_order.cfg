SPECIFICATION Spec
CONSTANTS
    Versions <- MCVersions
    MaxFeed = 3
INVARIANTS
    OrderIsTotal
    SameOffer
PROPERTIES
    NeverDowngrades
