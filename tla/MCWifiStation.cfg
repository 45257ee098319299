SPECIFICATION FairSpec
CONSTANTS
    Networks <- TwoNetworks
    Builtin = "home"
    MaxEvents = 3
    MaxRestarts = 2
INVARIANTS
    BitFollowsStation
    NeverAbandoned
PROPERTIES
    KeepsComingBack
