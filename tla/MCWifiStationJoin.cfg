SPECIFICATION Spec
CONSTANTS
    Networks <- TwoNetworks
    Builtin = "home"
    MaxEvents = 3
    MaxRestarts = 0
INVARIANTS
    JoinedMeansReached
