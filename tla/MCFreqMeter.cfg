SPECIFICATION FairSpec
CONSTANTS
    MaxMeters = 2
    MaxEdges = 3
    DelayTicks = 2
INVARIANTS
    TypeOK
    OnlyLiveTouched
    EdgesConserved
    NeverAborts
PROPERTIES
    DeletedEnds
