SPECIFICATION FairSpec
CONSTANTS
    Capacity = 3
    Offsets <- MCOffsets
    Values = {"a", "b"}
    Pieces <- MCPieces
    MaxPrepared = 4
    MaxRestarts = 2
INVARIANTS
    TypeOK
    AdvertisedWhole
    PreparedAsAnswered
PROPERTIES
    FoundAgain
    WriteAnswered
