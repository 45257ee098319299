SPECIFICATION FairSpec
CONSTANTS
    Sources = 2
    Room = 2
    MaxLost = 1
    MaxRestarts = 1
INVARIANTS
    TypeOK
    MutexHeld
    Coherent
PROPERTIES
    Resync
    ReaderServed
