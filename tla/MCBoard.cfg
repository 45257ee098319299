SPECIFICATION Spec
CONSTANTS
    Ports <- SomePorts
    Declared <- SomeDeclared
    FrameLen = 3
    MaxBytes = 8
    BufLen = 7
    DataLen = 2
    RxRoom = 2
    MaxRestarts = 2
    MaxFaults = 2
INVARIANTS
    TypeOK
    ImageConsistent
    Aligned
    InBuffers
    NoLostWakeup
PROPERTIES
    ComesUp
