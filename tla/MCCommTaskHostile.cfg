SPECIFICATION Spec
CONSTANTS
    Fds <- TwoFds
    MaxParcel = 2
    TimeLen = 1
    Noise <- SomeNoise
    Sentences <- OneSentence
    Merged <- OneMerged
    MaxDue = 1
    MaxFaults = 0
INVARIANTS
    RewoundBeforeReading
    PositionWhole
