SPECIFICATION Spec
CONSTANTS
    Fds <- TwoFds
    MaxParcel = 2
    TimeLen = 1
    Noise <- NoNoise
    Sentences <- NoSentence
    Merged <- NoMerged
    MaxDue = 2
    MaxFaults = 2
INVARIANTS
    TypeOK
    FdsOwned
    StreamInSync
    OnlineOnlyIfWelcomed
PROPERTIES
    ImplementsSession
