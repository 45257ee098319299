SPECIFICATION FairPeerSpec
CONSTANTS
    Fds <- TwoFds
    MaxParcel = 1
    TimeLen = 1
    Noise <- NoNoise
    Sentences <- NoSentence
    Merged <- NoMerged
    MaxDue = 1
    MaxFaults = 2
PROPERTIES
    DeadReplaced
    ReportsAgain
