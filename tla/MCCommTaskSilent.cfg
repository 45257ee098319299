SPECIFICATION FairSpec
CONSTANTS
    Fds <- TwoFds
    MaxParcel = 1
    TimeLen = 1
    Noise <- NoNoise
    Sentences <- NoSentence
    Merged <- NoMerged
    MaxDue = 1
    MaxFaults = 0
PROPERTIES
    ResponseDeadline
