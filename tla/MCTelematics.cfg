SPECIFICATION FairSpec
CONSTANTS
    Fds <- OneFd
    MaxParcel = 1
    TimeLen = 1
    Sources = 1
    Room = 1
    MaxFaults = 1
PROPERTIES
    ImplementsBoth
    PackageSent
