SPECIFICATION FairSpec
CONSTANTS
    Kinds = {"v1", "v2", "hc", "mmc"}
    LastBlock = 2
    BlockSize = 2
    New = 9
    MaxTries = 2
    MaxCount = 2
    MaxFaults = 1
    MaxSwaps = 1
INVARIANTS RightBlock DriverSound
PROPERTIES  CallReturns
