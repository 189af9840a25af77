SPECIFICATION Spec
CONSTANTS
    Root = 2
    RootSectors = 0
    Clusters = 8
    FatPer = 4
    SPC = 2
    SS = 2
    Slots = 1
    Cache = 2
    MaxTail = 4
    Base <- MCBase
    Paths <- MCPaths
    Datas <- MCDatas
    Reads <- MCReads
    Disks <- MCDisks
    Faults = {"write", "crash"}
    MaxAccess = 12
    MaxOps = 2
INVARIANTS OthersIntact SuccessTrue VolumeSound
CHECK_DEADLOCK FALSE
