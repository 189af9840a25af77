SPECIFICATION Spec
CONSTANTS
    Width = 8
    Rom = {3}
    LowRam = {0, 1, 2, 3}
    HighRam = {4, 5, 6, 7}
    Area <- MCArea
    ExecBuffer = 0
    VersionAddr = 5
    VersionData <- MCVersionData
    PowerUpMem <- MCPowerUpMem
    Crc <- MCCrc
    Files <- MCFiles
    Uploads = {2, 3, 4}
    Addresses = {1, 5}
    Sizes = {0, 2, 3}
    FifoCap = 4
    MaxSessions = 2
INVARIANTS
    TypeOK
    UploadTrue
    DownloadFaithful
PROPERTIES
    StartedAsAsked
    WritesInRange
CHECK_DEADLOCK FALSE
