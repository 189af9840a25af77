SPECIFICATION FairSpec
CONSTANTS
    Width = 8
    Rom = {3}
    LowRam = {0, 1, 2, 3}
    HighRam = {4, 5, 6, 7}
    Area <- MCArea
    ExecBuffer = 0
    VersionAddr = 5
    VersionData <- MCVersionData
    PowerUpMem <- MCPowerUpMem
    Crc <- MCCrc
    Files <- MCFiles
    Uploads = {2, 3}
    Addresses = {1}
    Sizes = {0, 5}
    FifoCap = 4
    MaxSessions = 2
PROPERTIES
    SessionEnds
    InterruptStops
CHECK_DEADLOCK FALSE
