SPECIFICATION FairSpec
CONSTANTS
    Width = 84
    Paths = {0, 1, 2}
    Sectors = {5}
    Contents <- MCContents
    Uploads = {1}
    InitialFs <- MCInitialFs
    Crc <- MCCrc
    Chunk = 2
    MaxRequests = 2
INVARIANTS
    RequestTrue
PROPERTIES
    RequestEnds
    ImplementsStore
CHECK_DEADLOCK FALSE
