SPECIFICATION FairSpec
CONSTANTS
    Paths <- MCPaths
    Long <- MCLong
    Bodies <- MCBodies
    Cards <- MCCards
    MaxRequests = 2
INVARIANTS  SourceKept OverwriteRespected
 
CHECK_DEADLOCK FALSE
