SPECIFICATION Spec
CONSTANTS
    Paths <- MCPaths
    Long <- MCLong
    Bodies <- MCBodies
    Cards <- MCCards
    MaxRequests = 2
INVARIANT MoveKeepsFile
CHECK_DEADLOCK FALSE
