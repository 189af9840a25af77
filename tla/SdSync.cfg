SPECIFICATION Spec
CONSTANTS
    Rels <- MCRels
    Base <- MCBase
    Locals <- MCLocals
    Cards <- MCCards
    Contents <- MCContents
    MaxSyncs = 2
    MaxEdits = 2
INVARIANT SyncTrue
PROPERTIES LocalKept 
CHECK_DEADLOCK FALSE
