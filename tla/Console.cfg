SPECIFICATION FairSpec
CONSTANTS
    Inputs <- MCInputs
INVARIANTS
    TypeOK
    LinesConserved
    LinesForwarded
    EndsForAReason
PROPERTIES
    ExitsCleanly
    LinesAreSent
CHECK_DEADLOCK FALSE
