SPECIFICATION FairDebugSpec
CONSTANTS
    Size = 16
    LogLens = {3}
    RequestLen = 5
    MaxMsgs = 5
    MaxEvents = 1
INVARIANTS LinkSound AnswerFresh
 
CHECK_DEADLOCK FALSE
