SPECIFICATION FairSpec
CONSTANTS
    Options <- MCOptions
    Messages <- MCMessages
    Answers = {"+"}
    InitialChunk = 2
    Retries = 2
    MaxClients = 2
    MaxFails = 4
    MaxAnswers = 2
INVARIANTS SessionSound TraceChunkFree BytesInOrder
PROPERTY StopsOrBlocked
CHECK_DEADLOCK FALSE
