SPECIFICATION FairSpec
CONSTANTS
    MaxChunks = 1
    MaxCalls = 0
    Captures = {TRUE}
PROPERTIES EndIsClosed
CHECK_DEADLOCK FALSE
