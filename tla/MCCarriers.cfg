SPECIFICATION ThreeSpec
CONSTANTS
    Scenes <- TheScenes
    Cap = 3
    Buf = 3
    Unbff = 4
    Delim <- MCDelim
    Text <- FileText
    KeyBytes = 2
    Direct = 1
    Medium = 2
    MediumBytes = 1
    LongBytes = 2
    Width = 8
    Number <- HexNumber
    Digits <- HexDigits
    MaxChunks = 2
    MaxCalls = 2
    Captures = {FALSE}
    Peers = {p1, p2}
    Remote = p1
    Nobody = Nobody
    MaxSent = 1
    MaxHeard = 2
    Buffer = 1
    Room = 1
INVARIANTS
    StreamsIntact ToldOnce Attributed
PROPERTIES
    AllDone
CHECK_DEADLOCK FALSE
