SPECIFICATION MCSpec
CONSTANTS
    c1 = c1
    c2 = c2
    c3 = c3
    Clients = {c1, c2, c3}
    Scenes <- AllScenes
    MaxBatch = 1
    Calls = {k1, k2}
    Methods = {"GET", "HEAD"}
INVARIANTS SlotsExact GreetedOnce
CHECK_DEADLOCK FALSE
PROPERTIES AllAnswered
