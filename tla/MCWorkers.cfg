SPECIFICATION TwoSpec
CHECK_DEADLOCK FALSE
CONSTANTS
    Main = Main
    Ws = {w1, w2}
    Threads = {Main, w1, w2}
    Nil = Nil
    Frees = TRUE
    Limit = 3
    Values <- Pairs
    Batch <- TwoEach
    MaxTurns = 1
    MaxChunks = 2
INVARIANTS SelfAlive Conserved ChildTold
PROPERTIES EndsAreHeard
