SPECIFICATION FairSpec
CHECK_DEADLOCK FALSE
CONSTANTS
    inner = inner
    outer = outer
    Fds = {inner}
    Nil = Nil
    Bell = Bell
    Out <- NoOut
    Kinds <- Readers
    Addrs = {k1, k2}
    MaxIn = 2
    MaxRoom = 1
    MaxEars = 2
    Reuse = FALSE
PROPERTIES Served
