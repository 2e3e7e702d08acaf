SPECIFICATION Spec
CHECK_DEADLOCK FALSE
CONSTANTS
    inner = inner
    outer = outer
    Fds = {inner, outer}
    Nil = Nil
    Bell = Bell
    Out <- AToB
    Kinds <- Relaying
    Addrs = {k1, k2, k3}
    MaxIn = 1
    MaxRoom = 1
    MaxEars = 1
    Reuse = FALSE
SYMMETRY Alike
INVARIANTS NoLostWakeup
PROPERTIES NoChunkAbandoned
