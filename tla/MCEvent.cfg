SPECIFICATION TwoSpec
CONSTANTS
    On = {l1, l2}
    Once = {o1}
    Add = {m1}
    Slots = {a1, a2, a3}
    Nil = Nil
    Disciplined = TRUE
    Fields = {f1, f2}
    Values = {v1, v2}
    Ons = {w1, w2}
    Adds = {w3}
INVARIANTS LeaveExactly WalkAlive OncePerEmission InStep
PROPERTIES EmissionEnds
