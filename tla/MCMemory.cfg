SPECIFICATION MemorySpec
\* Nodes are used up by free(), and pages by blocks that are kept.
CHECK_DEADLOCK FALSE
SYMMETRY Alike
CONSTANTS
    Nodes = {n1, n2, n3, n4, n5}
    Nil = Nil
    SwapNeighbours = FALSE
    Threads = {t1, t2}
    Handles = {h1, h2, h3}
    Held = {c1, c2}
    Lengths = {2}
    Windows <- Slices
    Heap = 8
    Align = 1
    Sizes = {1, 4}
    Pages = {p1, p2}
    Batch = 1
    Places = {p1, p2}
    MaxMade = 4
    MaxFrames = 3
    Names = {t1, t2}
    Inodes = {h1, h2, h3}
    Jobs = {c1, c2}
    Length = 2
INVARIANTS HandlesExact StoredExact
PROPERTIES ImplementsList
