SPECIFICATION MCSpec
CONSTANTS
    a1 = a1
    a2 = a2
    a3 = a3
    m = m
    f = f
    NULL = NULL
    Threads = {x1, x2}
    Addr = {a1, a2, a3}
    Ref = {y1, y2, y3}
    Private = {y3}
    Node = {0, 1, 2}
    Path <- MCPath
    CharMax = 3
    Nodes = {m, f}
    File = {f}
    Packets = {x1, x2}
    Writers = {y1, y2}
    Restarts = TRUE
SYMMETRY Symmetry
INVARIANTS HeldUsable NothingLeaks ReadsRight SlotForEach CountsRight
