SPECIFICATION Spec
CONSTANTS
    p1 = p1
    p2 = p2
    g1 = g1
    g2 = g2
    e1 = e1
    v1 = v1
    v2 = v2
    NULL = NULL
    Putters = {p1, p2}
    Getters = {g1}
    Emptiers = {}
    Killable = {p1}
    Values = {v1, v2}
    max = 2
    Bound = 2
SYMMETRY Symmetry
INVARIANTS QueueInv LockNeverOrphaned
PROPERTY ImplementsFifo
