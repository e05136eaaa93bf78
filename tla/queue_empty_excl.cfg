SPECIFICATION EmptySpec
CONSTANTS
    p1 = p1
    p2 = p2
    g1 = g1
    g2 = g2
    e1 = e1
    v1 = v1
    v2 = v2
    NULL = NULL
    Putters = {p1}
    Getters = {g1}
    Emptiers = {e1}
    Killable = {}
    Values = {v1}
    max = 1
    Bound = 2
INVARIANT Exclusive
