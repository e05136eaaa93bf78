SPECIFICATION Spec
CONSTANTS
    n1 = n1
    n2 = n2
    n3 = n3
    n4 = n4
    r1 = r1
    r2 = r2
    NULL = NULL
    Node = {n1, n2, n3}
    Readers = {r1}
    Num <- Indexes
    HeadPops = TRUE
    EachOps = {}
INVARIANT FastNodeExact
