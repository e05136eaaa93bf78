SPECIFICATION Spec
CONSTANTS
    k1 = k1
    k2 = k2
    k3 = k3
    k4 = k4
    k5 = k5
    k6 = k6
    v1 = v1
    v2 = v2
    NULL = NULL
    Node = {k1, k2, k3, k4, k5, k6}
    Value = {v1, v2}
    Max = 8
    Hash <- Mixed
    Deletes = TRUE
SYMMETRY Symmetry
INVARIANTS TypeOK LookupFinds IndexFindsKey LinkedOnce
