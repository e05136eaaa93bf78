SPECIFICATION Spec
CONSTANTS
    k1 = k1
    k2 = k2
    k3 = k3
    k4 = k4
    k5 = k5
    k6 = k6
    v1 = v1
    v2 = v2
    NULL = NULL
    Node = {k1, k2, k3, k4, k5}
    Value = {v1}
    Max = 8
    Hash <- Mixed
    Deletes = FALSE
INVARIANT KeysFound
