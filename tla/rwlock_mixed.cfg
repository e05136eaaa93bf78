SPECIFICATION FairSpec
CONSTANTS
    t1 = t1
    t2 = t2
    t3 = t3
    t4 = t4
    t5 = t5
    t6 = t6
    USHORT = 65536
    Readers = {t1, t2, t3}
    Writers = {t4, t5, t6}
    Traversers = {}
INVARIANTS MutualExclusion CountsExact StuckOnlyByOverlap
PROPERTY SomeoneEnters
CHECK_DEADLOCK FALSE
