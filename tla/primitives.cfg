SPECIFICATION MCSpec
CONSTANTS
    Readers = {r1, r2}
    Writers = {writer}
    Traversers = {t1, t2}
    Num = 2
    MaxStarts = 3
    TASKINFO_MAX = 0
    Controls = {"join", "cancel", "destroy"}
INVARIANTS TypeOK OnlyStragglersBreak SlotNotStolen InfosConserved
PROPERTY FreedStaysFreed
