SPECIFICATION FairSpec
CONSTANTS
    Num = 1
    MaxStarts = 2
    TASKINFO_MAX = 0
    Controls = {"join", "detach", "kill", "suspend", "resume", "cancel", "destroy"}
INVARIANTS ExitStateKept CancelWasAsked
PROPERTY CancelEnds
CHECK_DEADLOCK FALSE
