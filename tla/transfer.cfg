SPECIFICATION MCSpec
CONSTANTS
    UNIT_LENGTH = 3
    Units = 2
    MaxSent = 29
    MaxEvents = 2
    Backlog = 1
    NULL = NULL
INVARIANTS TypesOK DecodeSound Delivered RedundancyRight SpeedKept
PROPERTIES FewRestored RefusedWhenFast
CHECK_DEADLOCK FALSE
