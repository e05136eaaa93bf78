SPECIFICATION MCSpec
CONSTANTS
    blocknum = 3
    NULL = NULL
INVARIANTS PublishedComplete NothingLost TypesOK ListRight DoneWhole ReachesUser
