SPECIFICATION Spec
CONSTANTS
    Procs = {w1, r1}
    Writers = {w1}
    Vals = {va}
    NoVal = NoVal
    Lens = {1}
    ENTRIES_PER_PAGE = 1
    MAX_DIR_PAGES = 2
    MaxAddr = 6
    MayCrash = TRUE
    ClosesRefused = {}
    RestoresFlagged = FALSE
INVARIANT ChainComplete
