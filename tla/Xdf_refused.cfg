SPECIFICATION Spec
CONSTANTS
    Procs = {w1, w2}
    Writers = {w1, w2}
    Vals = {va}
    NoVal = NoVal
    Lens = {1}
    ENTRIES_PER_PAGE = 1
    MAX_DIR_PAGES = 1
    MaxAddr = 3
    MayCrash = FALSE
    ClosesRefused = {w2}
    RestoresFlagged = FALSE
PROPERTY FlagClearedByOwner
