SPECIFICATION ToolsSpec
CONSTANTS
    Procs = {w1}
    Writers = {w1}
    Vals = {va, vb}
    NoVal = NoVal
    Lens = {1, 2}
    ENTRIES_PER_PAGE = 2
    MAX_DIR_PAGES = 2
    MaxAddr = 6
    MayCrash = TRUE
    ClosesRefused = {}
    RestoresFlagged = FALSE
SYMMETRY Contents
INVARIANT TypeOK
INVARIANT WriterConsistent
INVARIANT OpenableIsConsistent
INVARIANT CheckedIsDiagnosed
PROPERTY RestoresOriginal
PROPERTY ImplementsStore
