SPECIFICATION FilesSpec
CONSTANTS
    Procs = {w1}
    Writers = {w1}
    Vals = {va, vb}
    NoVal = NoVal
    Lens = {1, 2}
    ENTRIES_PER_PAGE = 2
    MAX_DIR_PAGES = 2
    MaxAddr = 7
    MaxPageno = 2
    MayCrash = FALSE
    ClosesRefused = {}
    RestoresFlagged = FALSE
    Units = {u1, u2}
    fa = fa
    Names = {fa, fb}
    NoName = NoName
    Words = {wa, wb}
    Junk = Junk
    PageSizes = {0, 4}
    PageNbs = {1, 2}
    WA_PAGE_LIMIT = 2
    MAXWAFILES = 2
    Adrs = {1, 3}
    Lengths = {4}
    MaxSize <- MCMaxSize
    FclosesOpen = FALSE
    SVals = {sa, sb}
    SDeleted = SDeleted
    SLens = {1}
    SLevels = {1}
    SMaxAddr = 13
    RewindsCreated = FALSE
    MB32 = 4
    MB128 = 16
    MB512 = 64
SYMMETRY FilesSymmetry
INVARIANT WriterReadsBack
INVARIANT ClosedIsSound
INVARIANT SearchFindsFirst
INVARIANT SurvivesWithOnePage
INVARIANT BuffersConserved
INVARIANT RefusedWhenFull
PROPERTY ImplementsWords
PROPERTY ImplementsTape
CHECK_DEADLOCK FALSE
