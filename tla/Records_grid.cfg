SPECIFICATION RecordsSpec
CONSTANTS
    pa = pa
    pb = pb
    MAX_requetes = 2
    MAX_Nlist = 5
    IpItems = {"ip1"}
    NameItems = {"nomvars"}
    SupplItems = {"ig2", "ig4", "grtyp"}
    Ask <- MCAskGrid
    Level <- MCLevel
    Translatable = {pa}
    Begins <- MCBegins
    ANY = ANY
    Candidates <- MCCandidates
    Unused = Unused
    BadDates = FALSE
    ea = ea
    eb = eb
    NewBlocks <- MCNewBlocks
    NewValues <- MCNewValues
    Families <- MCFamilies
    Types <- MCTypes
    GROSNELE = 6
    GROSDIM = 8
    CODE7 = CODE7
    NoElement = NoElement
    NoReport = NoReport
    MaxBlocks = 4
    ka = ka
    va = va
    FKeys = {ka}
    FVals = {va}
    FRequests <- MCFRequests
    FRewrites <- MCFRewrites
    RemapTable <- MCRemap
    MissingOn = TRUE
    FMaxWritten = 1
    FMaxRecords = 2
    GARBLED = GARBLED
    MvWidth <- MCMvWidth
    MvValues <- MCMvValues
    MvMark <- MCMvMark
    MvMarks <- MCMvMarks
    MvLength = 3
    MvInEnv = TRUE
    la = la
    lb = lb
    na = na
    nb = nb
    BLANK = BLANK
    FirstRecords <- MCFirst
    NewRecords <- MCNewRecords
    Searches <- MCSearches
    Edits <- MCEdits
    Masks <- MCMasks
    IpLevels = {"p850", "p500", "h6"}
    NewCode <- MCNewCode
    OldCode <- MCOldCode
    LevelOf <- MCLevelOf
    TableLevels <- MCTableLevels
    MaxIpvals = 2
    MaxChanges = 1
    MaxEntries = 4
    Nmax = 2
    Starts <- MCStarts
    Increments <- MCIncrements
    Commands <- MCCommands
    Environment = {"none", "365_day"}
    MaxSteps = 2
    Fields16 <- MCFields16
    Fields32 <- MCFields32
    Levels <- MCLevels
    Container = 2
    Container32 = 3
    WordBits = 8
    MinDim = 4
    FewBits = 1
    Step = 2
    MinStep = 3
    MantBits = 3
    ExpBits = 3
    SeqLen = 2
    CountBits = 3
    LongRun = 9
    W = 4
    Words = 4
    Arrays <- MCArrays
    Sizes <- MCSizes
    Auto <- MCAuto
    Offsets = {0, 3, 6, 8}
    Strides = {1, 2}
    Filling = 10
    MaxPacked = 2
    Singles <- MCSingles
    Layers <- MCLayers
    Durations <- MCDurations
    Extras <- MCExtras
    Points <- MCPoints
    MantissaBits = 3
    TokenBits = 3
    FloatFields <- MCFloats
    TokenSizes = {2, 3}
    MaxPasses = 1
    Grids <- MCGrids
    Corner <- MCCorner
    EzDefs <- MCEzDefs
    EzHow <- MCEzHow
    EzKey <- MCEzKey
    EzParts <- MCEzParts
    EzOnFile = {"fu", "zf"}
    EzHash <- MCEzHash
    EzHashes = {0, 1, 2}
    EzPrimes <- MCEzPrimes
    EzMaxGrids = 9
    EzPoints <- MCEzPoints
    EzWhere <- MCEzWhere
    EzExtension <- MCEzExtension
    EzSpans <- MCEzSpans
    EzPrograms <- MCEzPrograms
INVARIANT FilterMeansRequests
CHECK_DEADLOCK FALSE
