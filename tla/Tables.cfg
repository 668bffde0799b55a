SPECIFICATION TablesSpec
CONSTANTS
    f1 = f1
    f2 = f2
    f3 = f3
    LFiles = {f1, f2, f3}
    Searched = {f1}
    Lists <- MCLists
    LEntries = 1
    LMaxPages <- MCLMaxPages
    NULLPAGE = NULLPAGE
    FREED = FREED
    PutsLinked = FALSE
    ka = ka
    kb = kb
    kc = kc
    va = va
    vb = vb
    WbNames = {ka, kb, kc}
    WbPuts <- MCWbPuts
    WbPrefixes <- MCWbPrefixes
    WbFiles <- MCWbFiles
    WbLines <- MCWbLines
    WbMaxLines = 2
    WbInitFirst = TRUE
    NOENTRY = NOENTRY
    NOCKPT = NOCKPT
    na = na
    nb = nb
    nc = nc
    i4 = i4
    r4 = r4
    GNames = {na, nb, nc}
    GVals = {va}
    GKept = {nb}
    GKind <- MCGKind
    GKinds <- MCGKinds
    GCycles <- MCGCycles
    GRenames <- MCGRenames
    GZERO = GZERO
    GTEMP = GTEMP
    GDELETED = GDELETED
    NULLARRAY = NULLARRAY
    NOFIELD = NOFIELD
    GMaxEntries = 3
    GWholeCycles = TRUE
    wa = wa
    wb = wb
    Script <- MCScript
    Tries = 1
INVARIANT LinkedSearchFindsNext
INVARIANT HandleStaysWithRecord
INVARIANT FollowsNoFreedPage
INVARIANT PagesFit
INVARIANT InStep
INVARIANT MgiDelivers
PROPERTY ImplementsMap
PROPERTY ImplementsFields
PROPERTY EveryCallReturns
CHECK_DEADLOCK FALSE
