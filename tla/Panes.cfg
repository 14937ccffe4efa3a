SPECIFICATION Spec
CONSTANTS
    t1 = t1
    t2 = t2
    left = left
    right = right
    NoThread = NoThread
    Surface = Surface
    Threads <- TwoThreads
    Panes <- OnePane
    MaxSeq = 5
    InitSeq = 1
    RowSeqs <- GapAtFour
    Window = 3
    CacheRows = 2
    KeepTail = 2
    CacheThreads = 1
    Resumes = TRUE
    Events = FALSE
    DiskOn = TRUE
    MayFail = TRUE
    MayReadOlder = TRUE
    MaxClears = 0
INVARIANTS LoadedShowsSelected NotStranded NoHole
PROPERTIES KeepsNewest
SYMMETRY Symmetric
