SPECIFICATION Spec
CONSTANTS
    t1 = t1
    t2 = t2
    left = left
    right = right
    NoThread = NoThread
    Surface = Surface
    Threads <- TwoThreads
    Panes <- OnePane
    MaxSeq = 2
    InitSeq = 1
    RowSeqs <- First2
    Window = 2
    CacheRows = 1
    KeepTail = 2
    CacheThreads = 1
    Resumes = TRUE
    Events = FALSE
    DiskOn = TRUE
    MayFail = FALSE
    MayReadOlder = TRUE
    MaxClears = 0
INVARIANT OlderReachable
