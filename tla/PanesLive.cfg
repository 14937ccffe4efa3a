SPECIFICATION FairSpec
CONSTANTS
    t1 = t1
    t2 = t2
    left = left
    right = right
    NoThread = NoThread
    Surface = Surface
    Threads <- OneThread
    Panes <- OnePane
    MaxSeq = 4
    InitSeq = 1
    RowSeqs <- AllFour
    Window = 2
    CacheRows = 1
    KeepTail = 2
    CacheThreads = 1
    Resumes = FALSE
    Events = TRUE
    DiskOn = TRUE
    MayFail = TRUE
    MayReadOlder = FALSE
    MaxClears = 1
PROPERTY HeardIsShown
