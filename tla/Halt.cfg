SPECIFICATION FairSpec
CONSTANTS
    t1 = t1
    t2 = t2
    NoThread = NoThread
    NoIntent = NoIntent
    Unseen = Unseen
    Threads <- TwoThreads
    PaneCount = 1
    MaxRaises <- TwiceAndOnce
    Raised <- AnyAndHalt
    MaxOthers = 1
    OthersMake <- ContainsFirst
    MayFail = TRUE
    GuardedMenus = FALSE
INVARIANTS OneWrite QueuedHasReason GateIsShown
PROPERTIES KeepsPromise GateIsWatched WritesComeBack
