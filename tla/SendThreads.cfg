SPECIFICATION Spec
CONSTANTS
    N = 3
    K = 2
    SessionOf <- TwoThreads3
    Files <- Second
    Streaming = TRUE
    Silence = FALSE
    Shared <- NoThreads
    Preflight = FALSE
    TornWrites = TRUE
    Closable <- Thread1
    Editable <- Third
    Reachable <- NoThreads
    MaxCrashes = 1
    MaxRetries = 1
    MaxCopies = 3
INVARIANTS TypeOK OneOwner FileIsInStep InFlightIsReal UnkeyedOnce
PROPERTIES KeptUntilReported KeepsEveryWord
