SPECIFICATION Spec
CONSTANTS
    N = 1
    K = 1
    SessionOf <- OneThread1
    Files <- NoMsgs
    Streaming = TRUE
    Silence = TRUE
    Shared <- NoThreads
    Preflight = FALSE
    TornWrites = FALSE
    Closable <- NoThreads
    Editable <- NoMsgs
    Reachable <- NoThreads
    MaxCrashes = 0
    MaxRetries = 0
    MaxCopies = 3
PROPERTIES KeptUntilSettled
