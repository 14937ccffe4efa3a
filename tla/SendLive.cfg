SPECIFICATION FairSpec
CONSTANTS
    N = 4
    K = 2
    SessionOf <- TwoThreads4
    Files <- NoMsgs
    Streaming = FALSE
    Silence = FALSE
    Shared <- Thread2
    Preflight = TRUE
    TornWrites = FALSE
    Closable <- NoThreads
    Editable <- NoMsgs
    Reachable <- Thread2
    MaxCrashes = 0
    MaxRetries = 0
    MaxCopies = 3
PROPERTIES QueueDrains NoStarvation QueueInOrder
