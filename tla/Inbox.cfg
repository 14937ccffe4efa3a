SPECIFICATION FairSpec
CONSTANTS
    s1 = s1
    s2 = s2
    t1 = t1
    t2 = t2
    NoTime = NoTime
    Ids <- OneSession
    Times <- OneTime
    ReadFailures <- OnlyUnreachable
    MaxWrites = 2
    MaxVersion = 3
    MaxClients = 2
INVARIANTS ReadYourWrites ShowsWhatServerHeld CurrentClientOnly PendingHasItsWrite
PROPERTIES AppliedInOrder Converges
