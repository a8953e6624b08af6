SPECIFICATION FairSpec
CONSTANTS
    t1 = t1
    t2 = t2
    t3 = t3
    Threads <- MCThreads
    Levels = {0, 1}
    Orig <- MCOrig
INVARIANTS
    OwnerHolds
    NoGhostBits
    MaskFollowsPrio
PROPERTIES
    SomeoneEnters
