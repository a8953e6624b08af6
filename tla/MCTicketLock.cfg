SPECIFICATION FairSpec
CONSTANTS
    Threads = {t1, t2, t3}
    Width = 4
    Addends = {1}
INVARIANTS
    MutualExclusion
PROPERTIES
    RefusedOnlyIfTaken
    ImplementsFifoLock
    EveryoneServed
