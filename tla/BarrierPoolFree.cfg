SPECIFICATION FairSpec
CONSTANTS
    Threads = {t1, t2}
    Groups = {2}
    SeqMod = 3
    MaxCalls = 1
    MaxCnt = 3
PROPERTIES
    DestroyerReturns
CHECK_DEADLOCK FALSE
