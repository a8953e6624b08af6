SPECIFICATION FairSpec
CONSTANTS
    Threads = {t1, t2, t3}
    Groups = {2, 3}
    SeqMod = 3
    MaxCalls = 2
    MaxCnt = 4
INVARIANTS
    NoEarlyLeave
    OneSerial
    OneOpener
PROPERTIES
    ReleasedReturn
    FullOpens
CHECK_DEADLOCK FALSE
