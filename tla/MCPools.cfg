SPECIFICATION PoolsSpec
CONSTANTS
    t1 = t1
    t2 = t2
    t3 = t3
    t4 = t4
    StkThreads = {t1, t2, t3}
    NSlots = 2
    NItems = 3
    NPops = 2
    HdrThreads = {t1, t2, t3}
    NHdrs = 4
    NBufs = 2
    NTry = 2
    NGets = 3
    SemThreads = {t1, t2, t3}
    SEM_MAXVAL = 2
    NCalls = 1
    NoOne = NoOne
    RecThreads = {t1, t2, t3}
    MaxDepth = 2
    RandThreads = {t1, t2}
    NSTATE = 2
    NRand = 4
    Nobody = Nobody
    ByteBits = 2
    BitThreads = {t1, t2, t3, t4}
    Places = {0, 1}
    Uses <- MCUses
    Calls <- MCCalls
    Rest <- MCRest
    Address = {4}
    CondThreads = {t1, t2, t3}
    CondCalls = 5
    SigMany = 2
    NanoSleep = TRUE
INVARIANTS
    PoolsTypeOK
    LinksSound
    OneInside
    GuardedHolds
PROPERTIES
    StkIsPool
    HdrIsPool
    PoolsProgress
\* The bounded calls run out, and a pop of an empty pool never returns.
CHECK_DEADLOCK FALSE
