SPECIFICATION FairSpec
CONSTANTS
    Threads = {t1, t2, t3}
    DataMod = 3
    Arch = "x86"
INVARIANTS
    MutualExclusion
    NoLostUpdate
PROPERTIES
    ImplementsLock
    SomeoneEnters
