SPECIFICATION Spec
CONSTANTS
    Threads = {t1, t2}
    DataMod = 3
    Arch = "arm"
INVARIANTS
    MutualExclusion
