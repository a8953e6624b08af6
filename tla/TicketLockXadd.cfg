SPECIFICATION Spec
CONSTANTS
    Threads = {t1, t2}
    Width = 4
    Addends = {0, 1, 2, 3}
INVARIANTS
    MutualExclusion
