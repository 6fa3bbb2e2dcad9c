CONSTANTS
    Threads = {t0, t1}
    MainThread = t0
    Locks = {l1, l2, l3}
    Width = 2
    MaxTasks = 2
    MaxAccesses = 1
    Regions <- MCRegions
SYMMETRY LocksetSymmetry
SPECIFICATION Spec
INVARIANTS TypeOK MasksTellLocks NoRaceHidden NoLockInvented
