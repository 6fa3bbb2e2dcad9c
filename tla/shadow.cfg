CONSTANTS
    Pthreads = {t0, t1}
    MainThread = t0
    Addrs = {0, 1, 2, 4}
    AccessTypes = {"READ", "WRITE"}
    PrimaryEntries = 2
    SecEntries = 2
    MaxCalls = 2
SPECIFICATION Spec
CHECK_DEADLOCK FALSE
INVARIANTS TypeOK OwnIndex MissedOnlyByOverlap ReportsConflicts
PROPERTIES CallsReturn
