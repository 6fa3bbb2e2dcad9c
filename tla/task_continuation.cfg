CONSTANTS
    Threads = {t0, t1}
    MainThread = t0
    MaxTasks = 4
    TaskIds = {1, 2, 3, 4}
    MaxNodes = 40
    PopsOpenFinish = FALSE
    Styles = {"continuation"}
SPECIFICATION Spec
INVARIANTS ParallelExact
