CONSTANTS
    Threads = {t0, t1}
    MainThread = t0
    MaxTasks = 4
    TaskIds = {1, 2, 3, 4}
    MaxNodes = 40
    PopsOpenFinish = FALSE
    Styles = {}
SPECIFICATION EitherSpec
INVARIANTS TypeOK ParallelExact MapMatchesScheduler OwnNodeOnTop StacksDrain WaitLeavesNode StrandsInOrder
PROPERTIES CapturedIsExecuted
