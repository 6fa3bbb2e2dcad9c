CONSTANTS
    Threads = {t0, t1}
    MainThread = t0
    TaskIds = {1, 2}
    MaxNodes = 9
    PopsOpenFinish = FALSE
SPECIFICATION GraphSpec
INVARIANTS GraphTypeOK ParentsBefore SiblingsOrdered CurStepsAreSteps OpenNodesInternal QueriesWellFormed
PROPERTIES TreeGrows
CHECK_DEADLOCK FALSE
