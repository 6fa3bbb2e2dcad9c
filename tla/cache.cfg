CONSTANTS
    Threads = {t0, t1}
    Trees <- MCTrees
    TableSize = 4
    MaxCalls = 3
SYMMETRY ThreadSymmetry
SPECIFICATION Spec
CHECK_DEADLOCK FALSE
INVARIANTS TransparentApart
