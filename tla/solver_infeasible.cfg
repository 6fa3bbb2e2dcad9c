CONSTANTS
    Threads = {0, 1}
    Programs <- MCPrograms
SPECIFICATION SolverSpec
INVARIANTS SatIsRight
