CONSTANTS
    Threads = {0, 1}
    Programs <- MCPrograms
SPECIFICATION SolverSpec
INVARIANTS TypeOK OwnTrace CheckNamesItsLoad NoVerdictOnPartialTrace UnsatIsRight
