CONSTANTS
    Programs <- MCAllPrograms
    AccessTypes = {"READ", "WRITE"}
    NumFixed = 1
    GarbageTasks <- OnlyNull
SPECIFICATION Spec
INVARIANTS TypeOK NoFalseRace NoMissedRace Covered WellFormedHistory
PROPERTIES ImplementsOracle
CHECK_DEADLOCK FALSE
