CONSTANTS
    Programs <- SmallPrograms
    AccessTypes = {"READ", "WRITE"}
    NumFixed = 1
    GarbageTasks <- AnyTask
SPECIFICATION Spec
INVARIANTS NoFalseRace
CHECK_DEADLOCK FALSE
