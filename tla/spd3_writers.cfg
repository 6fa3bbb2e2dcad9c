CONSTANTS
    Programs <- NoLockPrograms
    AccessTypes = {"READ", "WRITE"}
SPECIFICATION Spec
INVARIANTS NoFalseRace NoMissedWriteRace
CHECK_DEADLOCK FALSE
