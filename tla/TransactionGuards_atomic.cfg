SPECIFICATION Spec
CONSTANTS
    Names = {"a", "b"}
    MaxGuards = 3
    MaxSavepoints = 3
    MaxWrites = 2
INVARIANTS
    OnlyRollbackLeavesOpen
PROPERTIES
    UncommittedLeavesNoTrace
    SavepointTakesBack
CHECK_DEADLOCK FALSE
