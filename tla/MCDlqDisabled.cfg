CONSTANTS
    LogSize = 2
    Undecodable = {}
    BatchSize = 1
    DlqSave = FALSE
    BatchSaver = FALSE
    DlqRetries = 1
    MaxRestarts = 0
SPECIFICATION Spec
CHECK_DEADLOCK FALSE
INVARIANTS
    SkippedStaysUncommitted
