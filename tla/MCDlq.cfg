CONSTANTS
    LogSize = 3
    Undecodable = {1}
    BatchSize = 2
    DlqSave = TRUE
    BatchSaver = TRUE
    DlqRetries = 2
    MaxRestarts = 1
SPECIFICATION SaverSpec
CHECK_DEADLOCK FALSE
INVARIANTS
    TypeOK
    NothingLost
    DLQRowsAreUnique
PROPERTIES
    EveryMessageIsCommitted
    StopsWhenAsked
