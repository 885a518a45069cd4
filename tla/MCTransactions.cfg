CONSTANTS
    Callers = {c1, c2}
    PoolSize = 2
    DedicatedReadOnly = TRUE
    AccessModes = {"read only"}
    IsoLevels = {"serializable"}
    ScrapeQueries = 2
    MaxDepth = 2
    MaxTx = 2
    MaxWrites = 1
SPECIFICATION CrowdSpec
CHECK_DEADLOCK FALSE
INVARIANTS
  ExecuteSettlesEverything
PROPERTIES
  EverybodyReturns
