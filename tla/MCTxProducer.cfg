CONSTANTS
  Parts = {"tx"}
  Batchers = {a, b}
  Drivers = {d}
  MaxCalls = 3
  MaxBatch = 2
  Nobody = Nobody
  Senders = {s1, s2}
  Pipe = 2
  ReturnErrors = TRUE
  ReturnSuccesses = TRUE
  Topic = main
  OwnTopics = {none, other}
  NoTopic = none
SPECIFICATION TxSpec
INVARIANTS
  BatchesAreTransactions
PROPERTIES
  EveryCallReturns
CHECK_DEADLOCK FALSE
