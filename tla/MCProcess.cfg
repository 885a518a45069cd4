CONSTANTS
    Requests = {r1, r2}
    ProxyEnabled = TRUE
    BatchSize = 2
    Served = 2
    Interceptors = {i1, i2}
    Lengths = {0, 1, 7, 8, 36, 64, 65, 72, 128, 129, 254, 255, 4096, 4097}
    Odd = 2
    CrowdMethods = {"Login"}
    CrowdLengths = {0, 8, 129}
    CrowdOdd = 1
    Stacks = {s1, s2}
    Full = 2
    Depths = {5, 6, 7}
    Skips = {0}
    Span = 65536
    EventLengths = {0, 63, 64}
    Times = {0, 1, 63, 64, 8191, 8192, 32767}
    SchemaIds = {1, 300}
SPECIFICATION ProcessSpec
CHECK_DEADLOCK FALSE
INVARIANTS
  AppIsOrderly
  ServicesCloseInOrder
  CallsAreAnswered
  RecordsAreReadable
  TracesAreOwn
PROPERTIES
  ShutdownIsNoticed
