CONSTANTS
  Batchers = {a, b}
  Drivers = {}
  MaxCalls = 1
  MaxBatch = 1
  Nobody = Nobody
SPECIFICATION Spec
INVARIANTS CountedIsDelivered
CHECK_DEADLOCK FALSE
