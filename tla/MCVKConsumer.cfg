CONSTANTS
  Members = {m1, m2}
  MaxMessages = 4
  MaxFaults = 3
  Poison = {1}
SPECIFICATION Spec
INVARIANTS
  PassesOverForAReason
PROPERTIES
  CommittedOnlyGrows
  NoneIsForgotten
CHECK_DEADLOCK FALSE
