CONSTANTS
  Sessions = {s1, s2}
  Ids = {1, 2}
  Names = {"a", "b"}
  Vals = {0, 1}
  Keys = {1, 2}
  LockModes = {"", "update", "noKeyUpdate", "share", "keyShare", "bad"}
  Ops = {"read", "create", "change", "lock", "advisory"}
SPECIFICATION TopicSpec
INVARIANTS
  ReadsAreRight
  LocksProtect
PROPERTIES
  ErrorChangesNothing
SYMMETRY SessionSymmetry
CHECK_DEADLOCK FALSE
