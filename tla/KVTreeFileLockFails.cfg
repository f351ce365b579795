SPECIFICATION Spec
CONSTANTS
  Proc = {p1, p2}
  Key = {k1, k2}
  PersistSize <- MCPersistSize
  Torn = Torn
  Ops = {"read_with_lock", "write_with_lock", "rmw"}
  Retries = 2
  MaxCalls = 1
  MaxCrashes = 0
  IOErrors = FALSE
  LockMayFail = TRUE
SYMMETRY MCSymmetry
INVARIANTS
  OpenWithLockGivesFile
