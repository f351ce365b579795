SPECIFICATION Spec
CONSTANTS
  Proc = {p1, p2, p3}
  Key = {k1, k2}
  PersistSize <- MCPersistSize
  Torn = Torn
  Ops = {"read_file", "write_file", "rmw"}
  Retries = 1
  MaxCalls = 1
  MaxCrashes = 1
  IOErrors = FALSE
  LockMayFail = FALSE
SYMMETRY MCSymmetry
INVARIANTS
  ReadsOnlyWhatWasWritten
