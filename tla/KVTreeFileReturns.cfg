SPECIFICATION FairSpec
CONSTANTS
  Proc = {p1, p2}
  Key = {k1, k2}
  PersistSize <- MCPersistSize
  Torn = Torn
  Ops = {"read_file", "write_file", "read_with_lock", "write_with_lock", "rmw"}
  Retries = 2
  MaxCalls = 1
  MaxCrashes = 1
  IOErrors = TRUE
  LockMayFail = TRUE
PROPERTIES
  CallsReturn
