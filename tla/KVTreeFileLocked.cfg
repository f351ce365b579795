SPECIFICATION Spec
CONSTANTS
  Proc = {p1, p2}
  Key = {k1, k2}
  PersistSize <- MCPersistSize
  Torn = Torn
  Ops = {"read_with_lock", "write_with_lock", "rmw"}
  Retries = 2
  MaxCalls = 2
  MaxCrashes = 1
  IOErrors = FALSE
  LockMayFail = FALSE
SYMMETRY MCSymmetry
INVARIANTS
  TypeOK
  LockedReadIsAtomic
  LockedWriteIsStored
  WholeBetweenWriters
  LockedInv
PROPERTIES
  StoreSpec
