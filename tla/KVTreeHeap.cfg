SPECIFICATION Spec
CONSTANTS
  Addr = {a1, a2, a3, a4}
  NULL = NULL
  NoMem = NoMem
  MaxRoots = 3
  Key <- SmallKeys
  StrRank <- SmallStrRank
  IntWidth = 8
VIEW HeapView
SYMMETRY AddrSymmetry
INVARIANTS
  TypeOK
  UniqueKeys
  SingleOwner
  NoLeak
  TypedGets
PROPERTIES
  ForestSpec
