SPECIFICATION Spec
CONSTANTS
  N = 3
  Inputs <- AllInputs
  Modes = {"exchange", "left", "right", "send", "bcast"}
  Buffered = TRUE
INVARIANTS
  TypeOK
  SizesAndTreesMatch
  NothingStranded
  BruckDistance
  ItemsConserved
  Delivered
