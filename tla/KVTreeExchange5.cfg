SPECIFICATION FairSpec
CONSTANTS
  N = 5
  Inputs <- DenseOrSingle
  Modes = {"exchange", "left", "right"}
  Buffered = FALSE
INVARIANTS
  NothingStranded
  BruckDistance
  Delivered
PROPERTIES
  Terminates
