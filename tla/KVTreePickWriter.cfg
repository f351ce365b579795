SPECIFICATION FairSpec
CONSTANTS
  N = 5
  SegSize = 3
  Counts <- MixedCounts
  Bufferings = {TRUE, FALSE}
INVARIANTS
  TypeOK
  ScanWindow
  WritersAgree
  NoMessageLeft
PROPERTIES
  Returns
