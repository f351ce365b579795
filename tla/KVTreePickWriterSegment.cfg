SPECIFICATION Spec
CONSTANTS
  N = 5
  SegSize = 2
  Counts <- AlignedCounts
  Bufferings = {TRUE}
INVARIANTS
  SegmentBounded
