SPECIFICATION Spec
CONSTANTS
  SegSize = 5
  EntrySize = 2
  Jobs = {2, 3}
  Inputs <- MCInputs
  PerFile = {2}
  Ops = {"write_gather", "read_scatter_single"}
  MaxCalls = 3
  MaxCrashes = 1
  MaxErrors = 0
INVARIANTS
  SingleIsComplete
