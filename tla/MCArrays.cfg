SPECIFICATION Spec
CONSTANTS
  MinChunk = 24
  Granule = 16
  Sizes = {0, 1, 5, 24}
  MaxLen = 28
  MaxCuts = 1
INVARIANTS InBounds CapGranted ReadBack
CHECK_DEADLOCK FALSE
