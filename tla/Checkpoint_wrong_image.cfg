CONSTANTS
  Worlds <- TwoImages
  Jobs = 1
  MaxRuns = 3
SPECIFICATION Spec
INVARIANT SkippedWasScanned
CHECK_DEADLOCK FALSE
