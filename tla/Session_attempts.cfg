CONSTANTS
  None = None
  Images <- OneImage
  Ranges <- TwoRanges
  Carves <- OneImageCarves
  Holds <- HoldsInRange
  Content <- ContentInRange
  MayStop = TRUE
  MayDie = TRUE
  MayFail = TRUE
  FreshStarts = FALSE
  StaleResume = FALSE
  MaxRuns = 3
SPECIFICATION Spec
INVARIANTS AccountedSomewhere ListedFilesExist DiskIsListed SameAsSinglePass
CHECK_DEADLOCK FALSE
