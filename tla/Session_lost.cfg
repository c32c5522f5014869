CONSTANTS
  None = None
  Images <- OneImage
  Ranges <- TwoRanges
  Carves <- OneImageCarves
  Holds <- HoldsInRange
  Content <- ContentInRange
  MayStop = FALSE
  MayDie = TRUE
  MayFail = FALSE
  FreshStarts = FALSE
  StaleResume = FALSE
  MaxRuns = 3
SPECIFICATION Spec
INVARIANT WholeImageListed
CHECK_DEADLOCK FALSE
