CONSTANTS
  Inputs <- SmallInputs
  SerialInputs <- SkippingInputs
  Digests = {s, t}
  Dedup = TRUE
  DryRun = FALSE
SPECIFICATION Spec
INVARIANTS KeepsTheUncontained DroppedIsInKept FilesAreRecorded OriginIsKept
CHECK_DEADLOCK FALSE
