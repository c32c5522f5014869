CONSTANTS
  Worlds <- AnyAttempts
  Jobs = 1
  MaxRuns = 3
SPECIFICATION Spec
INVARIANTS Canonical PlanIsExact FileTracksMemory FinishedIsWhole ResumedSkipsOwn
CHECK_DEADLOCK FALSE
