CONSTANTS
  Nobody = Nobody
  Workers = {w1, w2}
  NumRanges = 2
  Hits <- OneHitEach
  MaxCarve = 2
  Limit = 2
  Unreadable <- FirstUnreadable
  WritesFail = TRUE
SPECIFICATION FairSpec
INVARIANTS WholeFilesCollected
PROPERTIES ScanEnds
CHECK_DEADLOCK FALSE
