CONSTANTS
  Nobody = Nobody
  Workers = {w1, w2}
  NumRanges = 3
  Hits <- MCHits
  MaxCarve = 2
  Limit = 3
  Unreadable = {}
  WritesFail = FALSE
SPECIFICATION Spec
INVARIANTS TypeOK OneOwner CheckpointedIsScanned CheckpointedIsStreamed OvershootBounded NothingUnaccounted AllRangesUnlessStopped
PROPERTY KeepsLedger
SYMMETRY Symmetry
CHECK_DEADLOCK FALSE
