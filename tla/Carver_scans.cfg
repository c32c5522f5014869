CONSTANTS
  Scans <- MCScans
  Size = 12
  ChunkSize = 5
  Overlap = 5
  SkipCarved = TRUE
  SkipBlank = TRUE
  Align = 1
  MinSize = 0
  Documents <- MCDocs
  Buffer = 16
  ManyFrames = 2
  MaxPages = 5
  Sanity = 60
  Unresolved = 1000
  ZipPartial = FALSE
  PlistBack = 1000
  Eofs = 3
  MiniCutoff = 600
SPECIFICATION MCSpec
INVARIANTS SameAsOnePass EveryHeaderTried EndsAreTrue
PROPERTIES WalksEnd
CHECK_DEADLOCK FALSE
