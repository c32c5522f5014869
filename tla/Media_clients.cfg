SPECIFICATION MCSpec
CONSTANTS
  Container = "whole"
  Sources <- MCSources
  CacheSize = 2
  Key = 10
  Views <- MCViews
  Jobs <- MCJobs
  Block = 2
  MaxBlocks = 2
  Step = 2
  Queries <- MCQueries
  Chunk = 2
  Overlap = 2
INVARIANTS
  WindowAnswers
  GrepFinds
PROPERTIES
  ReadsMedia
  CallsReturn
CHECK_DEADLOCK FALSE
