SPECIFICATION MCSpec
CONSTANTS
  Container = "broken_split"
  Sources <- MCSources
  CacheSize = 2
  Key = 10
  Views <- MCViews
  Jobs <- MCJobs
  Block = 2
  MaxBlocks = 2
  Step = 2
  Queries <- MCQueries
  Chunk = 2
  Overlap = 2
PROPERTY ReadsMedia
CHECK_DEADLOCK FALSE
