SPECIFICATION MCSpec
CONSTANTS
  FileSystems = {"ntfs", "fat", "exfat", "ext4", "hfs", "apfs", "disk", "bitmap"}
  MaxSteps = 40
  MaxDepth = 3
  SweepRead = 8
  RecordSize = 2
  Block = 5
  ListCap = 2
  PerCluster = 3
  MaxNest = 2
  MaxChain = 3
  Direct = 2
  MaxTree = 2
  MaxPops = 6
  MaxLogical = 4
  MergeGap = 1
INVARIANTS
  ValidatedIsRight
  NothingOverwritten
  ReportedOnce
  FoundInPlace
  PartitionsFound
  VolumeTaken
  FreeIsCarved
  RangesAreApart
  UndeleteEnds
