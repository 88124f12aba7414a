CONSTANTS
  Files = {f1, f2}
  NoFile = NoFile
  Sfts = {s1}
  NoSft = NoSft
  MaxCluster = 3
  ClusterSectors = 1
  MaxOffset = 2
  SeekTo = {1}
  ReadCounts = {2}
  WriteCounts = {0, 2}
  Modes = {TRUE, FALSE}
  Faulty = TRUE
  LoseAgain = FALSE
  Tables <- MCTables
  Directories <- MCDirectories
SPECIFICATION FairSpec
INVARIANTS
  NotCrossLinked
  ChainsAllocated
PROPERTIES
  CallsEnd
