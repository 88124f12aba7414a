CONSTANTS
  Files = {f1, f2}
  NoFile = NoFile
  Sfts = {s1, s2}
  NoSft = NoSft
  MaxCluster = 4
  ClusterSectors = 2
  MaxOffset = 3
  SeekTo = {1}
  ReadCounts = {}
  WriteCounts = {0, 2}
  Modes = {TRUE}
  Faulty = FALSE
  LoseAgain = FALSE
  Tables = {}
  Directories = {}
SYMMETRY MCSymmetry
SPECIFICATION Spec
INVARIANTS
  TypeOK
  NothingLost
  FreeCountExact
  SizeCovered
  CursorInChain
PROPERTIES
  OthersUntouched
