CONSTANTS
  k1 = k1  k2 = k2
  Null = Null  Broken = Broken  Other = Other
  PageSize = 20
  BitsPerByte = 2
  WideValues = {}
  Strings <- MCStrings
  Length <- MCLength
  Keys = {k1, k2}
  BuildKey <- MCBuildKey
  Entries <- MCEntries
  ProbeSize = 3
  FromLeft <- MCFromLeft
  Cell <- MCCell
  DenseOut = {1}
  Settings <- MCSettings
  DefaultThreads = 2
  SmallBuild = 4
  ThreadedMinBuild = 4
  ChunkRows = 2
SPECIFICATION Spec
INVARIANTS TypeOK RowsAligned
PROPERTY ImplementsJoin
