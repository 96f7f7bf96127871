CONSTANTS
  k1 = k1  k2 = k2
  Null = Null  Blank = Blank
  Keys = {k1, k2}
  BuildKey <- MCBuildKey
  Entries <- MCEntries
  ProbeSize = 5
  FromLeft <- MCFromLeft
  Settings <- MCSettings
  DefaultThreads = 2
  SmallBuild = 4
  ThreadedMinBuild = 4
  ChunkRows = 2
  ValuesPerPage = 2
SPECIFICATION FairSpec
INVARIANTS TypeOK WritesDisjoint ClaimsExact
PROPERTIES ImplementsJoin EventuallyJoined
