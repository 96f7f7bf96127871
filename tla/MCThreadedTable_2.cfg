CONSTANTS
  k1 = k1  k2 = k2  k3 = k3  k4 = k4
  Null = Null  Nil = Nil  Uninit = Uninit
  Keys = {k1, k2, k3, k4}
  BuildSize = 4
  NumPartitions = 2
  HashSize = 8
  Hash <- MCHash2
  TagBits = {"b1", "b2"}
  Tag <- MCTag
  DirectorySizes = {2, 4}
  TuplesPerBlock = 1
  Base = 3
SPECIFICATION FairSpec
INVARIANTS TypeOK DirectoryRaceFree CopiesDisjoint MergeExact
PROPERTIES ImplementsIndex EventuallyBuilt
