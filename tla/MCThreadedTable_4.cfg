CONSTANTS
  k1 = k1  k2 = k2  k3 = k3  k4 = k4
  Null = Null  Nil = Nil  Uninit = Uninit
  Keys = {k1, k2, k3}
  BuildSize = 2
  NumPartitions = 4
  HashSize = 8
  Hash <- MCHash4
  TagBits = {"b1", "b2"}
  Tag <- MCTag
  DirectorySizes = {4, 8}
  TuplesPerBlock = 2
  Base = 3
SPECIFICATION Spec
INVARIANTS DirectoryRaceFree CopiesDisjoint MergeExact
PROPERTY ImplementsIndex
