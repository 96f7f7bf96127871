CONSTANTS
  k1 = k1  k2 = k2  k3 = k3
  NullKey = NullKey  Nil = Nil  Zeroed = Zeroed
  BuildSize = 4
  JoinKeys = {k1, k2, k3}
  HashSize = 8
  Hash <- MCHash
  TagBits = {1, 2, 3}
  Tag <- MCTag
  DirectorySizes = {2, 4, 8}
  Base = 10
SPECIFICATION BuildSpec
INVARIANTS BuildTypeOK PlacementExact
PROPERTY ImplementsIndex
