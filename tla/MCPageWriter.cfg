CONSTANTS
  PageSize = 20
  BitsPerByte = 2
  Null = Null
  Broken = Broken
  Strings = {100, 101, 102, 103, 104, 105}
  Length <- MCLength
  IntValues = {1}
  WideValues = {2}
  Kinds <- MCKinds
  MaxRows = 6
SPECIFICATION WriterSpec
INVARIANTS PagesFit RoundTrip
