CONSTANTS
  PageSize = 48
  BitsPerByte = 1
  Null = Null
  Broken = Broken
  Strings = {}
  Length <- MCLength
  IntValues = {}
  WideValues = {2}
  Kinds <- MCWideKinds
  MaxRows = 9
SPECIFICATION WriterSpec
INVARIANT PagesFit
