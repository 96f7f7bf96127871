CONSTANTS
  PageSize = 20
  BitsPerByte = 2
  Null = Null
  Broken = Broken
  Strings = {100, 101}
  Length <- MCLength
  WideValues = {}
  Workers = 2
  Types <- MCTypes
  ColumnValues <- MCColumnValues
  Default <- MCDefault
  Likes <- MCLikes
  Statements <- MCStatements
  NoFilter = NoFilter
  MaxRows = 3
SPECIFICATION Spec
INVARIANTS VectorsMatchRecords ScanExact
