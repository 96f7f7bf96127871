CONSTANTS
  PageSize = 20
  BitsPerByte = 2
  Null = Null
  Broken = Broken
  Strings = {100, 101}
  WideValues = {}
  Length <- MCLength
  Types <- MCTypes
  ColumnValues <- MCColumnValues
  OutputAttrs <- MCOutputAttrs
  MaxRows = 5
SPECIFICATION CopySpec
INVARIANT ScanReadsBack
