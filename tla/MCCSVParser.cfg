CONSTANTS
  Comma = Comma  LF = LF  CR = CR  Quote = Quote  Backslash = Backslash
  Digits = {1}
  Letters = {a}
  Null = Null
  Types <- MCTypes
  Files <- MCFiles
  Tables <- MCTables
SPECIFICATION ParserSpec
INVARIANTS ChunksDoNotMatter RecordsReadBack
