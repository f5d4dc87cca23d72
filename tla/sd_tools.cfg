SPECIFICATION ToolsSpec
CONSTANTS
  Registers <- Cards
  BU16 = 128
  BU32 = 8192
  ERASE_SIZE = 1048576
  Width = 12
  EXP_LIMIT = 4
  MaxExponent = 6
  Programs <- SomePrograms
  Items <- SomeItems
  Pieces <- SomePieces
  MaxItems = 2
  Modes <- SomeModes
  Widths = {0, 6}
  Buffers = {0, 2, 7}
  Delims = {10, 44}
  MaxOps <- Statements
  NAME = 2
  EXT = 1
  Characters = {97, 65, 46, 47, 42}
  PathMax = 5
  fileA = fileA
  fileB = fileB
  File = {fileA, fileB}
  Times <- SomeTimes
  Flags = {{"CREATE"}, {"WRITE"}, {"ACCESS", "CREATE", "WRITE"}}
  Trees <- SomeTrees
  MaxCalls = 4
CHECK_DEADLOCK FALSE
INVARIANTS FormatIsRight TextIsTheFile NumbersAreTheirText EntriesAreKept
PROPERTY FileIsKept
