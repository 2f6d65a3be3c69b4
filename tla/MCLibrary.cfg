SPECIFICATION LibrarySpec
CONSTANTS
  Col <- MCCol
  Upper <- MCUpper
  CellType <- MCCellType
  NewRows <- MCNewRows
  NewCols <- MCNewCols
  MaxRows = 4
  Text <- MCText
  Files <- MCFiles
  MaxLoads = 2
  Urls <- MCUrls
  Paths <- MCPaths
  Bare = "bare"
  Blank = ""
  NoPort = NoPort
  WellFormed = {"odys-z", "notes", "index", "jserv", "album", "jserv-album"}
  Leftover = {0, 8080}
CHECK_DEADLOCK FALSE
INVARIANT TypeOK
INVARIANT EveryRowOnce
INVARIANT DefinedOnFullRows
INVARIANT NothingFromDecoded
INVARIANT FirstFileAnswers
INVARIANT ValidReadsBack
INVARIANT AsJservKeepsServer
PROPERTY LoopEnds
