SPECIFICATION MachinesSpec
CONSTANTS
  Screens <- MCScreens
  MAX_ROWS = 4
  MAX_COLS = 6
  MaxMoves = 4
  KeyCodes = {"ESC", "[", "q", "c", "r", "U", "u", "h", "j", "k", "l", "L", "^H", "A"}
  Names <- DcNames
  Arrays <- DcArrays
  Digits <- DcDigits
  Strings <- DcStrings
  Console <- DcConsole
  MaxNum = 0
  STKSZ = 2
  RDSKSZ = 4
  TBLSZ = 3
  Lines <- MCLines
  Key <- KeyOf
  Chunk = 3
  N = 2
  Inputs <- SortInputs
  MaxTemp = 6
  Faulty = TRUE
INVARIANTS
  LibrarySafe
  SortSafe
  DcSafe
  SedDoes
  KiloShows
PROPERTIES
  SortEnds
  PlaysByTheRules
  TextAsTyped
CHECK_DEADLOCK FALSE
