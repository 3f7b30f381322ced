INIT Init
NEXT Next
INVARIANTS
  
  
  KeysOrder
  NumbersRight
  DiffMakesNew
  SqueezedKept
  GcTransparent
  StateRestored
  ParserRight
  TranslationRight
  BasicRight
CHECK_DEADLOCK FALSE
