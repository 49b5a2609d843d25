SPECIFICATION Spec
CONSTANTS
  Byte = 8
  Programs <- MCPrograms
  Later <- MCLater
  Variables = {0, 1}
  MaxGosub = 2
  MaxFor = 2
  Installed = TRUE
  Peek <- MCPeek
INVARIANTS
  TypeOK
  IndexAgrees
  BeginsAtLine
PROPERTIES
  JumpsGoHome
  GotoArrives
CHECK_DEADLOCK FALSE
