SPECIFICATION FairShellSpec
CONSTANTS
  Programs <- MCPrograms
  Later <- MCLater
  Variables <- MCVariables
  MaxGosub = 2
  MaxFor = 3
  Installed = FALSE
  Byte = 256
  Peek <- MCPeek
  Lines <- MCLines
  Preloaded <- MCPreloaded
  MaxInputs = 6
INVARIANT TestsPass
PROPERTIES
  RunReturns
  ImplementsBasic
CHECK_DEADLOCK FALSE
