SPECIFICATION ShellSpec
CONSTANTS
  Programs <- MCPrograms
  Later <- MCLater
  Variables <- MCVariables
  MaxGosub = 2
  MaxFor = 3
  Installed = FALSE
  Byte = 256
  Peek <- MCPeek
  Lines <- MCLines
  Preloaded <- MCElse
  MaxInputs = 1
INVARIANT ElseSupported
CHECK_DEADLOCK FALSE
