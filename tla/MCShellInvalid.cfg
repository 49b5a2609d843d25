SPECIFICATION ShellSpec
CONSTANTS
  Programs <- MCPrograms
  Later <- MCLater
  Variables <- MCVariables
  MaxGosub = 2
  MaxFor = 3
  Installed = FALSE
  Byte = 256
  Peek <- MCPeek
  Lines <- MCLines
  Preloaded <- MCEmpty
  MaxInputs = 3
INVARIANT InvalidReported
CHECK_DEADLOCK FALSE
