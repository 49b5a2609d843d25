SPECIFICATION UartFairSpec
CONSTANTS
  Chars = {"a", "b", "c"}
  Programs <- MCPrograms
  Builds = {"polls", "reads once", "skips"}
  Idle = "idle"
INVARIANTS
  NoSignalLost
  SentIsThisOrNext
PROPERTIES
  EverythingIsSent
  PrintReturns
CHECK_DEADLOCK FALSE
