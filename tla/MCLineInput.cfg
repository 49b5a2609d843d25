SPECIFICATION FairSpec
CONSTANTS
  Size = 3
  Word = 8
  Nul = Nul
  Backspace = Backspace
  Newline = Newline
  Return = Return
  a = a
  b = b
  tab = tab
  Printable <- MCPrintable
  Ignored <- MCIgnored
INVARIANTS
  TypeOK
  Terminated
  BufferHoldsLine
PROPERTIES
  LineDelivered
  InputReturns
