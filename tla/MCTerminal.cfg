SPECIFICATION Spec
CONSTANTS
  Width = 3
  Height = 2
  Blank = 0
  CursorChar = 178
  a = 97
  silent = 27
  shade = 177
  Backspace = 8
  Newline = 10
  Return = 13
  Printable <- MCPrintable
  Silent <- MCSilent
  Shade <- shade
  Size = 4
  Word = 16
  Outputs <- MCOutputs
  Vectors <- MCVectors
  Rests <- MCRests
  MaxKeys = 6
INVARIANTS
  TypeOK
  EchoShowsLine
  PictureIsDrawn
PROPERTY TextBeforeStays
CHECK_DEADLOCK FALSE
