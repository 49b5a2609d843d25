SPECIFICATION Spec
CONSTANTS
  Width = 3
  Height = 2
  Blank = Blank
  CursorChar = CursorChar
  Backspace = Backspace
  Newline = Newline
  Return = Return
  a = a
  Printable <- MCPrintable
  RamCells <- MCRamCells
INVARIANTS
  TypeOK
  MovesInvert
PROPERTIES
  StrayOnlyFromJump
  ImplementsTextScreen
