SPECIFICATION Spec
CONSTANTS
  Width = 3
  Height = 2
  Blank = Blank
  CursorChar = CursorChar
  Backspace = Backspace
  Newline = Newline
  Return = Return
  a = a
  b = b
  Printable <- MCPrintable
  Printed <- MCPrinted
  Typed <- MCTyped
  Arrows = {"UP", "DOWN", "LEFT", "RIGHT"}
  MaxCalls = 3
  MaxInterrupts = 3
INVARIANTS
  TypeOK
  AsInSequence
  BlinkDamageIsLocal
CHECK_DEADLOCK FALSE
