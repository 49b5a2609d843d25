SPECIFICATION Spec
CONSTANTS
  Width = 7
  Height = 7
  Blank = Blank
  CursorChar = CursorChar
  Backspace = Backspace
  Newline = Newline
  Return = Return
  HeadGlyph = HeadGlyph
  BodyGlyph = BodyGlyph
  FoodGlyph = FoodGlyph
  WallGlyph = WallGlyph
  ScoreGlyph = ScoreGlyph
  Printable <- MCPrintable
  FirstFood <- MCFirstFood
  ScoreLength = 3
  InitialLength = 3
  MaxFood = 2
  Speed = 2
  MaxScore = 50
  MaxKeys = 2
INVARIANTS
  TypeOK
  SnakeHoldsTogether
  BoardIsClean
PROPERTIES
  CrossesOnlyOnFood
  ScrollNeedsTwoKeys
CHECK_DEADLOCK FALSE
