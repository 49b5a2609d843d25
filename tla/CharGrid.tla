------------------------------- MODULE CharGrid -------------------------------
(***************************************************************************)
(* What the character screen and its abstract specification share: the     *)
(* characters, the size of the screen and the numbering of its cells.      *)
(***************************************************************************)
EXTENDS Integers

CONSTANTS
  Width,       \* width_chr
  Height,      \* height_chr
  Printable,   \* the characters that print and are none of those named below
  Blank,       \* '\0', an empty cell
  CursorChar,  \* cursor_char, character 178
  Backspace,   \* '\b'
  Newline,     \* '\n'
  Return       \* '\r'

Controls == {Backspace, Newline, Return}
Cells    == Printable \cup {Blank, CursorChar}   \* what a cell can show
Chars    == Cells \cup Controls                  \* every unsigned char

ASSUME SizeAssumption ==
  /\ Width \in Nat \ {0}
  /\ Height \in Nat \ {0}

ASSUME CharAssumption ==
  /\ Blank # CursorChar
  /\ {Blank, CursorChar} \cap Printable = {}
  /\ Controls \cap Cells = {}
  /\ Backspace # Newline /\ Backspace # Return /\ Newline # Return

\* Offset of the first cell of the bottom row.
LastRow == Width * (Height - 1)
Offsets == 0 .. (Width * Height - 1)
Columns == 0 .. (Width - 1)
Rows    == 0 .. (Height - 1)

\* position_to_offset in character mode.
PositionToOffset(x, y) == x + y * Width

===============================================================================
