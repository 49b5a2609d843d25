----------------------------- MODULE VideoControl -----------------------------
(***************************************************************************)
(* The class VideoControl of include/vga.h in character mode: the object   *)
(* behind the global pointer `screen'.  Its fields are one record and each *)
(* of its methods is an operator from the record before the call to the    *)
(* record after it, so that both the sequential machine (Screen) and a     *)
(* machine that interleaves the methods with interrupts can be built from  *)
(* the same definitions.                                                   *)
(*                                                                         *)
(* The screen is Width x Height cells (40 x 30 in the code) kept in a flat *)
(* array indexed by x + y * Width.  There is no hardware cursor: the       *)
(* cursor is the character CursorChar written into the array, and the      *)
(* character it hides is kept in the field last (cursor_last_char).        *)
(***************************************************************************)
EXTENDS CharGrid

\* The fields of the object that the methods below read or write.
Screens == [mem     : [Offsets -> Cells],
            x       : Columns,
            y       : Rows,
            last    : Cells,
            showing : BOOLEAN,
            enabled : BOOLEAN]

Offset(s) == PositionToOffset(s.x, s.y)

\* The object the constructor leaves: video_memory comes from new[], which
\* does not clear it, so its content is a parameter.
NewScreen(contents) ==
  [mem |-> contents, x |-> 0, y |-> 0, last |-> Blank,
   showing |-> TRUE, enabled |-> TRUE]

GetCharacter(s) == s.mem[Offset(s)]

(***************************************************************************)
(* set_character(c, false) for a character that prints (the default case). *)
(***************************************************************************)
SetGlyph(s, c) ==
  [s EXCEPT !.mem[Offset(s)] = c,
            !.last = IF c = CursorChar THEN @ ELSE c]

(***************************************************************************)
(* restore_last_character calls set_character(cursor_last_char, false).    *)
(* Were the saved character a backspace or a newline that call would come  *)
(* back here and never end; a carriage return would move the cursor.  The  *)
(* operator only stands for the call when last is in Cells, which is the   *)
(* invariant TypeOK of Screen and the theorem ScreenTyped.                 *)
(***************************************************************************)
RestoreLastCharacter(s) == SetGlyph(s, s.last)

SetLastCharacter(s) == [s EXCEPT !.last = GetCharacter(s)]

CheckCursorOverrun(s, direction) ==
  CASE direction = "UP"    -> s.y - 1 < 0
    [] direction = "DOWN"  -> s.y + 1 >= Height
    [] direction = "LEFT"  -> s.x - 1 < 0
    [] direction = "RIGHT" -> s.x + 1 >= Width

(***************************************************************************)
(* add_new_row.  The loop copies row r + 1 over row r for every row whose  *)
(* offset is below Height * (Width - 1), then the bottom row is cleared.   *)
(* For the bottom row itself the source of the copy lies past the end of   *)
(* the array; what it reads is overwritten by the clearing, so the value   *)
(* is not represented.  (The memory may be modelled with some of what lies *)
(* behind the array, which these two operators leave alone.)               *)
(***************************************************************************)
RowCopied(o) == (o \div Width) * Width < Height * (Width - 1)

\* A variant with a mistake in it: the bottom row is not cleared after the copy.
AddNewRowNoClear(s) ==
  [s EXCEPT !.mem =
     [o \in DOMAIN s.mem |-> IF o < LastRow /\ RowCopied(o)
                             THEN s.mem[o + Width] ELSE s.mem[o]]]

AddNewRow(s) ==
  [s EXCEPT !.mem =
     [o \in DOMAIN s.mem |->
        IF o \in LastRow .. (Width * Height - 1) THEN Blank
        ELSE IF o < LastRow /\ RowCopied(o) THEN s.mem[o + Width]
        ELSE s.mem[o]]]

\* A variant with a mistake in it: the top row scrolls, as the bottom row does.
CursorUpScrolls(s) ==
  LET r == RestoreLastCharacter(s)
  IN  SetLastCharacter(IF CheckCursorOverrun(r, "UP") THEN AddNewRow(r)
                       ELSE [r EXCEPT !.y = @ - 1])

CursorUp(s) ==
  LET r == RestoreLastCharacter(s)
  IN  SetLastCharacter(
        [r EXCEPT !.y = IF CheckCursorOverrun(r, "UP") THEN Height - 1
                        ELSE @ - 1])

CursorDown(s) ==
  LET r == RestoreLastCharacter(s)
  IN  SetLastCharacter(IF CheckCursorOverrun(r, "DOWN") THEN AddNewRow(r)
                       ELSE [r EXCEPT !.y = @ + 1])

CursorLeft(s) ==
  LET r == RestoreLastCharacter(s)
      wrapped == [r EXCEPT !.x = Width - 1,
                           !.y = IF CheckCursorOverrun(r, "UP") THEN @
                                 ELSE @ - 1]
  IN  SetLastCharacter(IF CheckCursorOverrun(r, "LEFT") THEN wrapped
                       ELSE [r EXCEPT !.x = @ - 1])

\* A variant with a mistake in it: the cursor leaves without writing back what it hid.
CursorRightNoRestore(s) ==
  SetLastCharacter(
    IF CheckCursorOverrun(s, "RIGHT")
    THEN [s EXCEPT !.x = 0,
                   !.y = IF CheckCursorOverrun(s, "DOWN") THEN @ ELSE @ + 1]
    ELSE [s EXCEPT !.x = @ + 1])

\* At the bottom right corner the cursor goes back to the start of the
\* bottom row: only a newline or cursor_down scrolls.
CursorRight(s) ==
  LET r == RestoreLastCharacter(s)
      wrapped == [r EXCEPT !.x = 0,
                           !.y = IF CheckCursorOverrun(r, "DOWN") THEN @
                                 ELSE @ + 1]
  IN  SetLastCharacter(IF CheckCursorOverrun(r, "RIGHT") THEN wrapped
                       ELSE [r EXCEPT !.x = @ + 1])

\* Unlike the cursor moves, a carriage return neither restores the cell the
\* cursor leaves nor saves the one it lands on.
CursorCarriageReturn(s) == [s EXCEPT !.x = 0]

\* A variant with a mistake in it: the cell the cursor leaves is not restored.
CursorNewlineNoRestore(s) ==
  LET r == CursorCarriageReturn(s)
  IN  IF CheckCursorOverrun(r, "DOWN") THEN AddNewRow(r)
      ELSE [r EXCEPT !.y = @ + 1]

CursorNewline(s) ==
  LET r == CursorCarriageReturn(RestoreLastCharacter(s))
  IN  IF CheckCursorOverrun(r, "DOWN") THEN AddNewRow(r)
      ELSE [r EXCEPT !.y = @ + 1]

(***************************************************************************)
(* set_character(c, increment) for every character.                        *)
(***************************************************************************)
EraseHere(s) == [s EXCEPT !.mem[Offset(s)] = Blank, !.last = Blank]

\* A variant with a mistake in it: a carriage return is written like any character.
SetCharacterNoReturn(s, c, increment) ==
  CASE c = Backspace -> EraseHere(CursorLeft(s))
    [] c = Newline   -> [CursorNewline(s) EXCEPT !.last = Blank]
    [] OTHER -> LET g == SetGlyph(s, c)
                IN  IF increment THEN CursorRight(g) ELSE g

SetCharacter(s, c, increment) ==
  CASE c = Backspace -> EraseHere(CursorLeft(s))
    [] c = Newline   -> [CursorNewline(s) EXCEPT !.last = Blank]
    [] c = Return    -> [CursorCarriageReturn(s) EXCEPT !.last = Blank]
    [] OTHER -> LET g == SetGlyph(s, c)
                IN  IF increment THEN CursorRight(g) ELSE g

\* A variant with a mistake in it: the cursor is hidden by emptying its cell.
CycleCursorErases(s) ==
  IF ~s.enabled THEN s
  ELSE IF s.showing
       THEN [EraseHere(s) EXCEPT !.showing = FALSE]
       ELSE [SetCharacter(SetLastCharacter(s), CursorChar, FALSE)
               EXCEPT !.showing = TRUE]

(***************************************************************************)
(* cycle_cursor, called from the timer interrupt.                          *)
(***************************************************************************)
CycleCursor(s) ==
  IF ~s.enabled THEN s
  ELSE IF s.showing
       THEN [RestoreLastCharacter(s) EXCEPT !.showing = FALSE]
       ELSE [SetCharacter(SetLastCharacter(s), CursorChar, FALSE)
               EXCEPT !.showing = TRUE]

CursorEnable(s, enable) == [s EXCEPT !.enabled = enable]

\* Only upper bounds are tested: a position too far right or too low is
\* ignored and the cursor stays where it was.
SetCursor(s, x, y) ==
  IF x < Width /\ y < Height THEN [s EXCEPT !.x = x, !.y = y] ELSE s

\* clear() empties the memory but not the saved character.
Clear(s) ==
  [s EXCEPT !.mem = [o \in DOMAIN s.mem |-> IF o \in Offsets THEN Blank ELSE s.mem[o]]]

-------------------------------------------------------------------------------
(***************************************************************************)
(* The screen shows the cursor glyph nowhere but under the cursor, and the *)
(* flag cursor_showing tells when it does.                                 *)
(***************************************************************************)
Lone(s) ==
  /\ \A o \in Offsets \ {Offset(s)} : s.mem[o] # CursorChar
  /\ s.last # CursorChar

StrayFreeScreen(s) ==
  Lone(s) /\ (~s.showing => GetCharacter(s) # CursorChar)

===============================================================================
