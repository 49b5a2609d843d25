------------------------------ MODULE TextScreen ------------------------------
(***************************************************************************)
(* What the character screen promises its callers, with no cursor drawn in *)
(* memory: a grid of characters, a position, and one bit.                  *)
(*                                                                         *)
(* The bit doubt says that the character under the cursor is not settled:  *)
(* the next operation may replace that one character.  Only the operations *)
(* that move the cursor without looking at the cell it lands on (newline,  *)
(* carriage return, set_cursor, clear) can raise it.  Every other change   *)
(* of the text is one the caller asked for, so damage never spreads beyond *)
(* the cell under the cursor, and blinking changes nothing unless in doubt.*)
(* Every operation of the screen is an action of its own here, with the    *)
(* character or the place its caller gave.                                 *)
(***************************************************************************)
EXTENDS CharGrid

VARIABLES
  text,   \* the characters shown
  x, y,   \* the cursor
  doubt   \* the character under the cursor may still be replaced

textVars == <<text, x, y, doubt>>

At == PositionToOffset(x, y)

AllBlank == [o \in Offsets |-> Blank]

TextTypeOK ==
  /\ text \in [Offsets -> Cells]
  /\ x \in Columns /\ y \in Rows
  /\ doubt \in BOOLEAN

Init ==
  /\ text \in [Offsets -> Cells]
  /\ x = 0 /\ y = 0
  /\ doubt \in BOOLEAN

\* The texts that may be left behind when the cursor leaves its cell.
Settled ==
  IF doubt THEN {[text EXCEPT ![At] = c] : c \in Cells} ELSE {text}

Settle == text' \in Settled /\ doubt' = FALSE

\* Every row moves up by one and the bottom row becomes empty.
Scroll(t) ==
  [o \in Offsets |-> IF o >= LastRow THEN Blank ELSE t[o + Width]]

Goto(column, row) == x' = column /\ y' = row

\* The next cell in reading order; the last cell leads to the start of its row.
Advance ==
  \/ x + 1 < Width /\ Goto(x + 1, y)
  \/ x + 1 = Width /\ y + 1 < Height /\ Goto(0, y + 1)
  \/ x + 1 = Width /\ y + 1 = Height /\ Goto(0, y)

\* The previous cell; the first cell leads to the end of its row.
Retreat ==
  \/ x > 0 /\ Goto(x - 1, y)
  \/ x = 0 /\ y > 0 /\ Goto(Width - 1, y - 1)
  \/ x = 0 /\ y = 0 /\ Goto(Width - 1, y)

Write(c) == text' = [text EXCEPT ![At] = c] /\ doubt' = FALSE

\* Printing the cursor character writes nothing: it is undone on leaving.
Type(c) ==
  /\ Advance
  /\ IF c = CursorChar THEN Settle ELSE Write(c)

Overwrite(c) == UNCHANGED <<x, y>> /\ Write(c)

Right == Advance /\ Settle

Left == Retreat /\ Settle

Up == Goto(x, IF y = 0 THEN Height - 1 ELSE y - 1) /\ Settle

Down ==
  \/ y + 1 < Height /\ Goto(x, y + 1) /\ Settle
  \/ /\ y + 1 = Height /\ Goto(x, y)
     /\ \E t \in Settled : text' = Scroll(t)
     /\ doubt' = FALSE

Erase ==
  /\ Retreat
  /\ \E t \in Settled : text' = [t EXCEPT ![At'] = Blank]
  /\ doubt' = FALSE

\* The cell a newline lands on may be emptied, at once or later.
Land(t) ==
  /\ text' \in {t, [t EXCEPT ![At'] = Blank]}
  /\ doubt' = (text'[At'] # Blank)

NewLine ==
  \/ /\ y + 1 < Height /\ Goto(0, y + 1)
     /\ \E t \in Settled : Land(t)
  \/ /\ y + 1 = Height /\ Goto(0, y)
     /\ \E t \in Settled : Land(Scroll(t))

\* A jump does not take the cursor off the cell it leaves: if it was drawn
\* there its picture becomes part of the text.
Remains == {text, [text EXCEPT ![At] = CursorChar]}

CarriageReturn == Goto(0, y) /\ \E t \in Remains : Land(t)

\* A jump onto a picture of the cursor may take that for the cursor.
MoveTo(column, row) ==
  /\ Goto(column, row)
  /\ \E t \in Remains :
       \/ text' = t
       \/ t[At'] = CursorChar /\ \E c \in Cells : text' = [t EXCEPT ![At'] = c]
  /\ doubt' \in BOOLEAN

ClearScreen ==
  /\ Goto(0, 0)
  /\ text' = AllBlank
  /\ doubt' \in BOOLEAN

Blink == UNCHANGED <<x, y>> /\ Settle

\* What printing a character means.
PrintCharacter(c) ==
  \/ c \in Cells /\ Type(c)
  \/ c = Newline /\ NewLine
  \/ c = Return /\ CarriageReturn
  \/ c = Backspace /\ Erase

Next ==
  \/ \E c \in Chars : PrintCharacter(c)
  \/ \E c \in Cells \ {CursorChar} : Overwrite(c)
  \/ Right \/ Left \/ Up \/ Down
  \/ \E column \in Columns, row \in Rows : MoveTo(column, row)
  \/ ClearScreen \/ Blink

Spec == Init /\ [][Next]_textVars

===============================================================================
