-------------------------------- MODULE Screen --------------------------------
(***************************************************************************)
(* The character screen as a program drives it when nothing interrupts a   *)
(* call: every public operation of the screen is one action.  The callers  *)
(* are print_screen and clear_screen (riscv-stdio.h), the keyboard and     *)
(* timer handlers installed by setup_character_mode (computer.h) and the   *)
(* drawing code of the programs.                                           *)
(***************************************************************************)
EXTENDS VideoControl

CONSTANT RamCells   \* what a byte of a freshly allocated video memory can hold

ASSUME RamAssumption == RamCells # {} /\ RamCells \subseteq Cells

\* add_new_row copies every row but the last one only on a screen that is not
\* too narrow.  The one of the code is 40 cells wide and 30 high.
ASSUME ShapeAssumption == Height < 2 * Width

VARIABLE scr        \* *screen

vars == scr

Init == \E contents \in [Offsets -> RamCells] : scr = NewScreen(contents)

\* print_screen hands each character of its string to set_character(c), and
\* so does the keyboard handler when it echoes a key that is not an arrow.
PrintScreen(c) == scr' = SetCharacter(scr, c, TRUE)

\* The programs that draw a picture place a character without moving on.
Draw(c) == scr' = SetCharacter(scr, c, FALSE)

\* The keyboard handler turns the four arrow keys into cursor moves.
ArrowKey ==
  \/ scr' = CursorUp(scr)
  \/ scr' = CursorDown(scr)
  \/ scr' = CursorLeft(scr)
  \/ scr' = CursorRight(scr)

\* The timer handler, on the ticks it does not ignore.
Blink == scr' = CycleCursor(scr)

EnableCursor(enable) == scr' = CursorEnable(scr, enable)

\* The programs only name columns of the screen; image_prg computes rows up
\* to 39, below the bottom.
MoveTo(x, y) == scr' = SetCursor(scr, x, y)

ClearScreen == scr' = Clear(SetCursor(scr, 0, 0))

Drawable == Printable \cup {Blank}

Next ==
  \/ \E c \in Chars : PrintScreen(c)
  \/ \E c \in Drawable : Draw(c)
  \/ ArrowKey
  \/ Blink
  \/ \E enable \in BOOLEAN : EnableCursor(enable)
  \/ \E x \in Columns, y \in 0 .. Height : MoveTo(x, y)
  \/ ClearScreen

Spec == Init /\ [][Next]_vars

-------------------------------------------------------------------------------
(***************************************************************************)
(* Type invariant.  It carries the two facts that keep the class out of    *)
(* trouble: the cursor is on the screen, so every access is inside the     *)
(* video memory, and neither a cell nor the saved character is ever a      *)
(* control character, so restore_last_character cannot recurse into the    *)
(* cursor moves that call it.                                              *)
(***************************************************************************)
TypeOK == scr \in Screens

\* No stray copy of the cursor glyph is on the screen.
StrayFree == StrayFreeScreen(scr)

Jump ==
  \/ PrintScreen(Return)
  \/ \E x \in Columns, y \in 0 .. Height : MoveTo(x, y)

(***************************************************************************)
(* A copy of the cursor glyph is left behind on the screen only by the two *)
(* operations that move the cursor without restoring the cell it leaves:   *)
(* carriage return and set_cursor.  Printing, newlines, backspaces, arrow  *)
(* keys, scrolling, blinking and clearing never leave one, in any order    *)
(* and whatever the state of the blinking.                                 *)
(***************************************************************************)
StrayOnlyFromJump == [][StrayFree /\ ~StrayFree' => Jump]_vars

\* The screen with the cursor taken off.
Lifted == RestoreLastCharacter(scr)

(***************************************************************************)
(* Moving the cursor one step and back brings every cell, the position and *)
(* the saved character back (the cursor itself is lifted until the next    *)
(* blink), wherever the cursor is and whatever the blinking was doing,     *)
(* except where the code clips the move (the first and the last cell) or   *)
(* scrolls (cursor_down on the bottom row).                                *)
(***************************************************************************)
MovesInvert ==
  /\ ~(scr.x = Width - 1 /\ scr.y = Height - 1)
       => CursorLeft(CursorRight(scr)) = Lifted
  /\ ~(scr.x = 0 /\ scr.y = 0)
       => CursorRight(CursorLeft(scr)) = Lifted
  /\ scr.y < Height - 1 => CursorUp(CursorDown(scr)) = Lifted
  /\ scr.y > 0 => CursorDown(CursorUp(scr)) = Lifted

(***************************************************************************)
(* Refinement.  The text is the memory with the drawn cursor replaced by   *)
(* the character it hides.                                                 *)
(***************************************************************************)
CursorDrawn == scr.showing /\ GetCharacter(scr) = CursorChar

VisibleText ==
  IF CursorDrawn THEN [scr.mem EXCEPT ![Offset(scr)] = scr.last] ELSE scr.mem

InDoubt == ~CursorDrawn /\ GetCharacter(scr) # scr.last

Text == INSTANCE TextScreen
          WITH text <- VisibleText, x <- scr.x, y <- scr.y, doubt <- InDoubt

SameText == UNCHANGED <<VisibleText, InDoubt, scr.x, scr.y>>

\* What each call promises, with the character or the place its caller gave.
CallByCall ==
  /\ \A c \in Chars : PrintScreen(c) => Text!PrintCharacter(c)
  /\ \A c \in Drawable : Draw(c) => Text!Overwrite(c)
  /\ scr' = CursorRight(scr) => Text!Right
  /\ scr' = CursorLeft(scr) => Text!Left
  /\ scr' = CursorUp(scr) => Text!Up
  /\ scr' = CursorDown(scr) => Text!Down
  /\ Blink => IF scr.enabled THEN Text!Blink ELSE SameText
  /\ \A enable \in BOOLEAN : EnableCursor(enable) => SameText
  /\ \A x \in Columns, y \in 0 .. Height :
       MoveTo(x, y) => IF y < Height THEN Text!MoveTo(x, y) ELSE SameText
  /\ ClearScreen => Text!ClearScreen

(***************************************************************************)
(* The code implements the abstract text screen, call by call: printing or *)
(* drawing a character puts that character, and no other, under the        *)
(* cursor; newline, backspace, scrolling and clearing empty the cells they *)
(* name; arrow keys, blinks, switching the cursor on and off and a jump    *)
(* refused touch no character of a settled text.  The exceptions are the   *)
(* character under the cursor while it is in doubt, and the cursor glyph a *)
(* jump leaves where it started or takes for the cursor where it lands.    *)
(***************************************************************************)
ImplementsTextScreen == Text!Spec /\ [][CallByCall]_vars

===============================================================================
