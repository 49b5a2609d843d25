----------------------------- MODULE ScreenProofs -----------------------------
(***************************************************************************)
(* Theorems about the character screen, for every size of the screen and   *)
(* every set of printable characters.                                      *)
(***************************************************************************)
EXTENDS Screen, VideoControlProofs

-------------------------------------------------------------------------------
(***************************************************************************)
(* Every reachable screen is well-formed: the cursor is on the screen, so  *)
(* no access of the class leaves the video memory, and the saved character *)
(* is never a control character, so restore_last_character does not call   *)
(* itself back.                                                            *)
(***************************************************************************)
THEOREM ScreenTyped == Spec => []TypeOK
<1>1. Init => TypeOK
  <2>1. 0 \in Columns /\ 0 \in Rows
    BY SizeAssumption DEF Columns, Rows
  <2> QED
    BY <2>1, CharFacts, RamAssumption DEF Init, TypeOK, NewScreen, Screens
<1>2. TypeOK /\ [Next]_vars => TypeOK'
  <2> SUFFICES ASSUME TypeOK, [Next]_vars
               PROVE  TypeOK'
    OBVIOUS
  <2> USE DEF TypeOK
  <2>1. ASSUME NEW c \in Chars, PrintScreen(c)
        PROVE  TypeOK'
    <3>1. CASE c \in Cells
      BY <2>1, <3>1, PrintMoves DEF PrintScreen, Moved
    <3>2. CASE c \in Controls
      BY <2>1, <3>2, EraseMoves, NewlineMoves, ReturnType
      DEF PrintScreen, Moved, Controls
    <3> QED
      BY <3>1, <3>2 DEF Chars
  <2>2. ASSUME NEW c \in Drawable, Draw(c)
        PROVE  TypeOK'
    BY <2>2, GlyphCases, SetGlyphType DEF Draw, Drawable, Cells
  <2>3. CASE ArrowKey
    BY <2>3, CursorUpMoves, CursorDownMoves, CursorLeftMoves, CursorRightMoves
    DEF ArrowKey, Moved
  <2>4. CASE Blink
    BY <2>4, BlinkType DEF Blink
  <2>5. ASSUME NEW enable \in BOOLEAN, EnableCursor(enable)
        PROVE  TypeOK'
    BY <2>5 DEF EnableCursor, CursorEnable, Screens
  <2>6. ASSUME NEW x \in Columns, NEW y \in 0 .. Height, MoveTo(x, y)
        PROVE  TypeOK'
    <3>1. y < Height => y \in Rows
      BY SizeAssumption DEF Rows
    <3> QED
      BY <2>6, <3>1 DEF MoveTo, SetCursor, Screens
  <2>7. CASE ClearScreen
    BY <2>7, ClearType DEF ClearScreen
  <2>8. CASE UNCHANGED vars
    BY <2>8 DEF vars
  <2> QED
    BY <2>1, <2>2, <2>3, <2>4, <2>5, <2>6, <2>7, <2>8 DEF Next
<1> QED
  BY <1>1, <1>2, PTL DEF Spec

(***************************************************************************)
(* No operation but a carriage return or a jump leaves a copy of the       *)
(* cursor glyph behind, whatever the blinking was doing when it came.      *)
(***************************************************************************)
THEOREM NoStrayGlyph == Spec => StrayOnlyFromJump
<1>1. TypeOK /\ [Next]_vars => [StrayFree /\ ~StrayFree' => Jump]_vars
  <2> SUFFICES ASSUME TypeOK, Next, StrayFree
               PROVE  StrayFree' \/ Jump
    BY DEF vars, StrayFree
  <2> USE DEF TypeOK, StrayFree
  <2>0. Lone(scr)
    BY DEF StrayFreeScreen
  <2>1. ASSUME NEW c \in Chars, PrintScreen(c)
        PROVE  StrayFree' \/ Jump
    <3>1. CASE c \in Cells
      BY <2>0, <2>1, <3>1, PrintMoves, BareIsStrayFree DEF PrintScreen, Moved
    <3>2. CASE c \in {Backspace, Newline}
      BY <2>0, <2>1, <3>2, EraseMoves, NewlineMoves, BareIsStrayFree
      DEF PrintScreen, Moved
    <3>3. CASE c = Return
      BY <2>1, <3>3 DEF Jump
    <3> QED
      BY <3>1, <3>2, <3>3 DEF Chars, Controls
  <2>2. ASSUME NEW c \in Drawable, Draw(c)
        PROVE  StrayFree'
    <3>1. c \in Cells \ {CursorChar}
      BY CharAssumption DEF Drawable, Cells
    <3> QED
      BY <2>0, <2>2, <3>1, GlyphCases, SetGlyphType, SetGlyphBare,
         BareIsStrayFree DEF Draw
  <2>3. CASE ArrowKey
    BY <2>0, <2>3, CursorUpMoves, CursorDownMoves, CursorLeftMoves,
       CursorRightMoves, BareIsStrayFree DEF ArrowKey, Moved
  <2>4. CASE Blink
    BY <2>4, BlinkType DEF Blink
  <2>5. ASSUME NEW enable \in BOOLEAN, EnableCursor(enable)
        PROVE  StrayFree'
    BY <2>5 DEF EnableCursor, CursorEnable, Screens, StrayFreeScreen, Lone,
                Offset, GetCharacter
  <2>6. ASSUME NEW x \in Columns, NEW y \in 0 .. Height, MoveTo(x, y)
        PROVE  Jump
    BY <2>6 DEF Jump
  <2>7. CASE ClearScreen
    BY <2>7, ClearType DEF ClearScreen
  <2> QED
    BY <2>1, <2>2, <2>3, <2>4, <2>5, <2>6, <2>7 DEF Next
<1> QED
  BY <1>1, ScreenTyped, PTL DEF Spec, StrayOnlyFromJump

(***************************************************************************)
(* A cursor move and its opposite cancel, but at the corners and for the   *)
(* scrolling of cursor_down: on every reachable screen.                    *)
(***************************************************************************)
THEOREM MovesAreInverse == Spec => []MovesInvert
<1>1. TypeOK => MovesInvert
  <2> SUFFICES ASSUME scr \in Screens
               PROVE  MovesInvert
    BY DEF TypeOK
  <2> DEFINE x == scr.x
             y == scr.y
  <2>1. x \in Columns /\ y \in Rows
    BY DEF Screens
  <2>2. /\ y # 0 => y - 1 \in Rows
        /\ y # Height - 1 => y + 1 \in Rows
        /\ x # 0 => x - 1 \in Columns
        /\ x # Width - 1 => x + 1 \in Columns
        /\ 0 \in Columns /\ Width - 1 \in Columns
    BY <2>1, SizeAssumption DEF Rows, Columns
  <2>3. ASSUME NEW column \in Columns, NEW row \in Rows
        PROVE  LET t == Depart(scr, column, row)
               IN  /\ t \in Screens /\ t.x = column /\ t.y = row
                   /\ Depart(t, x, y) = Lifted
    <3>1. Depart(Depart(scr, column, row), scr.x, scr.y) = Lifted
      BY <2>3, ThereAndBack DEF Lifted
    <3>2. /\ Depart(scr, column, row) \in Screens
          /\ Depart(scr, column, row).x = column /\ Depart(scr, column, row).y = row
      BY <2>3, DepartPlace
    <3> QED
      BY <3>1, <3>2
  <2>4. ASSUME ~(x = Width - 1 /\ y = Height - 1)
        PROVE  CursorLeft(CursorRight(scr)) = Lifted
    <3>1. CASE x # Width - 1
      <4> DEFINE t == Depart(scr, x + 1, y)
      <4>1. CursorRight(scr) = t
        BY <3>1, MovesDepart
      <4>2. t \in Screens /\ t.x = x + 1 /\ t.y = y /\ Depart(t, x, y) = Lifted
        BY <2>1, <2>2, <2>3, <3>1
      <4> HIDE DEF t
      <4>3. CursorLeft(t) = Depart(t, x, y)
        BY <2>1, <4>2, MovesDepart, SizeAssumption DEF Columns
      <4> QED
        BY <4>1, <4>2, <4>3
    <3>2. CASE x = Width - 1
      <4> DEFINE t == Depart(scr, 0, y + 1)
      <4>1. CursorRight(scr) = t
        BY <2>4, <3>2, MovesDepart
      <4>2. t \in Screens /\ t.x = 0 /\ t.y = y + 1 /\ Depart(t, x, y) = Lifted
        BY <2>1, <2>2, <2>3, <2>4, <3>2
      <4> HIDE DEF t
      <4>3. CursorLeft(t) = Depart(t, x, y)
        BY <2>1, <3>2, <4>2, MovesDepart, SizeAssumption DEF Rows
      <4> QED
        BY <4>1, <4>2, <4>3
    <3> QED
      BY <3>1, <3>2
  <2>5. ASSUME ~(x = 0 /\ y = 0)
        PROVE  CursorRight(CursorLeft(scr)) = Lifted
    <3>1. CASE x # 0
      <4> DEFINE t == Depart(scr, x - 1, y)
      <4>1. CursorLeft(scr) = t
        BY <3>1, MovesDepart
      <4>2. t \in Screens /\ t.x = x - 1 /\ t.y = y /\ Depart(t, x, y) = Lifted
        BY <2>1, <2>2, <2>3, <3>1
      <4> HIDE DEF t
      <4>3. CursorRight(t) = Depart(t, x, y)
        BY <2>1, <4>2, MovesDepart, SizeAssumption DEF Columns
      <4> QED
        BY <4>1, <4>2, <4>3
    <3>2. CASE x = 0
      <4> DEFINE t == Depart(scr, Width - 1, y - 1)
      <4>1. CursorLeft(scr) = t
        BY <2>5, <3>2, MovesDepart
      <4>2. t \in Screens /\ t.x = Width - 1 /\ t.y = y - 1 /\ Depart(t, x, y) = Lifted
        BY <2>1, <2>2, <2>3, <2>5, <3>2
      <4> HIDE DEF t
      <4>3. CursorRight(t) = Depart(t, x, y)
        BY <2>1, <3>2, <4>2, MovesDepart, SizeAssumption DEF Rows
      <4> QED
        BY <4>1, <4>2, <4>3
    <3> QED
      BY <3>1, <3>2
  <2>6. ASSUME y < Height - 1
        PROVE  CursorUp(CursorDown(scr)) = Lifted
    <3> DEFINE t == Depart(scr, x, y + 1)
    <3>0. y # Height - 1
      BY <2>1, <2>6, SizeAssumption DEF Rows
    <3>1. CursorDown(scr) = t
      BY <3>0, MovesDepart
    <3>2. t \in Screens /\ t.x = x /\ t.y = y + 1 /\ Depart(t, x, y) = Lifted
      BY <2>1, <2>2, <2>3, <3>0
    <3> HIDE DEF t
    <3>3. CursorUp(t) = Depart(t, x, y)
      BY <2>1, <3>2, MovesDepart, SizeAssumption DEF Rows
    <3> QED
      BY <3>1, <3>2, <3>3
  <2>7. ASSUME y > 0
        PROVE  CursorDown(CursorUp(scr)) = Lifted
    <3> DEFINE t == Depart(scr, x, y - 1)
    <3>1. CursorUp(scr) = t
      BY <2>1, <2>7, MovesDepart DEF Rows
    <3>2. t \in Screens /\ t.x = x /\ t.y = y - 1 /\ Depart(t, x, y) = Lifted
      BY <2>1, <2>2, <2>3, <2>7
    <3> HIDE DEF t
    <3>3. CursorDown(t) = Depart(t, x, y)
      BY <2>1, <3>2, MovesDepart, SizeAssumption DEF Rows
    <3> QED
      BY <3>1, <3>2, <3>3
  <2> QED
    BY <2>4, <2>5, <2>6, <2>7 DEF MovesInvert
<1> QED
  BY <1>1, ScreenTyped, PTL

-------------------------------------------------------------------------------
(***************************************************************************)
(* The refinement of TextScreen.  What the refinement mapping makes of an  *)
(* object: whether the cursor is drawn, the text shown, whether the        *)
(* character under the cursor is in doubt, and the texts that may be left  *)
(* when the cursor goes.                                                   *)
(***************************************************************************)
Drawn(s) == s.showing /\ GetCharacter(s) = CursorChar
Shown(s) == IF Drawn(s) THEN WithoutCursor(s) ELSE s.mem
Doubt(s) == ~Drawn(s) /\ GetCharacter(s) # s.last
Leavings(s) ==
  IF Doubt(s) THEN {[Shown(s) EXCEPT ![Offset(s)] = c] : c \in Cells} ELSE {Shown(s)}
Scrolled(m) == [o \in Offsets |-> IF o >= LastRow THEN Blank ELSE m[o + Width]]

LEMMA ShownType ==
  ASSUME NEW s \in Screens
  PROVE  Shown(s) \in [Offsets -> Cells] /\ WithoutCursor(s) \in [Offsets -> Cells]
BY Fields DEF Shown, WithoutCursor

\* Writing back the saved character leaves one of the texts allowed.
LEMMA RestoredIsLeft ==
  ASSUME NEW s \in Screens
  PROVE  WithoutCursor(s) \in Leavings(s)
<1>1. CASE Drawn(s)
  BY <1>1 DEF Leavings, Doubt, Shown
<1>2. CASE Doubt(s)
  BY <1>2, Fields DEF Leavings, Doubt, Shown, WithoutCursor
<1>3. CASE ~Drawn(s) /\ ~Doubt(s)
  <2>1. s.mem[Offset(s)] = s.last
    BY <1>3, Fields DEF Doubt
  <2>2. WithoutCursor(s) = s.mem
    BY <2>1, Fields DEF WithoutCursor
  <2> QED
    BY <1>3, <2>2 DEF Leavings, Shown
<1> QED
  BY <1>1, <1>2, <1>3

\* When the saved character is the one in the cell the text is the memory.
LEMMA SavedIsShown ==
  ASSUME NEW s \in Screens, GetCharacter(s) = s.last
  PROVE  Shown(s) = s.mem /\ ~Doubt(s)
<1>1. WithoutCursor(s) = s.mem
  BY Fields DEF WithoutCursor
<1> QED
  BY <1>1 DEF Shown, Doubt

\* When nothing is saved the text is the memory, with or without its character
\* under the cursor, and in doubt if it has one.
LEMMA BlankLands ==
  ASSUME NEW s \in Screens, s.last = Blank
  PROVE  /\ Shown(s) \in {s.mem, [s.mem EXCEPT ![Offset(s)] = Blank]}
         /\ Doubt(s) = (Shown(s)[Offset(s)] # Blank)
<1>1. CASE Drawn(s)
  BY <1>1, Fields DEF Shown, Doubt, WithoutCursor
<1>2. CASE ~Drawn(s)
  BY <1>2, Fields DEF Shown, Doubt
<1> QED
  BY <1>1, <1>2

\* The memory is the text, with or without the picture of the cursor.
LEMMA MemoryIsLeft ==
  ASSUME NEW s \in Screens
  PROVE  s.mem \in {Shown(s), [Shown(s) EXCEPT ![Offset(s)] = CursorChar]}
<1>1. CASE Drawn(s)
  <2>1. s.mem[Offset(s)] = CursorChar
    BY <1>1, Fields DEF Drawn
  <2>2. Shown(s) = [s.mem EXCEPT ![Offset(s)] = s.last]
    BY <1>1 DEF Shown, WithoutCursor
  <2>3. s.mem = [Shown(s) EXCEPT ![Offset(s)] = CursorChar]
    BY <2>1, <2>2, Fields
  <2> QED
    BY <2>3
<1>2. CASE ~Drawn(s)
  BY <1>2 DEF Shown
<1> QED
  BY <1>1, <1>2

\* Scrolling moves every row.
LEMMA RowsAreCopied ==
  ASSUME NEW o \in Offsets, o < LastRow
  PROVE  RowCopied(o)
<1>1. Width \in Nat /\ Width > 0 /\ Height \in Nat /\ Height > 0 /\ Height < 2 * Width
  BY SizeAssumption, ShapeAssumption
<1>2. o \in Nat /\ o < Width * (Height - 1)
  BY <1>1 DEF Offsets, LastRow
<1> DEFINE q == o \div Width
<1>3. q \in Nat /\ q * Width <= o
  <2>1. ASSUME NEW w \in Nat, w > 0, NEW n \in Nat
        PROVE  n \div w \in Nat /\ (n \div w) * w <= n
    BY <2>1
  <2> QED
    BY <1>1, <1>2, <2>1
<1> HIDE DEF q
<1>4. ASSUME NEW w \in Nat, w > 0, NEW h \in Nat, h < 2 * w, NEW k \in Nat,
             k * w < w * (h - 1)
      PROVE  k * w < h * (w - 1)
  <2>1. k < h - 1
    <3> SUFFICES ASSUME h - 1 <= k
                 PROVE  FALSE
      BY <1>4
    <3>1. (h - 1) * w <= k * w
      BY <1>4
    <3> QED
      BY <1>4, <3>1
  <2>2. k <= h - 2
    BY <1>4, <2>1
  <2>3. k * w <= (h - 2) * w
    BY <1>4, <2>2
  <2>4. (h - 2) * w = h * w - 2 * w /\ h * (w - 1) = h * w - h
    BY <1>4
  <2> QED
    BY <1>4, <2>3, <2>4
<1>5. q * Width < Width * (Height - 1)
  BY <1>1, <1>2, <1>3
<1> QED
  BY <1>1, <1>3, <1>4, <1>5 DEF RowCopied, q

LEMMA AddNewRowScrolls ==
  ASSUME NEW s \in Screens
  PROVE  /\ AddNewRow(s) = [s EXCEPT !.mem = Scrolled(s.mem)]
         /\ Scrolled(s.mem) \in [Offsets -> Cells]
<1> DEFINE cell(o) == IF o \in LastRow .. (Width * Height - 1) THEN Blank
                      ELSE IF o < LastRow /\ RowCopied(o) THEN s.mem[o + Width]
                      ELSE s.mem[o]
<1>1. Width \in Int /\ Height \in Int /\ LastRow \in Int /\ Width * Height \in Int
  BY SizeAssumption DEF LastRow
<1>2. ASSUME NEW o \in Offsets
      PROVE  cell(o) = IF o >= LastRow THEN Blank ELSE s.mem[o + Width]
  BY <1>1, RowsAreCopied DEF Offsets
<1>3. AddNewRow(s) = [s EXCEPT !.mem = [o \in Offsets |-> cell(o)]]
  BY Fields DEF AddNewRow
<1> HIDE DEF cell
<1>4. [o \in Offsets |-> cell(o)] = Scrolled(s.mem)
  BY <1>2 DEF Scrolled
<1>5. AddNewRow(s) = [s EXCEPT !.mem = Scrolled(s.mem)]
  BY <1>3, <1>4
<1>6. AddNewRow(s).mem = Scrolled(s.mem)
  BY <1>5 DEF Screens
<1> QED
  BY <1>5, <1>6, AddNewRowType, Fields

\* A move leaves its cell behind and nothing in doubt.
LEMMA DepartShows ==
  ASSUME NEW s \in Screens, NEW x \in Columns, NEW y \in Rows
  PROVE  /\ Depart(s, x, y) \in Screens
         /\ Depart(s, x, y).x = x /\ Depart(s, x, y).y = y
         /\ Shown(Depart(s, x, y)) = WithoutCursor(s) /\ ~Doubt(Depart(s, x, y))
<1> DEFINE t == Depart(s, x, y)
<1>1. /\ t \in Screens /\ t.mem = [s.mem EXCEPT ![Offset(s)] = s.last]
      /\ t.x = x /\ t.y = y /\ t.last = t.mem[PositionToOffset(x, y)]
  BY DepartFields
<1> HIDE DEF t
<1>2. GetCharacter(t) = t.last
  BY <1>1 DEF GetCharacter, Offset
<1> QED
  BY <1>1, <1>2, SavedIsShown DEF WithoutCursor, t

\* cursor_down on the bottom row.
LEMMA DownScrolls ==
  ASSUME NEW s \in Screens, s.y = Height - 1
  PROVE  /\ CursorDown(s) \in Screens
         /\ CursorDown(s).x = s.x /\ CursorDown(s).y = s.y
         /\ Shown(CursorDown(s)) = Scrolled(WithoutCursor(s)) /\ ~Doubt(CursorDown(s))
<1> DEFINE r == RestoreLastCharacter(s)
           a == AddNewRow(r)
           t == CursorDown(s)
<1>1. r \in Screens /\ r.mem = WithoutCursor(s) /\ r.x = s.x /\ r.y = s.y
  BY RestoreType, Restored DEF WithoutCursor, Screens
<1>2. t = SetLastCharacter(a)
  BY <1>1, Overrun DEF CursorDown
<1> HIDE DEF r
<1>3. a \in Screens /\ a.mem = Scrolled(r.mem) /\ a.x = r.x /\ a.y = r.y
  BY <1>1, AddNewRowScrolls, AddNewRowType DEF Screens
<1> HIDE DEF a, t
<1>4. /\ t \in Screens /\ t.mem = a.mem /\ t.x = a.x /\ t.y = a.y
      /\ t.last = GetCharacter(a)
  BY <1>2, <1>3, SetLastType DEF SetLastCharacter, Screens
<1>5. GetCharacter(t) = t.last
  BY <1>4 DEF GetCharacter, Offset
<1> QED
  BY <1>1, <1>3, <1>4, <1>5, SavedIsShown DEF t

\* A character that is put, its cell then being settled.
LEMMA GlyphShows ==
  ASSUME NEW s \in Screens, NEW c \in Cells \ {CursorChar}
  PROVE  /\ SetGlyph(s, c) \in Screens
         /\ SetGlyph(s, c).x = s.x /\ SetGlyph(s, c).y = s.y
         /\ Shown(SetGlyph(s, c)) = [Shown(s) EXCEPT ![Offset(s)] = c]
         /\ ~Doubt(SetGlyph(s, c))
         /\ WithoutCursor(SetGlyph(s, c)) = [Shown(s) EXCEPT ![Offset(s)] = c]
<1> DEFINE t == SetGlyph(s, c)
<1>1. t = [s EXCEPT !.mem = [s.mem EXCEPT ![Offset(s)] = c], !.last = c]
  BY DEF SetGlyph
<1>2. t \in Screens
  BY SetGlyphType
<1> HIDE DEF t
<1>3. /\ t.mem = [s.mem EXCEPT ![Offset(s)] = c] /\ t.last = c
      /\ t.x = s.x /\ t.y = s.y /\ Offset(t) = Offset(s)
  BY <1>1 DEF Screens, Offset
<1>4. GetCharacter(t) = c
  BY <1>3, Fields DEF GetCharacter
<1>5. Shown(t) = t.mem /\ ~Doubt(t)
  BY <1>2, <1>3, <1>4, SavedIsShown
<1>6. t.mem = [Shown(s) EXCEPT ![Offset(s)] = c]
  BY <1>3, Fields DEF Shown, WithoutCursor
<1>7. WithoutCursor(t) = t.mem
  BY <1>3, Fields DEF WithoutCursor
<1> QED
  BY <1>2, <1>3, <1>5, <1>6, <1>7 DEF t

\* Putting the cursor character changes the memory and not what it hides.
LEMMA CursorGlyph ==
  ASSUME NEW s \in Screens
  PROVE  /\ SetGlyph(s, CursorChar) \in Screens
         /\ SetGlyph(s, CursorChar).x = s.x /\ SetGlyph(s, CursorChar).y = s.y
         /\ SetGlyph(s, CursorChar).last = s.last
         /\ SetGlyph(s, CursorChar).showing = s.showing
         /\ GetCharacter(SetGlyph(s, CursorChar)) = CursorChar
         /\ WithoutCursor(SetGlyph(s, CursorChar)) = WithoutCursor(s)
<1> DEFINE t == SetGlyph(s, CursorChar)
<1>1. t = [s EXCEPT !.mem = [s.mem EXCEPT ![Offset(s)] = CursorChar], !.last = s.last]
  BY DEF SetGlyph
<1>2. t \in Screens
  BY SetGlyphType, CharFacts
<1> HIDE DEF t
<1>3. /\ t.mem = [s.mem EXCEPT ![Offset(s)] = CursorChar] /\ t.last = s.last
      /\ t.x = s.x /\ t.y = s.y /\ t.showing = s.showing /\ Offset(t) = Offset(s)
  BY <1>1 DEF Screens, Offset
<1>4. GetCharacter(t) = CursorChar
  BY <1>3, Fields DEF GetCharacter
<1>5. WithoutCursor(t) = WithoutCursor(s)
  BY <1>3, Fields DEF WithoutCursor
<1> QED
  BY <1>2, <1>3, <1>4, <1>5 DEF t

\* set_character('\n').
LEMMA NewlineShows ==
  ASSUME NEW s \in Screens
  PROVE  LET t == SetCharacter(s, Newline, TRUE)
             bottom == s.y = Height - 1
         IN  /\ t \in Screens /\ t.last = Blank /\ t.x = 0
             /\ t.y = IF bottom THEN s.y ELSE s.y + 1
             /\ t.mem = IF bottom THEN Scrolled(WithoutCursor(s)) ELSE WithoutCursor(s)
<1> DEFINE r == RestoreLastCharacter(s)
           h == [r EXCEPT !.x = 0]
           n == CursorNewline(s)
           t == SetCharacter(s, Newline, TRUE)
<1>1. r \in Screens /\ r.mem = WithoutCursor(s) /\ r.y = s.y
  BY RestoreType, Restored DEF WithoutCursor, Screens
<1>2. 0 \in Columns
  BY SizeAssumption DEF Columns
<1>3. n = IF CheckCursorOverrun(h, "DOWN") THEN AddNewRow(h) ELSE [h EXCEPT !.y = h.y + 1]
  BY DEF CursorNewline, CursorCarriageReturn
<1>4. t = [n EXCEPT !.last = Blank]
  BY CharAssumption DEF SetCharacter
<1>5. t \in Screens /\ n \in Screens
  BY NewlineMoves, CursorNewlineMoves DEF Moved
<1> HIDE DEF r
<1>6. h \in Screens /\ h.mem = r.mem /\ h.x = 0 /\ h.y = r.y
  BY <1>1, <1>2 DEF Screens
<1> HIDE DEF h
<1>7. n.x = 0 /\ n.y = (IF s.y = Height - 1 THEN s.y ELSE s.y + 1)
      /\ n.mem = IF s.y = Height - 1 THEN Scrolled(WithoutCursor(s)) ELSE WithoutCursor(s)
  <2>1. CASE s.y = Height - 1
    <3>1. n = [h EXCEPT !.mem = Scrolled(h.mem)]
      BY <1>1, <1>3, <1>6, <2>1, Overrun, AddNewRowScrolls
    <3> QED
      BY <1>1, <1>6, <2>1, <3>1 DEF Screens
  <2>2. CASE s.y # Height - 1
    <3>1. n = [h EXCEPT !.y = h.y + 1]
      BY <1>1, <1>3, <1>6, <2>2, Overrun
    <3> QED
      BY <1>1, <1>6, <2>2, <3>1 DEF Screens
  <2> QED
    BY <2>1, <2>2
<1> HIDE DEF n
<1>8. t.mem = n.mem /\ t.x = n.x /\ t.y = n.y /\ t.last = Blank
  BY <1>4, <1>5 DEF Screens
<1> QED
  BY <1>5, <1>7, <1>8

LEMMA RightAdvances ==
  ASSUME NEW s \in Screens
  PROVE  /\ CursorRight(s) \in Screens /\ Advances(s, CursorRight(s))
         /\ Shown(CursorRight(s)) = WithoutCursor(s) /\ ~Doubt(CursorRight(s))
         /\ CursorRight(s).mem = WithoutCursor(s)
BY RightGoes, SavedIsShown

LEMMA LeftRetreats ==
  ASSUME NEW s \in Screens
  PROVE  /\ CursorLeft(s) \in Screens /\ Retreats(s, CursorLeft(s))
         /\ Shown(CursorLeft(s)) = WithoutCursor(s) /\ ~Doubt(CursorLeft(s))
         /\ CursorLeft(s).mem = WithoutCursor(s)
BY LeftGoes, SavedIsShown

\* set_character('\b').
LEMMA EraseShows ==
  ASSUME NEW s \in Screens
  PROVE  LET t == SetCharacter(s, Backspace, TRUE)
         IN  /\ t \in Screens /\ Retreats(s, t) /\ ~Doubt(t)
             /\ Shown(t) = [WithoutCursor(s) EXCEPT ![Offset(t)] = Blank]
<1> DEFINE l == CursorLeft(s)
           t == SetCharacter(s, Backspace, TRUE)
<1>1. l \in Screens /\ Retreats(s, l) /\ l.mem = WithoutCursor(s)
  BY LeftRetreats
<1>2. t \in Screens
  BY EraseMoves DEF Moved
<1>3. t = [l EXCEPT !.mem = [l.mem EXCEPT ![Offset(l)] = Blank], !.last = Blank]
  BY CharAssumption DEF SetCharacter, EraseHere
<1> HIDE DEF l, t
<1>4. /\ t.mem = [l.mem EXCEPT ![Offset(l)] = Blank] /\ t.last = Blank
      /\ t.x = l.x /\ t.y = l.y /\ Offset(t) = Offset(l)
  BY <1>1, <1>3 DEF Screens, Offset
<1>5. GetCharacter(t) = Blank
  BY <1>1, <1>4, Fields DEF GetCharacter
<1>6. Shown(t) = t.mem /\ ~Doubt(t)
  BY <1>2, <1>4, <1>5, SavedIsShown
<1>7. Retreats(s, t)
  BY <1>1, <1>4 DEF Retreats
<1> QED
  BY <1>1, <1>2, <1>4, <1>6, <1>7 DEF t

\* cycle_cursor.
LEMMA BlinkShows ==
  ASSUME NEW s \in Screens, s.enabled
  PROVE  /\ CycleCursor(s).x = s.x /\ CycleCursor(s).y = s.y
         /\ Shown(CycleCursor(s)) \in Leavings(s) /\ ~Doubt(CycleCursor(s))
<1>1. CASE s.showing
  <2> DEFINE r == RestoreLastCharacter(s)
             t == CycleCursor(s)
  <2>1. r \in Screens /\ r.mem = WithoutCursor(s) /\ r.x = s.x /\ r.y = s.y /\ r.last = s.last
    BY RestoreType, Restored DEF WithoutCursor, Screens
  <2>2. t = [r EXCEPT !.showing = FALSE]
    BY <1>1 DEF CycleCursor
  <2>3. t \in Screens
    BY BlinkType
  <2> HIDE DEF r, t
  <2>4. t.mem = r.mem /\ t.x = s.x /\ t.y = s.y /\ t.last = s.last /\ ~t.showing
    BY <2>1, <2>2 DEF Screens
  <2>5. GetCharacter(t) = t.last
    BY <2>1, <2>4, Fields DEF GetCharacter, Offset, WithoutCursor
  <2>6. Shown(t) = WithoutCursor(s) /\ ~Doubt(t)
    BY <2>1, <2>3, <2>4, <2>5, SavedIsShown
  <2> QED
    BY <2>4, <2>6, RestoredIsLeft DEF t
<1>2. CASE ~s.showing
  <2> DEFINE u == SetLastCharacter(s)
             g == SetGlyph(u, CursorChar)
             t == CycleCursor(s)
  <2>1. u = [s EXCEPT !.last = GetCharacter(s)] /\ u \in Screens
    BY SetLastType DEF SetLastCharacter
  <2>2. t = [g EXCEPT !.showing = TRUE]
    BY <1>2, <2>1, GlyphCases, CharFacts DEF CycleCursor
  <2> HIDE DEF u
  <2>3. /\ g \in Screens /\ g.x = u.x /\ g.y = u.y
        /\ GetCharacter(g) = CursorChar /\ WithoutCursor(g) = WithoutCursor(u)
    BY <2>1, CursorGlyph
  <2> HIDE DEF g, t
  <2>4. /\ u.mem = s.mem /\ u.last = GetCharacter(s) /\ u.x = s.x /\ u.y = s.y
        /\ Offset(u) = Offset(s)
    BY <2>1 DEF Screens, Offset
  <2>5. WithoutCursor(u) = s.mem
    BY <2>4, Fields DEF WithoutCursor
  <2>6. /\ t.mem = g.mem /\ t.last = g.last /\ t.x = g.x /\ t.y = g.y /\ t.showing
        /\ Offset(t) = Offset(g)
    BY <2>2, <2>3 DEF Screens, Offset
  <2>7. Drawn(t) /\ Shown(t) = s.mem /\ ~Doubt(t)
    BY <2>3, <2>5, <2>6 DEF Drawn, Shown, Doubt, GetCharacter, WithoutCursor
  <2>8. Shown(s) = s.mem /\ s.mem = [s.mem EXCEPT ![Offset(s)] = s.mem[Offset(s)]]
    BY <1>2, Fields DEF Shown, Drawn
  <2>9. s.mem \in Leavings(s)
    BY <2>8, Fields DEF Leavings
  <2> QED
    BY <2>3, <2>4, <2>6, <2>7, <2>9 DEF t
<1> QED
  BY <1>1, <1>2

\* The refinement mapping, in the words above.
LEMMA Mapping ==
  /\ VisibleText = Shown(scr) /\ InDoubt = Doubt(scr)
  /\ VisibleText' = Shown(scr') /\ InDoubt' = Doubt(scr')
  /\ Text!At = Offset(scr) /\ Text!At' = Offset(scr')
  /\ Text!Settled = Leavings(scr)
  /\ Text!Remains = {Shown(scr), [Shown(scr) EXCEPT ![Offset(scr)] = CursorChar]}
BY DEF VisibleText, InDoubt, CursorDrawn, Shown, Doubt, Drawn, WithoutCursor, Leavings,
       Text!At, Text!PositionToOffset, Text!Settled, Text!Remains, Text!Cells, Cells,
       Offset, PositionToOffset, GetCharacter

LEMMA GoesOn ==
  /\ Advances(scr, scr') => Text!Advance
  /\ Retreats(scr, scr') => Text!Retreat
BY DEF Advances, Retreats, Text!Advance, Text!Retreat, Text!Goto

\* A move from cell to cell.
LEMMA MoveSettles ==
  ASSUME scr \in Screens, Shown(scr') = WithoutCursor(scr), ~Doubt(scr')
  PROVE  Text!Settle
BY Mapping, RestoredIsLeft DEF Text!Settle

\* print_screen of a character that prints.
LEMMA PrintIsType ==
  ASSUME scr \in Screens, NEW c \in Cells, PrintScreen(c)
  PROVE  Text!Type(c)
<1> DEFINE g == SetGlyph(scr, c)
<1>1. scr' = CursorRight(g)
  BY GlyphCases DEF PrintScreen
<1>2. g \in Screens /\ g.x = scr.x /\ g.y = scr.y
  BY GlyphShows, CursorGlyph
<1>3. CASE c # CursorChar
  <2>1. WithoutCursor(g) = [Shown(scr) EXCEPT ![Offset(scr)] = c]
    BY <1>3, GlyphShows
  <2> HIDE DEF g
  <2>2. /\ Advances(g, scr') /\ ~Doubt(scr')
        /\ Shown(scr') = [Shown(scr) EXCEPT ![Offset(scr)] = c]
    BY <1>1, <1>2, <2>1, RightAdvances
  <2>3. Advances(scr, scr')
    BY <1>2, <2>2 DEF Advances
  <2> QED
    BY <1>3, <2>2, <2>3, Mapping, GoesOn DEF Text!Type, Text!Write
<1>4. CASE c = CursorChar
  <2>1. WithoutCursor(g) = WithoutCursor(scr)
    BY <1>4, CursorGlyph
  <2> HIDE DEF g
  <2>2. Advances(g, scr') /\ ~Doubt(scr') /\ Shown(scr') = WithoutCursor(scr)
    BY <1>1, <1>2, <2>1, RightAdvances
  <2>3. Advances(scr, scr')
    BY <1>2, <2>2 DEF Advances
  <2> QED
    BY <1>4, <2>2, <2>3, GoesOn, MoveSettles DEF Text!Type
<1> QED
  BY <1>3, <1>4

\* A newline.
LEMMA NewlineIsNewLine ==
  ASSUME scr \in Screens, PrintScreen(Newline)
  PROVE  Text!NewLine
<1>1. /\ scr' \in Screens /\ scr'.last = Blank /\ scr'.x = 0
      /\ scr'.y = IF scr.y = Height - 1 THEN scr.y ELSE scr.y + 1
      /\ scr'.mem = IF scr.y = Height - 1 THEN Scrolled(WithoutCursor(scr)) ELSE WithoutCursor(scr)
  BY NewlineShows DEF PrintScreen
<1>2. /\ Shown(scr') \in {scr'.mem, [scr'.mem EXCEPT ![Offset(scr')] = Blank]}
      /\ Doubt(scr') = (Shown(scr')[Offset(scr')] # Blank)
  BY <1>1, BlankLands
<1>3. ASSUME NEW t, scr'.mem = t
      PROVE  Text!Land(t)
  BY <1>2, <1>3, Mapping DEF Text!Land
<1>4. CASE scr.y = Height - 1
  <2>1. scr'.mem = Text!Scroll(WithoutCursor(scr))
    BY <1>1, <1>4 DEF Scrolled, Text!Scroll, Text!Offsets, Offsets, Text!LastRow, LastRow
  <2>2. Text!Land(Text!Scroll(WithoutCursor(scr)))
    BY <1>3, <2>1
  <2>3. scr.y + 1 = Height /\ Text!Goto(0, scr.y)
    BY <1>1, <1>4, SizeAssumption DEF Text!Goto
  <2> QED
    BY <2>2, <2>3, Mapping, RestoredIsLeft DEF Text!NewLine
<1>5. CASE scr.y # Height - 1
  <2>1. Text!Land(WithoutCursor(scr))
    BY <1>1, <1>3, <1>5
  <2>2. scr.y + 1 < Height /\ Text!Goto(0, scr.y + 1)
    BY <1>1, <1>5, Places DEF Text!Goto
  <2> QED
    BY <2>1, <2>2, Mapping, RestoredIsLeft DEF Text!NewLine
<1> QED
  BY <1>4, <1>5

\* A backspace.
LEMMA BackspaceIsErase ==
  ASSUME scr \in Screens, PrintScreen(Backspace)
  PROVE  Text!Erase
<1>1. /\ Retreats(scr, scr') /\ ~Doubt(scr')
      /\ Shown(scr') = [WithoutCursor(scr) EXCEPT ![Offset(scr')] = Blank]
  BY EraseShows DEF PrintScreen
<1>2. \E t \in Text!Settled : VisibleText' = [t EXCEPT ![Text!At'] = Blank]
  <2>1. WithoutCursor(scr) \in Text!Settled
    BY Mapping, RestoredIsLeft
  <2>2. VisibleText' = [WithoutCursor(scr) EXCEPT ![Text!At'] = Blank]
    BY <1>1, Mapping
  <2> QED
    BY <2>1, <2>2
<1>3. Text!Retreat /\ InDoubt' = FALSE
  BY <1>1, Mapping, GoesOn
<1> QED
  BY <1>2, <1>3 DEF Text!Erase

\* A carriage return.
LEMMA ReturnIsCarriageReturn ==
  ASSUME scr \in Screens, PrintScreen(Return)
  PROVE  Text!CarriageReturn
<1>1. scr' = [[scr EXCEPT !.x = 0] EXCEPT !.last = Blank]
  BY CharAssumption DEF PrintScreen, SetCharacter, CursorCarriageReturn
<1>2. scr' \in Screens
  BY ReturnType DEF PrintScreen
<1>3. scr'.mem = scr.mem /\ scr'.x = 0 /\ scr'.y = scr.y /\ scr'.last = Blank
  BY <1>1 DEF Screens
<1>4. /\ Shown(scr') \in {scr'.mem, [scr'.mem EXCEPT ![Offset(scr')] = Blank]}
      /\ Doubt(scr') = (Shown(scr')[Offset(scr')] # Blank)
  BY <1>2, <1>3, BlankLands
<1>5. Text!Land(scr.mem)
  BY <1>3, <1>4, Mapping DEF Text!Land
<1>6. Text!Goto(0, scr.y)
  BY <1>3 DEF Text!Goto
<1>7. scr.mem \in Text!Remains
  BY Mapping, MemoryIsLeft
<1> QED
  BY <1>5, <1>6, <1>7 DEF Text!CarriageReturn

\* The four moves.
LEMMA RightIsRight ==
  ASSUME scr \in Screens, scr' = CursorRight(scr)
  PROVE  Text!Right
BY RightAdvances, GoesOn, MoveSettles DEF Text!Right

LEMMA LeftIsLeft ==
  ASSUME scr \in Screens, scr' = CursorLeft(scr)
  PROVE  Text!Left
BY LeftRetreats, GoesOn, MoveSettles DEF Text!Left

LEMMA UpIsUp ==
  ASSUME scr \in Screens, scr' = CursorUp(scr)
  PROVE  Text!Up
<1> DEFINE row == IF scr.y = 0 THEN Height - 1 ELSE scr.y - 1
<1>1. scr' = Depart(scr, scr.x, row)
  BY MovesDepart
<1>2. scr.x \in Columns /\ row \in Rows
  BY Fields, Places
<1> HIDE DEF row
<1>3. scr'.x = scr.x /\ scr'.y = row /\ Text!Settle
  BY <1>1, <1>2, DepartShows, MoveSettles
<1> QED
  BY <1>3 DEF Text!Up, Text!Goto, row

LEMMA DownIsDown ==
  ASSUME scr \in Screens, scr' = CursorDown(scr)
  PROVE  Text!Down
<1>1. CASE scr.y # Height - 1
  <2>1. scr' = Depart(scr, scr.x, scr.y + 1)
    BY <1>1, MovesDepart
  <2>2. scr.x \in Columns /\ scr.y + 1 \in Rows /\ scr.y + 1 < Height
    BY <1>1, Fields, Places, SizeAssumption
  <2>3. scr'.x = scr.x /\ scr'.y = scr.y + 1 /\ Text!Settle
    BY <2>1, <2>2, DepartShows, MoveSettles
  <2> QED
    BY <2>2, <2>3 DEF Text!Down, Text!Goto
<1>2. CASE scr.y = Height - 1
  <2>1. /\ scr'.x = scr.x /\ scr'.y = scr.y /\ ~Doubt(scr')
        /\ Shown(scr') = Scrolled(WithoutCursor(scr))
    BY <1>2, DownScrolls
  <2>2. VisibleText' = Text!Scroll(WithoutCursor(scr))
    BY <2>1, Mapping
    DEF Scrolled, Text!Scroll, Text!Offsets, Offsets, Text!LastRow, LastRow
  <2>3. WithoutCursor(scr) \in Text!Settled
    BY Mapping, RestoredIsLeft
  <2>4. Text!Goto(scr.x, scr.y) /\ scr.y + 1 = Height /\ InDoubt' = FALSE
    BY <1>2, <2>1, Mapping, SizeAssumption DEF Text!Goto
  <2> QED
    BY <2>2, <2>3, <2>4 DEF Text!Down
<1> QED
  BY <1>1, <1>2

\* set_cursor.
LEMMA JumpIsMoveTo ==
  ASSUME scr \in Screens, NEW x \in Columns, NEW y \in Rows, MoveTo(x, y)
  PROVE  Text!MoveTo(x, y)
<1>1. scr' = [scr EXCEPT !.x = x, !.y = y]
  BY SizeAssumption DEF MoveTo, SetCursor, Columns, Rows
<1>2. scr' \in Screens
  BY <1>1, PlaceBoth
<1>3. scr'.mem = scr.mem /\ scr'.x = x /\ scr'.y = y
  BY <1>1 DEF Screens
<1>4. Text!Goto(x, y)
  BY <1>3 DEF Text!Goto
<1>5. scr.mem \in Text!Remains
  BY Mapping, MemoryIsLeft
<1>6. \/ VisibleText' = scr.mem
      \/ /\ scr.mem[Text!At'] = CursorChar
         /\ \E c \in Text!Cells : VisibleText' = [scr.mem EXCEPT ![Text!At'] = c]
  <2>1. CASE Drawn(scr')
    <3>1. scr.mem[Offset(scr')] = CursorChar
      BY <1>2, <1>3, <2>1 DEF Drawn, GetCharacter
    <3>2. Shown(scr') = [scr.mem EXCEPT ![Offset(scr')] = scr'.last]
      BY <1>3, <2>1 DEF Shown, WithoutCursor
    <3>3. scr'.last \in Text!Cells
      BY <1>2, Fields DEF Cells, Text!Cells
    <3> QED
      BY <3>1, <3>2, <3>3, Mapping
  <2>2. CASE ~Drawn(scr')
    BY <1>3, <2>2, Mapping DEF Shown
  <2> QED
    BY <2>1, <2>2
<1>7. InDoubt' \in BOOLEAN
  BY DEF InDoubt
<1> QED
  BY <1>4, <1>5, <1>6, <1>7 DEF Text!MoveTo

\* clear_screen.
LEMMA ClearIsClearScreen ==
  ASSUME scr \in Screens, ClearScreen
  PROVE  Text!ClearScreen
<1> DEFINE h == [scr EXCEPT !.x = 0, !.y = 0]
<1>1. 0 \in Columns /\ 0 \in Rows /\ 0 < Width /\ 0 < Height
  BY SizeAssumption DEF Columns, Rows
<1>2. SetCursor(scr, 0, 0) = h /\ h \in Screens /\ h.x = 0 /\ h.y = 0
  BY <1>1, PlaceBoth DEF SetCursor, Screens
<1> HIDE DEF h
<1>3. Clear(h) = [h EXCEPT !.mem = [o \in Offsets |-> Blank]]
  BY <1>2, Fields DEF Clear
<1>4. scr' \in Screens
  BY ClearType DEF ClearScreen
<1>5. scr'.mem = [o \in Offsets |-> Blank] /\ scr'.x = 0 /\ scr'.y = 0
  BY <1>2, <1>3 DEF ClearScreen, Screens
<1>6. ~Drawn(scr')
  <2>1. GetCharacter(scr') = Blank
    BY <1>4, <1>5, Fields
  <2> QED
    BY <2>1, CharAssumption DEF Drawn
<1>7. VisibleText' = Text!AllBlank
  BY <1>5, <1>6, Mapping DEF Shown, Text!AllBlank, Text!Offsets, Offsets
<1> QED
  BY <1>5, <1>7 DEF Text!ClearScreen, Text!Goto, InDoubt

\* cursor_enable, and a jump to a row below the screen.
LEMMA EnableIsNothing ==
  ASSUME scr \in Screens, NEW enable \in BOOLEAN, EnableCursor(enable)
  PROVE  SameText
<1>1. /\ scr'.mem = scr.mem /\ scr'.x = scr.x /\ scr'.y = scr.y
      /\ scr'.last = scr.last /\ scr'.showing = scr.showing
  BY DEF EnableCursor, CursorEnable, Screens
<1> QED
  BY <1>1 DEF SameText, VisibleText, InDoubt, CursorDrawn, GetCharacter, Offset

LEMMA NothingIsNothing ==
  ASSUME scr' = scr
  PROVE  SameText
BY Mapping DEF SameText

(***************************************************************************)
(* A step of the screen keeps every promise of CallByCall.                 *)
(***************************************************************************)
LEMMA CallsKeepPromises ==
  ASSUME scr \in Screens
  PROVE  CallByCall
<1>1. ASSUME NEW c \in Chars, PrintScreen(c)
      PROVE  Text!PrintCharacter(c)
  <2> USE DEF Text!PrintCharacter, Text!Cells, Cells
  <2>1. CASE c \in Cells
    BY <1>1, <2>1, PrintIsType
  <2>2. CASE c = Newline
    BY <1>1, <2>2, NewlineIsNewLine
  <2>3. CASE c = Backspace
    BY <1>1, <2>3, BackspaceIsErase
  <2>4. CASE c = Return
    BY <1>1, <2>4, ReturnIsCarriageReturn
  <2> QED
    BY <2>1, <2>2, <2>3, <2>4 DEF Chars, Controls
<1>2. ASSUME NEW c \in Drawable, Draw(c)
      PROVE  Text!Overwrite(c)
  <2>1. c \in Cells \ {CursorChar}
    BY CharAssumption DEF Drawable, Cells
  <2>2. scr' = SetGlyph(scr, c)
    BY <1>2, <2>1, GlyphCases DEF Draw
  <2>3. /\ scr'.x = scr.x /\ scr'.y = scr.y /\ ~Doubt(scr')
        /\ Shown(scr') = [Shown(scr) EXCEPT ![Offset(scr)] = c]
    BY <2>1, <2>2, GlyphShows
  <2> QED
    BY <2>3, Mapping DEF Text!Overwrite, Text!Write
<1>3. ASSUME Blink, scr.enabled
      PROVE  Text!Blink
  <2>1. /\ scr'.x = scr.x /\ scr'.y = scr.y
        /\ Shown(scr') \in Leavings(scr) /\ ~Doubt(scr')
    BY <1>3, BlinkShows DEF Blink
  <2> QED
    BY <2>1, Mapping DEF Text!Blink, Text!Settle
<1>4. ASSUME Blink, ~scr.enabled
      PROVE  SameText
  BY <1>4, NothingIsNothing DEF Blink, CycleCursor
<1>5. ASSUME NEW x \in Columns, NEW y \in 0 .. Height, MoveTo(x, y), y < Height
      PROVE  Text!MoveTo(x, y)
  <2>1. y \in Rows
    BY <1>5, SizeAssumption DEF Rows
  <2> QED
    BY <1>5, <2>1, JumpIsMoveTo
<1>6. ASSUME NEW x \in Columns, NEW y \in 0 .. Height, MoveTo(x, y), ~(y < Height)
      PROVE  SameText
  BY <1>6, NothingIsNothing DEF MoveTo, SetCursor
<1> QED
  BY <1>1, <1>2, <1>3, <1>4, <1>5, <1>6, RightIsRight, LeftIsLeft, UpIsUp, DownIsDown,
     EnableIsNothing, ClearIsClearScreen DEF CallByCall

(***************************************************************************)
(* The code implements the abstract text screen of TextScreen, call by     *)
(* call and for every size that add_new_row is made for: printing or       *)
(* drawing c puts c under the cursor and changes nothing else, and moves,  *)
(* blinks and refused jumps change nothing, except for the character under *)
(* the cursor while that is in doubt and the picture of the cursor at the  *)
(* two ends of a jump.                                                     *)
(***************************************************************************)
THEOREM ScreenImplementsText == Spec => ImplementsTextScreen
<1>1. Init => Text!Init
  <2> SUFFICES ASSUME NEW contents \in [Offsets -> RamCells], scr = NewScreen(contents)
               PROVE  Text!Init
    BY DEF Init
  <2>1. scr \in Screens /\ scr.x = 0 /\ scr.y = 0
    <3>1. 0 \in Columns /\ 0 \in Rows
      BY SizeAssumption DEF Columns, Rows
    <3> QED
      BY <3>1, CharFacts, RamAssumption DEF NewScreen, Screens
  <2>2. VisibleText \in [Text!Offsets -> Text!Cells]
    BY <2>1, Mapping, ShownType DEF Text!Offsets, Text!Cells, Offsets, Cells
  <2> QED
    BY <2>1, <2>2 DEF Text!Init, InDoubt
<1>2. TypeOK /\ [Next]_vars => [CallByCall]_vars
  BY CallsKeepPromises DEF TypeOK
<1>3. TypeOK /\ [Next]_vars => [Text!Next]_(Text!textVars)
  <2> SUFFICES ASSUME scr \in Screens, [Next]_vars
               PROVE  Text!Next \/ UNCHANGED Text!textVars
    BY DEF TypeOK
  <2>0. CallByCall /\ (SameText <=> UNCHANGED Text!textVars)
    BY CallsKeepPromises DEF SameText, Text!textVars
  <2>1. ASSUME NEW c \in Chars, PrintScreen(c)
        PROVE  Text!Next
    BY <2>0, <2>1 DEF CallByCall, Text!Next, Text!Chars, Text!Cells, Text!Controls,
                      Chars, Cells, Controls
  <2>2. ASSUME NEW c \in Drawable, Draw(c)
        PROVE  Text!Next
    <3>1. c \in Text!Cells \ {CursorChar}
      BY CharAssumption DEF Drawable, Text!Cells
    <3> QED
      BY <2>0, <2>2, <3>1 DEF CallByCall, Text!Next
  <2>3. ArrowKey => Text!Next
    BY <2>0 DEF ArrowKey, CallByCall, Text!Next
  <2>4. Blink => Text!Next \/ SameText
    BY <2>0 DEF CallByCall, Text!Next
  <2>5. ASSUME NEW x \in Columns, NEW y \in 0 .. Height, MoveTo(x, y)
        PROVE  Text!Next \/ SameText
    <3>1. y < Height => x \in Text!Columns /\ y \in Text!Rows
      BY SizeAssumption DEF Columns, Text!Columns, Text!Rows
    <3> QED
      BY <2>0, <2>5, <3>1 DEF CallByCall, Text!Next
  <2>6. ClearScreen => Text!Next
    BY <2>0 DEF CallByCall, Text!Next
  <2>7. ASSUME NEW enable \in BOOLEAN, EnableCursor(enable)
        PROVE  SameText
    BY <2>7, EnableIsNothing
  <2>8. UNCHANGED vars => SameText
    BY NothingIsNothing DEF vars
  <2> QED
    BY <2>0, <2>1, <2>2, <2>3, <2>4, <2>5, <2>6, <2>7, <2>8 DEF Next
<1> QED
  BY <1>1, <1>2, <1>3, ScreenTyped, PTL DEF Spec, ImplementsTextScreen, Text!Spec

===============================================================================
