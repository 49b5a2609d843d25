-------------------------- MODULE VideoControlProofs --------------------------
(***************************************************************************)
(* Lemmas about the methods of the screen object, for every size of the    *)
(* screen and every set of printable characters: what each one makes of a  *)
(* well-formed object.  The machines that call them (Screen, Terminal) are *)
(* proved from these.                                                      *)
(***************************************************************************)
EXTENDS VideoControl, TLAPS

-------------------------------------------------------------------------------
(***************************************************************************)
(* The arithmetic of the flat array, the only place where products occur.  *)
(* LastCell says that the bottom row ends where the array does.            *)
(***************************************************************************)
LEMMA RowBound ==
  ASSUME NEW y \in Rows
  PROVE  0 <= y * Width /\ y * Width <= (Height - 1) * Width
<1>1. Width \in Nat /\ Width > 0 /\ Height \in Nat /\ Height > 0
  BY SizeAssumption
<1>2. y \in Int /\ 0 <= y /\ y <= Height - 1
  BY <1>1 DEF Rows
<1>3. ASSUME NEW w \in Nat, NEW h \in Nat, NEW r \in Nat, r <= h
      PROVE  0 <= r * w /\ r * w <= h * w
  BY <1>3
<1> QED
  BY <1>1, <1>2, <1>3

LEMMA LastCell == LastRow + Width = Width * Height
<1>1. Width \in Int /\ Height \in Int
  BY SizeAssumption
<1> QED
  BY <1>1 DEF LastRow

\* Every position of the screen is inside the video memory.
LEMMA OffsetInMemory ==
  ASSUME NEW x \in Columns, NEW y \in Rows
  PROVE  PositionToOffset(x, y) \in Offsets
<1>1. Width \in Nat /\ Width > 0 /\ Height \in Nat /\ Height > 0
  BY SizeAssumption
<1>2. x \in Int /\ 0 <= x /\ x <= Width - 1 /\ y \in Int
  BY <1>1 DEF Columns, Rows
<1>3. 0 <= y * Width /\ y * Width <= (Height - 1) * Width
  BY RowBound
<1>4. (Height - 1) * Width + Width = Width * Height
  BY <1>1
<1>5. y * Width \in Int /\ Width * Height \in Int /\ (Height - 1) * Width \in Int
  BY <1>1, <1>2
<1> QED
  BY <1>1, <1>2, <1>3, <1>4, <1>5 DEF PositionToOffset, Offsets

LEMMA CharFacts ==
  /\ Blank \in Cells /\ CursorChar \in Cells
  /\ Backspace \notin Cells /\ Newline \notin Cells /\ Return \notin Cells
  /\ Chars \ Controls = Cells
BY CharAssumption DEF Cells, Chars, Controls

-------------------------------------------------------------------------------
(***************************************************************************)
(* Each method of the class takes a well-formed object to a well-formed    *)
(* object.                                                                 *)
(***************************************************************************)
LEMMA OffsetType ==
  ASSUME NEW s \in Screens
  PROVE  Offset(s) \in Offsets
BY OffsetInMemory DEF Screens, Offset

LEMMA SetGlyphType ==
  ASSUME NEW s \in Screens, NEW c \in Cells
  PROVE  SetGlyph(s, c) \in Screens
BY DEF SetGlyph, Screens

LEMMA RestoreType ==
  ASSUME NEW s \in Screens
  PROVE  RestoreLastCharacter(s) \in Screens
<1>1. s.last \in Cells
  BY DEF Screens
<1> QED
  BY <1>1, SetGlyphType DEF RestoreLastCharacter

LEMMA SetLastType ==
  ASSUME NEW s \in Screens
  PROVE  SetLastCharacter(s) \in Screens
<1>1. GetCharacter(s) \in Cells
  BY OffsetType DEF Screens, GetCharacter
<1> QED
  BY <1>1 DEF SetLastCharacter, Screens

LEMMA AddNewRowType ==
  ASSUME NEW s \in Screens
  PROVE  AddNewRow(s) \in Screens
<1> DEFINE cell(o) == IF o \in LastRow .. (Width * Height - 1) THEN Blank
                      ELSE IF o < LastRow /\ RowCopied(o) THEN s.mem[o + Width]
                      ELSE s.mem[o]
<1>1. Width \in Nat /\ Width > 0 /\ Height \in Nat /\ Height > 0
  BY SizeAssumption
<1>2. LastRow \in Int /\ Width * Height \in Int
  BY <1>1 DEF LastRow
<1>3. ASSUME NEW o \in Offsets
      PROVE  cell(o) \in Cells
  <2>1. CASE o \in LastRow .. (Width * Height - 1)
    BY <2>1, CharFacts
  <2>2. CASE o \notin LastRow .. (Width * Height - 1)
    <3>1. o + Width \in Offsets
      BY <1>1, <1>2, <2>2, LastCell DEF Offsets
    <3> QED
      BY <2>2, <3>1 DEF Screens
  <2> QED
    BY <2>1, <2>2
<1>4. AddNewRow(s) = [s EXCEPT !.mem = [o \in Offsets |-> cell(o)]]
  <2>1. DOMAIN s.mem = Offsets
    BY DEF Screens
  <2> QED
    BY <2>1 DEF AddNewRow
<1> HIDE DEF cell
<1>5. [o \in Offsets |-> cell(o)] \in [Offsets -> Cells]
  BY <1>3
<1> QED
  BY <1>4, <1>5 DEF Screens

-------------------------------------------------------------------------------
(***************************************************************************)
(* The cursor moves.  Bare(s) is a screen with the cursor lifted and no    *)
(* copy of its glyph left over: what restoring the saved character makes   *)
(* of a stray-free screen, and what every move then hands on.              *)
(***************************************************************************)
Bare(s) ==
  /\ \A o \in Offsets : s.mem[o] # CursorChar
  /\ s.last # CursorChar

LEMMA BareIsStrayFree ==
  ASSUME NEW s \in Screens, Bare(s)
  PROVE  StrayFreeScreen(s) /\ Lone(s)
BY OffsetType DEF Bare, Lone, StrayFreeScreen, GetCharacter

LEMMA SetGlyphBare ==
  ASSUME NEW s \in Screens, NEW c \in Cells \ {CursorChar}, Lone(s)
  PROVE  Bare(SetGlyph(s, c))
<1>1. Offset(s) \in Offsets
  BY OffsetType
<1> QED
  BY <1>1 DEF Bare, Lone, SetGlyph, Screens

LEMMA RestoreBare ==
  ASSUME NEW s \in Screens, Lone(s)
  PROVE  Bare(RestoreLastCharacter(s))
<1>1. s.last \in Cells \ {CursorChar}
  BY DEF Lone, Screens
<1> QED
  BY <1>1, SetGlyphBare DEF RestoreLastCharacter

LEMMA SetLastBare ==
  ASSUME NEW s \in Screens, Bare(s)
  PROVE  Bare(SetLastCharacter(s))
<1>1. Offset(s) \in Offsets
  BY OffsetType
<1> QED
  BY <1>1 DEF Bare, SetLastCharacter, GetCharacter, Screens

LEMMA AddNewRowBare ==
  ASSUME NEW s \in Screens, Bare(s)
  PROVE  Bare(AddNewRow(s))
<1>1. Width \in Nat /\ Width > 0 /\ Height \in Nat /\ Height > 0
  BY SizeAssumption
<1>2. LastRow \in Int /\ Width * Height \in Int
  BY <1>1 DEF LastRow
<1>3. ASSUME NEW o \in Offsets, o \notin LastRow .. (Width * Height - 1)
      PROVE  o + Width \in Offsets
  BY <1>1, <1>2, <1>3, LastCell DEF Offsets
<1>4. ASSUME NEW o \in Offsets
      PROVE  AddNewRow(s).mem[o] # CursorChar
  BY <1>3, CharAssumption DEF AddNewRow, Bare, Screens
<1>5. AddNewRow(s).last # CursorChar
  BY DEF AddNewRow, Bare, Screens
<1> QED
  BY <1>4, <1>5 DEF Bare

LEMMA Overrun ==
  ASSUME NEW s \in Screens
  PROVE  /\ CheckCursorOverrun(s, "UP") <=> s.y = 0
         /\ CheckCursorOverrun(s, "DOWN") <=> s.y = Height - 1
         /\ CheckCursorOverrun(s, "LEFT") <=> s.x = 0
         /\ CheckCursorOverrun(s, "RIGHT") <=> s.x = Width - 1
<1>1. Width \in Nat /\ Width > 0 /\ Height \in Nat /\ Height > 0
  BY SizeAssumption
<1>2. s.x \in Columns /\ s.y \in Rows
  BY DEF Screens
<1> QED
  BY <1>1, <1>2 DEF CheckCursorOverrun, Columns, Rows

\* Putting the cursor somewhere on the screen changes nothing else.
LEMMA PlaceColumn ==
  ASSUME NEW s \in Screens, NEW x \in Columns
  PROVE  [s EXCEPT !.x = x] \in Screens /\ (Bare(s) => Bare([s EXCEPT !.x = x]))
BY DEF Screens, Bare

LEMMA PlaceRow ==
  ASSUME NEW s \in Screens, NEW y \in Rows
  PROVE  [s EXCEPT !.y = y] \in Screens /\ (Bare(s) => Bare([s EXCEPT !.y = y]))
BY DEF Screens, Bare

LEMMA PlaceBoth ==
  ASSUME NEW s \in Screens, NEW x \in Columns, NEW y \in Rows
  PROVE  /\ [s EXCEPT !.x = x, !.y = y] \in Screens
         /\ Bare(s) => Bare([s EXCEPT !.x = x, !.y = y])
BY DEF Screens, Bare

\* What every cursor move establishes.
Moved(s, t) == t \in Screens /\ (Lone(s) => Bare(t))

LEMMA CursorUpMoves ==
  ASSUME NEW s \in Screens
  PROVE  Moved(s, CursorUp(s))
<1> DEFINE r == RestoreLastCharacter(s)
           row == IF CheckCursorOverrun(r, "UP") THEN Height - 1 ELSE r.y - 1
           m == [r EXCEPT !.y = row]
<1>1. r \in Screens /\ (Lone(s) => Bare(r))
  BY RestoreType, RestoreBare
<1>2. row \in Rows
  BY <1>1, Overrun, SizeAssumption DEF Rows, Screens
<1>3. CursorUp(s) = SetLastCharacter(m)
  BY DEF CursorUp
<1> HIDE DEF r, row
<1>4. m \in Screens /\ (Bare(r) => Bare(m))
  BY <1>1, <1>2, PlaceRow
<1> HIDE DEF m
<1> QED
  BY <1>1, <1>3, <1>4, SetLastType, SetLastBare DEF Moved

LEMMA CursorDownMoves ==
  ASSUME NEW s \in Screens
  PROVE  Moved(s, CursorDown(s))
<1> DEFINE r == RestoreLastCharacter(s)
           row == r.y + 1
           m == IF CheckCursorOverrun(r, "DOWN") THEN AddNewRow(r)
                ELSE [r EXCEPT !.y = row]
<1>1. r \in Screens /\ (Lone(s) => Bare(r))
  BY RestoreType, RestoreBare
<1>2. ~CheckCursorOverrun(r, "DOWN") => row \in Rows
  BY <1>1, Overrun, SizeAssumption DEF Rows, Screens
<1>3. CursorDown(s) = SetLastCharacter(m)
  BY DEF CursorDown
<1> HIDE DEF r, row
<1>4. m \in Screens /\ (Bare(r) => Bare(m))
  BY <1>1, <1>2, PlaceRow, AddNewRowType, AddNewRowBare
<1> HIDE DEF m
<1> QED
  BY <1>1, <1>3, <1>4, SetLastType, SetLastBare DEF Moved

LEMMA CursorLeftMoves ==
  ASSUME NEW s \in Screens
  PROVE  Moved(s, CursorLeft(s))
<1> DEFINE r == RestoreLastCharacter(s)
           row == IF CheckCursorOverrun(r, "UP") THEN r.y ELSE r.y - 1
           m == IF CheckCursorOverrun(r, "LEFT")
                THEN [r EXCEPT !.x = Width - 1, !.y = row]
                ELSE [r EXCEPT !.x = r.x - 1]
<1>1. r \in Screens /\ (Lone(s) => Bare(r))
  BY RestoreType, RestoreBare
<1>2. row \in Rows /\ Width - 1 \in Columns
  BY <1>1, Overrun, SizeAssumption DEF Rows, Columns, Screens
<1>3. ~CheckCursorOverrun(r, "LEFT") => r.x - 1 \in Columns
  BY <1>1, Overrun, SizeAssumption DEF Columns, Screens
<1>4. CursorLeft(s) = SetLastCharacter(m)
  BY DEF CursorLeft
<1> HIDE DEF r, row
<1>5. m \in Screens /\ (Bare(r) => Bare(m))
  BY <1>1, <1>2, <1>3, PlaceColumn, PlaceBoth
<1> HIDE DEF m
<1> QED
  BY <1>1, <1>4, <1>5, SetLastType, SetLastBare DEF Moved

LEMMA CursorRightMoves ==
  ASSUME NEW s \in Screens
  PROVE  Moved(s, CursorRight(s))
<1> DEFINE r == RestoreLastCharacter(s)
           row == IF CheckCursorOverrun(r, "DOWN") THEN r.y ELSE r.y + 1
           m == IF CheckCursorOverrun(r, "RIGHT")
                THEN [r EXCEPT !.x = 0, !.y = row]
                ELSE [r EXCEPT !.x = r.x + 1]
<1>1. r \in Screens /\ (Lone(s) => Bare(r))
  BY RestoreType, RestoreBare
<1>2. row \in Rows /\ 0 \in Columns
  BY <1>1, Overrun, SizeAssumption DEF Rows, Columns, Screens
<1>3. ~CheckCursorOverrun(r, "RIGHT") => r.x + 1 \in Columns
  BY <1>1, Overrun, SizeAssumption DEF Columns, Screens
<1>4. CursorRight(s) = SetLastCharacter(m)
  BY DEF CursorRight
<1> HIDE DEF r, row
<1>5. m \in Screens /\ (Bare(r) => Bare(m))
  BY <1>1, <1>2, <1>3, PlaceColumn, PlaceBoth
<1> HIDE DEF m
<1> QED
  BY <1>1, <1>4, <1>5, SetLastType, SetLastBare DEF Moved

LEMMA CursorNewlineMoves ==
  ASSUME NEW s \in Screens
  PROVE  Moved(s, CursorNewline(s))
<1> DEFINE r == RestoreLastCharacter(s)
           t == CursorCarriageReturn(r)
           row == t.y + 1
<1>1. r \in Screens /\ (Lone(s) => Bare(r))
  BY RestoreType, RestoreBare
<1>2. 0 \in Columns
  BY SizeAssumption DEF Columns
<1>3. CursorNewline(s) = IF CheckCursorOverrun(t, "DOWN") THEN AddNewRow(t)
                         ELSE [t EXCEPT !.y = row]
  BY DEF CursorNewline
<1> HIDE DEF r
<1>4. t \in Screens /\ (Bare(r) => Bare(t))
  BY <1>1, <1>2, PlaceColumn DEF CursorCarriageReturn
<1> HIDE DEF t
<1>5. ~CheckCursorOverrun(t, "DOWN") => row \in Rows
  BY <1>4, Overrun, SizeAssumption DEF Rows, Screens
<1> HIDE DEF row
<1> QED
  BY <1>1, <1>3, <1>4, <1>5, PlaceRow, AddNewRowType, AddNewRowBare DEF Moved

-------------------------------------------------------------------------------
(***************************************************************************)
(* set_character and the timer's cycle_cursor.                             *)
(***************************************************************************)
LEMMA EraseMoves ==
  ASSUME NEW s \in Screens
  PROVE  Moved(s, SetCharacter(s, Backspace, TRUE))
<1> DEFINE t == CursorLeft(s)
<1>1. t \in Screens /\ (Lone(s) => Bare(t))
  BY CursorLeftMoves DEF Moved
<1>2. SetCharacter(s, Backspace, TRUE) = EraseHere(t)
  BY CharAssumption DEF SetCharacter
<1> HIDE DEF t
<1>3. Offset(t) \in Offsets
  BY <1>1, OffsetType
<1>4. EraseHere(t) \in Screens
  BY <1>1, CharFacts DEF EraseHere, Screens
<1>5. Bare(t) => Bare(EraseHere(t))
  BY <1>1, <1>3, CharAssumption DEF Bare, EraseHere, Screens
<1> QED
  BY <1>1, <1>2, <1>4, <1>5 DEF Moved

LEMMA NewlineMoves ==
  ASSUME NEW s \in Screens
  PROVE  Moved(s, SetCharacter(s, Newline, TRUE))
<1> DEFINE t == CursorNewline(s)
<1>1. t \in Screens /\ (Lone(s) => Bare(t))
  BY CursorNewlineMoves DEF Moved
<1>2. SetCharacter(s, Newline, TRUE) = [t EXCEPT !.last = Blank]
  BY CharAssumption DEF SetCharacter
<1> HIDE DEF t
<1> QED
  BY <1>1, <1>2, CharFacts, CharAssumption DEF Moved, Bare, Screens

LEMMA ReturnType ==
  ASSUME NEW s \in Screens
  PROVE  SetCharacter(s, Return, TRUE) \in Screens
<1>1. SetCharacter(s, Return, TRUE)
        = [CursorCarriageReturn(s) EXCEPT !.last = Blank]
  BY CharAssumption DEF SetCharacter
<1>2. 0 \in Columns
  BY SizeAssumption DEF Columns
<1> QED
  BY <1>1, <1>2, CharFacts DEF CursorCarriageReturn, Screens

LEMMA GlyphCases ==
  ASSUME NEW s \in Screens, NEW c \in Cells
  PROVE  /\ SetCharacter(s, c, TRUE) = CursorRight(SetGlyph(s, c))
         /\ SetCharacter(s, c, FALSE) = SetGlyph(s, c)
<1>1. c # Backspace /\ c # Newline /\ c # Return
  BY CharFacts
<1> QED
  BY <1>1 DEF SetCharacter

LEMMA SetGlyphLone ==
  ASSUME NEW s \in Screens, NEW c \in Cells, Lone(s)
  PROVE  Lone(SetGlyph(s, c))
<1>1. Offset(s) \in Offsets /\ Offset(SetGlyph(s, c)) = Offset(s)
  BY OffsetType DEF Offset, SetGlyph, Screens
<1> QED
  BY <1>1 DEF Lone, SetGlyph, Screens

LEMMA PrintMoves ==
  ASSUME NEW s \in Screens, NEW c \in Cells
  PROVE  Moved(s, SetCharacter(s, c, TRUE))
<1>1. SetGlyph(s, c) \in Screens /\ (Lone(s) => Lone(SetGlyph(s, c)))
  BY SetGlyphType, SetGlyphLone
<1>2. Moved(SetGlyph(s, c), CursorRight(SetGlyph(s, c)))
  BY <1>1, CursorRightMoves
<1> QED
  BY <1>1, <1>2, GlyphCases DEF Moved

LEMMA BlinkType ==
  ASSUME NEW s \in Screens
  PROVE  /\ CycleCursor(s) \in Screens
         /\ StrayFreeScreen(s) => StrayFreeScreen(CycleCursor(s))
<1>1. CASE ~s.enabled
  BY <1>1 DEF CycleCursor
<1>2. CASE s.enabled /\ s.showing
  <2> DEFINE r == RestoreLastCharacter(s)
  <2>1. r \in Screens /\ (StrayFreeScreen(s) => Bare(r))
    BY RestoreType, RestoreBare DEF StrayFreeScreen
  <2>2. CycleCursor(s) = [r EXCEPT !.showing = FALSE]
    BY <1>2 DEF CycleCursor
  <2> HIDE DEF r
  <2>3. CycleCursor(s) \in Screens /\ (Bare(r) => Bare(CycleCursor(s)))
    BY <2>1, <2>2 DEF Screens, Bare
  <2> QED
    BY <2>1, <2>3, BareIsStrayFree
<1>3. CASE s.enabled /\ ~s.showing
  <2> DEFINE t == SetLastCharacter(s)
             g == SetGlyph(t, CursorChar)
  <2>1. t \in Screens /\ t.showing = s.showing
    BY SetLastType DEF SetLastCharacter, Screens
  <2>2. g \in Screens
    BY <2>1, SetGlyphType, CharFacts
  <2>3. CycleCursor(s) = [g EXCEPT !.showing = TRUE]
    BY <1>3, <2>1, GlyphCases, CharFacts DEF CycleCursor
  <2>4. ASSUME StrayFreeScreen(s)
        PROVE  Lone(g)
    <3>1. Bare(s)
      BY <1>3, <2>4 DEF Bare, StrayFreeScreen, Lone, GetCharacter
    <3>2. Lone(t)
      BY <2>1, <3>1, SetLastBare, BareIsStrayFree
    <3> QED
      BY <2>1, <3>2, SetGlyphLone, CharFacts
  <2> HIDE DEF g
  <2> QED
    BY <2>2, <2>3, <2>4 DEF Screens, StrayFreeScreen, Lone, Offset
<1> QED
  BY <1>1, <1>2, <1>3 DEF Screens

LEMMA ClearType ==
  ASSUME NEW s \in Screens
  PROVE  /\ Clear(SetCursor(s, 0, 0)) \in Screens
         /\ StrayFreeScreen(s) => StrayFreeScreen(Clear(SetCursor(s, 0, 0)))
<1> DEFINE h == SetCursor(s, 0, 0)
           t == Clear(h)
<1>1. 0 \in Columns /\ 0 \in Rows /\ 0 < Width /\ 0 < Height
  BY SizeAssumption DEF Columns, Rows
<1>2. h = [s EXCEPT !.x = 0, !.y = 0]
  BY <1>1 DEF SetCursor
<1>3. h \in Screens /\ h.last = s.last
  BY <1>1, <1>2 DEF Screens
<1> HIDE DEF h
<1>4. [o \in Offsets |-> Blank] \in [Offsets -> Cells]
  BY CharFacts
<1>5. t \in Screens /\ t.last = s.last /\ t.mem = [o \in Offsets |-> Blank]
  <2>1. DOMAIN h.mem = Offsets
    BY <1>3 DEF Screens
  <2>2. t = [h EXCEPT !.mem = [o \in Offsets |-> Blank]]
    BY <2>1 DEF Clear
  <2> QED
    BY <1>3, <1>4, <2>2 DEF Screens
<1> HIDE DEF t
<1>6. StrayFreeScreen(s) => Bare(t)
  BY <1>5, CharAssumption DEF Bare, StrayFreeScreen, Lone
<1> QED
  BY <1>5, <1>6, BareIsStrayFree DEF t, h

-------------------------------------------------------------------------------
(***************************************************************************)
(* Where a move leads.  Depart(s, x, y) writes back the character that the *)
(* cursor hides, goes to (x, y) and saves the character found there.  All  *)
(* moves that do not scroll are one.                                       *)
(***************************************************************************)
Depart(s, x, y) == SetLastCharacter([RestoreLastCharacter(s) EXCEPT !.x = x, !.y = y])

LEMMA Restored ==
  ASSUME NEW s \in Screens
  PROVE  RestoreLastCharacter(s) = [s EXCEPT !.mem = [s.mem EXCEPT ![Offset(s)] = s.last]]
BY DEF RestoreLastCharacter, SetGlyph, Screens

LEMMA SameColumn ==
  ASSUME NEW s \in Screens, NEW y \in Rows
  PROVE  [RestoreLastCharacter(s) EXCEPT !.y = y]
           = [RestoreLastCharacter(s) EXCEPT !.x = s.x, !.y = y]
<1>1. RestoreLastCharacter(s) \in Screens /\ RestoreLastCharacter(s).x = s.x
  BY RestoreType, Restored DEF Screens
<1> QED
  BY <1>1 DEF Screens

LEMMA SameRow ==
  ASSUME NEW s \in Screens, NEW x \in Columns
  PROVE  [RestoreLastCharacter(s) EXCEPT !.x = x]
           = [RestoreLastCharacter(s) EXCEPT !.x = x, !.y = s.y]
<1>1. RestoreLastCharacter(s) \in Screens /\ RestoreLastCharacter(s).y = s.y
  BY RestoreType, Restored DEF Screens
<1> QED
  BY <1>1 DEF Screens

\* The record that a move leaves, field by field.
LEMMA DepartFields ==
  ASSUME NEW s \in Screens, NEW x \in Columns, NEW y \in Rows
  PROVE  /\ Depart(s, x, y) \in Screens
         /\ Depart(s, x, y).mem = [s.mem EXCEPT ![Offset(s)] = s.last]
         /\ Depart(s, x, y).x = x /\ Depart(s, x, y).y = y
         /\ Depart(s, x, y).last = Depart(s, x, y).mem[PositionToOffset(x, y)]
         /\ Depart(s, x, y).showing = s.showing
         /\ Depart(s, x, y).enabled = s.enabled
<1> DEFINE r == RestoreLastCharacter(s)
           m == [r EXCEPT !.x = x, !.y = y]
<1>1. r \in Screens /\ m \in Screens
  BY RestoreType, PlaceBoth
<1>2. r.mem = [s.mem EXCEPT ![Offset(s)] = s.last] /\ r.showing = s.showing
      /\ r.enabled = s.enabled
  BY Restored DEF Screens
<1> HIDE DEF r
<1>3. m.mem = r.mem /\ m.x = x /\ m.y = y /\ m.showing = r.showing /\ m.enabled = r.enabled
  BY <1>1 DEF Screens
<1>4. Depart(s, x, y) = SetLastCharacter(m)
  BY DEF Depart, r
<1> HIDE DEF m
<1>5. SetLastCharacter(m) = [m EXCEPT !.last = m.mem[PositionToOffset(x, y)]]
  BY <1>3 DEF SetLastCharacter, GetCharacter, Offset
<1> DEFINE d == Depart(s, x, y)
<1>6. d \in Screens
  BY <1>1, <1>4, SetLastType
<1>7. /\ d.mem = m.mem /\ d.x = m.x /\ d.y = m.y
      /\ d.last = m.mem[PositionToOffset(x, y)]
      /\ d.showing = m.showing /\ d.enabled = m.enabled
  BY <1>1, <1>4, <1>5 DEF Screens
<1> QED
  BY <1>2, <1>3, <1>6, <1>7

LEMMA DepartPlace ==
  ASSUME NEW s \in Screens, NEW x \in Columns, NEW y \in Rows
  PROVE  Depart(s, x, y) \in Screens /\ Depart(s, x, y).x = x /\ Depart(s, x, y).y = y
<1> DEFINE t == Depart(s, x, y)
<1>1. /\ t \in Screens /\ t.mem = [s.mem EXCEPT ![Offset(s)] = s.last]
      /\ t.x = x /\ t.y = y
  BY DepartFields
<1> QED
  BY <1>1

LEMMA MovesDepart ==
  ASSUME NEW s \in Screens
  PROVE  /\ CursorUp(s) = Depart(s, s.x, IF s.y = 0 THEN Height - 1 ELSE s.y - 1)
         /\ s.y # Height - 1 => CursorDown(s) = Depart(s, s.x, s.y + 1)
         /\ CursorLeft(s) =
              IF s.x # 0 THEN Depart(s, s.x - 1, s.y)
              ELSE Depart(s, Width - 1, IF s.y = 0 THEN s.y ELSE s.y - 1)
         /\ CursorRight(s) =
              IF s.x # Width - 1 THEN Depart(s, s.x + 1, s.y)
              ELSE Depart(s, 0, IF s.y = Height - 1 THEN s.y ELSE s.y + 1)
<1> DEFINE r == RestoreLastCharacter(s)
<1>1. r \in Screens /\ r.x = s.x /\ r.y = s.y /\ s.x \in Columns /\ s.y \in Rows
  BY RestoreType, Restored DEF Screens
<1>2. /\ CheckCursorOverrun(r, "UP") <=> s.y = 0
      /\ CheckCursorOverrun(r, "DOWN") <=> s.y = Height - 1
      /\ CheckCursorOverrun(r, "LEFT") <=> s.x = 0
      /\ CheckCursorOverrun(r, "RIGHT") <=> s.x = Width - 1
  BY <1>1, Overrun
<1>3. \A y \in Rows : [r EXCEPT !.y = y] = [r EXCEPT !.x = s.x, !.y = y]
  BY SameColumn
<1>4. \A x \in Columns : [r EXCEPT !.x = x] = [r EXCEPT !.x = x, !.y = s.y]
  BY SameRow
<1>5. /\ s.y # 0 => s.y - 1 \in Rows
      /\ s.y # Height - 1 => s.y + 1 \in Rows
      /\ s.x # 0 => s.x - 1 \in Columns
      /\ s.x # Width - 1 => s.x + 1 \in Columns
      /\ Height - 1 \in Rows
  BY <1>1, SizeAssumption DEF Rows, Columns
<1>6. CursorUp(s) = SetLastCharacter([r EXCEPT !.y = IF CheckCursorOverrun(r, "UP") THEN Height - 1 ELSE r.y - 1])
  BY DEF CursorUp
<1>7. CursorDown(s) = SetLastCharacter(IF CheckCursorOverrun(r, "DOWN") THEN AddNewRow(r)
                                       ELSE [r EXCEPT !.y = r.y + 1])
  BY DEF CursorDown
<1>8. CursorLeft(s) = SetLastCharacter(
        IF CheckCursorOverrun(r, "LEFT")
        THEN [r EXCEPT !.x = Width - 1, !.y = IF CheckCursorOverrun(r, "UP") THEN r.y ELSE r.y - 1]
        ELSE [r EXCEPT !.x = r.x - 1])
  BY DEF CursorLeft
<1>9. CursorRight(s) = SetLastCharacter(
        IF CheckCursorOverrun(r, "RIGHT")
        THEN [r EXCEPT !.x = 0, !.y = IF CheckCursorOverrun(r, "DOWN") THEN r.y ELSE r.y + 1]
        ELSE [r EXCEPT !.x = r.x + 1])
  BY DEF CursorRight
<1> HIDE DEF r
<1>10. \A x, y : Depart(s, x, y) = SetLastCharacter([r EXCEPT !.x = x, !.y = y])
  BY DEF Depart, r
<1>11. CursorUp(s) = Depart(s, s.x, IF s.y = 0 THEN Height - 1 ELSE s.y - 1)
  <2> DEFINE row == IF s.y = 0 THEN Height - 1 ELSE s.y - 1
  <2>1. row \in Rows
    BY <1>5
  <2>2. (IF CheckCursorOverrun(r, "UP") THEN Height - 1 ELSE r.y - 1) = row
    BY <1>1, <1>2
  <2>3. CursorUp(s) = SetLastCharacter([r EXCEPT !.y = row])
    BY <1>6, <2>2
  <2> HIDE DEF row
  <2>4. [r EXCEPT !.y = row] = [r EXCEPT !.x = s.x, !.y = row]
    BY <1>3, <2>1
  <2>5. CursorUp(s) = Depart(s, s.x, row)
    BY <1>10, <2>3, <2>4, Zenon
  <2> QED
    BY <2>5 DEF row
<1>12. s.y # Height - 1 => CursorDown(s) = Depart(s, s.x, s.y + 1)
  <2> SUFFICES ASSUME s.y # Height - 1
               PROVE  CursorDown(s) = Depart(s, s.x, s.y + 1)
    OBVIOUS
  <2>1. CursorDown(s) = SetLastCharacter([r EXCEPT !.y = s.y + 1])
    BY <1>1, <1>2, <1>7
  <2>2. [r EXCEPT !.y = s.y + 1] = [r EXCEPT !.x = s.x, !.y = s.y + 1]
    BY <1>3, <1>5
  <2> QED
    BY <1>10, <2>1, <2>2, Zenon
<1>13. CursorLeft(s) = IF s.x # 0 THEN Depart(s, s.x - 1, s.y)
                       ELSE Depart(s, Width - 1, IF s.y = 0 THEN s.y ELSE s.y - 1)
  <2>1. CASE s.x = 0
    <3>1. (IF CheckCursorOverrun(r, "UP") THEN r.y ELSE r.y - 1)
            = (IF s.y = 0 THEN s.y ELSE s.y - 1)
      BY <1>1, <1>2
    <3>2. CursorLeft(s) = SetLastCharacter(
            [r EXCEPT !.x = Width - 1, !.y = IF s.y = 0 THEN s.y ELSE s.y - 1])
      BY <1>2, <1>8, <2>1, <3>1
    <3> QED
      BY <1>10, <2>1, <3>2, Zenon
  <2>2. CASE s.x # 0
    <3>1. CursorLeft(s) = SetLastCharacter([r EXCEPT !.x = s.x - 1])
      BY <1>1, <1>2, <1>8, <2>2
    <3>2. [r EXCEPT !.x = s.x - 1] = [r EXCEPT !.x = s.x - 1, !.y = s.y]
      BY <1>4, <1>5, <2>2
    <3>3. Depart(s, s.x - 1, s.y) = SetLastCharacter([r EXCEPT !.x = s.x - 1, !.y = s.y])
      BY <1>10, Zenon
    <3>4. CursorLeft(s) = Depart(s, s.x - 1, s.y)
      BY <3>1, <3>2, <3>3
    <3> QED
      BY <2>2, <3>4
  <2> QED
    BY <2>1, <2>2
<1>14. CursorRight(s) = IF s.x # Width - 1 THEN Depart(s, s.x + 1, s.y)
                        ELSE Depart(s, 0, IF s.y = Height - 1 THEN s.y ELSE s.y + 1)
  <2>1. CASE s.x = Width - 1
    <3>1. (IF CheckCursorOverrun(r, "DOWN") THEN r.y ELSE r.y + 1)
            = (IF s.y = Height - 1 THEN s.y ELSE s.y + 1)
      BY <1>1, <1>2
    <3>2. CursorRight(s) = SetLastCharacter(
            [r EXCEPT !.x = 0, !.y = IF s.y = Height - 1 THEN s.y ELSE s.y + 1])
      BY <1>2, <1>9, <2>1, <3>1
    <3> QED
      BY <1>10, <2>1, <3>2, Zenon
  <2>2. CASE s.x # Width - 1
    <3>1. CursorRight(s) = SetLastCharacter([r EXCEPT !.x = s.x + 1])
      BY <1>1, <1>2, <1>9, <2>2
    <3>2. [r EXCEPT !.x = s.x + 1] = [r EXCEPT !.x = s.x + 1, !.y = s.y]
      BY <1>4, <1>5, <2>2
    <3>3. Depart(s, s.x + 1, s.y) = SetLastCharacter([r EXCEPT !.x = s.x + 1, !.y = s.y])
      BY <1>10, Zenon
    <3>4. CursorRight(s) = Depart(s, s.x + 1, s.y)
      BY <3>1, <3>2, <3>3
    <3> QED
      BY <2>2, <3>4
  <2> QED
    BY <2>1, <2>2
<1> QED
  BY <1>11, <1>12, <1>13, <1>14

\* Leaving and coming back only lifts the cursor.
LEMMA ThereAndBack ==
  ASSUME NEW s \in Screens, NEW x \in Columns, NEW y \in Rows
  PROVE  Depart(Depart(s, x, y), s.x, s.y) = RestoreLastCharacter(s)
<1> DEFINE t == Depart(s, x, y)
           u == Depart(t, s.x, s.y)
<1>1. s.x \in Columns /\ s.y \in Rows /\ s.mem \in [Offsets -> Cells] /\ Offset(s) \in Offsets
  BY OffsetType DEF Screens
<1>2. /\ t \in Screens /\ t.mem = [s.mem EXCEPT ![Offset(s)] = s.last]
      /\ t.x = x /\ t.y = y /\ t.last = t.mem[PositionToOffset(x, y)]
      /\ t.showing = s.showing /\ t.enabled = s.enabled
  BY DepartFields
<1> HIDE DEF t
<1>3. /\ u \in Screens /\ u.mem = [t.mem EXCEPT ![Offset(t)] = t.last]
      /\ u.x = s.x /\ u.y = s.y /\ u.last = u.mem[Offset(s)]
      /\ u.showing = t.showing /\ u.enabled = t.enabled
  BY <1>1, <1>2, DepartFields DEF Offset
<1> HIDE DEF u
<1>4. u.mem = t.mem
  <2>1. Offset(t) = PositionToOffset(x, y) /\ t.mem \in [Offsets -> Cells]
    BY <1>2 DEF Offset, Screens
  <2> QED
    BY <1>2, <1>3, <2>1
<1>5. u.last = s.last
  BY <1>1, <1>2, <1>3, <1>4
<1>6. u = [s EXCEPT !.mem = [s.mem EXCEPT ![Offset(s)] = s.last]]
  BY <1>2, <1>3, <1>4, <1>5 DEF Screens
<1> QED
  BY <1>6, Restored DEF t, u

\* The memory with the cursor taken off.
WithoutCursor(s) == [s.mem EXCEPT ![Offset(s)] = s.last]

\* The next cell and the previous one.
Advances(s, t) ==
  \/ s.x + 1 < Width /\ t.x = s.x + 1 /\ t.y = s.y
  \/ s.x + 1 = Width /\ s.y + 1 < Height /\ t.x = 0 /\ t.y = s.y + 1
  \/ s.x + 1 = Width /\ s.y + 1 = Height /\ t.x = 0 /\ t.y = s.y

Retreats(s, t) ==
  \/ s.x > 0 /\ t.x = s.x - 1 /\ t.y = s.y
  \/ s.x = 0 /\ s.y > 0 /\ t.x = Width - 1 /\ t.y = s.y - 1
  \/ s.x = 0 /\ s.y = 0 /\ t.x = Width - 1 /\ t.y = s.y

LEMMA Fields ==
  ASSUME NEW s \in Screens
  PROVE  /\ s.mem \in [Offsets -> Cells] /\ s.x \in Columns /\ s.y \in Rows
         /\ s.last \in Cells /\ s.showing \in BOOLEAN /\ Offset(s) \in Offsets
         /\ GetCharacter(s) = s.mem[Offset(s)]
BY OffsetType DEF Screens, GetCharacter

LEMMA Places ==
  ASSUME NEW s \in Screens
  PROVE  /\ s.x \in Int /\ s.y \in Int /\ 0 <= s.x /\ s.x < Width /\ 0 <= s.y /\ s.y < Height
         /\ s.y # 0 => s.y - 1 \in Rows
         /\ s.y # Height - 1 => s.y + 1 \in Rows
         /\ s.x # 0 => s.x - 1 \in Columns
         /\ s.x # Width - 1 => s.x + 1 \in Columns
         /\ 0 \in Columns /\ Width - 1 \in Columns /\ Height - 1 \in Rows
BY Fields, SizeAssumption DEF Rows, Columns

LEMMA RightGoes ==
  ASSUME NEW s \in Screens
  PROVE  /\ CursorRight(s) \in Screens /\ Advances(s, CursorRight(s))
         /\ CursorRight(s).mem = WithoutCursor(s)
         /\ GetCharacter(CursorRight(s)) = CursorRight(s).last
<1> DEFINE t == CursorRight(s)
           column == IF s.x # Width - 1 THEN s.x + 1 ELSE 0
           row == IF s.x # Width - 1 \/ s.y = Height - 1 THEN s.y ELSE s.y + 1
<1>1. column \in Columns /\ row \in Rows
  BY Places, Fields
<1>2. t = Depart(s, column, row)
  BY MovesDepart
<1> HIDE DEF t
<1>3. /\ t \in Screens /\ t.mem = WithoutCursor(s) /\ t.x = column /\ t.y = row
      /\ t.last = t.mem[PositionToOffset(column, row)]
  <2> HIDE DEF column, row
  <2> QED
    BY <1>1, <1>2, DepartFields DEF WithoutCursor
<1>4. Advances(s, t)
  BY <1>3, Places, SizeAssumption DEF Advances
<1>5. GetCharacter(t) = t.last
  BY <1>3 DEF GetCharacter, Offset
<1> QED
  BY <1>3, <1>4, <1>5 DEF t

LEMMA LeftGoes ==
  ASSUME NEW s \in Screens
  PROVE  /\ CursorLeft(s) \in Screens /\ Retreats(s, CursorLeft(s))
         /\ CursorLeft(s).mem = WithoutCursor(s)
         /\ GetCharacter(CursorLeft(s)) = CursorLeft(s).last
<1> DEFINE t == CursorLeft(s)
           column == IF s.x # 0 THEN s.x - 1 ELSE Width - 1
           row == IF s.x # 0 \/ s.y = 0 THEN s.y ELSE s.y - 1
<1>1. column \in Columns /\ row \in Rows
  BY Places, Fields
<1>2. t = Depart(s, column, row)
  BY MovesDepart
<1> HIDE DEF t
<1>3. /\ t \in Screens /\ t.mem = WithoutCursor(s) /\ t.x = column /\ t.y = row
      /\ t.last = t.mem[PositionToOffset(column, row)]
  <2> HIDE DEF column, row
  <2> QED
    BY <1>1, <1>2, DepartFields DEF WithoutCursor
<1>4. Retreats(s, t)
  BY <1>3, Places, SizeAssumption DEF Retreats
<1>5. GetCharacter(t) = t.last
  BY <1>3 DEF GetCharacter, Offset
<1> QED
  BY <1>3, <1>4, <1>5 DEF t

-------------------------------------------------------------------------------
(***************************************************************************)
(* The same for set_character and cycle_cursor: which cells change, and    *)
(* where the cursor goes.                                                  *)
(***************************************************************************)
LEMMA SetCharacterType ==
  ASSUME NEW s \in Screens, NEW c \in Chars
  PROVE  SetCharacter(s, c, TRUE) \in Screens
<1>1. CASE c \in Cells
  BY <1>1, PrintMoves DEF Moved
<1>2. CASE c \in Controls
  BY <1>2, EraseMoves, NewlineMoves, ReturnType DEF Moved, Controls
<1> QED
  BY <1>1, <1>2 DEF Chars

LEMMA GlyphFields ==
  ASSUME NEW s \in Screens, NEW c \in Cells \ {CursorChar}
  PROVE  /\ SetGlyph(s, c) \in Screens
         /\ SetGlyph(s, c).mem = [s.mem EXCEPT ![Offset(s)] = c]
         /\ SetGlyph(s, c).last = c
         /\ SetGlyph(s, c).x = s.x /\ SetGlyph(s, c).y = s.y
         /\ WithoutCursor(SetGlyph(s, c)) = [s.mem EXCEPT ![Offset(s)] = c]
<1> DEFINE t == SetGlyph(s, c)
<1>1. t = [s EXCEPT !.mem = [s.mem EXCEPT ![Offset(s)] = c], !.last = c] /\ t \in Screens
  BY SetGlyphType DEF SetGlyph
<1> HIDE DEF t
<1>2. /\ t.mem = [s.mem EXCEPT ![Offset(s)] = c] /\ t.last = c
      /\ t.x = s.x /\ t.y = s.y /\ Offset(t) = Offset(s)
  BY <1>1 DEF Screens, Offset
<1>3. WithoutCursor(t) = t.mem
  BY <1>2, Fields DEF WithoutCursor
<1> QED
  BY <1>1, <1>2, <1>3 DEF t

LEMMA PrintGoes ==
  ASSUME NEW s \in Screens, NEW c \in Cells \ {CursorChar}
  PROVE  /\ SetCharacter(s, c, TRUE) \in Screens
         /\ Advances(s, SetCharacter(s, c, TRUE))
         /\ SetCharacter(s, c, TRUE).mem = [s.mem EXCEPT ![Offset(s)] = c]
<1> DEFINE g == SetGlyph(s, c)
           t == CursorRight(g)
<1>1. /\ g \in Screens /\ g.x = s.x /\ g.y = s.y
      /\ WithoutCursor(g) = [s.mem EXCEPT ![Offset(s)] = c]
  BY GlyphFields
<1> HIDE DEF g
<1>2. t \in Screens /\ Advances(g, t) /\ t.mem = WithoutCursor(g)
  BY <1>1, RightGoes
<1> HIDE DEF t
<1>3. Advances(s, t)
  BY <1>1, <1>2 DEF Advances
<1>4. SetCharacter(s, c, TRUE) = t
  BY GlyphCases DEF t, g
<1> QED
  BY <1>1, <1>2, <1>3, <1>4

LEMMA EraseGoes ==
  ASSUME NEW s \in Screens
  PROVE  LET t == SetCharacter(s, Backspace, TRUE)
         IN  /\ t \in Screens /\ Retreats(s, t) /\ t.last = Blank
             /\ t.mem = [WithoutCursor(s) EXCEPT ![Offset(t)] = Blank]
<1> DEFINE l == CursorLeft(s)
           t == SetCharacter(s, Backspace, TRUE)
<1>1. l \in Screens /\ Retreats(s, l) /\ l.mem = WithoutCursor(s)
  BY LeftGoes
<1>2. t \in Screens
  BY EraseMoves DEF Moved
<1>3. t = [l EXCEPT !.mem = [l.mem EXCEPT ![Offset(l)] = Blank], !.last = Blank]
  BY CharAssumption DEF SetCharacter, EraseHere
<1> HIDE DEF l, t
<1>4. /\ t.mem = [l.mem EXCEPT ![Offset(l)] = Blank] /\ t.last = Blank
      /\ t.x = l.x /\ t.y = l.y /\ Offset(t) = Offset(l)
  BY <1>1, <1>3 DEF Screens, Offset
<1>5. Retreats(s, t)
  BY <1>1, <1>4 DEF Retreats
<1> QED
  BY <1>1, <1>2, <1>4, <1>5 DEF t

LEMMA BlinkGoes ==
  ASSUME NEW s \in Screens
  PROVE  /\ CycleCursor(s) \in Screens
         /\ CycleCursor(s).x = s.x /\ CycleCursor(s).y = s.y
         /\ \A o \in Offsets \ {Offset(s)} : CycleCursor(s).mem[o] = s.mem[o]
<1>1. CASE ~s.enabled
  BY <1>1 DEF CycleCursor
<1>2. CASE s.enabled /\ s.showing
  <2> DEFINE r == RestoreLastCharacter(s)
             t == CycleCursor(s)
  <2>1. /\ r \in Screens /\ r.mem = [s.mem EXCEPT ![Offset(s)] = s.last]
        /\ r.x = s.x /\ r.y = s.y
    BY RestoreType, Restored DEF Screens
  <2>2. t = [r EXCEPT !.showing = FALSE]
    BY <1>2 DEF CycleCursor
  <2> HIDE DEF r
  <2>3. t \in Screens /\ t.mem = r.mem /\ t.x = s.x /\ t.y = s.y
    BY <2>1, <2>2 DEF Screens
  <2> HIDE DEF t
  <2>4. \A o \in Offsets \ {Offset(s)} : t.mem[o] = s.mem[o]
    BY <2>1, <2>3, Fields
  <2> QED
    BY <2>3, <2>4 DEF t
<1>3. CASE s.enabled /\ ~s.showing
  <2> DEFINE u == SetLastCharacter(s)
             g == SetGlyph(u, CursorChar)
             t == CycleCursor(s)
  <2>1. u \in Screens /\ u = [s EXCEPT !.last = GetCharacter(s)]
    BY SetLastType DEF SetLastCharacter
  <2>2. t = [g EXCEPT !.showing = TRUE]
    BY <1>3, <2>1, GlyphCases, CharFacts DEF CycleCursor
  <2>3. g = [u EXCEPT !.mem = [u.mem EXCEPT ![Offset(u)] = CursorChar], !.last = u.last]
        /\ g \in Screens
    BY <2>1, SetGlyphType, CharFacts DEF SetGlyph
  <2> HIDE DEF u
  <2>4. u.mem = s.mem /\ u.x = s.x /\ u.y = s.y /\ Offset(u) = Offset(s)
    BY <2>1 DEF Screens, Offset
  <2> HIDE DEF g
  <2>5. g.mem = [s.mem EXCEPT ![Offset(s)] = CursorChar] /\ g.x = s.x /\ g.y = s.y
    BY <2>1, <2>3, <2>4 DEF Screens
  <2>6. t \in Screens /\ t.mem = g.mem /\ t.x = s.x /\ t.y = s.y
    BY <2>2, <2>3, <2>5 DEF Screens
  <2> HIDE DEF t
  <2>7. \A o \in Offsets \ {Offset(s)} : t.mem[o] = s.mem[o]
    BY <2>5, <2>6, Fields
  <2> QED
    BY <2>6, <2>7 DEF t
<1> QED
  BY <1>1, <1>2, <1>3 DEF Screens

\* The next cell has the next offset, but behind the last cell.
LEMMA NextOffset ==
  ASSUME NEW s \in Screens, NEW t \in Screens, Advances(s, t), Offset(s) # Width * Height - 1
  PROVE  Offset(t) = Offset(s) + 1
<1>1. ASSUME NEW w \in Nat, NEW h \in Nat, NEW x \in Int, NEW y \in Int,
             NEW u \in Int, NEW v \in Int, x + y * w # w * h - 1,
             \/ x + 1 < w /\ u = x + 1 /\ v = y
             \/ x + 1 = w /\ y + 1 < h /\ u = 0 /\ v = y + 1
             \/ x + 1 = w /\ y + 1 = h /\ u = 0 /\ v = y
      PROVE  u + v * w = x + y * w + 1
  <2>1. CASE x + 1 < w /\ u = x + 1 /\ v = y
    BY <2>1
  <2>2. CASE x + 1 = w /\ u = 0 /\ v = y + 1
    BY <2>2
  <2>3. CASE x + 1 = w /\ y + 1 = h
    <3>1. w * h - 1 = w * (y + 1) - 1
      BY <2>3
    <3>2. w * (y + 1) - 1 = x + y * w
      BY <2>3
    <3> QED
      BY <1>1, <3>1, <3>2
  <2> QED
    BY <1>1, <2>1, <2>2, <2>3
<1>2. Width \in Nat /\ Height \in Nat /\ s.x \in Int /\ s.y \in Int /\ t.x \in Int /\ t.y \in Int
  BY SizeAssumption, Places
<1>3. s.x + s.y * Width # Width * Height - 1
  BY DEF Offset, PositionToOffset
<1>4. \/ s.x + 1 < Width /\ t.x = s.x + 1 /\ t.y = s.y
      \/ s.x + 1 = Width /\ s.y + 1 < Height /\ t.x = 0 /\ t.y = s.y + 1
      \/ s.x + 1 = Width /\ s.y + 1 = Height /\ t.x = 0 /\ t.y = s.y
  BY DEF Advances
<1>5. t.x + t.y * Width = s.x + s.y * Width + 1
  BY <1>1, <1>2, <1>3, <1>4
<1> QED
  BY <1>5 DEF Offset, PositionToOffset

LEMMA PreviousOffset ==
  ASSUME NEW s \in Screens, NEW t \in Screens, Retreats(s, t)
  PROVE  Offset(s) # 0 => Offset(t) = Offset(s) - 1
<1>1. ASSUME NEW w \in Nat, NEW x \in Int, NEW y \in Int,
             NEW u \in Int, NEW v \in Int, x + y * w # 0,
             \/ x > 0 /\ u = x - 1 /\ v = y
             \/ x = 0 /\ y > 0 /\ u = w - 1 /\ v = y - 1
             \/ x = 0 /\ y = 0 /\ u = w - 1 /\ v = y
      PROVE  u + v * w = x + y * w - 1
  <2>1. CASE x > 0 /\ u = x - 1 /\ v = y
    BY <2>1
  <2>2. CASE x = 0 /\ u = w - 1 /\ v = y - 1
    BY <2>2
  <2>3. CASE x = 0 /\ y = 0
    BY <1>1, <2>3
  <2> QED
    BY <1>1, <2>1, <2>2, <2>3
<1>2. Width \in Nat /\ s.x \in Int /\ s.y \in Int /\ t.x \in Int /\ t.y \in Int
  BY SizeAssumption, Places
<1> QED
  BY <1>1, <1>2 DEF Retreats, Offset, PositionToOffset

===============================================================================
