----------------------------- MODULE ConsoleProofs -----------------------------
(***************************************************************************)
(* Proofs about the screen under interrupts, for a screen of any size and  *)
(* any number of interrupts anywhere in print_screen: how far the cursor   *)
(* can get off the screen, that an undisturbed call is the operator        *)
(* SetCharacter, and that the damage a blink does is local.                *)
(***************************************************************************)
EXTENDS Console, VideoControlProofs

\* The objects there can be: the cursor one column or one row off the screen.
WideScreens == [mem     : [Reach -> Cells],
                x       : 0 .. Width,
                y       : 0 .. Height,
                last    : Cells,
                showing : BOOLEAN,
                enabled : BOOLEAN]

-------------------------------------------------------------------------------
(***************************************************************************)
(* Arithmetic.  Wherever the cursor is, its cell is in Reach.              *)
(***************************************************************************)
LEMMA SizeFacts ==
  /\ Width \in Nat /\ Width > 0 /\ Height \in Nat /\ Height > 0
  /\ LastRow \in Int /\ Width * Height \in Nat
  /\ LastRow = Height * Width - Width /\ Width * Height = Height * Width
  /\ Width * (Height + 1) = Width * Height + Width
  /\ Reach = 0 .. (Width * Height + Width)
  /\ LastRow >= 0
<1>1. Width \in Nat /\ Width > 0 /\ Height \in Nat /\ Height > 0
  BY SizeAssumption
<1>2. ASSUME NEW w \in Nat, w > 0, NEW h \in Nat, h > 0
      PROVE  /\ w * (h - 1) \in Int /\ w * h \in Nat
             /\ w * (h - 1) = h * w - w /\ w * h = h * w
             /\ w * (h + 1) = w * h + w
             /\ w * (h - 1) >= 0
  BY <1>2
<1> QED
  BY <1>1, <1>2 DEF LastRow, Reach

\* Rows of cells: order is preserved and reflected by the product.
LEMMA RowOrder ==
  /\ \A r \in Nat : r * Width \in Nat
  /\ \A r \in Int : r * Width \in Int /\ (r + 1) * Width = r * Width + Width
  /\ \A r, q \in Int : r <= q => r * Width <= q * Width
  /\ \A r, q \in Int : r * Width < q * Width => r < q
<1>1. ASSUME NEW w \in Nat, w > 0, NEW r \in Nat
      PROVE  r * w \in Nat
  BY <1>1
<1>2. ASSUME NEW w \in Nat, w > 0, NEW r \in Int
      PROVE  r * w \in Int /\ (r + 1) * w = r * w + w
  BY <1>2
<1>3. ASSUME NEW w \in Nat, w > 0, NEW r \in Int, NEW q \in Int, r <= q
      PROVE  r * w <= q * w
  BY <1>3
<1>4. ASSUME NEW w \in Nat, w > 0, NEW r \in Int, NEW q \in Int, r * w < q * w
      PROVE  r < q
  BY <1>4
<1>5. Width \in Nat /\ Width > 0
  BY SizeAssumption
<1> QED
  BY <1>1, <1>2, <1>3, <1>4, <1>5

\* The row of a cell.
LEMMA RowOf ==
  ASSUME NEW o \in Nat
  PROVE  /\ o \div Width \in Nat
         /\ (o \div Width) * Width <= o /\ o < (o \div Width) * Width + Width
<1>1. ASSUME NEW w \in Nat, w > 0
      PROVE  /\ o \div w \in Nat
             /\ (o \div w) * w <= o /\ o < (o \div w) * w + w
  BY <1>1
<1> QED
  BY <1>1, SizeAssumption

LEMMA WideOffset ==
  ASSUME NEW x \in 0 .. Width, NEW y \in 0 .. Height
  PROVE  PositionToOffset(x, y) \in Reach /\ y * Width \in Reach
<1>1. 0 <= y * Width /\ y * Width <= Height * Width /\ y * Width \in Int
  BY SizeFacts, RowOrder
<1> QED
  BY <1>1, SizeFacts DEF PositionToOffset

-------------------------------------------------------------------------------
(***************************************************************************)
(* The methods on such an object.                                          *)
(***************************************************************************)
LEMMA WideFields ==
  ASSUME NEW s \in WideScreens
  PROVE  /\ s.mem \in [Reach -> Cells] /\ s.x \in 0 .. Width /\ s.y \in 0 .. Height
         /\ s.last \in Cells /\ s.showing \in BOOLEAN /\ s.enabled \in BOOLEAN
         /\ Offset(s) \in Reach /\ GetCharacter(s) \in Cells
<1>1. /\ s.mem \in [Reach -> Cells] /\ s.x \in 0 .. Width /\ s.y \in 0 .. Height
      /\ s.last \in Cells /\ s.showing \in BOOLEAN /\ s.enabled \in BOOLEAN
  BY DEF WideScreens
<1>2. Offset(s) \in Reach
  BY <1>1, WideOffset DEF Offset
<1> QED
  BY <1>1, <1>2 DEF GetCharacter

\* A store to one field.
LEMMA WideStores ==
  ASSUME NEW s \in WideScreens
  PROVE  /\ \A o \in Reach, c \in Cells : [s EXCEPT !.mem[o] = c] \in WideScreens
         /\ \A m \in [Reach -> Cells] : [s EXCEPT !.mem = m] \in WideScreens
         /\ \A x \in 0 .. Width : [s EXCEPT !.x = x] \in WideScreens
         /\ \A y \in 0 .. Height : [s EXCEPT !.y = y] \in WideScreens
         /\ \A c \in Cells : [s EXCEPT !.last = c] \in WideScreens
         /\ \A b \in BOOLEAN : [s EXCEPT !.showing = b] \in WideScreens
         /\ \A x \in 0 .. Width, y \in 0 .. Height :
              [s EXCEPT !.x = x, !.y = y] \in WideScreens
BY DEF WideScreens

LEMMA WideGlyph ==
  ASSUME NEW s \in WideScreens, NEW c \in Cells
  PROVE  /\ SetGlyph(s, c) \in WideScreens
         /\ SetGlyph(s, c).x = s.x /\ SetGlyph(s, c).y = s.y
         /\ SetGlyph(s, c).mem = [s.mem EXCEPT ![Offset(s)] = c]
<1> DEFINE o == Offset(s)
           l == IF c = CursorChar THEN s.last ELSE c
<1>1. o \in Reach /\ l \in Cells
  BY WideFields
<1>2. SetGlyph(s, c) = [s EXCEPT !.mem[o] = c, !.last = l]
  BY DEF SetGlyph, WideScreens
<1> HIDE DEF o, l
<1>3. SetGlyph(s, c) \in WideScreens /\ SetGlyph(s, c).x = s.x /\ SetGlyph(s, c).y = s.y
      /\ SetGlyph(s, c).mem = [s.mem EXCEPT ![o] = c]
  BY <1>1, <1>2 DEF WideScreens
<1> QED
  BY <1>3 DEF o

LEMMA WideRestore ==
  ASSUME NEW s \in WideScreens
  PROVE  /\ RestoreLastCharacter(s) \in WideScreens
         /\ RestoreLastCharacter(s).x = s.x /\ RestoreLastCharacter(s).y = s.y
         /\ RestoreLastCharacter(s).mem = [s.mem EXCEPT ![Offset(s)] = s.last]
<1>1. s.last \in Cells
  BY WideFields
<1> QED
  BY <1>1, WideGlyph DEF RestoreLastCharacter

LEMMA WideSave ==
  ASSUME NEW s \in WideScreens
  PROVE  /\ SetLastCharacter(s) \in WideScreens
         /\ SetLastCharacter(s).x = s.x /\ SetLastCharacter(s).y = s.y
         /\ SetLastCharacter(s).mem = s.mem
<1>1. GetCharacter(s) \in Cells
  BY WideFields
<1> QED
  BY <1>1 DEF SetLastCharacter, WideScreens

LEMMA WideNewRow ==
  ASSUME NEW s \in WideScreens
  PROVE  /\ AddNewRow(s) \in WideScreens
         /\ AddNewRow(s).x = s.x /\ AddNewRow(s).y = s.y
<1> DEFINE cell(o) == IF o \in LastRow .. (Width * Height - 1) THEN Blank
                      ELSE IF o < LastRow /\ RowCopied(o) THEN s.mem[o + Width]
                      ELSE s.mem[o]
<1>1. ASSUME NEW o \in Reach
      PROVE  cell(o) \in Cells
  <2>1. o < LastRow => o + Width \in Reach
    BY SizeFacts
  <2> QED
    BY <2>1, CharFacts, WideFields
<1>2. AddNewRow(s) = [s EXCEPT !.mem = [o \in Reach |-> cell(o)]]
  <2>1. DOMAIN s.mem = Reach
    BY WideFields
  <2> QED
    BY <2>1 DEF AddNewRow
<1> HIDE DEF cell
<1>3. [o \in Reach |-> cell(o)] \in [Reach -> Cells]
  BY <1>1
<1> QED
  BY <1>2, <1>3 DEF WideScreens

-------------------------------------------------------------------------------
(***************************************************************************)
(* The handlers.  None of them takes a coordinate off the screen: they     *)
(* look at it and change it in one step.                                   *)
(***************************************************************************)
Tame(s, t) ==
  /\ t \in WideScreens
  /\ s.x # Width => t.x # Width
  /\ s.y # Height => t.y # Height

\* Restore, move, save: the moves between the two are tame, so the whole is.
LEMMA TameMove ==
  ASSUME NEW s \in WideScreens, NEW m, Tame(RestoreLastCharacter(s), m)
  PROVE  Tame(s, SetLastCharacter(m))
BY WideRestore, WideSave DEF Tame

LEMMA TamePlace ==
  ASSUME NEW s \in WideScreens, NEW x \in 0 .. Width, NEW y \in 0 .. Height,
         s.x # Width => x # Width, s.y # Height => y # Height
  PROVE  /\ Tame(s, [s EXCEPT !.x = x]) /\ Tame(s, [s EXCEPT !.y = y])
         /\ Tame(s, [s EXCEPT !.x = x, !.y = y])
BY DEF Tame, WideScreens

LEMMA UpTame ==
  ASSUME NEW s \in WideScreens
  PROVE  Tame(s, CursorUp(s))
<1> DEFINE r == RestoreLastCharacter(s)
           row == IF CheckCursorOverrun(r, "UP") THEN Height - 1 ELSE r.y - 1
           m == [r EXCEPT !.y = row]
<1>1. r \in WideScreens
  BY WideRestore
<1>2. row \in 0 .. Height /\ row # Height
  BY <1>1, SizeFacts, WideFields DEF CheckCursorOverrun
<1>3. CursorUp(s) = SetLastCharacter(m)
  BY DEF CursorUp
<1> HIDE DEF row
<1>4. Tame(r, m)
  <2> HIDE DEF r
  <2>1. r.x \in 0 .. Width
    BY <1>1, WideFields
  <2> QED
    BY <1>1, <1>2, <2>1, TamePlace
<1> HIDE DEF m
<1> QED
  BY <1>3, <1>4, TameMove

LEMMA DownTame ==
  ASSUME NEW s \in WideScreens
  PROVE  Tame(s, CursorDown(s))
<1> DEFINE r == RestoreLastCharacter(s)
           row == r.y + 1
           m == IF CheckCursorOverrun(r, "DOWN") THEN AddNewRow(r)
                ELSE [r EXCEPT !.y = row]
<1>1. r \in WideScreens
  BY WideRestore
<1>2. CheckCursorOverrun(r, "DOWN") \/ (row \in 0 .. Height /\ row # Height)
  BY <1>1, SizeFacts, WideFields DEF CheckCursorOverrun
<1>3. CursorDown(s) = SetLastCharacter(m)
  BY DEF CursorDown
<1> HIDE DEF row
<1>4. Tame(r, m)
  <2> HIDE DEF r
  <2>1. r.x \in 0 .. Width
    BY <1>1, WideFields
  <2>2. CASE CheckCursorOverrun(r, "DOWN")
    BY <1>1, <2>2, WideNewRow DEF Tame
  <2>3. CASE ~CheckCursorOverrun(r, "DOWN")
    BY <1>1, <1>2, <2>1, <2>3, TamePlace
  <2> QED
    BY <2>2, <2>3
<1> HIDE DEF m
<1> QED
  BY <1>3, <1>4, TameMove

LEMMA LeftTame ==
  ASSUME NEW s \in WideScreens
  PROVE  Tame(s, CursorLeft(s))
<1> DEFINE r == RestoreLastCharacter(s)
           row == IF CheckCursorOverrun(r, "UP") THEN r.y ELSE r.y - 1
           m == IF CheckCursorOverrun(r, "LEFT")
                THEN [r EXCEPT !.x = Width - 1, !.y = row]
                ELSE [r EXCEPT !.x = r.x - 1]
<1>1. r \in WideScreens /\ r.x \in 0 .. Width /\ r.y \in 0 .. Height
  BY WideRestore, WideFields
<1>2. row \in 0 .. Height /\ (r.y # Height => row # Height)
  BY <1>1, SizeFacts DEF CheckCursorOverrun
<1>3. CheckCursorOverrun(r, "LEFT") \/ (r.x - 1 \in 0 .. Width /\ r.x - 1 # Width)
  BY <1>1, SizeFacts DEF CheckCursorOverrun
<1>4. CursorLeft(s) = SetLastCharacter(m)
  BY DEF CursorLeft
<1> HIDE DEF row, r
<1>5. Tame(r, m)
  <2>1. CASE CheckCursorOverrun(r, "LEFT")
    <3>1. Width - 1 \in 0 .. Width /\ Width - 1 # Width
      BY SizeFacts
    <3> QED
      BY <1>1, <1>2, <2>1, <3>1, TamePlace
  <2>2. CASE ~CheckCursorOverrun(r, "LEFT")
    <3>1. Tame(r, [r EXCEPT !.x = r.x - 1])
      BY <1>1, <1>3, <2>2, TamePlace
    <3> QED
      BY <2>2, <3>1
  <2> QED
    BY <2>1, <2>2
<1> HIDE DEF m
<1> QED
  BY <1>4, <1>5, TameMove DEF r

LEMMA RightTame ==
  ASSUME NEW s \in WideScreens
  PROVE  Tame(s, CursorRight(s))
<1> DEFINE r == RestoreLastCharacter(s)
           row == IF CheckCursorOverrun(r, "DOWN") THEN r.y ELSE r.y + 1
           m == IF CheckCursorOverrun(r, "RIGHT")
                THEN [r EXCEPT !.x = 0, !.y = row]
                ELSE [r EXCEPT !.x = r.x + 1]
<1>1. r \in WideScreens /\ r.x \in 0 .. Width /\ r.y \in 0 .. Height
  BY WideRestore, WideFields
<1>2. row \in 0 .. Height /\ (r.y # Height => row # Height)
  BY <1>1, SizeFacts DEF CheckCursorOverrun
<1>3. CheckCursorOverrun(r, "RIGHT") \/ (r.x + 1 \in 0 .. Width /\ r.x + 1 # Width)
  BY <1>1, SizeFacts DEF CheckCursorOverrun
<1>4. CursorRight(s) = SetLastCharacter(m)
  BY DEF CursorRight
<1> HIDE DEF row, r
<1>5. Tame(r, m)
  <2>1. CASE CheckCursorOverrun(r, "RIGHT")
    <3>1. 0 \in 0 .. Width /\ 0 # Width
      BY SizeFacts
    <3> QED
      BY <1>1, <1>2, <2>1, <3>1, TamePlace
  <2>2. CASE ~CheckCursorOverrun(r, "RIGHT")
    <3>1. Tame(r, [r EXCEPT !.x = r.x + 1])
      BY <1>1, <1>3, <2>2, TamePlace
    <3> QED
      BY <2>2, <3>1
  <2> QED
    BY <2>1, <2>2
<1> HIDE DEF m
<1> QED
  BY <1>4, <1>5, TameMove DEF r

LEMMA NewlineTame ==
  ASSUME NEW s \in WideScreens
  PROVE  Tame(s, CursorNewline(s))
<1> DEFINE r == RestoreLastCharacter(s)
           t == CursorCarriageReturn(r)
           row == t.y + 1
           m == IF CheckCursorOverrun(t, "DOWN") THEN AddNewRow(t)
                ELSE [t EXCEPT !.y = row]
<1>1. r \in WideScreens /\ Tame(s, r)
  BY WideRestore DEF Tame
<1>2. CursorNewline(s) = m
  BY DEF CursorNewline
<1> HIDE DEF r
<1>3. t \in WideScreens /\ Tame(r, t)
  <2>1. 0 \in 0 .. Width /\ 0 # Width /\ r.y \in 0 .. Height
    BY <1>1, SizeFacts, WideFields
  <2> QED
    BY <1>1, <2>1, TamePlace DEF CursorCarriageReturn, Tame
<1> HIDE DEF t
<1>4. t.x \in 0 .. Width /\ t.y \in 0 .. Height
  BY <1>3, WideFields
<1>5. CheckCursorOverrun(t, "DOWN") \/ (row \in 0 .. Height /\ row # Height)
  BY <1>4, SizeFacts DEF CheckCursorOverrun
<1> HIDE DEF row
<1>6. Tame(t, m)
  <2>1. CASE CheckCursorOverrun(t, "DOWN")
    BY <1>3, <2>1, WideNewRow DEF Tame
  <2>2. CASE ~CheckCursorOverrun(t, "DOWN")
    BY <1>3, <1>4, <1>5, <2>2, TamePlace
  <2> QED
    BY <2>1, <2>2
<1> HIDE DEF m
<1> QED
  BY <1>1, <1>2, <1>3, <1>6 DEF Tame

LEMMA CharacterTame ==
  ASSUME NEW s \in WideScreens, NEW c \in Chars, NEW inc \in BOOLEAN
  PROVE  Tame(s, SetCharacter(s, c, inc))
<1>1. CASE c = Backspace
  <2> DEFINE t == CursorLeft(s)
             o == Offset(t)
  <2>1. Tame(s, t)
    BY LeftTame
  <2>2. SetCharacter(s, c, inc) = EraseHere(t)
    BY <1>1, CharAssumption DEF SetCharacter
  <2> HIDE DEF t
  <2>3. o \in Reach /\ Blank \in Cells
    BY <2>1, WideFields, CharFacts DEF Tame
  <2>4. EraseHere(t) = [[t EXCEPT !.mem[o] = Blank] EXCEPT !.last = Blank]
    BY DEF EraseHere
  <2> HIDE DEF o
  <2>5. Tame(t, EraseHere(t))
    <3> DEFINE u == [t EXCEPT !.mem[o] = Blank]
    <3>1. Tame(t, u)
      BY <2>1, <2>3 DEF Tame, WideScreens
    <3> HIDE DEF u
    <3>2. Tame(u, [u EXCEPT !.last = Blank])
      BY <2>3, <3>1 DEF Tame, WideScreens
    <3> QED
      BY <2>4, <3>1, <3>2 DEF Tame, u
  <2> QED
    BY <2>1, <2>2, <2>5 DEF Tame
<1>2. CASE c = Newline
  <2> DEFINE t == CursorNewline(s)
  <2>1. Tame(s, t)
    BY NewlineTame
  <2>2. SetCharacter(s, c, inc) = [t EXCEPT !.last = Blank]
    BY <1>2, CharAssumption DEF SetCharacter
  <2> HIDE DEF t
  <2>3. Tame(t, [t EXCEPT !.last = Blank])
    BY <2>1, CharFacts DEF Tame, WideScreens
  <2> QED
    BY <2>1, <2>2, <2>3 DEF Tame
<1>3. CASE c = Return
  <2>1. SetCharacter(s, c, inc) = [[s EXCEPT !.x = 0] EXCEPT !.last = Blank]
    BY <1>3, CharAssumption DEF SetCharacter, CursorCarriageReturn
  <2>2. 0 \in 0 .. Width /\ 0 # Width
    BY SizeFacts
  <2> QED
    BY <2>1, <2>2, CharFacts DEF Tame, WideScreens
<1>4. CASE c \in Cells
  <2> DEFINE g == SetGlyph(s, c)
  <2>1. Tame(s, g)
    BY <1>4, WideGlyph DEF Tame
  <2>2. SetCharacter(s, c, inc) = IF inc THEN CursorRight(g) ELSE g
    BY <1>4, CharFacts DEF SetCharacter
  <2> HIDE DEF g
  <2>3. Tame(g, CursorRight(g))
    BY <2>1, RightTame DEF Tame
  <2> QED
    BY <2>1, <2>2, <2>3 DEF Tame
<1> QED
  BY <1>1, <1>2, <1>3, <1>4 DEF Chars, Controls

LEMMA BlinkTame ==
  ASSUME NEW s \in WideScreens
  PROVE  Tame(s, CycleCursor(s))
<1>1. CASE ~s.enabled
  BY <1>1 DEF CycleCursor, Tame
<1>2. CASE s.enabled /\ s.showing
  <2> DEFINE r == RestoreLastCharacter(s)
  <2>1. Tame(s, r) /\ CycleCursor(s) = [r EXCEPT !.showing = FALSE]
    BY <1>2, WideRestore DEF CycleCursor, Tame
  <2> HIDE DEF r
  <2>2. Tame(r, [r EXCEPT !.showing = FALSE])
    BY <2>1 DEF Tame, WideScreens
  <2> QED
    BY <2>1, <2>2 DEF Tame
<1>3. CASE s.enabled /\ ~s.showing
  <2> DEFINE l == SetLastCharacter(s)
             r == SetCharacter(l, CursorChar, FALSE)
  <2>1. Tame(s, l) /\ CycleCursor(s) = [r EXCEPT !.showing = TRUE]
    BY <1>3, WideSave DEF CycleCursor, Tame
  <2> HIDE DEF l
  <2>2. Tame(l, r)
    BY <2>1, CharFacts, CharacterTame DEF Tame, Chars
  <2> HIDE DEF r
  <2>3. Tame(r, [r EXCEPT !.showing = TRUE])
    BY <2>2 DEF Tame, WideScreens
  <2> QED
    BY <2>1, <2>2, <2>3 DEF Tame
<1> QED
  BY <1>1, <1>2, <1>3

-------------------------------------------------------------------------------
(***************************************************************************)
(* The inductive invariant behind TypeOK.  A control character is never in *)
(* the registers where it would be stored, and between the look at a       *)
(* coordinate and its change the cursor is on the screen in that           *)
(* coordinate, so that the change leads at most one column or row off it.  *)
(***************************************************************************)
Addressing  == {"address", "address row", "address column"}
Placing     == {"place", "place row", "place column"}
Looking     == {"look", "look row", "look column"}
NeedsRow    == {"address row", "place row", "look row"}
NeedsColumn == {"address column", "place column", "look column"}

Steps == Addressing \cup Placing \cup Looking \cup
           {"idle", "store", "keep", "load", "put", "rekeep", "right", "advance",
            "home", "down", "descend", "scroll", "forget", "reread", "save"}

Registers ==
  /\ off \in Reach /\ ch \in Cells \cup {Newline}
  /\ pc \in Addressing \cup {"store", "keep", "right", "advance"} => ch \in Cells
  /\ pc \in {"scroll", "forget"} => ch = Newline
  /\ pc \in Looking \cup {"reread", "save"} => ch \in Cells
  /\ pc \in Placing \cup {"put", "rekeep", "save"} => val \in Cells
  /\ pc \in NeedsRow => off \in 0 .. Width
  /\ pc \in NeedsColumn => off \in 0 .. (Height * Width)
  /\ pc = "advance" => val \in 0 .. (Width - 1) /\ scr.x # Width
  /\ pc = "descend" => val \in 0 .. (Height - 1) /\ scr.y # Height
  /\ pc = "scroll" => val \in Nat

WideInv ==
  /\ scr \in WideScreens /\ before \in WideScreens
  /\ pc \in Steps
  /\ Registers
  /\ calls \in Nat /\ disturbed \in {"no", "timer", "key"}

\* The rows that the loop of add_new_row copies are rows of the screen.
LEMMA RowInside ==
  ASSUME NEW r \in Nat, r * Width < Height * (Width - 1)
  PROVE  r < Height
<1>1. ASSUME NEW w \in Nat, w > 0, NEW h \in Nat, h > 0
      PROVE  h * (w - 1) \in Int /\ h * (w - 1) < h * w
  BY <1>1
<1>2. Height * (Width - 1) \in Int /\ Height * (Width - 1) < Height * Width
  BY <1>1, SizeAssumption
<1>3. r * Width < Height * Width
  BY <1>2, RowOrder, SizeFacts
<1> QED
  BY <1>3, RowOrder, SizeFacts

LEMMA RowMovedType ==
  ASSUME NEW s \in WideScreens, NEW r \in Nat, r * Width < Height * (Width - 1)
  PROVE  RowMoved(s, r) \in WideScreens
<1> DEFINE cell(o) == IF o \div Width = r THEN s.mem[o + Width] ELSE s.mem[o]
<1>1. ASSUME NEW o \in Reach
      PROVE  cell(o) \in Cells
  <2>1. o \div Width = r => o + Width \in Reach
    <3>1. ASSUME o \div Width = r
          PROVE  o < r * Width + Width
      BY <3>1, RowOf, SizeFacts
    <3>2. r * Width + Width <= Height * Width
      BY RowInside, RowOrder, SizeFacts
    <3> QED
      BY <3>1, <3>2, SizeFacts, RowOrder
  <2> QED
    BY <2>1, WideFields
<1>2. RowMoved(s, r) = [s EXCEPT !.mem = [o \in Reach |-> cell(o)]]
  BY DEF RowMoved
<1> HIDE DEF cell
<1>3. [o \in Reach |-> cell(o)] \in [Reach -> Cells]
  BY <1>1
<1> QED
  BY <1>2, <1>3, WideStores

LEMMA ClearBottomType ==
  ASSUME NEW s \in WideScreens
  PROVE  [s EXCEPT !.mem = [o \in Reach |-> IF o \in LastRow .. (Width * Height - 1)
                                            THEN Blank ELSE s.mem[o]]] \in WideScreens
<1>1. [o \in Reach |-> IF o \in LastRow .. (Width * Height - 1)
                       THEN Blank ELSE s.mem[o]] \in [Reach -> Cells]
  BY WideFields, CharFacts
<1> QED
  BY <1>1, WideStores

LEMMA WideInvInit == Init => WideInv
<1> SUFFICES ASSUME Init PROVE WideInv
  OBVIOUS
<1>1. [o \in Reach |-> Blank] \in [Reach -> Cells]
  BY CharFacts
<1>2. 0 \in 0 .. Width /\ 0 \in 0 .. Height /\ 0 \in Reach
  BY SizeFacts
<1>3. scr \in WideScreens
  BY <1>1, <1>2, CharFacts DEF Init, NewScreen, WideScreens
<1> QED
  BY <1>2, <1>3, CharFacts
  DEF Init, WideInv, Registers, Steps, Addressing, Placing, Looking, NeedsRow, NeedsColumn

\* Of an interrupt the program notices only what it did to the screen.
LEMMA InterruptWide ==
  ASSUME WideInv, NEW kind \in {"timer", "key"}, Interrupt(kind), Tame(scr, scr')
  PROVE  WideInv'
<1>1. disturbed' \in {"no", "timer", "key"}
  BY DEF Interrupt
<1>2. Registers'
  BY DEF WideInv, Registers, Interrupt, Tame, regs
<1> QED
  BY <1>1, <1>2 DEF WideInv, Interrupt, Tame, regs

\* The two loads of position_to_offset, from an object or from two.
LEMMA Located ==
  ASSUME NEW s \in WideScreens
  PROVE  /\ s.x \in 0 .. Width /\ s.x \in Reach
         /\ s.y * Width \in 0 .. (Height * Width) /\ s.y * Width \in Reach
         /\ \A p \in 0 .. Width : p + s.y * Width \in Reach
         /\ \A p \in 0 .. (Height * Width) : p + s.x \in Reach
         /\ s.x + s.y * Width = Offset(s) /\ s.y * Width + s.x = Offset(s)
<1>1. s.x \in 0 .. Width /\ s.y \in 0 .. Height
  BY WideFields
<1>2. 0 <= s.y * Width /\ s.y * Width <= Height * Width /\ s.y * Width \in Int
  BY <1>1, SizeFacts, RowOrder
<1> QED
  BY <1>1, <1>2, SizeFacts DEF Offset, PositionToOffset

LEMMA LocateWide ==
  ASSUME WideInv, Address \/ Place \/ Look
  PROVE  WideInv'
<1>1. UNCHANGED <<scr, ch, val, history>>
  BY DEF Address, Place, Look, Locate, Step
<1>2. /\ pc \in Addressing => pc' \in Addressing \cup {"store"}
      /\ pc \in Placing => pc' \in Placing \cup {"put"}
      /\ pc \in Looking => pc' \in Looking \cup {"reread"}
      /\ pc \in Addressing \cup Placing \cup Looking
  BY DEF Address, Place, Look, Locate, Step, Addressing, Placing, Looking
<1>3. /\ off' \in Reach
      /\ pc' \in NeedsRow => off' \in 0 .. Width
      /\ pc' \in NeedsColumn => off' \in 0 .. (Height * Width)
  <2>1. \/ pc' \in NeedsRow /\ off' = scr.x
        \/ pc' \in NeedsColumn /\ off' = scr.y * Width
        \/ pc \in NeedsRow /\ off' = off + scr.y * Width /\ pc' \in {"store", "put", "reread"}
        \/ pc \in NeedsColumn /\ off' = off + scr.x /\ pc' \in {"store", "put", "reread"}
    BY DEF Address, Place, Look, Locate, Step, NeedsRow, NeedsColumn
  <2>2. NeedsRow \cap NeedsColumn = {}
        /\ {"store", "put", "reread"} \cap (NeedsRow \cup NeedsColumn) = {}
    BY DEF NeedsRow, NeedsColumn
  <2> QED
    BY <2>1, <2>2, Located DEF WideInv, Registers
<1>4. /\ off' \in Reach /\ ch' \in Cells \cup {Newline}
      /\ pc' \in Addressing \cup {"store"} => ch' \in Cells
      /\ pc' \in Looking \cup {"reread"} => ch' \in Cells
      /\ pc' \in Placing \cup {"put"} => val' \in Cells
  BY <1>1, <1>2, <1>3 DEF WideInv, Registers, Addressing, Placing, Looking
<1>5. pc' \in Addressing \cup Placing \cup Looking \cup {"store", "put", "reread"}
  BY <1>2
<1>6. Registers'
  BY <1>3, <1>4, <1>5 DEF Registers, Addressing, Placing, Looking
<1> QED
  BY <1>1, <1>5, <1>6 DEF WideInv, Steps, history

LEMMA KeyboardTame ==
  ASSUME scr \in WideScreens, Keyboard
  PROVE  Tame(scr, scr')
<1>1. CASE \E direction \in Arrows : scr' = Move(scr, direction)
  <2>1. PICK direction \in Arrows : scr' = Move(scr, direction)
    BY <1>1
  <2> QED
    BY <2>1, ConsoleAssumption, UpTame, DownTame, LeftTame, RightTame DEF Move
<1>2. CASE \E c \in Typed : scr' = SetCharacter(scr, c, TRUE)
  <2>1. PICK c \in Typed : scr' = SetCharacter(scr, c, TRUE)
    BY <1>2
  <2>2. c \in Chars
    BY ConsoleAssumption
  <2> QED
    BY <2>1, <2>2, CharacterTame
<1> QED
  BY <1>1, <1>2 DEF Keyboard

LEMMA WideInvHolds == Spec => []WideInv
<1>1. Init => WideInv
  BY WideInvInit
<1>2. WideInv /\ [Next]_vars => WideInv'
  <2> SUFFICES ASSUME WideInv, [Next]_vars PROVE WideInv'
    OBVIOUS
  <2>0. CASE Address \/ Place \/ Look
    BY <2>0, LocateWide
  <2>2. 0 \in 0 .. Width
    BY SizeFacts
  <2>6. CASE Reload
    <3>1. scr.x \in 0 .. Width /\ scr.y \in 0 .. Height
      BY WideFields DEF WideInv
    <3>2. /\ pc \in {"advance", "descend"} /\ Registers
          /\ pc = "advance" => val' = scr.x
          /\ pc = "descend" => val' = scr.y
          /\ UNCHANGED <<scr, pc, ch, off, history>>
      BY <2>6 DEF Reload, WideInv
    <3>3. /\ pc = "advance" => val' \in 0 .. (Width - 1)
          /\ pc = "descend" => val' \in 0 .. (Height - 1)
      BY <3>1, <3>2, SizeFacts DEF Registers
    <3>4. Registers'
      BY <3>2, <3>3 DEF Registers, Addressing, Placing, Looking, NeedsRow, NeedsColumn
    <3> QED
      BY <3>2, <3>4 DEF WideInv, history
  <2> USE DEF WideInv, Registers, Steps, Step, regs, history,
              Addressing, Placing, Looking, NeedsRow, NeedsColumn
  <2>1. ASSUME NEW c \in Printed, Call(c) PROVE WideInv'
    BY <2>1, ConsoleAssumption, CharFacts DEF Call
  <2>3. CASE Store
    BY <2>3, WideStores DEF Store
  <2>4. CASE Keep
    <3>1. scr' \in WideScreens
      BY <2>4, WideStores DEF Keep, Kept
    <3> QED
      BY <2>4, <3>1 DEF Keep
  <2>5. CASE Load
    BY <2>5, WideFields DEF Load
  <2>7. CASE Put
    BY <2>7, WideStores DEF Put
  <2>8. CASE Rekeep
    <3>1. scr' \in WideScreens
      BY <2>8, WideStores DEF Rekeep, Kept
    <3> QED
      BY <2>8, <3>1 DEF Rekeep
  <2>9. CASE Right
    <3>1. scr.x \in 0 .. Width
      BY WideFields
    <3> QED
      BY <2>9, <3>1, SizeFacts DEF Right, CheckCursorOverrun
  <2>10. CASE Advance
    <3>1. val + 1 \in 0 .. Width
      BY <2>10, SizeFacts DEF Advance
    <3>2. scr' \in WideScreens
      BY <2>10, <3>1, WideStores DEF Advance
    <3> QED
      BY <2>10, <3>2 DEF Advance
  <2>11. CASE Home
    <3>1. scr' \in WideScreens
      BY <2>2, <2>11, WideStores DEF Home
    <3> QED
      BY <2>11, <3>1 DEF Home
  <2>12. CASE Down
    <3>1. scr.y \in 0 .. Height
      BY WideFields
    <3> QED
      BY <2>12, <3>1, SizeFacts DEF Down, CheckCursorOverrun
  <2>13. CASE Descend
    <3>1. val + 1 \in 0 .. Height
      BY <2>13, SizeFacts DEF Descend
    <3>2. scr' \in WideScreens
      BY <2>13, <3>1, WideStores DEF Descend
    <3> QED
      BY <2>13, <3>2 DEF Descend
  <2>15. CASE Scroll
    <3>1. scr' \in WideScreens
      BY <2>15, RowMovedType DEF Scroll
    <3> QED
      BY <2>15, <3>1 DEF Scroll
  <2>16. CASE ClearBottom
    <3>1. scr' \in WideScreens
      BY <2>16, ClearBottomType DEF ClearBottom
    <3> QED
      BY <2>16, <3>1 DEF ClearBottom
  <2>17. CASE Forget
    <3>1. scr' \in WideScreens
      BY <2>17, CharFacts, WideStores DEF Forget
    <3> QED
      BY <2>17, <3>1 DEF Forget
  <2>18. CASE Reread
    <3>1. scr.mem[off] \in Cells
      BY WideFields
    <3> QED
      BY <2>18, <3>1 DEF Reread
  <2>19. CASE Save
    <3>1. scr' \in WideScreens
      BY <2>19, WideStores DEF Save
    <3> QED
      BY <2>19, <3>1 DEF Save
  <2>20. CASE Keyboard
    BY <2>20, KeyboardTame, InterruptWide DEF Keyboard
  <2>21. CASE Timer
    BY <2>21, BlinkTame, InterruptWide DEF Timer
  <2>22. CASE UNCHANGED vars
    BY <2>22 DEF vars
  <2> QED
    BY <2>0, <2>1, <2>3, <2>4, <2>5, <2>6, <2>7, <2>8, <2>9, <2>10, <2>11, <2>12,
       <2>13, <2>15, <2>16, <2>17, <2>18, <2>19, <2>20, <2>21, <2>22
    DEF Next, Program
<1> QED
  BY <1>1, <1>2, PTL DEF Spec

(***************************************************************************)
(* TypeOK: however often and wherever keys and blinks interrupt            *)
(* print_screen, the cursor leaves the screen by one column and one row at *)
(* most, nothing is written further than Width + 1 bytes behind the array, *)
(* and no control character is stored or saved (set_character and the      *)
(* cursor moves of vga.h).                                                 *)
(***************************************************************************)
THEOREM ConsoleTyped == Spec => []TypeOK
<1>1. WideInv => TypeOK
  BY WideFields DEF WideInv, Registers, TypeOK
<1> QED
  BY <1>1, WideInvHolds, PTL

-------------------------------------------------------------------------------
(***************************************************************************)
(* The stations of a call of set_character(c, true) on the object b, as    *)
(* the operators of VideoControl have them: the character is written, the  *)
(* cursor is lifted, it arrives at the next cell or at the beginning of    *)
(* the line, and the rows above row n have been moved up.                  *)
(***************************************************************************)
Written(b, c)  == IF c = Newline THEN b ELSE SetGlyph(b, c)
Lifted(b, c)   == RestoreLastCharacter(Written(b, c))
Returned(b, c) == [Lifted(b, c) EXCEPT !.x = 0]

Arrived(b, c) ==
  LET r == Lifted(b, c)
  IN  IF ~CheckCursorOverrun(r, "RIGHT") THEN [r EXCEPT !.x = r.x + 1]
      ELSE IF CheckCursorOverrun(r, "DOWN") THEN [r EXCEPT !.x = 0]
      ELSE [r EXCEPT !.x = 0, !.y = r.y + 1]

Rolled(s, n) ==
  [s EXCEPT !.mem = [o \in Reach |-> IF o \div Width < n THEN s.mem[o + Width]
                                     ELSE s.mem[o]]]

LEMMA StationsWide ==
  ASSUME NEW b \in WideScreens, NEW c \in Cells \cup {Newline}
  PROVE  /\ Written(b, c) \in WideScreens /\ Lifted(b, c) \in WideScreens
         /\ Returned(b, c) \in WideScreens /\ Arrived(b, c) \in WideScreens
         /\ Returned(b, c).x = 0 /\ Returned(b, c).y = Lifted(b, c).y
         /\ Lifted(b, c).x = b.x /\ Lifted(b, c).y = b.y
<1> DEFINE w == Written(b, c)
           r == Lifted(b, c)
<1>1. w \in WideScreens /\ w.x = b.x /\ w.y = b.y
  BY WideGlyph DEF Written
<1>2. r \in WideScreens /\ r.x = w.x /\ r.y = w.y
  BY <1>1, WideRestore DEF Lifted
<1>3. Returned(b, c) = [r EXCEPT !.x = 0]
  BY DEF Returned
<1>4. Arrived(b, c) = IF ~CheckCursorOverrun(r, "RIGHT") THEN [r EXCEPT !.x = r.x + 1]
                      ELSE IF CheckCursorOverrun(r, "DOWN") THEN [r EXCEPT !.x = 0]
                      ELSE [r EXCEPT !.x = 0, !.y = r.y + 1]
  BY DEF Arrived
<1> HIDE DEF w, r
<1>5. r.x \in 0 .. Width /\ r.y \in 0 .. Height /\ 0 \in 0 .. Width
  BY <1>2, SizeFacts, WideFields
<1>6. [r EXCEPT !.x = 0] \in WideScreens /\ [r EXCEPT !.x = 0].x = 0 /\ [r EXCEPT !.x = 0].y = r.y
  BY <1>2, <1>5 DEF WideScreens
<1>7. ~CheckCursorOverrun(r, "RIGHT") => [r EXCEPT !.x = r.x + 1] \in WideScreens
  <2>1. ~CheckCursorOverrun(r, "RIGHT") => r.x + 1 \in 0 .. Width
    BY <1>5, SizeFacts DEF CheckCursorOverrun
  <2> QED
    BY <1>2, <2>1, WideStores
<1>8. ~CheckCursorOverrun(r, "DOWN") => [r EXCEPT !.x = 0, !.y = r.y + 1] \in WideScreens
  <2>1. ~CheckCursorOverrun(r, "DOWN") => r.y + 1 \in 0 .. Height
    BY <1>5, SizeFacts DEF CheckCursorOverrun
  <2> QED
    BY <1>2, <1>5, <2>1, WideStores
<1> QED
  BY <1>1, <1>2, <1>3, <1>4, <1>6, <1>7, <1>8 DEF w, r

\* The two stores of set_character.
LEMMA StoreAndKeep ==
  ASSUME NEW s \in WideScreens, NEW c \in Cells
  PROVE  Kept([s EXCEPT !.mem[Offset(s)] = c], c) = SetGlyph(s, c)
<1> DEFINE o == Offset(s)
           m == [s.mem EXCEPT ![o] = c]
           k == [s EXCEPT !.mem = m]
<1>1. [s EXCEPT !.mem[o] = c] = k
  BY DEF WideScreens
<1>2. SetGlyph(s, c) = [s EXCEPT !.mem = m, !.last = IF c = CursorChar THEN s.last ELSE c]
  BY DEF SetGlyph, WideScreens
<1> HIDE DEF m, o
<1>3. Kept(k, c) = [s EXCEPT !.mem = m, !.last = IF c = CursorChar THEN s.last ELSE c]
  BY DEF Kept, WideScreens
<1> QED
  BY <1>1, <1>2, <1>3 DEF o

\* The loop of add_new_row, row by row.
LEMMA RollNone ==
  ASSUME NEW s \in WideScreens
  PROVE  Rolled(s, 0) = s
<1>1. \A o \in Reach : ~(o \div Width < 0)
  BY RowOf, SizeFacts
<1>2. [o \in Reach |-> IF o \div Width < 0 THEN s.mem[o + Width] ELSE s.mem[o]] = s.mem
  BY <1>1, WideFields
<1> QED
  BY <1>2 DEF Rolled, WideScreens

LEMMA RollOne ==
  ASSUME NEW s \in WideScreens, NEW n \in Nat, n * Width < Height * (Width - 1)
  PROVE  RowMoved(Rolled(s, n), n) = Rolled(s, n + 1)
<1> DEFINE m == [o \in Reach |-> IF o \div Width < n THEN s.mem[o + Width] ELSE s.mem[o]]
           r == [s EXCEPT !.mem = m]
           a == [o \in Reach |-> IF o \div Width = n THEN m[o + Width] ELSE m[o]]
           b == [o \in Reach |-> IF o \div Width < n + 1 THEN s.mem[o + Width] ELSE s.mem[o]]
<1>1. ASSUME NEW o \in Reach
      PROVE  a[o] = b[o]
  <2> DEFINE q == o \div Width
  <2>1. q \in Nat /\ o < q * Width + Width /\ q * Width <= o
    BY RowOf, SizeFacts
  <2>2. CASE q = n
    <3>1. o + Width \in Reach
      <4>1. n * Width + Width <= Height * Width
        BY RowInside, RowOrder, SizeFacts
      <4> QED
        BY <2>1, <2>2, <4>1, SizeFacts, RowOrder
    <3>2. ~((o + Width) \div Width < n)
      <4>1. (o + Width) \div Width \in Nat /\ o + Width < ((o + Width) \div Width) * Width + Width
        BY <3>1, RowOf, SizeFacts
      <4>2. ASSUME (o + Width) \div Width < n
            PROVE  FALSE
        <5>1. ((o + Width) \div Width) * Width <= n * Width
          BY <4>1, <4>2, RowOrder
        <5> QED
          BY <2>1, <2>2, <4>1, <5>1, SizeFacts, RowOrder
      <4> QED
        BY <4>2
    <3> QED
      BY <2>1, <2>2, <3>1, <3>2
  <2>3. CASE q # n
    BY <2>1, <2>3
  <2> QED
    BY <2>2, <2>3
<1>2. a = b
  BY <1>1
<1>3. r.mem = m /\ Rolled(s, n) = r
  BY DEF Rolled, WideScreens
<1> HIDE DEF m
<1>4. RowMoved(r, n) = [r EXCEPT !.mem = a]
  BY <1>3 DEF RowMoved
<1>5. Rolled(s, n + 1) = [s EXCEPT !.mem = b]
  BY DEF Rolled
<1> HIDE DEF a, b
<1>6. [r EXCEPT !.mem = a] = [s EXCEPT !.mem = a]
  BY DEF WideScreens
<1> QED
  BY <1>2, <1>3, <1>4, <1>5, <1>6

LEMMA RollAll ==
  ASSUME NEW s \in WideScreens, NEW n \in Nat, NEW t, t = Rolled(s, n),
         n * Width >= Height * (Width - 1),
         n = 0 \/ (n - 1) * Width < Height * (Width - 1)
  PROVE  [t EXCEPT !.mem = [o \in Reach |-> IF o \in LastRow .. (Width * Height - 1)
                                            THEN Blank ELSE t.mem[o]]]
           = AddNewRow(s)
<1> DEFINE m == [o \in Reach |-> IF o \div Width < n THEN s.mem[o + Width] ELSE s.mem[o]]
           a == [o \in Reach |-> IF o \in LastRow .. (Width * Height - 1)
                                 THEN Blank ELSE m[o]]
           b == [o \in Reach |->
                   IF o \in LastRow .. (Width * Height - 1) THEN Blank
                   ELSE IF o < LastRow /\ RowCopied(o) THEN s.mem[o + Width]
                   ELSE s.mem[o]]
<1>1. n <= Height
  <2>1. CASE n = 0
    BY <2>1, SizeFacts
  <2>2. CASE n # 0
    <3>1. n - 1 \in Nat /\ (n - 1) * Width < Height * (Width - 1)
      BY <2>2
    <3> QED
      BY <3>1, RowInside, SizeFacts
  <2> QED
    BY <2>1, <2>2
<1>2. ASSUME NEW o \in Reach, o \notin LastRow .. (Width * Height - 1)
      PROVE  o \div Width < n <=> o < LastRow /\ RowCopied(o)
  <2> DEFINE q == o \div Width
  <2>1. q \in Nat /\ o < q * Width + Width /\ q * Width <= o /\ q * Width \in Nat
    BY RowOf, RowOrder, SizeFacts
  <2>2. /\ Height * (Width - 1) \in Int
        /\ n * Width \in Nat /\ (n - 1) * Width \in Int
    BY SizeFacts, RowOrder
  <2> HIDE DEF q
  <2>3. ASSUME q < n
        PROVE  o < LastRow /\ q * Width < Height * (Width - 1)
    <3>1. q * Width <= (n - 1) * Width
      BY <2>1, <2>3, RowOrder
    <3>2. q * Width + Width <= Height * Width
      <4>1. (q + 1) * Width <= Height * Width
        BY <1>1, <2>1, <2>3, RowOrder, SizeFacts
      <4> QED
        BY <2>1, <4>1, RowOrder
    <3>3. o < Width * Height
      BY <2>1, <3>2, SizeFacts, RowOrder
    <3>4. o < LastRow
      BY <1>2, <3>3, SizeFacts
    <3> QED
      BY <2>1, <2>2, <2>3, <3>1, <3>4
  <2>4. ASSUME q * Width < Height * (Width - 1)
        PROVE  q < n
    <3>1. q * Width < n * Width
      BY <2>1, <2>2, <2>4
    <3> QED
      BY <2>1, <3>1, RowOrder
  <2> QED
    BY <2>3, <2>4 DEF RowCopied, q
<1>3. ASSUME NEW o \in Reach
      PROVE  a[o] = b[o]
  BY <1>2, <1>3
<1>4. a = b
  BY <1>3
<1>5. DOMAIN s.mem = Reach
  BY WideFields
<1>6. AddNewRow(s) = [s EXCEPT !.mem = b]
  BY <1>5 DEF AddNewRow
<1>7. t = [s EXCEPT !.mem = m] /\ t.mem = m
  BY DEF Rolled, WideScreens
<1>8. [t EXCEPT !.mem = [o \in Reach |-> IF o \in LastRow .. (Width * Height - 1)
                                         THEN Blank ELSE t.mem[o]]] = [t EXCEPT !.mem = a]
  BY <1>7
<1> HIDE DEF a, b, m
<1>9. [t EXCEPT !.mem = a] = [s EXCEPT !.mem = a]
  BY <1>7 DEF WideScreens
<1> QED
  BY <1>4, <1>6, <1>8, <1>9

-------------------------------------------------------------------------------
(***************************************************************************)
(* Where a call that nothing has interrupted is with the object and the    *)
(* registers, at each place of the program.                                *)
(***************************************************************************)
InSequence(b, c) ==
  /\ pc = "idle" /\ calls > 0 => scr = SetCharacter(b, c, TRUE)
  /\ pc \in Addressing => scr = b
  /\ pc \in NeedsRow => off = scr.x
  /\ pc \in NeedsColumn => off = scr.y * Width
  /\ pc = "store" => scr = b /\ off = Offset(b)
  /\ pc = "keep" => scr = [b EXCEPT !.mem[Offset(b)] = c]
  /\ pc = "load" => scr = Written(b, c)
  /\ pc \in Placing \cup {"put"} => scr = Written(b, c) /\ val = Written(b, c).last
  /\ pc = "put" => off = Offset(Written(b, c))
  /\ pc = "rekeep" =>
       /\ val = Written(b, c).last
       /\ scr = [Written(b, c) EXCEPT !.mem[Offset(Written(b, c))] = val]
  /\ pc \in {"right", "advance", "home"} => scr = Lifted(b, c)
  /\ pc = "advance" => val = scr.x /\ ~CheckCursorOverrun(scr, "RIGHT")
  /\ pc \in {"home", "down", "descend"} =>
       c = Newline \/ CheckCursorOverrun(Lifted(b, c), "RIGHT")
  /\ pc \in {"down", "descend"} => scr = Returned(b, c)
  /\ pc = "descend" => val = scr.y /\ ~CheckCursorOverrun(scr, "DOWN")
  /\ pc \in Looking \cup {"reread", "save"} => scr = Arrived(b, c)
  /\ pc = "reread" => off = Offset(Arrived(b, c))
  /\ pc = "save" => val = GetCharacter(Arrived(b, c))
  /\ pc = "scroll" =>
       /\ CheckCursorOverrun(Returned(b, c), "DOWN")
       /\ scr = Rolled(Returned(b, c), val)
       /\ val = 0 \/ (val - 1) * Width < Height * (Width - 1)
  /\ pc = "forget" => scr = CursorNewline(b)

\* (b and c stay the same while the state changes, which before and ch do not.)
SeqInv == disturbed = "no" => \A b, c : b = before /\ c = ch => InSequence(b, c)

\* The ends of the two kinds of call.
LEMMA CallEnds ==
  ASSUME NEW b \in WideScreens, NEW c \in Cells \cup {Newline}
  PROVE  /\ c = Newline => SetCharacter(b, c, TRUE) = [CursorNewline(b) EXCEPT !.last = Blank]
         /\ c = Newline => CursorNewline(b) =
              IF CheckCursorOverrun(Returned(b, c), "DOWN") THEN AddNewRow(Returned(b, c))
              ELSE [Returned(b, c) EXCEPT !.y = Returned(b, c).y + 1]
         /\ c \in Cells => SetCharacter(b, c, TRUE) = SetLastCharacter(Arrived(b, c))
<1>1. CASE c = Newline
  <2>1. c \notin Cells
    BY <1>1, CharFacts
  <2>2. SetCharacter(b, c, TRUE) = [CursorNewline(b) EXCEPT !.last = Blank]
    BY <1>1, CharAssumption DEF SetCharacter
  <2>3. Returned(b, c) = CursorCarriageReturn(RestoreLastCharacter(b))
    BY <1>1 DEF Returned, Lifted, Written, CursorCarriageReturn
  <2> DEFINE t == Returned(b, c)
  <2>4. CursorNewline(b) = IF CheckCursorOverrun(t, "DOWN") THEN AddNewRow(t)
                           ELSE [t EXCEPT !.y = t.y + 1]
    BY <2>3 DEF CursorNewline
  <2> QED
    BY <2>1, <2>2, <2>4
<1>2. CASE c \in Cells
  <2>1. c # Newline
    BY <1>2, CharFacts
  <2> DEFINE g == SetGlyph(b, c)
             r == RestoreLastCharacter(g)
  <2>2. SetCharacter(b, c, TRUE) = CursorRight(g)
    BY <1>2, CharFacts DEF SetCharacter
  <2>3. Lifted(b, c) = r
    BY <2>1 DEF Lifted, Written
  <2>4. r \in WideScreens
    BY <2>3, StationsWide
  <2>5. CursorRight(g) = SetLastCharacter(
          IF CheckCursorOverrun(r, "RIGHT")
          THEN [r EXCEPT !.x = 0,
                         !.y = IF CheckCursorOverrun(r, "DOWN") THEN r.y ELSE r.y + 1]
          ELSE [r EXCEPT !.x = r.x + 1])
    BY DEF CursorRight
  <2> HIDE DEF r, g
  <2>6. CheckCursorOverrun(r, "DOWN") =>
          [r EXCEPT !.x = 0, !.y = IF CheckCursorOverrun(r, "DOWN") THEN r.y ELSE r.y + 1]
            = [r EXCEPT !.x = 0]
    BY <2>4 DEF WideScreens
  <2>7. ~CheckCursorOverrun(r, "DOWN") =>
          [r EXCEPT !.x = 0, !.y = IF CheckCursorOverrun(r, "DOWN") THEN r.y ELSE r.y + 1]
            = [r EXCEPT !.x = 0, !.y = r.y + 1]
    OBVIOUS
  <2>8. Arrived(b, c) = IF ~CheckCursorOverrun(r, "RIGHT") THEN [r EXCEPT !.x = r.x + 1]
                        ELSE IF CheckCursorOverrun(r, "DOWN") THEN [r EXCEPT !.x = 0]
                        ELSE [r EXCEPT !.x = 0, !.y = r.y + 1]
    BY <2>3 DEF Arrived
  <2> QED
    BY <2>1, <2>2, <2>5, <2>6, <2>7, <2>8
<1> QED
  BY <1>1, <1>2

\* The steps of the program between the call and its end.
Onward ==
  \/ Address \/ Store \/ Keep \/ Load \/ Place \/ Put \/ Rekeep
  \/ Right \/ Advance \/ Home \/ Down \/ Descend \/ Reload
  \/ Scroll \/ ClearBottom \/ Forget \/ Look \/ Reread \/ Save

LEMMA OnwardSameCall ==
  ASSUME Onward
  PROVE  ch' = ch /\ UNCHANGED <<before, disturbed, calls>>
BY DEF Onward, Address, Store, Keep, Load, Place, Put, Rekeep, Right, Advance, Home,
       Down, Descend, Reload, Scroll, ClearBottom, Forget, Look, Reread, Save,
       Locate, Step, regs, history

LEMMA OnwardInSequence ==
  ASSUME WideInv, Onward, NEW b, b = before, NEW c, c = ch, InSequence(b, c)
  PROVE  InSequence(b, c)'
<1> DEFINE w == Written(b, c)
           r == Lifted(b, c)
           t == Returned(b, c)
           a == Arrived(b, c)
<1>1. /\ b \in WideScreens /\ c \in Cells \cup {Newline}
      /\ w \in WideScreens /\ r \in WideScreens /\ t \in WideScreens /\ a \in WideScreens
  BY StationsWide DEF WideInv, Registers
<1>2. b' = b /\ c' = c
  BY OnwardSameCall
<1>3. /\ c = Newline => w = b
      /\ c # Newline => c \in Cells /\ w = SetGlyph(b, c)
      /\ w.last \in Cells /\ r = SetGlyph(w, w.last)
  BY <1>1, WideFields DEF Written, Lifted, RestoreLastCharacter
<1>4. /\ t = [r EXCEPT !.x = 0] /\ t.x = 0 /\ t.y = r.y
      /\ a = IF ~CheckCursorOverrun(r, "RIGHT") THEN [r EXCEPT !.x = r.x + 1]
             ELSE IF CheckCursorOverrun(r, "DOWN") THEN t
             ELSE [r EXCEPT !.x = 0, !.y = r.y + 1]
  BY <1>1, StationsWide DEF Returned, Arrived
<1>5. CheckCursorOverrun(t, "DOWN") = CheckCursorOverrun(r, "DOWN")
  BY <1>4 DEF CheckCursorOverrun
<1>6. [t EXCEPT !.y = r.y + 1] = [r EXCEPT !.x = 0, !.y = r.y + 1]
  BY <1>1, <1>4 DEF WideScreens
<1>7. /\ c = Newline => SetCharacter(b, c, TRUE) = [CursorNewline(b) EXCEPT !.last = Blank]
      /\ c = Newline => CursorNewline(b) = IF CheckCursorOverrun(t, "DOWN") THEN AddNewRow(t)
                                           ELSE [t EXCEPT !.y = t.y + 1]
      /\ c \in Cells => SetCharacter(b, c, TRUE) = SetLastCharacter(a)
  <2> b \in WideScreens /\ c \in Cells \cup {Newline}
    BY <1>1
  <2> HIDE <1>1
  <2> QED
    BY CallEnds
<1>8. Registers /\ Newline \notin Cells
  BY CharFacts DEF WideInv
<1> HIDE DEF w, r, t, a
<1> USE DEF Step, regs, history
<1> USE DEF Addressing, Placing, Looking, NeedsRow, NeedsColumn
<1>9. CASE Address \/ Place \/ Look
  <2>1. scr \in WideScreens
    BY DEF WideInv
  <2>2. scr.x + scr.y * Width = Offset(scr) /\ scr.y * Width + scr.x = Offset(scr)
    BY <2>1, Located
  <2>3. CASE Address
    BY <2>2, <2>3 DEF Address, Locate, InSequence
  <2>4. CASE Place
    BY <2>2, <2>4 DEF Place, Locate, InSequence
  <2>5. CASE Look
    BY <2>2, <2>5 DEF Look, Locate, InSequence
  <2> QED
    BY <1>9, <2>3, <2>4, <2>5
<1>10. CASE Store
  BY <1>10 DEF Store, InSequence
<1>11. CASE Keep
  <2>1. scr = [b EXCEPT !.mem[Offset(b)] = c] /\ c \in Cells
    BY <1>8, <1>11 DEF Keep, InSequence, Registers
  <2>2. scr' = w
    BY <1>1, <1>3, <1>8, <1>11, <2>1, StoreAndKeep DEF Keep
  <2> QED
    BY <1>11, <2>2 DEF Keep, InSequence, w
<1>12. CASE Load
  BY <1>12 DEF Load, InSequence
<1>14. CASE Put
  BY <1>14 DEF Put, InSequence
<1>15. CASE Rekeep
  <2>1. val = w.last /\ scr = [w EXCEPT !.mem[Offset(w)] = w.last]
    BY <1>15 DEF Rekeep, InSequence, w
  <2>2. scr' = r
    BY <1>1, <1>3, <1>15, <2>1, StoreAndKeep DEF Rekeep
  <2> QED
    BY <1>15, <2>2 DEF Rekeep, InSequence, r
<1>16. CASE Right
  BY <1>16 DEF Right, InSequence, r
<1>17. CASE Advance
  <2>1. scr = r /\ val = r.x /\ ~CheckCursorOverrun(r, "RIGHT")
    BY <1>17 DEF Advance, InSequence, r
  <2>2. scr' = a
    BY <1>4, <1>17, <2>1 DEF Advance
  <2> QED
    BY <1>17, <2>2 DEF Advance, InSequence, a
<1>18. CASE Home
  <2>1. scr = r /\ (c = Newline \/ CheckCursorOverrun(r, "RIGHT"))
    BY <1>18 DEF Home, InSequence, r
  <2>2. scr' = t
    BY <1>4, <1>18, <2>1 DEF Home
  <2> QED
    BY <1>18, <2>1, <2>2 DEF Home, InSequence, t, r
<1>19. CASE Down
  <2>1. scr = t /\ (c = Newline \/ CheckCursorOverrun(r, "RIGHT"))
    BY <1>19 DEF Down, InSequence, r, t
  <2>2. CASE ~CheckCursorOverrun(t, "DOWN")
    BY <1>19, <2>1, <2>2 DEF Down, InSequence, t, r
  <2>3. CASE CheckCursorOverrun(t, "DOWN") /\ c = Newline
    <3>1. scr' = Rolled(t, 0)
      BY <1>1, <1>19, <2>1, RollNone DEF Down
    <3> QED
      BY <1>19, <2>1, <2>3, <3>1 DEF Down, InSequence, t
  <2>4. CASE CheckCursorOverrun(t, "DOWN") /\ c # Newline
    <3>1. scr' = a
      BY <1>4, <1>5, <1>19, <2>1, <2>4 DEF Down
    <3> QED
      BY <1>19, <2>1, <2>4, <3>1 DEF Down, InSequence, a
  <2> QED
    BY <2>2, <2>3, <2>4
<1>20. CASE Descend
  <2>1. /\ scr = t /\ val = t.y /\ ~CheckCursorOverrun(t, "DOWN")
        /\ c = Newline \/ CheckCursorOverrun(r, "RIGHT")
    BY <1>20 DEF Descend, InSequence, r, t
  <2>2. scr' = [t EXCEPT !.y = t.y + 1]
    BY <1>20, <2>1 DEF Descend
  <2>3. CASE c = Newline
    <3>1. scr' = CursorNewline(b)
      BY <1>7, <2>1, <2>2, <2>3
    <3> QED
      BY <1>20, <2>3, <3>1 DEF Descend, InSequence
  <2>4. CASE c # Newline
    <3>1. scr' = a
      BY <1>4, <1>5, <1>6, <2>1, <2>2, <2>4
    <3> QED
      BY <1>20, <2>4, <3>1 DEF Descend, InSequence, a
  <2> QED
    BY <2>3, <2>4
<1>21. CASE Reload
  BY <1>21 DEF Reload, InSequence
<1>22. CASE Scroll
  <2>1. /\ CheckCursorOverrun(t, "DOWN") /\ scr = Rolled(t, val)
        /\ val \in Nat /\ val * Width < Height * (Width - 1)
    BY <1>8, <1>22 DEF Scroll, InSequence, Registers, t
  <2>2. scr' = Rolled(t, val + 1)
    BY <1>1, <1>22, <2>1, RollOne DEF Scroll
  <2>3. (val + 1) - 1 = val
    BY <2>1
  <2> QED
    BY <1>22, <2>1, <2>2, <2>3 DEF Scroll, InSequence, t
<1>23. CASE ClearBottom
  <2>1. /\ CheckCursorOverrun(t, "DOWN") /\ scr = Rolled(t, val)
        /\ val \in Nat /\ val * Width >= Height * (Width - 1) /\ c = Newline
        /\ val = 0 \/ (val - 1) * Width < Height * (Width - 1)
    BY <1>8, <1>23 DEF ClearBottom, InSequence, Registers, t
  <2>2. scr' = AddNewRow(t)
    BY <1>1, <1>23, <2>1, RollAll DEF ClearBottom
  <2>3. scr' = CursorNewline(b)
    BY <1>7, <2>1, <2>2
  <2> QED
    BY <1>23, <2>3 DEF ClearBottom, InSequence
<1>24. CASE Forget
  <2>1. scr = CursorNewline(b) /\ c = Newline
    BY <1>8, <1>24 DEF Forget, InSequence, Registers
  <2>2. scr' = SetCharacter(b, c, TRUE)
    BY <1>7, <1>24, <2>1 DEF Forget
  <2> QED
    BY <1>24, <2>2 DEF Forget, InSequence
<1>25. CASE Reread
  <2>1. scr = a /\ off = Offset(a)
    BY <1>25 DEF Reread, InSequence, a
  <2>2. scr' = a /\ val' = GetCharacter(a)
    BY <1>25, <2>1 DEF Reread, GetCharacter
  <2> QED
    BY <1>25, <2>2 DEF Reread, InSequence, a
<1>26. CASE Save
  <2>1. scr = a /\ val = GetCharacter(a) /\ c \in Cells
    BY <1>8, <1>26 DEF Save, InSequence, Registers, a
  <2>2. scr' = SetLastCharacter(a)
    BY <1>26, <2>1 DEF Save, SetLastCharacter
  <2>3. scr' = SetCharacter(b, c, TRUE)
    BY <1>7, <2>1, <2>2
  <2> QED
    BY <1>26, <2>3 DEF Save, InSequence
<1> QED
  BY <1>9, <1>10, <1>11, <1>12, <1>14, <1>15, <1>16, <1>17, <1>18, <1>19,
     <1>20, <1>21, <1>22, <1>23, <1>24, <1>25, <1>26 DEF Onward

(***************************************************************************)
(* AsInSequence: a call of set_character that nothing has interrupted,     *)
(* taken load by load and store by store, ends with exactly the object     *)
(* that the operator SetCharacter gives.                                   *)
(***************************************************************************)
THEOREM UndisturbedIsSequential == Spec => []AsInSequence
<1>1. Init => SeqInv
  BY DEF Init, SeqInv, InSequence, Addressing, Placing, Looking, NeedsRow, NeedsColumn
<1>2. WideInv /\ SeqInv /\ [Next]_vars => SeqInv'
  <2> SUFFICES ASSUME WideInv, SeqInv, [Next]_vars, disturbed' = "no",
                      NEW b, NEW c, b = before', c = ch'
               PROVE  InSequence(b, c)'
    BY DEF SeqInv
  <2>1. ASSUME NEW p \in Printed, Call(p) PROVE InSequence(b, c)'
    <3>1. scr' = b /\ c = p /\ pc' = IF p = Newline THEN "load" ELSE "address"
      BY <2>1 DEF Call
    <3>2. CASE c = Newline
      <4>1. pc' = "load" /\ scr' = b /\ Written(b, c) = b
        BY <3>1, <3>2 DEF Written
      <4> QED
        BY <4>1 DEF InSequence, Addressing, Placing, Looking, NeedsRow, NeedsColumn
    <3>3. CASE c # Newline
      <4>1. pc' = "address" /\ scr' = b
        BY <3>1, <3>3
      <4> QED
        BY <4>1 DEF InSequence, Addressing, Placing, Looking, NeedsRow, NeedsColumn
    <3> QED
      BY <3>2, <3>3
  <2>2. CASE Onward
    <3>1. b = before /\ c = ch /\ disturbed = "no"
      BY <2>2, OnwardSameCall
    <3>2. InSequence(b, c)
      BY <3>1 DEF SeqInv
    <3> QED
      BY <2>2, <3>1, <3>2, OnwardInSequence
  <2>3. CASE Keyboard \/ Timer
    <3>1. disturbed' # "no"
      BY <2>3 DEF Keyboard, Timer, Interrupt
    <3> QED
      BY <3>1
  <2>4. CASE UNCHANGED vars
    <3>1. /\ b = before /\ c = ch /\ disturbed = "no"
          /\ UNCHANGED <<scr, pc, off, val, calls>>
      BY <2>4 DEF vars, regs, history
    <3>2. InSequence(b, c)
      BY <3>1 DEF SeqInv
    <3> USE DEF Addressing, Placing, Looking, NeedsRow, NeedsColumn
    <3> QED
      <4>1. CASE pc \in {"rekeep", "scroll"}
        BY <3>1, <3>2, <4>1 DEF InSequence
      <4>2. CASE pc \in {"right", "advance", "home", "down", "descend"}
        BY <3>1, <3>2, <4>2 DEF InSequence
      <4>3. CASE pc \in Addressing
        BY <3>1, <3>2, <4>3 DEF InSequence
      <4>6. CASE pc \in {"idle", "store", "keep", "load"}
        BY <3>1, <3>2, <4>6 DEF InSequence
      <4>4. CASE pc \in Placing \cup {"put"}
        BY <3>1, <3>2, <4>4 DEF InSequence
      <4>5. CASE pc \in Looking \cup {"reread", "save", "forget"}
        BY <3>1, <3>2, <4>5 DEF InSequence
      <4> QED
        BY <4>1, <4>2, <4>3, <4>4, <4>5, <4>6 DEF WideInv, Steps
  <2> QED
    BY <2>1, <2>2, <2>3, <2>4 DEF Next, Program, Onward
<1>3. SeqInv => AsInSequence
  BY DEF SeqInv, InSequence, AsInSequence
<1> QED
  BY <1>1, <1>2, <1>3, WideInvHolds, PTL DEF Spec

-------------------------------------------------------------------------------
(***************************************************************************)
(* Blinks.  SameBut(m, n, D): two memories differ at most in the cells D.  *)
(* SameButUp allows for the cells above them, too, into which a scroll     *)
(* takes what they hold.                                                   *)
(***************************************************************************)
Damaged(b, s)      == {Offset(b), b.y * Width, Offset(s)}
SameBut(m, n, D)   == \A o \in Reach : m[o] = n[o] \/ o \in D
SameButUp(m, n, D) == \A o \in Reach : m[o] = n[o] \/ o \in D \/ o + Width \in D

\* A blink leaves the cursor where it is and every other cell alone.
LEMMA BlinkFields ==
  ASSUME NEW s \in WideScreens
  PROVE  /\ CycleCursor(s).x = s.x /\ CycleCursor(s).y = s.y
         /\ SameBut(CycleCursor(s).mem, s.mem, {Offset(s)})
<1>1. CASE ~s.enabled
  BY <1>1 DEF CycleCursor, SameBut
<1>2. CASE s.enabled /\ s.showing
  <2> DEFINE r == RestoreLastCharacter(s)
  <2>1. CycleCursor(s) = [r EXCEPT !.showing = FALSE]
    BY <1>2 DEF CycleCursor
  <2>2. /\ r \in WideScreens /\ r.x = s.x /\ r.y = s.y
        /\ r.mem = [s.mem EXCEPT ![Offset(s)] = s.last] /\ s.mem \in [Reach -> Cells]
    BY WideRestore, WideFields
  <2> HIDE DEF r
  <2>3. /\ CycleCursor(s).x = r.x /\ CycleCursor(s).y = r.y /\ CycleCursor(s).mem = r.mem
    BY <2>1, <2>2 DEF WideScreens
  <2> QED
    BY <2>2, <2>3 DEF SameBut
<1>3. CASE s.enabled /\ ~s.showing
  <2> DEFINE l == SetLastCharacter(s)
             r == SetGlyph(l, CursorChar)
  <2>1. CycleCursor(s) = [r EXCEPT !.showing = TRUE]
    BY <1>3, CharFacts DEF CycleCursor, SetCharacter
  <2>2. l \in WideScreens /\ l.x = s.x /\ l.y = s.y /\ l.mem = s.mem
    BY WideSave
  <2>3. /\ r \in WideScreens /\ r.x = l.x /\ r.y = l.y
        /\ r.mem = [l.mem EXCEPT ![Offset(l)] = CursorChar]
    BY <2>2, CharFacts, WideGlyph
  <2>4. Offset(l) = Offset(s) /\ s.mem \in [Reach -> Cells]
    BY <2>2, WideFields DEF Offset
  <2> HIDE DEF r, l
  <2>5. /\ CycleCursor(s).x = r.x /\ CycleCursor(s).y = r.y /\ CycleCursor(s).mem = r.mem
    BY <2>1, <2>3 DEF WideScreens
  <2> QED
    BY <2>2, <2>3, <2>4, <2>5 DEF SameBut
<1> QED
  BY <1>1, <1>2, <1>3

\* Until the rows move, the call changes no cell but the one it began at.
LEMMA LiftedSame ==
  ASSUME NEW b \in WideScreens, NEW c \in Cells \cup {Newline}
  PROVE  /\ SameBut(Lifted(b, c).mem, b.mem, {Offset(b)})
         /\ Returned(b, c).mem = Lifted(b, c).mem
         /\ Arrived(b, c).mem = Lifted(b, c).mem
<1> DEFINE w == Written(b, c)
           r == Lifted(b, c)
           o == Offset(b)
<1>1. w \in WideScreens /\ r \in WideScreens
  BY StationsWide
<1>2. Offset(w) = o /\ SameBut(w.mem, b.mem, {o}) /\ b.mem \in [Reach -> Cells]
  <2>1. CASE c = Newline
    BY <2>1, WideFields DEF Written, SameBut
  <2>2. CASE c # Newline
    <3>1. c \in Cells /\ w = SetGlyph(b, c)
      BY <2>2 DEF Written
    <3>2. w.x = b.x /\ w.y = b.y /\ w.mem = [b.mem EXCEPT ![o] = c] /\ b.mem \in [Reach -> Cells]
      BY <3>1, WideGlyph, WideFields
    <3> HIDE DEF w
    <3>3. Offset(w) = o
      BY <3>2 DEF Offset
    <3> HIDE DEF o
    <3> QED
      BY <3>2, <3>3 DEF SameBut
  <2> QED
    BY <2>1, <2>2
<1>3. r.mem = [w.mem EXCEPT ![Offset(w)] = w.last] /\ w.mem \in [Reach -> Cells]
  BY <1>1, WideRestore, WideFields DEF Lifted
<1>4. Returned(b, c).mem = r.mem
  BY <1>1 DEF Returned, WideScreens
<1>5. Arrived(b, c).mem = r.mem
  BY <1>1 DEF Arrived, WideScreens
<1> HIDE DEF w, r, o
<1>6. SameBut(r.mem, b.mem, {o})
  BY <1>2, <1>3 DEF SameBut
<1> QED
  BY <1>4, <1>5, <1>6 DEF r, o

\* The column and the row at which a call ends.
EndColumn(b, c) == IF c # Newline /\ b.x + 1 < Width THEN b.x + 1 ELSE 0
EndRow(b, c) ==
  IF (c # Newline /\ b.x + 1 < Width) \/ b.y + 1 >= Height THEN b.y ELSE b.y + 1

LEMMA Expected ==
  ASSUME NEW b \in WideScreens, NEW c \in Cells \cup {Newline}
  PROVE  LET e == SetCharacter(b, c, TRUE)
             n == CursorNewline(b)
         IN  /\ e.x = EndColumn(b, c) /\ e.y = EndRow(b, c)
             /\ c # Newline => SameBut(e.mem, b.mem, {Offset(b)})
             /\ c = Newline => e.mem = n.mem
             /\ c = Newline /\ b.y + 1 < Height => SameBut(n.mem, b.mem, {Offset(b)})
             /\ c = Newline /\ b.y + 1 >= Height => n = AddNewRow(Returned(b, c))
<1> DEFINE e == SetCharacter(b, c, TRUE)
           n == CursorNewline(b)
           r == Lifted(b, c)
           t == Returned(b, c)
           a == Arrived(b, c)
<1>1. /\ r \in WideScreens /\ t \in WideScreens /\ a \in WideScreens
      /\ t.x = 0 /\ t.y = r.y /\ r.x = b.x /\ r.y = b.y
  BY StationsWide
<1>2. /\ SameBut(r.mem, b.mem, {Offset(b)}) /\ t.mem = r.mem /\ a.mem = r.mem
  BY LiftedSame
<1>3. b.x \in 0 .. Width /\ b.y \in 0 .. Height
  BY WideFields
<1>4. /\ c = Newline => e = [n EXCEPT !.last = Blank]
      /\ c = Newline => n = IF CheckCursorOverrun(t, "DOWN") THEN AddNewRow(t)
                            ELSE [t EXCEPT !.y = t.y + 1]
      /\ c \in Cells => e = SetLastCharacter(a)
  BY CallEnds
<1>5. a = IF ~CheckCursorOverrun(r, "RIGHT") THEN [r EXCEPT !.x = r.x + 1]
          ELSE IF CheckCursorOverrun(r, "DOWN") THEN [r EXCEPT !.x = 0]
          ELSE [r EXCEPT !.x = 0, !.y = r.y + 1]
  BY DEF Arrived
<1>6. /\ CheckCursorOverrun(r, "RIGHT") <=> b.x + 1 >= Width
      /\ CheckCursorOverrun(r, "DOWN") <=> b.y + 1 >= Height
      /\ CheckCursorOverrun(t, "DOWN") <=> b.y + 1 >= Height
  BY <1>1 DEF CheckCursorOverrun
<1> HIDE DEF e, n, r, t, a
<1>7. CASE c # Newline
  <2>1. e.x = a.x /\ e.y = a.y /\ e.mem = a.mem
    BY <1>1, <1>4, <1>7, WideSave
  <2>2. a.x = EndColumn(b, c) /\ a.y = EndRow(b, c)
    BY <1>1, <1>3, <1>5, <1>6, <1>7, SizeFacts DEF EndColumn, EndRow, WideScreens
  <2> QED
    BY <1>2, <1>7, <2>1, <2>2 DEF e, n
<1>8. CASE c = Newline
  <2>1. CASE b.y + 1 >= Height
    <3>1. n = AddNewRow(t)
      BY <1>4, <1>6, <1>8, <2>1
    <3>2. n \in WideScreens /\ n.x = 0 /\ n.y = b.y
      BY <1>1, <3>1, WideNewRow
    <3>3. e.x = n.x /\ e.y = n.y /\ e.mem = n.mem
      BY <1>4, <1>8, <3>2 DEF WideScreens
    <3>4. ~(b.y + 1 < Height)
      BY <1>3, <2>1, SizeFacts
    <3> QED
      BY <1>8, <2>1, <3>1, <3>2, <3>3, <3>4 DEF EndColumn, EndRow, e, n, t
  <2>2. CASE ~(b.y + 1 >= Height)
    <3>1. n = [t EXCEPT !.y = t.y + 1]
      BY <1>4, <1>6, <1>8, <2>2
    <3>2. n.x = 0 /\ n.y = b.y + 1 /\ n.mem = r.mem
      BY <1>1, <1>2, <3>1 DEF WideScreens
    <3>3. e.x = n.x /\ e.y = n.y /\ e.mem = n.mem
      BY <1>1, <1>4, <1>8, <3>1 DEF WideScreens
    <3> QED
      BY <1>2, <1>8, <2>2, <3>2, <3>3 DEF EndColumn, EndRow, e, n
  <2> QED
    BY <2>1, <2>2
<1> QED
  BY <1>7, <1>8

\* What holds at each place of a call that only blinks have interrupted.
Early == Addressing \cup Placing \cup
           {"store", "keep", "load", "put", "rekeep", "right", "advance", "home"}

Ended(b, c) == scr.x = EndColumn(b, c) /\ scr.y = EndRow(b, c)

OnBlink(b, c) ==
  /\ pc \in Early => scr.x = b.x /\ scr.y = b.y
  /\ pc \in {"down", "descend", "scroll"} => scr.x = 0 /\ scr.y = b.y
  /\ pc \in Early \cup Looking \cup {"down", "descend", "reread", "save"} =>
       SameBut(scr.mem, b.mem, Damaged(b, scr))
  /\ pc \in NeedsRow => off = scr.x
  /\ pc \in NeedsColumn => off = scr.y * Width
  /\ pc \in {"store", "put"} => off = Offset(b)
  /\ pc = "advance" => val = b.x /\ b.x + 1 < Width
  /\ pc \in {"home", "down", "descend"} => c = Newline \/ b.x + 1 >= Width
  /\ pc = "descend" => val = b.y /\ b.y + 1 < Height
  /\ pc = "scroll" =>
       /\ b.y + 1 >= Height
       /\ SameButUp(scr.mem, Rolled(b, val).mem, Damaged(b, scr))
       /\ \A o \in Reach : o \div Width < val \/ scr.mem[o] = b.mem[o] \/ o \in Damaged(b, scr)
       /\ val = 0 \/ (val - 1) * Width < Height * (Width - 1)
  /\ pc \in Looking \cup {"reread", "save", "forget"} => Ended(b, c)
  /\ pc = "forget" => SameButUp(scr.mem, CursorNewline(b).mem, Damaged(b, scr))
  /\ pc = "idle" /\ calls > 0 =>
       /\ Ended(b, c)
       /\ SameButUp(scr.mem, SetCharacter(b, c, TRUE).mem, Damaged(b, scr))

BlinkInv == disturbed # "key" => \A b, c : b = before /\ c = ch => OnBlink(b, c)

\* The cells the cursor can be on during a call.
LEMMA CursorCells ==
  ASSUME NEW b \in WideScreens, NEW s \in WideScreens
  PROVE  /\ s.x = b.x /\ s.y = b.y => Offset(s) = Offset(b)
         /\ s.x = 0 /\ s.y = b.y => Offset(s) = b.y * Width
<1>1. b.y * Width \in Int
  BY WideFields, RowOrder
<1> QED
  BY <1>1 DEF Offset, PositionToOffset

\* The cells that a scroll has copied so far have a row below them.
LEMMA RowBelow ==
  ASSUME NEW n \in Nat, n <= Height, NEW o \in Reach, o \div Width < n
  PROVE  o + Width \in Reach
<1> DEFINE q == o \div Width
<1>1. q \in Nat /\ o < q * Width + Width
  BY RowOf, SizeFacts
<1>2. (q + 1) * Width <= Height * Width
  BY <1>1, RowOrder, SizeFacts
<1> QED
  BY <1>1, <1>2, RowOrder, SizeFacts

LEMMA RowsCopied ==
  ASSUME NEW n \in Nat, n = 0 \/ (n - 1) * Width < Height * (Width - 1)
  PROVE  n <= Height
<1>1. CASE n = 0
  BY <1>1, SizeFacts
<1>2. CASE n # 0
  <2>1. n - 1 \in Nat /\ (n - 1) * Width < Height * (Width - 1)
    BY <1>2
  <2> QED
    BY <2>1, RowInside, SizeFacts
<1> QED
  BY <1>1, <1>2

\* Copying one more row keeps the damage where it may be.
LEMMA ScrollNear ==
  ASSUME NEW b \in WideScreens, NEW s \in WideScreens, NEW n \in Nat,
         n * Width < Height * (Width - 1), NEW D,
         SameButUp(s.mem, Rolled(b, n).mem, D),
         \A o \in Reach : o \div Width < n \/ s.mem[o] = b.mem[o] \/ o \in D
  PROVE  /\ SameButUp(RowMoved(s, n).mem, Rolled(b, n + 1).mem, D)
         /\ \A o \in Reach : o \div Width < n + 1 \/ RowMoved(s, n).mem[o] = b.mem[o] \/ o \in D
<1>1. /\ RowMoved(s, n).mem = [o \in Reach |-> IF o \div Width = n THEN s.mem[o + Width] ELSE s.mem[o]]
      /\ Rolled(b, n + 1).mem = [o \in Reach |-> IF o \div Width < n + 1 THEN b.mem[o + Width] ELSE b.mem[o]]
      /\ Rolled(b, n).mem = [o \in Reach |-> IF o \div Width < n THEN b.mem[o + Width] ELSE b.mem[o]]
  BY DEF RowMoved, Rolled, WideScreens
<1>2. ASSUME NEW o \in Reach
      PROVE  /\ RowMoved(s, n).mem[o] = Rolled(b, n + 1).mem[o] \/ o \in D \/ o + Width \in D
             /\ o \div Width < n + 1 \/ RowMoved(s, n).mem[o] = b.mem[o] \/ o \in D
  <2>1. o \div Width \in Nat
    BY RowOf, SizeFacts
  <2>2. CASE o \div Width = n
    <3>1. n + 1 <= Height
      BY RowInside, SizeFacts
    <3>2. o + Width \in Reach
      BY <2>2, <3>1, RowBelow
    <3>3. ~((o + Width) \div Width < n)
      <4>1. /\ (o + Width) \div Width \in Nat
            /\ o + Width < ((o + Width) \div Width) * Width + Width
            /\ (o \div Width) * Width <= o
        BY <3>2, RowOf, SizeFacts
      <4>2. ASSUME (o + Width) \div Width < n
            PROVE  FALSE
        <5>1. ((o + Width) \div Width) * Width <= n * Width
          BY <4>1, <4>2, RowOrder
        <5> QED
          BY <2>2, <4>1, <5>1, SizeFacts, RowOrder
      <4> QED
        BY <4>2
    <3>4. s.mem[o + Width] = b.mem[o + Width] \/ o + Width \in D
      BY <3>2, <3>3
    <3> QED
      BY <1>1, <2>1, <2>2, <3>4
  <2>3. CASE o \div Width # n
    <3>1. o \div Width < n + 1 <=> o \div Width < n
      BY <2>1, <2>3
    <3> QED
      BY <1>1, <2>3, <3>1 DEF SameButUp
  <2> QED
    BY <2>2, <2>3
<1> QED
  BY <1>2 DEF SameButUp

\* So does the clearing of the bottom row, and the result is a newline's.
LEMMA ClearNear ==
  ASSUME NEW b \in WideScreens, NEW s \in WideScreens, NEW n \in Nat,
         n * Width >= Height * (Width - 1),
         n = 0 \/ (n - 1) * Width < Height * (Width - 1),
         NEW D, Offset(b) \in D, b.y + 1 >= Height,
         SameButUp(s.mem, Rolled(b, n).mem, D)
  PROVE  SameButUp([o \in Reach |-> IF o \in LastRow .. (Width * Height - 1)
                                    THEN Blank ELSE s.mem[o]],
                   CursorNewline(b).mem, D)
<1> DEFINE t == Returned(b, Newline)
           u == Rolled(t, n)
           m == [o \in Reach |-> IF o \in LastRow .. (Width * Height - 1)
                                 THEN Blank ELSE u.mem[o]]
<1>1. t \in WideScreens /\ SameBut(t.mem, b.mem, {Offset(b)})
  BY StationsWide, LiftedSame
<1>2. CursorNewline(b) = AddNewRow(t)
  BY Expected
<1> HIDE DEF t
<1>3. AddNewRow(t) = [u EXCEPT !.mem = m]
  BY <1>1, RollAll
<1>4. /\ u.mem = [o \in Reach |-> IF o \div Width < n THEN t.mem[o + Width] ELSE t.mem[o]]
      /\ Rolled(b, n).mem = [o \in Reach |-> IF o \div Width < n THEN b.mem[o + Width] ELSE b.mem[o]]
      /\ [u EXCEPT !.mem = m].mem = m
  BY <1>1 DEF Rolled, WideScreens
<1>5. ASSUME NEW o \in Reach
      PROVE  u.mem[o] = Rolled(b, n).mem[o] \/ o \in D \/ o + Width \in D
  <2>1. CASE o \div Width < n
    <3>1. o + Width \in Reach
      BY <2>1, RowsCopied, RowBelow
    <3> QED
      BY <1>1, <1>4, <2>1, <3>1 DEF SameBut
  <2>2. CASE ~(o \div Width < n)
    BY <1>1, <1>4, <2>2 DEF SameBut
  <2> QED
    BY <2>1, <2>2
<1> HIDE DEF u
<1>6. ASSUME NEW o \in Reach
      PROVE  \/ m[o] = IF o \in LastRow .. (Width * Height - 1) THEN Blank ELSE s.mem[o]
             \/ o \in D \/ o + Width \in D
  BY <1>5 DEF SameButUp
<1> HIDE DEF m
<1> QED
  BY <1>2, <1>3, <1>4, <1>6 DEF SameButUp

LEMMA OnwardOnBlink ==
  ASSUME WideInv, Onward, NEW b, b = before, NEW c, c = ch, NEW s, s = scr, NEW u, u = scr',
         OnBlink(b, c)
  PROVE  OnBlink(b, c)'
<1> DEFINE D == Damaged(b, s)
           E == Damaged(b, u)
<1>1. /\ b \in WideScreens /\ c \in Cells \cup {Newline} /\ s \in WideScreens
      /\ b.x \in 0 .. Width /\ b.y \in 0 .. Height /\ s.mem \in [Reach -> Cells]
      /\ Registers /\ Newline \notin Cells
  BY WideFields, CharFacts DEF WideInv, Registers
<1>2. /\ s.x = b.x /\ s.y = b.y => Offset(s) = Offset(b)
      /\ s.x = 0 /\ s.y = b.y => Offset(s) = b.y * Width
  BY <1>1, CursorCells
<1>3. Offset(b) \in D /\ Offset(b) \in E /\ b.y * Width \in E /\ Offset(s) \in D
  BY DEF Damaged
<1>4. \A o \in Reach : o \in D /\ Offset(s) \in {Offset(b), b.y * Width} => o \in E
  BY DEF Damaged
<1>5. u.x = s.x /\ u.y = s.y => E = D
  BY DEF Damaged, Offset
<1> USE DEF Step, regs, history, Addressing, Placing, Looking, NeedsRow, NeedsColumn
<1>6. /\ pc \in Early => s.x = b.x /\ s.y = b.y
      /\ pc \in {"down", "descend", "scroll"} => s.x = 0 /\ s.y = b.y
      /\ pc \in Early \cup Looking \cup {"down", "descend", "reread", "save"} =>
           SameBut(s.mem, b.mem, D)
  BY DEF OnBlink
<1> HIDE DEF D, E
\* The steps between the stores: the object stays as it is.
<1>7. CASE Address \/ Load \/ Place
  <2>1. u = s /\ pc \in Early
    BY <1>7 DEF Address, Load, Place, Locate, Early
  <2>2. pc' \in Addressing \cup Placing \cup {"store", "put"}
    BY <1>7 DEF Address, Load, Place, Locate
  <2>3. s.x + s.y * Width = Offset(s) /\ s.y * Width + s.x = Offset(s)
    BY <1>1, Located
  <2>4. /\ pc' \in {"store", "put"} => off' = Offset(s)
        /\ pc' \in NeedsRow => off' = s.x
        /\ pc' \in NeedsColumn => off' = s.y * Width
    BY <1>7, <2>3 DEF Address, Load, Place, Locate, OnBlink
  <2> QED
    BY <1>2, <1>6, <2>1, <2>2, <2>4 DEF OnBlink, Early, D
\* A store, to the cell the call began at or of the saved character.
<1>8. CASE Store \/ Put
  <2>1. /\ pc \in Early /\ off = Offset(b)
        /\ pc' \in {"keep", "rekeep"}
        /\ \E v \in Cells : u = [s EXCEPT !.mem[off] = v]
    BY <1>1, <1>8 DEF Store, Put, OnBlink, Early, Registers
  <2>2. PICK v \in Cells : u = [s EXCEPT !.mem[Offset(b)] = v]
    BY <2>1
  <2>3. u.x = s.x /\ u.y = s.y /\ u.mem = [s.mem EXCEPT ![Offset(b)] = v]
    BY <1>1, <2>2 DEF WideScreens
  <2>4. SameBut(u.mem, b.mem, E)
    BY <1>1, <1>3, <1>5, <1>6, <2>1, <2>3 DEF SameBut
  <2> QED
    BY <1>6, <2>1, <2>3, <2>4 DEF OnBlink, Early, E
<1>9. CASE Keep \/ Rekeep
  <2>1. pc \in Early /\ (u = s \/ \E v : u = [s EXCEPT !.last = v])
    BY <1>9 DEF Keep, Rekeep, Kept, Early
  <2>2. u.x = s.x /\ u.y = s.y /\ u.mem = s.mem
    BY <1>1, <2>1 DEF WideScreens
  <2>3. pc' \in {"load", "right"} \/ (pc' = "home" /\ c = Newline)
    BY <1>9 DEF Keep, Rekeep
  <2> QED
    BY <1>5, <1>6, <2>1, <2>2, <2>3 DEF OnBlink, Early, D, E
\* The moves.
<1>10. CASE Right
  <2>1. u = s /\ pc \in Early /\ val' = s.x
    BY <1>10 DEF Right, Early
  <2>2. \/ pc' = "home" /\ b.x + 1 >= Width
        \/ pc' = "advance" /\ b.x + 1 < Width
    BY <1>1, <1>6, <1>10, <2>1, SizeFacts DEF Right, CheckCursorOverrun
  <2> QED
    BY <1>6, <2>1, <2>2 DEF OnBlink, Early, D
<1>11. CASE Advance
  <2>1. /\ pc = "advance" /\ pc' = "look" /\ val = b.x /\ b.x + 1 < Width
        /\ u = [s EXCEPT !.x = b.x + 1] /\ c # Newline
    BY <1>1, <1>11 DEF Advance, OnBlink, Registers
  <2>2. s.x = b.x /\ s.y = b.y /\ SameBut(s.mem, b.mem, D)
    BY <1>6, <2>1 DEF Early
  <2>3. u.x = b.x + 1 /\ u.y = b.y /\ u.mem = s.mem
    BY <1>1, <2>1, <2>2 DEF WideScreens
  <2>4. SameBut(u.mem, b.mem, E)
    BY <1>2, <1>4, <2>2, <2>3 DEF SameBut
  <2> QED
    BY <2>1, <2>3, <2>4 DEF OnBlink, Early, Ended, EndColumn, EndRow, E
<1>12. CASE Home
  <2>1. /\ pc = "home" /\ pc' = "down" /\ (c = Newline \/ b.x + 1 >= Width)
        /\ u = [s EXCEPT !.x = 0]
    BY <1>12 DEF Home, OnBlink
  <2>2. s.x = b.x /\ s.y = b.y /\ SameBut(s.mem, b.mem, D)
    BY <1>6, <2>1 DEF Early
  <2>3. u.x = 0 /\ u.y = b.y /\ u.mem = s.mem
    BY <1>1, <2>1, <2>2 DEF WideScreens
  <2>4. SameBut(u.mem, b.mem, E)
    BY <1>2, <1>4, <2>2, <2>3 DEF SameBut
  <2> QED
    BY <2>1, <2>3, <2>4 DEF OnBlink, Early, E
<1>13. CASE Down
  <2>1. /\ pc = "down" /\ u = s /\ s.x = 0 /\ s.y = b.y /\ SameBut(s.mem, b.mem, D)
        /\ c = Newline \/ b.x + 1 >= Width
    BY <1>6, <1>13 DEF Down, OnBlink
  <2>2. CASE b.y + 1 < Height
    <3>1. pc' = "descend" /\ val' = b.y
      BY <1>1, <1>13, <2>1, <2>2, SizeFacts DEF Down, CheckCursorOverrun
    <3> QED
      BY <2>1, <2>2, <3>1 DEF OnBlink, Early, D
  <2>3. CASE b.y + 1 >= Height /\ c = Newline
    <3>1. pc' = "scroll" /\ val' = 0
      BY <1>1, <1>13, <2>1, <2>3, SizeFacts DEF Down, CheckCursorOverrun
    <3>2. Rolled(b, 0).mem = b.mem
      BY <1>1, RollNone
    <3>3. SameButUp(s.mem, b.mem, D)
      BY <2>1 DEF SameBut, SameButUp
    <3> QED
      BY <2>1, <2>3, <3>1, <3>2, <3>3 DEF OnBlink, Early, SameBut, D
  <2>4. CASE b.y + 1 >= Height /\ c # Newline
    <3>1. pc' = "look"
      BY <1>1, <1>13, <2>1, <2>4, SizeFacts DEF Down, CheckCursorOverrun
    <3>2. ~(b.x + 1 < Width)
      BY <1>1, <2>1, <2>4, SizeFacts
    <3> QED
      BY <2>1, <2>4, <3>1, <3>2 DEF OnBlink, Early, Ended, EndColumn, EndRow, D
  <2> QED
    BY <1>1, <2>2, <2>3, <2>4, SizeFacts
<1>14. CASE Descend
  <2>1. /\ pc = "descend" /\ s.x = 0 /\ s.y = b.y /\ SameBut(s.mem, b.mem, D)
        /\ c = Newline \/ b.x + 1 >= Width
        /\ b.y + 1 < Height /\ u = [s EXCEPT !.y = b.y + 1]
        /\ pc' = IF c = Newline THEN "forget" ELSE "look"
    BY <1>6, <1>14 DEF Descend, OnBlink
  <2>2. u.x = 0 /\ u.y = b.y + 1 /\ u.mem = s.mem
    BY <1>1, <2>1 DEF WideScreens
  <2>3. SameBut(u.mem, b.mem, E)
    BY <1>2, <1>4, <2>1, <2>2 DEF SameBut
  <2>4. u.x = EndColumn(b, c) /\ u.y = EndRow(b, c)
    BY <1>1, <2>1, <2>2, SizeFacts DEF EndColumn, EndRow
  <2>5. CASE c = Newline
    <3>1. SameBut(CursorNewline(b).mem, b.mem, {Offset(b)})
      BY <1>1, <2>1, <2>5, Expected
    <3>2. SameButUp(u.mem, CursorNewline(b).mem, E)
      BY <1>3, <2>3, <3>1 DEF SameBut, SameButUp
    <3> QED
      BY <2>1, <2>4, <2>5, <3>2 DEF OnBlink, Early, Ended, E
  <2>6. CASE c # Newline
    BY <2>1, <2>3, <2>4, <2>6 DEF OnBlink, Early, Ended, E
  <2> QED
    BY <2>5, <2>6
<1>15. CASE Reload
  <2>1. u = s /\ pc' = pc
    BY <1>15 DEF Reload
  <2>2. CASE pc = "advance"
    <3>1. val' = b.x /\ b.x + 1 < Width
      BY <1>6, <1>15, <2>2 DEF Reload, OnBlink, Early
    <3> QED
      BY <1>6, <2>1, <2>2, <3>1 DEF OnBlink, Early, D
  <2>3. CASE pc = "descend"
    <3>1. /\ val' = b.y /\ b.y + 1 < Height
          /\ c = Newline \/ b.x + 1 >= Width
      BY <1>6, <1>15, <2>3 DEF Reload, OnBlink
    <3> QED
      BY <1>6, <2>1, <2>3, <3>1 DEF OnBlink, Early, D
  <2> QED
    BY <1>15, <2>2, <2>3 DEF Reload
\* The scroll.
<1>16. CASE Scroll
  <2>1. /\ pc = "scroll" /\ pc' = "scroll" /\ val \in Nat /\ val' = val + 1
        /\ val * Width < Height * (Width - 1) /\ u = RowMoved(s, val)
        /\ s.x = 0 /\ s.y = b.y /\ b.y + 1 >= Height
        /\ SameButUp(s.mem, Rolled(b, val).mem, D)
        /\ \A o \in Reach : o \div Width < val \/ s.mem[o] = b.mem[o] \/ o \in D
    BY <1>1, <1>6, <1>16 DEF Scroll, OnBlink, Registers, D
  <2>2. u.x = s.x /\ u.y = s.y
    BY <1>1, <2>1 DEF RowMoved, WideScreens
  <2>3. PICK n \in Nat : n = val
    BY <2>1
  <2>4. /\ SameButUp(u.mem, Rolled(b, n + 1).mem, E)
        /\ \A o \in Reach : o \div Width < n + 1 \/ u.mem[o] = b.mem[o] \/ o \in E
    BY <1>1, <1>5, <2>1, <2>2, <2>3, ScrollNear
  <2>5. (n + 1) - 1 = n /\ val' = n + 1 /\ n * Width < Height * (Width - 1)
    BY <2>1, <2>3
  <2> QED
    BY <2>1, <2>2, <2>4, <2>5 DEF OnBlink, Early, E
<1>17. CASE ClearBottom
  <2> DEFINE m == [o \in Reach |-> IF o \in LastRow .. (Width * Height - 1)
                                   THEN Blank ELSE s.mem[o]]
  <2>1. /\ pc = "scroll" /\ pc' = "forget" /\ val \in Nat /\ c = Newline
        /\ val * Width >= Height * (Width - 1) /\ u = [s EXCEPT !.mem = m]
        /\ s.x = 0 /\ s.y = b.y /\ b.y + 1 >= Height
        /\ SameButUp(s.mem, Rolled(b, val).mem, D)
        /\ val = 0 \/ (val - 1) * Width < Height * (Width - 1)
    BY <1>1, <1>6, <1>17 DEF ClearBottom, OnBlink, Registers, D
  <2>2. SameButUp(m, CursorNewline(b).mem, D)
    <3>1. PICK n \in Nat : n = val
      BY <2>1
    <3> QED
      BY <1>1, <1>3, <2>1, <3>1, ClearNear
  <2> HIDE DEF m
  <2>3. u.x = s.x /\ u.y = s.y /\ u.mem = m
    BY <1>1, <2>1 DEF WideScreens
  <2>4. u.x = EndColumn(b, c) /\ u.y = EndRow(b, c)
    BY <2>1, <2>3 DEF EndColumn, EndRow
  <2> QED
    BY <1>5, <2>1, <2>2, <2>3, <2>4 DEF OnBlink, Early, Ended, E
\* The ends of the call.
<1>18. CASE Forget
  <2>1. /\ pc = "forget" /\ pc' = "idle" /\ c = Newline
        /\ s.x = EndColumn(b, c) /\ s.y = EndRow(b, c)
        /\ SameButUp(s.mem, CursorNewline(b).mem, D) /\ u = [s EXCEPT !.last = Blank]
    BY <1>1, <1>18 DEF Forget, OnBlink, Registers, Ended, D
  <2>2. u.x = s.x /\ u.y = s.y /\ u.mem = s.mem
    BY <1>1, <2>1 DEF WideScreens
  <2>3. SetCharacter(b, c, TRUE).mem = CursorNewline(b).mem
    BY <1>1, <2>1, Expected
  <2> QED
    BY <1>5, <2>1, <2>2, <2>3 DEF OnBlink, Early, Ended, E
<1>19. CASE Look \/ Reread
  <2>1. /\ pc \in Looking \cup {"reread"} /\ pc' \in Looking \cup {"reread", "save"} /\ u = s
        /\ s.x = EndColumn(b, c) /\ s.y = EndRow(b, c)
        /\ pc' \in NeedsRow => off' = s.x
        /\ pc' \in NeedsColumn => off' = s.y * Width
    BY <1>19 DEF Look, Reread, Locate, OnBlink, Ended
  <2> QED
    BY <1>6, <2>1 DEF OnBlink, Early, Ended, D
<1>20. CASE Save
  <2>1. /\ pc = "save" /\ pc' = "idle" /\ c # Newline
        /\ s.x = EndColumn(b, c) /\ s.y = EndRow(b, c)
        /\ u = [s EXCEPT !.last = val]
    BY <1>1, <1>20 DEF Save, OnBlink, Registers, Ended
  <2>2. u.x = s.x /\ u.y = s.y /\ u.mem = s.mem
    BY <1>1, <2>1 DEF WideScreens
  <2>3. SameBut(SetCharacter(b, c, TRUE).mem, b.mem, {Offset(b)})
    BY <1>1, <2>1, Expected
  <2>4. SameButUp(u.mem, SetCharacter(b, c, TRUE).mem, E)
    BY <1>3, <1>5, <1>6, <2>1, <2>2, <2>3 DEF SameBut, SameButUp
  <2> QED
    BY <2>1, <2>2, <2>4 DEF OnBlink, Early, Ended, E
<1> QED
  BY <1>7, <1>8, <1>9, <1>10, <1>11, <1>12, <1>13, <1>14, <1>15, <1>16, <1>17,
     <1>18, <1>19, <1>20 DEF Onward

\* What keeps the place and damages at most the cell the cursor is on.
LEMMA PlaceKept ==
  ASSUME WideInv, NEW b, b = before, NEW c, NEW s, s = scr, NEW u, u = scr',
         UNCHANGED <<pc, off, val, calls>>,
         u.x = s.x, u.y = s.y, SameBut(u.mem, s.mem, {Offset(s)}), OnBlink(b, c)
  PROVE  OnBlink(b, c)'
<1>1. UNCHANGED <<pc, off, val, calls>>
  OBVIOUS
<1>2. u.x = s.x /\ u.y = s.y /\ SameBut(u.mem, s.mem, {Offset(s)})
  OBVIOUS
<1> DEFINE D == Damaged(b, s)
           E == Damaged(b, u)
<1>3. Offset(s) \in D /\ E = D
  BY <1>2 DEF Damaged, Offset
<1>4. ASSUME NEW m
      PROVE  /\ SameBut(s.mem, m, D) => SameBut(u.mem, m, E)
             /\ SameButUp(s.mem, m, D) => SameButUp(u.mem, m, E)
  BY <1>2, <1>3 DEF SameBut, SameButUp
<1>5. \A o \in Reach : s.mem[o] = b.mem[o] \/ o \in D => u.mem[o] = b.mem[o] \/ o \in E
  BY <1>2, <1>3 DEF SameBut
<1> HIDE DEF D, E
<1> USE DEF Addressing, Placing, Looking, NeedsRow, NeedsColumn
<1>6. CASE pc \in Early
  <2>1. s.x = b.x /\ s.y = b.y /\ SameBut(s.mem, b.mem, D)
    BY <1>6 DEF OnBlink, D
  <2>2. u.x = b.x /\ u.y = b.y /\ SameBut(u.mem, b.mem, E)
    BY <1>2, <1>4, <2>1
  <2>3. /\ pc \in NeedsRow => off = u.x
        /\ pc \in NeedsColumn => off = u.y * Width
    BY <1>2, <2>1 DEF OnBlink
  <2> QED
    BY <1>1, <1>6, <2>2, <2>3 DEF OnBlink, Early, E
<1>7. CASE pc \in {"down", "descend"}
  <2>1. s.x = 0 /\ s.y = b.y /\ SameBut(s.mem, b.mem, D)
    BY <1>7 DEF OnBlink, D
  <2>2. u.x = 0 /\ u.y = b.y /\ SameBut(u.mem, b.mem, E)
    BY <1>2, <1>4, <2>1
  <2> QED
    BY <1>1, <1>7, <2>2 DEF OnBlink, Early, E
<1>8. CASE pc = "scroll"
  <2>1. /\ s.x = 0 /\ s.y = b.y /\ b.y + 1 >= Height
        /\ SameButUp(s.mem, Rolled(b, val).mem, D)
        /\ \A o \in Reach : o \div Width < val \/ s.mem[o] = b.mem[o] \/ o \in D
        /\ val = 0 \/ (val - 1) * Width < Height * (Width - 1)
    BY <1>8 DEF OnBlink, D
  <2>2. SameButUp(u.mem, Rolled(b, val).mem, E)
    BY <1>4, <2>1
  <2>3. \A o \in Reach : o \div Width < val \/ u.mem[o] = b.mem[o] \/ o \in E
    BY <1>5, <2>1
  <2> QED
    BY <1>1, <1>2, <1>8, <2>1, <2>2, <2>3 DEF OnBlink, Early, E
<1>9. CASE pc \in Looking \cup {"reread", "save"}
  <2>1. s.x = EndColumn(b, c) /\ s.y = EndRow(b, c) /\ SameBut(s.mem, b.mem, D)
    BY <1>9 DEF OnBlink, Ended, D
  <2>2. SameBut(u.mem, b.mem, E)
    BY <1>4, <2>1
  <2>3. /\ pc \in NeedsRow => off = u.x
        /\ pc \in NeedsColumn => off = u.y * Width
    BY <1>2 DEF OnBlink
  <2> QED
    BY <1>1, <1>2, <1>9, <2>1, <2>2, <2>3 DEF OnBlink, Early, Ended, E
<1>10. CASE pc = "forget"
  <2>1. s.x = EndColumn(b, c) /\ s.y = EndRow(b, c) /\ SameButUp(s.mem, CursorNewline(b).mem, D)
    BY <1>10 DEF OnBlink, Ended, D
  <2>2. SameButUp(u.mem, CursorNewline(b).mem, E)
    BY <1>4, <2>1
  <2> QED
    BY <1>1, <1>2, <1>10, <2>1, <2>2 DEF OnBlink, Early, Ended, E
<1>11. CASE pc = "idle"
  <2>1. calls > 0 => /\ s.x = EndColumn(b, c) /\ s.y = EndRow(b, c)
                     /\ SameButUp(s.mem, SetCharacter(b, c, TRUE).mem, D)
    BY <1>11 DEF OnBlink, Ended, D
  <2>2. calls > 0 => SameButUp(u.mem, SetCharacter(b, c, TRUE).mem, E)
    BY <1>4, <2>1
  <2> QED
    BY <1>1, <1>2, <1>11, <2>1, <2>2 DEF OnBlink, Early, Ended, E
<1> QED
  BY <1>6, <1>7, <1>8, <1>9, <1>10, <1>11 DEF WideInv, Steps, Early

LEMMA TimerOnBlink ==
  ASSUME WideInv, NEW b, b = before, NEW c, NEW s, s = scr, NEW u, u = scr',
         Timer, OnBlink(b, c)
  PROVE  OnBlink(b, c)'
<1>1. s \in WideScreens /\ u = CycleCursor(s) /\ UNCHANGED <<pc, off, val, calls>>
  BY DEF WideInv, Timer, Interrupt, regs
<1>2. u.x = s.x /\ u.y = s.y /\ SameBut(u.mem, s.mem, {Offset(s)})
  BY <1>1, BlinkFields
<1> QED
  BY <1>1, <1>2, PlaceKept

(***************************************************************************)
(* BlinkDamageIsLocal: however many blinks interrupt a call of             *)
(* set_character, and wherever, the call ends with the cursor where it     *)
(* should be, and only the cell it began at, the first of that row, the    *)
(* one it ends at and those into which a scroll moved them can differ from *)
(* what was to be there (cycle_cursor between the steps of cursor_right    *)
(* and cursor_newline).                                                    *)
(***************************************************************************)
THEOREM BlinksDamageLocally == Spec => []BlinkDamageIsLocal
<1>1. Init => BlinkInv
  BY DEF Init, BlinkInv, OnBlink, Early, Addressing, Placing, Looking, NeedsRow, NeedsColumn
<1>2. WideInv /\ BlinkInv /\ [Next]_vars => BlinkInv'
  <2> SUFFICES ASSUME WideInv, BlinkInv, [Next]_vars, disturbed' # "key",
                      NEW b, NEW c, b = before', c = ch'
               PROVE  OnBlink(b, c)'
    BY DEF BlinkInv
  <2>6. PICK s : s = scr
    OBVIOUS
  <2>7. PICK u : u = scr'
    OBVIOUS
  <2>1. ASSUME NEW p \in Printed, Call(p) PROVE OnBlink(b, c)'
    <3>1. scr' = b /\ pc' \in {"load", "address"}
      BY <2>1 DEF Call
    <3> QED
      BY <3>1 DEF OnBlink, Early, SameBut, Addressing, Placing, Looking, NeedsRow, NeedsColumn
  <2>2. CASE Onward
    <3>1. b = before /\ c = ch /\ disturbed # "key"
      BY <2>2, OnwardSameCall
    <3>2. OnBlink(b, c)
      BY <3>1 DEF BlinkInv
    <3> QED
      BY <2>6, <2>7, <2>2, <3>1, <3>2, OnwardOnBlink
  <2>3. CASE Timer
    <3>1. b = before /\ c = ch /\ disturbed # "key"
      BY <2>3 DEF Timer, Interrupt, regs
    <3>2. OnBlink(b, c)
      BY <3>1 DEF BlinkInv
    <3> QED
      BY <2>6, <2>7, <2>3, <3>1, <3>2, TimerOnBlink
  <2>4. CASE Keyboard
    <3>1. disturbed' = "key"
      BY <2>4 DEF Keyboard, Interrupt
    <3> QED
      BY <3>1
  <2>5. CASE UNCHANGED vars
    <3>1. /\ b = before /\ c = ch /\ disturbed # "key"
          /\ UNCHANGED <<scr, pc, off, val, calls>>
      BY <2>5 DEF vars, regs, history
    <3>2. OnBlink(b, c)
      BY <3>1 DEF BlinkInv
    <3>3. u = s /\ SameBut(u.mem, s.mem, {Offset(s)})
      BY <2>6, <2>7, <3>1 DEF SameBut
    <3> QED
      BY <2>6, <2>7, <3>1, <3>2, <3>3, PlaceKept
  <2> QED
    BY <2>1, <2>2, <2>3, <2>4, <2>5 DEF Next, Program, Onward
<1>3. WideInv /\ BlinkInv => BlinkDamageIsLocal
  <2> SUFFICES ASSUME WideInv, BlinkInv, pc = "idle", calls > 0, disturbed # "key"
               PROVE  /\ scr.x = SetCharacter(before, ch, TRUE).x
                      /\ scr.y = SetCharacter(before, ch, TRUE).y
                      /\ \A o \in Reach :
                           \/ scr.mem[o] = SetCharacter(before, ch, TRUE).mem[o]
                           \/ o \in Touched \/ o + Width \in Touched
    BY DEF BlinkDamageIsLocal
  <2>1. /\ Ended(before, ch)
        /\ SameButUp(scr.mem, SetCharacter(before, ch, TRUE).mem, Damaged(before, scr))
    BY DEF BlinkInv, OnBlink
  <2>2. /\ SetCharacter(before, ch, TRUE).x = EndColumn(before, ch)
        /\ SetCharacter(before, ch, TRUE).y = EndRow(before, ch)
    BY Expected DEF WideInv, Registers
  <2> QED
    BY <2>1, <2>2 DEF Ended, SameButUp, Damaged, Touched
<1> QED
  BY <1>1, <1>2, <1>3, WideInvHolds, PTL DEF Spec

===============================================================================
