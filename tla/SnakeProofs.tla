------------------------------ MODULE SnakeProofs ------------------------------
(***************************************************************************)
(* Proofs about the game, for a board and a snake of any size, any food    *)
(* and any keys: everything drawn is on the screen, the snake stays in one *)
(* piece, it crosses itself only over food, and the board shows the game   *)
(* and nothing else as long as two keys within a frame have not scrolled   *)
(* it away.                                                                *)
(***************************************************************************)
EXTENDS Snake, VideoControlProofs, Induction

-------------------------------------------------------------------------------
(***************************************************************************)
(* The constants, and the cells of the board.                              *)
(***************************************************************************)
LEMMA SnakeFacts ==
  /\ Width \in Nat /\ Height \in Nat /\ Width >= 5 /\ Height >= 6
  /\ ScoreLength \in Nat /\ 1 <= ScoreLength /\ ScoreLength <= Width - 1
  /\ InitialLength \in Nat /\ 2 <= InitialLength /\ InitialLength <= Height - 4
  /\ MaxFood \in Nat \ {0} /\ Speed \in Nat \ {0} /\ MaxScore \in Nat /\ MaxKeys \in Nat \ {0}
<1>1. Width \in Nat /\ Height \in Nat
  BY SizeAssumption
<1>2. InitialLength \in 2 .. (Height - 4) /\ ScoreLength \in 1 .. (Width - 1)
  BY SnakeAssumption
<1>3. FirstFood[1] \in 2 .. (Width - 3)
  BY SnakeAssumption
<1> QED
  BY <1>1, <1>2, <1>3, SnakeAssumption

\* What is drawn prints, and is told from an empty cell and from the wall.
LEMMA GlyphFacts ==
  /\ {HeadGlyph, BodyGlyph, FoodGlyph, WallGlyph, ScoreGlyph, Blank} \subseteq Cells \ {CursorChar}
  /\ WallGlyph \notin {HeadGlyph, BodyGlyph, FoodGlyph, Blank}
BY SnakeAssumption, CharAssumption DEF Cells

LEMMA FieldFacts ==
  /\ \A p : p \in Board <=> p = <<p[1], p[2]>> /\ p[1] \in Columns /\ p[2] \in Rows
  /\ \A p : p \in Field <=> /\ p = <<p[1], p[2]>> /\ p[1] \in 2 .. (Width - 3)
                            /\ p[2] \in 2 .. (Height - 3)
  /\ RandomCells = Field
<1>1. \A p : p \in Board <=> p = <<p[1], p[2]>> /\ p[1] \in Columns /\ p[2] \in Rows
  BY DEF Board
<1>2. ASSUME NEW p
      PROVE  p \in Field <=> /\ p = <<p[1], p[2]>> /\ p[1] \in 2 .. (Width - 3)
                             /\ p[2] \in 2 .. (Height - 3)
  BY <1>1, SnakeFacts DEF Field, HitsWall, Columns, Rows
<1>3. \A p : p \in RandomCells <=> /\ p = <<p[1], p[2]>> /\ p[1] \in 2 .. (Width - 3)
                                   /\ p[2] \in 2 .. (Height - 3)
  BY DEF RandomCells
<1> QED
  BY <1>1, <1>2, <1>3

\* Two positions of the board have two cells in the memory.
LEMMA CellInjective ==
  ASSUME NEW p \in Board, NEW q \in Board
  PROVE  /\ PositionToOffset(p[1], p[2]) \in Offsets
         /\ PositionToOffset(p[1], p[2]) = PositionToOffset(q[1], q[2]) => p = q
<1>1. ASSUME NEW w \in Nat, NEW x \in 0 .. (w - 1), NEW y \in Nat,
             NEW u \in 0 .. (w - 1), NEW v \in Nat, x + y * w = u + v * w
      PROVE  x = u /\ y = v
  <2>1. ASSUME NEW a \in Nat, NEW b \in Nat, a < b
        PROVE  a * w + w <= b * w
    <3>1. b - a - 1 \in Nat /\ (b - a - 1) * w >= 0
      BY <2>1
    <3>2. b * w = (b - a - 1) * w + a * w + w
      BY <2>1
    <3>3. a * w \in Int /\ b * w \in Int /\ (b - a - 1) * w \in Int
      BY <2>1
    <3> QED
      BY <3>1, <3>2, <3>3
  <2>2. y * w \in Int /\ v * w \in Int
    OBVIOUS
  <2>3. ~(y < v) /\ ~(v < y)
    BY <1>1, <2>1, <2>2
  <2>4. y = v
    BY <2>3
  <2> QED
    BY <1>1, <2>2, <2>4
<1>2. /\ p[1] \in 0 .. (Width - 1) /\ q[1] \in 0 .. (Width - 1) /\ Width \in Nat
      /\ p[2] \in Nat /\ q[2] \in Nat /\ p = <<p[1], p[2]>> /\ q = <<q[1], q[2]>>
      /\ p[1] \in Columns /\ p[2] \in Rows
  BY SizeAssumption DEF Board, Columns, Rows
<1>3. PositionToOffset(p[1], p[2]) \in Offsets
  BY <1>2, OffsetInMemory
<1>4. PositionToOffset(p[1], p[2]) = PositionToOffset(q[1], q[2]) => p[1] = q[1] /\ p[2] = q[2]
  BY <1>1, <1>2 DEF PositionToOffset
<1> QED
  BY <1>2, <1>3, <1>4

-------------------------------------------------------------------------------
(***************************************************************************)
(* What the screen shows at a position; a screen is Still when the saved   *)
(* character is the one in the cell of the cursor, so that a key that      *)
(* moves the cursor changes nothing.                                       *)
(***************************************************************************)
Shown(s, p) == s.mem[PositionToOffset(p[1], p[2])]
Still(s)    == s.last = GetCharacter(s)

LEMMA DrawAtShows ==
  ASSUME NEW s \in Screens, NEW p \in Board, NEW c \in Cells \ {CursorChar}
  PROVE  LET t == DrawAt(s, p, c)
         IN  /\ t \in Screens /\ Still(t)
             /\ \A q \in Board : Shown(t, q) = IF q = p THEN c ELSE Shown(s, q)
<1> DEFINE u == SetCursor(s, p[1], p[2])
           t == DrawAt(s, p, c)
           o == PositionToOffset(p[1], p[2])
<1>1. p[1] \in Columns /\ p[2] \in Rows /\ p[1] < Width /\ p[2] < Height
  BY FieldFacts, SizeAssumption DEF Columns, Rows
<1>2. u = [s EXCEPT !.x = p[1], !.y = p[2]]
  BY <1>1 DEF SetCursor
<1>3. u \in Screens /\ u.x = p[1] /\ u.y = p[2] /\ u.mem = s.mem
  BY <1>1, <1>2 DEF Screens
<1>4. t = SetGlyph(u, c)
  BY <1>3, GlyphCases DEF DrawAt
<1> HIDE DEF u
<1>5. Offset(u) = o /\ o \in Offsets /\ s.mem \in [Offsets -> Cells]
  BY <1>3, Fields DEF Offset
<1>6. /\ t \in Screens /\ t.mem = [s.mem EXCEPT ![o] = c] /\ t.last = c
      /\ t.x = p[1] /\ t.y = p[2]
  BY <1>3, <1>4, <1>5, GlyphFields
<1> HIDE DEF t
<1>7. Still(t)
  BY <1>5, <1>6 DEF Still, GetCharacter, Offset
<1>8. ASSUME NEW q \in Board
      PROVE  Shown(t, q) = IF q = p THEN c ELSE Shown(s, q)
  BY <1>5, <1>6, CellInjective DEF Shown
<1> QED
  BY <1>6, <1>7, <1>8 DEF t

LEMMA DrawAllShows ==
  ASSUME NEW s \in Screens, Still(s), NEW ps \in Seq(Board), NEW c \in Cells \ {CursorChar}
  PROVE  LET t == DrawAll(s, ps, c)
         IN  /\ t \in Screens /\ Still(t)
             /\ \A q \in Board : Shown(t, q) = IF q \in ToSet(ps) THEN c ELSE Shown(s, q)
<1>1. CASE ps = <<>>
  <2>1. DrawAll(s, ps, c) = s /\ ToSet(ps) = {}
    BY <1>1 DEF DrawAll, ToSet
  <2> QED
    BY <2>1
<1>2. CASE ps # <<>>
  <2> DEFINE m == [o \in Offsets |-> IF \E i \in 1 .. Len(ps) :
                                           PositionToOffset(ps[i][1], ps[i][2]) = o
                                      THEN c ELSE s.mem[o]]
             u == [s EXCEPT !.mem = m]
             t == DrawAll(s, ps, c)
  <2>1. Len(ps) \in Nat \ {0} /\ \A i \in 1 .. Len(ps) : ps[i] \in Board
    BY <1>2, EmptySeq, ElementOfSeq
  <2>2. t = DrawAt(u, ps[Len(ps)], c)
    BY <1>2 DEF DrawAll, Last
  <2>3. m \in [Offsets -> Cells]
    BY Fields
  <2>4. ASSUME NEW q \in Board
        PROVE  m[PositionToOffset(q[1], q[2])] = IF q \in ToSet(ps) THEN c ELSE Shown(s, q)
    <3>1. DOMAIN ps = 1 .. Len(ps)
      BY <2>1
    <3>2. q \in ToSet(ps) <=> \E i \in 1 .. Len(ps) :
                                PositionToOffset(ps[i][1], ps[i][2]) = PositionToOffset(q[1], q[2])
      BY <2>1, <3>1, CellInjective DEF ToSet
    <3>3. PositionToOffset(q[1], q[2]) \in Offsets
      BY CellInjective
    <3> QED
      BY <3>2, <3>3 DEF Shown
  <2> HIDE DEF m
  <2>5. u \in Screens /\ u.mem = m
    BY <2>3 DEF Screens
  <2> HIDE DEF u, t
  <2>6. /\ t \in Screens /\ Still(t)
        /\ \A q \in Board : Shown(t, q) = IF q = ps[Len(ps)] THEN c ELSE Shown(u, q)
    BY <2>1, <2>2, <2>5, DrawAtShows
  <2>7. ps[Len(ps)] \in ToSet(ps)
    BY <2>1 DEF ToSet
  <2>8. \A q \in Board : Shown(u, q) = IF q \in ToSet(ps) THEN c ELSE Shown(s, q)
    BY <2>4, <2>5 DEF Shown
  <2> QED
    BY <2>6, <2>7, <2>8 DEF t
<1> QED
  BY <1>1, <1>2

LEMMA ScoreShows ==
  ASSUME NEW s \in Screens
  PROVE  LET t == PrintScore(s)
         IN  /\ t \in Screens /\ Still(t)
             /\ t.y = 0 /\ t.mem[0] = ScoreGlyph
             /\ \A q \in Board : q[2] # 0 => Shown(t, q) = Shown(s, q)
<1> DEFINE m == [o \in Offsets |-> IF o < ScoreLength THEN ScoreGlyph ELSE s.mem[o]]
           t == PrintScore(s)
<1>1. /\ ScoreLength \in Columns /\ 0 \in Rows /\ 0 \in Offsets /\ 0 < ScoreLength
      /\ PositionToOffset(ScoreLength, 0) = ScoreLength /\ ScoreLength \in Offsets
  <2>1. ScoreLength \in Columns /\ 0 \in Columns /\ 0 \in Rows
    BY SnakeFacts DEF Columns, Rows
  <2>2. PositionToOffset(ScoreLength, 0) = ScoreLength /\ PositionToOffset(0, 0) = 0
    BY SnakeFacts DEF PositionToOffset
  <2> QED
    BY <2>1, <2>2, OffsetInMemory, SnakeFacts
<1>2. m \in [Offsets -> Cells] /\ s.mem[ScoreLength] \in Cells
  BY <1>1, Fields, GlyphFacts
<1>3. t = [s EXCEPT !.mem = m, !.x = ScoreLength, !.y = 0, !.last = s.mem[ScoreLength]]
  BY DEF PrintScore
<1>4. m[0] = ScoreGlyph /\ m[ScoreLength] = s.mem[ScoreLength]
  BY <1>1, SnakeFacts
<1>5. ASSUME NEW q \in Board, q[2] # 0
      PROVE  m[PositionToOffset(q[1], q[2])] = Shown(s, q)
  <2>1. ASSUME NEW w \in Nat, NEW x \in Nat, NEW y \in Nat, y # 0
        PROVE  x + y * w >= w /\ x + y * w \in Nat
    <3>1. y - 1 \in Nat /\ (y - 1) * w >= 0 /\ y * w = (y - 1) * w + w
      BY <2>1
    <3>2. y * w \in Int /\ (y - 1) * w \in Int
      BY <2>1
    <3> QED
      BY <2>1, <3>1, <3>2
  <2>2. q[1] \in Nat /\ q[2] \in Nat
    BY SizeAssumption, FieldFacts DEF Columns, Rows
  <2>3. PositionToOffset(q[1], q[2]) >= Width
    BY <1>5, <2>1, <2>2, SnakeFacts DEF PositionToOffset
  <2>4. PositionToOffset(q[1], q[2]) \in Offsets /\ PositionToOffset(q[1], q[2]) \in Int
    BY CellInjective DEF Offsets
  <2> QED
    BY <2>3, <2>4, SnakeFacts DEF Shown
<1> HIDE DEF m
<1>6. /\ t \in Screens /\ t.mem = m /\ t.x = ScoreLength /\ t.y = 0
      /\ t.last = s.mem[ScoreLength]
  BY <1>1, <1>2, <1>3 DEF Screens
<1> HIDE DEF t
<1>7. Still(t)
  BY <1>1, <1>4, <1>6 DEF Still, GetCharacter, Offset
<1> QED
  BY <1>4, <1>5, <1>6, <1>7 DEF Shown, t


\* A key moves the cursor of a still screen and changes nothing, or it
\* scrolls and leaves an empty bottom row.
LEMMA KeyShows ==
  ASSUME NEW s \in Screens, Still(s),
         NEW t \in {CursorUp(s), CursorDown(s), CursorLeft(s), CursorRight(s)}
  PROVE  /\ t \in Screens /\ Still(t)
         /\ \/ t.mem = s.mem
            \/ /\ s.y = Height - 1
               /\ \A x \in Columns : t.mem[PositionToOffset(x, Height - 1)] = Blank
<1>1. ASSUME NEW x \in Columns, NEW y \in Rows
      PROVE  LET d == Depart(s, x, y)
             IN  d \in Screens /\ Still(d) /\ d.mem = s.mem
  <2> DEFINE d == Depart(s, x, y)
  <2>1. /\ d \in Screens /\ d.mem = [s.mem EXCEPT ![Offset(s)] = s.last]
        /\ d.x = x /\ d.y = y /\ d.last = d.mem[PositionToOffset(x, y)]
    BY DepartFields
  <2> HIDE DEF d
  <2>2. s.last = s.mem[Offset(s)] /\ s.mem \in [Offsets -> Cells]
    BY Fields DEF Still
  <2>3. d.mem = s.mem
    BY <2>1, <2>2
  <2>4. Still(d)
    BY <2>1 DEF Still, GetCharacter, Offset
  <2> QED
    BY <2>1, <2>3, <2>4 DEF d
<1>2. CASE t # CursorDown(s) \/ s.y # Height - 1
  <2>1. \E x \in Columns, y \in Rows : t = Depart(s, x, y)
    BY <1>2, MovesDepart, Places, Fields
  <2> QED
    BY <1>1, <2>1
<1>3. CASE t = CursorDown(s) /\ s.y = Height - 1
  <2> DEFINE r == RestoreLastCharacter(s)
             m == AddNewRow(r)
  <2>1. r \in Screens /\ r.y = s.y
    BY RestoreType, Restored DEF Screens
  <2>2. t = SetLastCharacter(m)
    BY <1>3, <2>1, Overrun DEF CursorDown
  <2> HIDE DEF r
  <2>3. m \in Screens
    BY <2>1, AddNewRowType
  <2>4. ASSUME NEW x \in Columns
        PROVE  m.mem[PositionToOffset(x, Height - 1)] = Blank
    <3>1. PositionToOffset(x, Height - 1) \in Offsets /\ Height - 1 \in Rows
      BY OffsetInMemory, Places
    <3>2. /\ x \in Int /\ 0 <= x /\ x <= Width - 1 /\ LastRow \in Int /\ Width * Height \in Int
          /\ Width \in Int
      BY SizeAssumption DEF Columns, LastRow
    <3>3. PositionToOffset(x, Height - 1) = x + LastRow
      BY <3>2, SizeAssumption DEF PositionToOffset, LastRow
    <3>4. PositionToOffset(x, Height - 1) \in LastRow .. (Width * Height - 1)
      BY <3>2, <3>3, LastCell
    <3>5. DOMAIN r.mem = Offsets
      BY <2>1 DEF Screens
    <3>6. m.mem = [o \in Offsets |->
                     IF o \in LastRow .. (Width * Height - 1) THEN Blank
                     ELSE IF o < LastRow /\ RowCopied(o) THEN r.mem[o + Width]
                     ELSE r.mem[o]]
      BY <2>1, <3>5 DEF AddNewRow, Screens
    <3> QED
      BY <3>1, <3>4, <3>6
  <2> HIDE DEF m
  <2>5. t \in Screens /\ t.mem = m.mem /\ t.last = GetCharacter(m) /\ Offset(t) = Offset(m)
    BY <2>2, <2>3, SetLastType DEF SetLastCharacter, Screens, Offset
  <2>6. Still(t)
    BY <2>5 DEF Still, GetCharacter
  <2> QED
    BY <1>3, <2>4, <2>5, <2>6
<1> QED
  BY <1>2, <1>3

-------------------------------------------------------------------------------
(***************************************************************************)
(* Sequences: the set of the elements, and what the moves of the snake and *)
(* of the food do to it.                                                   *)
(***************************************************************************)
LEMMA Elements ==
  ASSUME NEW S, NEW q \in Seq(S)
  PROVE  /\ Len(q) \in Nat /\ DOMAIN q = 1 .. Len(q)
         /\ \A i \in 1 .. Len(q) : q[i] \in S
         /\ \A e : e \in ToSet(q) <=> \E i \in 1 .. Len(q) : q[i] = e
         /\ \A e : Contains(q, e) <=> e \in ToSet(q)
         /\ ToSet(q) \subseteq S
BY ElementOfSeq, LenProperties DEF ToSet, Contains

LEMMA ButLast ==
  ASSUME NEW S, NEW q \in Seq(S), q # <<>>
  PROVE  /\ Front(q) \in Seq(S) /\ Len(Front(q)) = Len(q) - 1
         /\ \A i \in 1 .. (Len(q) - 1) : Front(q)[i] = q[i]
<1> DEFINE n == Len(q) - 1
<1>1. n \in Nat
  BY EmptySeq
<1>2. \A i \in 1 .. n : q[i] \in S
  BY <1>1, ElementOfSeq
<1> HIDE DEF n
<1>3. /\ SubSeq(q, 1, n) \in Seq(S)
      /\ Len(SubSeq(q, 1, n)) = IF 1 <= n THEN n - 1 + 1 ELSE 0
      /\ \A i \in 1 .. (n - 1 + 1) : SubSeq(q, 1, n)[i] = q[1 + i - 1]
  BY <1>1, <1>2, SubSeqProperties
<1>4. Len(SubSeq(q, 1, n)) = n /\ \A i \in 1 .. n : SubSeq(q, 1, n)[i] = q[i]
  BY <1>1, <1>3
<1> QED
  BY <1>3, <1>4 DEF n, Front

LEMMA InFront ==
  ASSUME NEW S, NEW e \in S, NEW q \in Seq(S)
  PROVE  /\ <<e>> \o q \in Seq(S) /\ Len(<<e>> \o q) = Len(q) + 1
         /\ (<<e>> \o q)[1] = e
         /\ \A i \in 1 .. Len(q) : (<<e>> \o q)[i + 1] = q[i]
         /\ Tail(<<e>> \o q) = q
<1> DEFINE h == <<e>>
           t == h \o q
<1>1. h \in Seq(S) /\ Len(h) = 1 /\ h[1] = e /\ Len(q) \in Nat
  BY LenProperties
<1> HIDE DEF h
<1>2. /\ t \in Seq(S) /\ Len(t) = 1 + Len(q)
      /\ \A i \in 1 .. (1 + Len(q)) : t[i] = IF i <= 1 THEN h[i] ELSE q[i - 1]
  <2>1. /\ t \in Seq(S) /\ Len(t) = Len(h) + Len(q)
        /\ \A i \in 1 .. Len(h) + Len(q) : t[i] = IF i <= Len(h) THEN h[i] ELSE q[i - Len(h)]
    BY <1>1, ConcatProperties
  <2> HIDE DEF t
  <2> QED
    BY <1>1, <2>1
<1> HIDE DEF t
<1>3. t # <<>>
  BY <1>1, <1>2, EmptySeq
<1>4. /\ Tail(t) \in Seq(S) /\ Len(Tail(t)) = Len(q)
      /\ \A i \in 1 .. Len(q) : Tail(t)[i] = t[i + 1]
  BY <1>1, <1>2, <1>3, HeadTailProperties
<1>5. t[1] = e /\ \A i \in 1 .. Len(q) : t[i + 1] = q[i]
  BY <1>1, <1>2
<1>6. Tail(t) = q
  BY <1>4, <1>5, SeqEqual
<1> QED
  BY <1>1, <1>2, <1>5, <1>6 DEF h, t

\* One occurrence of an element is taken out of a sequence and the rest stays.
LEMMA TakenOut ==
  ASSUME NEW S, NEW q \in Seq(S), NEW e, Contains(q, e)
  PROVE  LET r == RemoveFirst(q, e)
         IN  /\ r \in Seq(S) /\ Len(r) = Len(q) - 1
             /\ \A d \in ToSet(q) : d = e \/ d \in ToSet(r)
<1> DEFINE I == {i \in 1 .. Len(q) : q[i] = e}
           k == Min(I)
           a == SubSeq(q, 1, k - 1)
           b == SubSeq(q, k + 1, Len(q))
           r == RemoveFirst(q, e)
<1>1. Len(q) \in Nat /\ \A i \in 1 .. Len(q) : q[i] \in S
  BY Elements
<1>2. I # {} /\ I \in SUBSET Nat
  BY DEF Contains
<1>3. k \in 1 .. Len(q) /\ q[k] = e
  <2>1. \E m \in I : \A j \in I : m <= j
    BY <1>2, LeastNumber
  <2>2. k \in I
    BY <2>1 DEF Min
  <2> QED
    BY <2>2
<1>4. r = a \o b
  BY <1>2 DEF RemoveFirst, RemoveAt, SelectInSeq, Contains
<1> HIDE DEF k, I
<1>5. /\ a \in Seq(S) /\ Len(a) = k - 1
      /\ \A i \in 1 .. (k - 1) : a[i] = q[i]
  <2>1. 1 \in Int /\ k - 1 \in Int /\ \A i \in 1 .. (k - 1) : q[i] \in S
    BY <1>1, <1>3
  <2> DEFINE n == k - 1
  <2> HIDE DEF n
  <2>2. /\ SubSeq(q, 1, n) \in Seq(S)
        /\ Len(SubSeq(q, 1, n)) = IF 1 <= n THEN n - 1 + 1 ELSE 0
        /\ \A i \in 1 .. (n - 1 + 1) : SubSeq(q, 1, n)[i] = q[1 + i - 1]
    BY <2>1, SubSeqProperties DEF n
  <2> QED
    BY <1>1, <1>3, <2>2 DEF n
<1>6. /\ b \in Seq(S) /\ Len(b) = Len(q) - k
      /\ \A i \in 1 .. (Len(q) - k) : b[i] = q[k + i]
  <2> DEFINE m == k + 1
             n == Len(q)
  <2>1. m \in Int /\ n \in Int /\ \A i \in m .. n : q[i] \in S
    BY <1>1, <1>3
  <2> HIDE DEF m, n
  <2>2. /\ SubSeq(q, m, n) \in Seq(S)
        /\ Len(SubSeq(q, m, n)) = IF m <= n THEN n - m + 1 ELSE 0
        /\ \A i \in 1 .. (n - m + 1) : SubSeq(q, m, n)[i] = q[m + i - 1]
    BY <2>1, SubSeqProperties
  <2> QED
    BY <1>1, <1>3, <2>2 DEF m, n
<1> HIDE DEF a, b, r
<1>7. /\ r \in Seq(S) /\ Len(r) = Len(q) - 1
      /\ \A i \in 1 .. (Len(q) - 1) : r[i] = IF i <= k - 1 THEN a[i] ELSE b[i - (k - 1)]
  <2>1. /\ r \in Seq(S) /\ Len(r) = Len(a) + Len(b)
        /\ \A i \in 1 .. Len(a) + Len(b) : r[i] = IF i <= Len(a) THEN a[i] ELSE b[i - Len(a)]
    BY <1>4, <1>5, <1>6, ConcatProperties
  <2>2. Len(a) + Len(b) = Len(q) - 1
    BY <1>1, <1>3, <1>5, <1>6
  <2> QED
    BY <1>5, <2>1, <2>2
<1>8. ASSUME NEW d \in ToSet(q), d # e
      PROVE  d \in ToSet(r)
  <2>1. PICK i \in 1 .. Len(q) : q[i] = d
    BY Elements
  <2>2. i # k /\ i \in Int /\ k \in Int
    BY <1>3, <1>8, <2>1
  <2>3. CASE i < k
    <3>1. i \in 1 .. (Len(q) - 1) /\ i <= k - 1 /\ i \in 1 .. (k - 1)
      BY <1>1, <1>3, <2>1, <2>3
    <3>2. r[i] = d
      BY <1>5, <1>7, <2>1, <3>1
    <3> QED
      BY <1>7, <3>1, <3>2, Elements
  <2>4. CASE i > k
    <3>1. /\ i - 1 \in 1 .. (Len(q) - 1) /\ ~(i - 1 <= k - 1)
          /\ i - 1 - (k - 1) = i - k /\ i - k \in 1 .. (Len(q) - k) /\ k + (i - k) = i
      BY <1>1, <1>3, <2>1, <2>4
    <3>2. r[i - 1] = d
      BY <1>6, <1>7, <2>1, <3>1
    <3> QED
      BY <1>7, <3>1, <3>2, Elements
  <2> QED
    BY <2>2, <2>3, <2>4
<1> QED
  BY <1>7, <1>8 DEF r


-------------------------------------------------------------------------------
(***************************************************************************)
(* The pieces of the snake and of food.                                    *)
(***************************************************************************)
\* One step from a cell of the field leads at most onto the inner wall.
LEMMA Steps ==
  ASSUME NEW p \in Field, NEW d \in Arrows
  PROVE  /\ Plus(p, Vector[d]) \in Board
         /\ Plus(p, Vector[d])[2] # 0 /\ Plus(p, Vector[d])[2] # Height - 1
<1>1. p[1] \in 2 .. (Width - 3) /\ p[2] \in 2 .. (Height - 3)
  BY FieldFacts
<1>2. Vector[d] \in {<<0, -1>>, <<0, 1>>, <<-1, 0>>, <<1, 0>>}
  BY DEF Vector, Arrows
<1>3. Plus(p, Vector[d]) \in {<<p[1], p[2] - 1>>, <<p[1], p[2] + 1>>, <<p[1] - 1, p[2]>>, <<p[1] + 1, p[2]>>}
  BY <1>1, <1>2 DEF Plus
<1> QED
  BY <1>1, <1>3, SnakeFacts DEF Board, Columns, Rows

LEMMA FieldOnBoard ==
  /\ Field \subseteq Board
  /\ \A p \in Field : ~OnMap(p) /\ p[2] # 0 /\ p[2] # Height - 1
  /\ \A p \in Board : OnMap(p) => p[2] # 0
<1>1. Field \subseteq Board
  BY DEF Field
<1>2. ASSUME NEW p \in Field
      PROVE  ~OnMap(p) /\ p[2] # 0 /\ p[2] # Height - 1
  BY FieldFacts, SnakeFacts DEF OnMap
<1>3. ASSUME NEW p \in Board, OnMap(p)
      PROVE  p[2] # 0
  BY <1>3, SnakeFacts DEF OnMap
<1> QED
  BY <1>1, <1>2, <1>3

\* The snake has two pieces at least; all but the head lie in the field,
\* and the head not beyond the inner wall.
LEMMA Pieces ==
  ASSUME TypeOK, SnakeHoldsTogether
  PROVE  /\ Len(snake) \in Nat /\ Len(snake) >= 2 /\ DOMAIN snake = 1 .. Len(snake)
         /\ \A i \in 1 .. Len(snake) : snake[i] \in Board
         /\ \A i \in 2 .. Len(snake) : snake[i] \in Field
         /\ Head(snake) = snake[1] /\ Last(snake) = snake[Len(snake)]
         /\ \A p \in ToSet(snake) : p \in Board /\ p[2] # 0 /\ p[2] # Height - 1
<1>1. snake \in Seq(Board) /\ snake # <<>> /\ score \in Nat
  BY DEF TypeOK
<1>2. /\ Len(snake) \in Nat /\ DOMAIN snake = 1 .. Len(snake)
      /\ \A i \in 1 .. Len(snake) : snake[i] \in Board
      /\ \A e : e \in ToSet(snake) <=> \E i \in 1 .. Len(snake) : snake[i] = e
  BY <1>1, Elements
<1>3. Len(snake) >= 2
  <2>1. 25 * (Len(snake) - InitialLength) = score
    BY DEF SnakeHoldsTogether
  <2> QED
    BY <1>1, <1>2, <2>1, SnakeFacts
<1>4. \A i \in 2 .. Len(snake) : snake[i] \in Field
  BY DEF SnakeHoldsTogether
<1>5. Head(snake) = snake[1] /\ Last(snake) = snake[Len(snake)]
  BY <1>1 DEF Last
<1>6. snake[1] \in Board /\ snake[1][2] # 0 /\ snake[1][2] # Height - 1
  <2>1. 1 \in 1 .. (Len(snake) - 1) /\ 2 \in 2 .. Len(snake)
    BY <1>2, <1>3
  <2>2. Adjacent(snake[1 + 1], snake[1])
    BY <2>1 DEF SnakeHoldsTogether
  <2>3. PICK d \in Arrows : Plus(snake[2], Vector[d]) = snake[1]
    BY <2>2 DEF Adjacent
  <2> QED
    BY <1>4, <2>1, <2>3, Steps
<1>7. ASSUME NEW p \in ToSet(snake)
      PROVE  p \in Board /\ p[2] # 0 /\ p[2] # Height - 1
  <2>1. PICK i \in 1 .. Len(snake) : snake[i] = p
    BY <1>2
  <2>2. CASE i = 1
    BY <1>6, <2>1, <2>2
  <2>3. CASE i # 1
    BY <1>2, <1>4, <2>1, <2>3, FieldOnBoard
  <2> QED
    BY <2>2, <2>3
<1> QED
  BY <1>2, <1>3, <1>4, <1>5, <1>7

\* A new piece of food falls in the field and off the snake.
LEMMA FoodFalls ==
  ASSUME TypeOK, NEW f \in CalculateFood
  PROVE  /\ f \in Seq(Field) /\ Len(f) <= MaxFood /\ ToSet(f) \subseteq Field
         /\ ToSet(food) \subseteq ToSet(f)
         /\ \A p \in ToSet(f) : p \in ToSet(food) \/ p \notin ToSet(snake)
<1>1. food \in Seq(Field) /\ Len(food) <= MaxFood /\ Len(food) \in Nat
  BY Elements DEF TypeOK
<1>2. CASE f = food
  BY <1>1, <1>2, Elements
<1>3. CASE f # food
  <2>1. PICK p \in RandomCells \ ToSet(snake) : f = Append(food, p) /\ Len(food) < MaxFood
    BY <1>3 DEF CalculateFood
  <2>2. p \in Field
    BY <2>1, FieldFacts
  <2>3. /\ f \in Seq(Field) /\ Len(f) = Len(food) + 1
        /\ \A i \in 1 .. Len(food) : f[i] = food[i]
        /\ f[Len(food) + 1] = p
    BY <1>1, <2>1, <2>2, AppendProperties
  <2>4. /\ \A e : e \in ToSet(f) <=> \E i \in 1 .. Len(f) : f[i] = e
        /\ \A e : e \in ToSet(food) <=> \E i \in 1 .. Len(food) : food[i] = e
        /\ ToSet(f) \subseteq Field
    BY <1>1, <2>3, Elements
  <2>5. ASSUME NEW e
        PROVE  e \in ToSet(f) <=> e \in ToSet(food) \/ e = p
    BY <1>1, <2>3, <2>4
  <2>6. Len(f) <= MaxFood
    BY <1>1, <2>1, <2>3, SnakeFacts
  <2> QED
    BY <2>1, <2>3, <2>4, <2>5, <2>6
<1> QED
  BY <1>2, <1>3

\* A snake that meets neither the wall nor itself stays in one piece.
LEMMA SnakeMoves ==
  ASSUME TypeOK, SnakeHoldsTogether, ~HitsWall(Head(snake)), NEW d \in Arrows,
         NEW hit \in {"FOOD", "NONE"}
  PROVE  LET rest == Follow(hit)
             t == <<Plus(Head(rest), Vector[d])>> \o rest
         IN  /\ t \in Seq(Board) /\ t # <<>> /\ Tail(t) = rest
             /\ Len(t) = IF hit = "FOOD" THEN Len(snake) + 1 ELSE Len(snake)
             /\ \A i \in 1 .. (Len(t) - 1) : Adjacent(t[i + 1], t[i])
             /\ \A i \in 2 .. Len(t) : t[i] \in Field
             /\ ToSet(rest) \subseteq ToSet(t)
<1> DEFINE rest == Follow(hit)
           e == Plus(Head(rest), Vector[d])
           t == <<e>> \o rest
           n == Len(rest)
<1>1. /\ Len(snake) \in Nat /\ Len(snake) >= 2
      /\ \A i \in 2 .. Len(snake) : snake[i] \in Field
      /\ Head(snake) = snake[1] /\ snake[1] \in Board
      /\ snake \in Seq(Board) /\ snake # <<>>
  BY Pieces DEF TypeOK
<1>2. snake[1] \in Field
  BY <1>1 DEF Field
<1>3. \A i \in 1 .. Len(snake) : snake[i] \in Field
  BY <1>1, <1>2
<1>4. \A i \in 1 .. (Len(snake) - 1) : Adjacent(snake[i + 1], snake[i])
  BY DEF SnakeHoldsTogether
<1>5. /\ rest \in Seq(Board) /\ n = IF hit = "FOOD" THEN Len(snake) ELSE Len(snake) - 1
      /\ \A i \in 1 .. n : rest[i] = snake[i]
  BY <1>1, ButLast DEF Follow
<1> HIDE DEF rest
<1>6. n \in Nat /\ n >= 1 /\ n <= Len(snake)
  BY <1>1, <1>5
<1>7. Head(rest) = rest[1] /\ rest[1] = snake[1]
  BY <1>5, <1>6
<1>8. e \in Board /\ Adjacent(rest[1], e)
  BY <1>2, <1>7, Steps DEF Adjacent
<1> HIDE DEF e, n
<1>9. /\ t \in Seq(Board) /\ Len(t) = n + 1 /\ t[1] = e
      /\ \A i \in 1 .. n : t[i + 1] = rest[i]
      /\ Tail(t) = rest
  BY <1>5, <1>8, InFront DEF n
<1> HIDE DEF t
<1>10. t # <<>>
  BY <1>6, <1>9, EmptySeq
<1>11. ASSUME NEW i \in 1 .. (Len(t) - 1)
       PROVE  Adjacent(t[i + 1], t[i])
  <2>1. CASE i = 1
    BY <1>6, <1>8, <1>9, <2>1
  <2>2. CASE i # 1
    <3>1. i - 1 \in 1 .. n /\ i \in 1 .. n /\ i - 1 + 1 = i /\ i - 1 \in 1 .. (Len(snake) - 1)
      BY <1>1, <1>6, <1>9, <2>2
    <3>2. t[i] = snake[i - 1] /\ t[i + 1] = snake[i]
      <4>1. t[i - 1 + 1] = rest[i - 1] /\ t[i + 1] = rest[i]
        BY <1>9, <3>1
      <4> QED
        BY <1>5, <3>1, <4>1 DEF n
    <3>3. Adjacent(snake[i - 1 + 1], snake[i - 1])
      BY <1>4, <3>1
    <3> QED
      BY <3>1, <3>2, <3>3
  <2> QED
    BY <2>1, <2>2
<1>12. ASSUME NEW i \in 2 .. Len(t)
       PROVE  t[i] \in Field
  <2>1. i - 1 \in 1 .. n /\ i - 1 + 1 = i /\ i - 1 \in 1 .. Len(snake)
    BY <1>1, <1>6, <1>9
  <2>2. t[i - 1 + 1] = rest[i - 1] /\ rest[i - 1] = snake[i - 1]
    BY <1>5, <1>9, <2>1 DEF n
  <2> QED
    BY <1>3, <2>1, <2>2
<1>13. ToSet(rest) \subseteq ToSet(t)
  <2>1. ASSUME NEW p \in ToSet(rest)
        PROVE  p \in ToSet(t)
    <3>1. PICK i \in 1 .. n : rest[i] = p
      BY <1>5, Elements DEF n
    <3>2. i + 1 \in 1 .. Len(t) /\ t[i + 1] = p
      BY <1>6, <1>9, <3>1
    <3> QED
      BY <1>9, <3>2, Elements
  <2> QED
    BY <2>1
<1> QED
  BY <1>1, <1>5, <1>6, <1>9, <1>10, <1>11, <1>12, <1>13 DEF t, e, n, rest


-------------------------------------------------------------------------------
(***************************************************************************)
(* The picture.  Whole(s) says that the bottom row is as draw_map left it, *)
(* Clean(s, sn, fd) that a screen shows nothing but the wall, the snake sn *)
(* and the food fd.                                                        *)
(***************************************************************************)
Whole(s) == \A x \in Columns : s.mem[PositionToOffset(x, Height - 1)] = WallGlyph

Clean(s, sn, fd) ==
  \A p \in Board : /\ OnMap(p) => Shown(s, p) = WallGlyph
                   /\ p \in Field \ (ToSet(sn) \cup ToSet(fd)) => Shown(s, p) = Blank

Drawn(f) == DrawAll(DrawSnake(scr), f, FoodGlyph)

LEMMA BottomCells ==
  ASSUME NEW s \in Screens
  PROVE  Whole(s) <=> \A p \in Board : p[2] = Height - 1 => Shown(s, p) = WallGlyph
<1>1. ASSUME Whole(s), NEW p \in Board, p[2] = Height - 1
      PROVE  Shown(s, p) = WallGlyph
  BY <1>1, FieldFacts DEF Whole, Shown
<1>2. ASSUME \A p \in Board : p[2] = Height - 1 => Shown(s, p) = WallGlyph, NEW x \in Columns
      PROVE  s.mem[PositionToOffset(x, Height - 1)] = WallGlyph
  <2>1. <<x, Height - 1>> \in Board
    BY Places DEF Board
  <2>2. Shown(s, <<x, Height - 1>>) = WallGlyph
    BY <1>2, <2>1
  <2> QED
    BY <2>2 DEF Shown
<1> QED
  BY <1>1, <1>2 DEF Whole

LEMMA MapShows ==
  /\ Map \in Screens /\ Still(Map) /\ Map.mem[0] = Blank
  /\ \A p \in Board : Shown(Map, p) = IF OnMap(p) THEN WallGlyph ELSE Blank
<1> DEFINE cell(o) == IF OnMap(<<o % Width, o \div Width>>) THEN WallGlyph ELSE Blank
           m == [o \in Offsets |-> cell(o)]
<1>1. ASSUME NEW w \in Nat, NEW x \in 0 .. (w - 1), NEW y \in Nat
      PROVE  (x + y * w) % w = x /\ (x + y * w) \div w = y
  <2> DEFINE o == x + y * w
  <2>1. w \in Nat \ {0} /\ o \in Nat
    BY <1>1
  <2> HIDE DEF o
  <2>2. /\ o \div w \in Int /\ o % w \in 0 .. (w - 1) /\ o = (w * (o \div w)) + (o % w)
    BY <2>1
  <2> DEFINE v == o \div w
             u == o % w
  <2> HIDE DEF u, v
  <2>3. v \in Int /\ u \in 0 .. (w - 1) /\ x + y * w = u + v * w
    BY <2>2 DEF u, v, o
  <2>4. ASSUME NEW a \in Int, NEW b \in Int, a < b
        PROVE  a * w + w <= b * w
    <3>1. b - a - 1 \in Nat /\ (b - a - 1) * w >= 0
      BY <2>4
    <3>2. b * w = (b - a - 1) * w + a * w + w
      BY <2>4
    <3>3. a * w \in Int /\ b * w \in Int /\ (b - a - 1) * w \in Int
      BY <2>4
    <3> QED
      BY <3>1, <3>2, <3>3
  <2>5. y * w \in Int /\ v * w \in Int
    BY <2>3
  <2>6. ~(y < v) /\ ~(v < y)
    BY <2>3, <2>4, <2>5
  <2> QED
    BY <2>3, <2>5, <2>6 DEF u, v, o
<1>2. ASSUME NEW p \in Board
      PROVE  /\ PositionToOffset(p[1], p[2]) \in Offsets
             /\ cell(PositionToOffset(p[1], p[2])) = IF OnMap(p) THEN WallGlyph ELSE Blank
  <2>1. p = <<p[1], p[2]>> /\ p[1] \in 0 .. (Width - 1) /\ p[2] \in Nat /\ Width \in Nat
    BY FieldFacts, SizeAssumption DEF Columns, Rows
  <2>2. /\ PositionToOffset(p[1], p[2]) % Width = p[1]
        /\ PositionToOffset(p[1], p[2]) \div Width = p[2]
    BY <1>1, <2>1 DEF PositionToOffset
  <2> QED
    BY <2>1, <2>2, CellInjective
<1>3. \A o \in Offsets : cell(o) \in Cells
  BY GlyphFacts
<1>4. Map = [mem |-> m, x |-> Width - 1, y |-> Height - 1, last |-> WallGlyph,
             showing |-> TRUE, enabled |-> FALSE]
  BY DEF Map
<1> HIDE DEF cell
<1>5. m \in [Offsets -> Cells]
  BY <1>3
<1>6. \A p \in Board : m[PositionToOffset(p[1], p[2])] = IF OnMap(p) THEN WallGlyph ELSE Blank
  BY <1>2
<1> HIDE DEF m
<1>7. Width - 1 \in Columns /\ Height - 1 \in Rows /\ 0 \in Columns /\ 0 \in Rows /\ WallGlyph \in Cells
  BY SnakeFacts, GlyphFacts DEF Columns, Rows
<1>8. /\ Map \in Screens /\ Map.mem = m /\ Map.last = WallGlyph
      /\ Map.x = Width - 1 /\ Map.y = Height - 1
  BY <1>4, <1>5, <1>7 DEF Screens
<1>9. <<Width - 1, Height - 1>> \in Board /\ <<0, 0>> \in Board
  BY <1>7 DEF Board
<1>10. Still(Map)
  <2>1. OnMap(<<Width - 1, Height - 1>>)
    BY DEF OnMap
  <2>2. m[PositionToOffset(Width - 1, Height - 1)] = WallGlyph
    BY <1>6, <1>9, <2>1
  <2> QED
    BY <1>8, <2>2 DEF Still, GetCharacter, Offset
<1>11. Map.mem[0] = Blank
  <2>1. PositionToOffset(0, 0) = 0 /\ ~OnMap(<<0, 0>>)
    BY SnakeFacts DEF PositionToOffset, OnMap
  <2>2. m[PositionToOffset(0, 0)] = Blank
    BY <1>6, <1>9, <2>1
  <2> QED
    BY <1>8, <2>1, <2>2
<1> QED
  BY <1>6, <1>8, <1>10, <1>11 DEF Shown

\* What a frame draws before it looks where the snake is.
LEMMA FrameDraws ==
  ASSUME TypeOK, SnakeHoldsTogether, NEW f \in CalculateFood
  PROVE  /\ Drawn(f) \in Screens /\ Still(Drawn(f))
         /\ \A p \in Board : p \notin ToSet(snake) \cup ToSet(f) => Shown(Drawn(f), p) = Shown(scr, p)
         /\ Whole(Drawn(f)) <=> Whole(scr)
<1> DEFINE a == DrawAt(scr, Head(snake), HeadGlyph)
           b == DrawAll(a, Tail(snake), BodyGlyph)
           c == Drawn(f)
<1>1. /\ scr \in Screens /\ snake \in Seq(Board) /\ snake # <<>>
      /\ {HeadGlyph, BodyGlyph, FoodGlyph} \subseteq Cells \ {CursorChar}
  BY GlyphFacts DEF TypeOK
<1>2. /\ Tail(snake) \in Seq(Board) /\ Head(snake) \in Board
      /\ ToSet(Tail(snake)) \subseteq ToSet(snake) /\ Head(snake) \in ToSet(snake)
  <2>1. /\ Head(snake) \in Board /\ Tail(snake) \in Seq(Board) /\ Len(Tail(snake)) = Len(snake) - 1
        /\ \A i \in 1 .. Len(Tail(snake)) : Tail(snake)[i] = snake[i + 1]
    BY <1>1, HeadTailProperties
  <2>2. Len(snake) \in Nat /\ Len(snake) >= 2 /\ Head(snake) = snake[1]
    BY Pieces
  <2>3. Head(snake) \in ToSet(snake)
    <3>1. 1 \in 1 .. Len(snake)
      BY <2>2
    <3> QED
      BY <1>1, <2>2, <3>1, Elements
  <2>4. ASSUME NEW e \in ToSet(Tail(snake))
        PROVE  e \in ToSet(snake)
    <3>1. PICK i \in 1 .. Len(Tail(snake)) : Tail(snake)[i] = e
      BY <2>1, Elements
    <3>2. i + 1 \in 1 .. Len(snake) /\ snake[i + 1] = e
      BY <2>1, <2>2, <3>1
    <3> QED
      BY <1>1, <3>2, Elements
  <2> QED
    BY <2>1, <2>3, <2>4
<1>3. f \in Seq(Board) /\ ToSet(f) \subseteq Field
  BY FoodFalls, FieldOnBoard, SeqMonotonic
<1>4. /\ a \in Screens /\ Still(a)
      /\ \A q \in Board : Shown(a, q) = IF q = Head(snake) THEN HeadGlyph ELSE Shown(scr, q)
  BY <1>1, <1>2, DrawAtShows
<1> HIDE DEF a
<1>5. /\ b \in Screens /\ Still(b)
      /\ \A q \in Board : Shown(b, q) = IF q \in ToSet(Tail(snake)) THEN BodyGlyph ELSE Shown(a, q)
  <2> DEFINE rest == Tail(snake)
             r == DrawAll(a, rest, BodyGlyph)
  <2>1. rest \in Seq(Board) /\ BodyGlyph \in Cells \ {CursorChar}
    BY <1>1, <1>2
  <2> HIDE DEF rest
  <2>2. /\ r \in Screens /\ Still(r)
        /\ \A q \in Board : Shown(r, q) = IF q \in ToSet(rest) THEN BodyGlyph ELSE Shown(a, q)
    BY <1>4, <2>1, DrawAllShows
  <2> QED
    BY <2>2 DEF rest
<1>6. c = DrawAll(b, f, FoodGlyph)
  BY DEF Drawn, DrawSnake, a
<1> HIDE DEF b, c
<1>7. /\ c \in Screens /\ Still(c)
      /\ \A q \in Board : Shown(c, q) = IF q \in ToSet(f) THEN FoodGlyph ELSE Shown(b, q)
  BY <1>1, <1>3, <1>5, <1>6, DrawAllShows
<1>8. \A p \in Board : p \notin ToSet(snake) \cup ToSet(f) => Shown(c, p) = Shown(scr, p)
  BY <1>2, <1>4, <1>5, <1>7
<1>9. Whole(c) <=> Whole(scr)
  <2>1. \A p \in ToSet(snake) \cup ToSet(f) : p[2] # Height - 1
    BY <1>3, FieldOnBoard, Pieces
  <2>2. \A p \in Board : p[2] = Height - 1 => Shown(c, p) = Shown(scr, p)
    BY <1>8, <2>1
  <2> QED
    BY <1>1, <1>7, <2>2, BottomCells
<1> QED
  BY <1>7, <1>8, <1>9 DEF c

\* What it leaves when the snake goes on, for the new snake t and food g.
LEMMA FrameLeaves ==
  ASSUME TypeOK, SnakeHoldsTogether, ~HitsWall(Head(snake)), NEW f \in CalculateFood,
         NEW hit \in {"FOOD", "NONE"}, NEW t, NEW g,
         ToSet(Follow(hit)) \subseteq ToSet(t),
         \A p \in ToSet(f) : p \in ToSet(g) \/ p \in ToSet(t)
  PROVE  LET s == PrintScore(Erase(Drawn(f), hit))
         IN  /\ s \in Screens /\ Still(s) /\ s.y = 0
             /\ Whole(s) <=> Whole(scr)
             /\ Clean(scr, snake, food) => Clean(s, t, g)
<1> DEFINE d == Drawn(f)
           e == Erase(d, hit)
           s == PrintScore(e)
           l == Last(snake)
<1>1. /\ d \in Screens /\ Still(d)
      /\ \A p \in Board : p \notin ToSet(snake) \cup ToSet(f) => Shown(d, p) = Shown(scr, p)
      /\ Whole(d) <=> Whole(scr)
  BY FrameDraws
<1> HIDE DEF d
<1>2. /\ Len(snake) \in Nat /\ Len(snake) >= 2
      /\ \A i \in 2 .. Len(snake) : snake[i] \in Field
      /\ snake \in Seq(Board) /\ snake # <<>>
      /\ Head(snake) = snake[1] /\ snake[1] \in Board /\ l = snake[Len(snake)]
  BY Pieces DEF TypeOK
<1>3. l \in Field /\ ToSet(snake) \subseteq Field
  <2>1. snake[1] \in Field
    BY <1>2 DEF Field
  <2>2. \A i \in 1 .. Len(snake) : snake[i] \in Field
    BY <1>2, <2>1
  <2>3. Len(snake) \in 1 .. Len(snake)
    BY <1>2
  <2>4. ASSUME NEW q \in ToSet(snake)
        PROVE  q \in Field
    <3>1. PICK i \in 1 .. Len(snake) : snake[i] = q
      BY <1>2, Elements
    <3> QED
      BY <2>2, <3>1
  <2> QED
    BY <1>2, <2>2, <2>3, <2>4
<1>4. /\ e \in Screens
      /\ \A p \in Board : Shown(e, p) = IF hit # "FOOD" /\ p = l THEN Blank ELSE Shown(d, p)
  <2>1. CASE hit = "FOOD"
    BY <1>1, <2>1 DEF Erase
  <2>2. CASE hit # "FOOD"
    <3>1. l \in Board /\ Blank \in Cells \ {CursorChar}
      BY <1>3, FieldOnBoard, GlyphFacts
    <3>2. e = DrawAt(d, l, Blank)
      BY <2>2 DEF Erase
    <3> HIDE DEF l, e
    <3> QED
      BY <1>1, <2>2, <3>1, <3>2, DrawAtShows
  <2> QED
    BY <2>1, <2>2
<1> HIDE DEF e
<1>5. /\ s \in Screens /\ Still(s) /\ s.y = 0
      /\ \A p \in Board : p[2] # 0 => Shown(s, p) = Shown(e, p)
  BY <1>4, ScoreShows
<1> HIDE DEF s, l
<1>6. /\ f \in Seq(Field) /\ ToSet(f) \subseteq Field /\ ToSet(food) \subseteq ToSet(f)
  BY FoodFalls
<1>7. Whole(s) <=> Whole(scr)
  <2>1. ASSUME NEW p \in Board, p[2] = Height - 1
        PROVE  Shown(s, p) = Shown(d, p)
    BY <1>3, <1>4, <1>5, <2>1, FieldOnBoard, SnakeFacts
  <2> QED
    BY <1>1, <1>5, <2>1, BottomCells
<1>8. ASSUME Clean(scr, snake, food), NEW p \in Board, OnMap(p)
      PROVE  Shown(s, p) = WallGlyph
  <2>1. p \notin Field /\ p[2] # 0
    BY <1>8, FieldOnBoard
  <2>2. Shown(s, p) = Shown(scr, p)
    BY <1>1, <1>3, <1>4, <1>5, <1>6, <2>1
  <2> QED
    BY <1>8, <2>2 DEF Clean
<1>9. ASSUME Clean(scr, snake, food), NEW p \in Field \ (ToSet(t) \cup ToSet(g))
      PROVE  Shown(s, p) = Blank
  <2>1. p \in Board /\ p[2] # 0 /\ p \notin ToSet(f) /\ p \notin ToSet(Follow(hit))
    BY FieldOnBoard
  <2>2. CASE p \in ToSet(snake)
    <3>1. hit # "FOOD"
      BY <2>1, <2>2 DEF Follow
    <3>2. PICK i \in 1 .. Len(snake) : snake[i] = p
      BY <1>2, <2>2, Elements
    <3>3. i = Len(snake)
      <4>1. /\ Front(snake) \in Seq(Board) /\ Len(Front(snake)) = Len(snake) - 1
            /\ \A j \in 1 .. (Len(snake) - 1) : Front(snake)[j] = snake[j]
        BY <1>2, ButLast
      <4>2. p \notin ToSet(Front(snake))
        BY <2>1, <3>1 DEF Follow
      <4>3. i \notin 1 .. (Len(snake) - 1)
        BY <3>2, <4>1, <4>2, Elements
      <4> QED
        BY <1>2, <4>3
    <3> QED
      BY <1>2, <1>4, <1>5, <2>1, <3>1, <3>2, <3>3
  <2>3. CASE p \notin ToSet(snake)
    <3>1. Shown(s, p) = Blank \/ Shown(s, p) = Shown(d, p)
      BY <1>4, <1>5, <2>1
    <3>2. Shown(d, p) = Shown(scr, p)
      BY <1>1, <2>1, <2>3
    <3>3. Shown(scr, p) = Blank
      BY <1>6, <1>9, <2>1, <2>3 DEF Clean
    <3> QED
      BY <3>1, <3>2, <3>3
  <2> QED
    BY <2>2, <2>3
<1>10. Clean(scr, snake, food) => Clean(s, t, g)
  BY <1>8, <1>9 DEF Clean
<1> QED
  BY <1>5, <1>7, <1>10 DEF s, e, d


-------------------------------------------------------------------------------
(***************************************************************************)
(* The inductive invariant.  Between the frames the screen is still, so    *)
(* that a key restores what is there; and after a frame the cursor is on   *)
(* the score line, from which no single key scrolls.  A raised keyboard    *)
(* interrupt is one the bound on the keys has room for.                    *)
(***************************************************************************)
SnakeInv ==
  /\ TypeOK
  /\ SnakeHoldsTogether
  /\ BoardIsClean
  /\ pending => keys < MaxKeys
  /\ ~over => Still(scr)
  /\ ~over /\ keys = 0 => FirstFrame \/ scr.y = 0

LEMMA CleanBoard ==
  /\ Unscrolled <=> Whole(scr)
  /\ BoardIsClean <=> (~over /\ Whole(scr) => Clean(scr, snake, food))
BY DEF Unscrolled, Whole, BoardIsClean, Clean, Shown

LEMMA CleanBoardNext ==
  /\ Unscrolled' <=> Whole(scr')
  /\ BoardIsClean' <=> (~over' /\ Whole(scr') => Clean(scr', snake', food'))
BY DEF Unscrolled, Whole, BoardIsClean, Clean, Shown

LEMMA SnakeInvInit == Init => SnakeInv
<1> SUFFICES ASSUME Init
             PROVE  SnakeInv
  OBVIOUS
<1> DEFINE t == [i \in 1 .. InitialLength |-> <<2, InitialLength + 2 - i>>]
<1>1. /\ scr = Map /\ snake = t /\ food = <<FirstFood>> /\ score = 0 /\ lastDirection = "DOWN"
      /\ counter = 0 /\ over = FALSE /\ keyboard = "other" /\ pending = FALSE /\ keys = 0
  BY DEF Init
<1>2. \A i \in 1 .. InitialLength : <<2, InitialLength + 2 - i>> \in Field
  <2> SUFFICES ASSUME NEW i \in 1 .. InitialLength
               PROVE  <<2, InitialLength + 2 - i>> \in Field
    OBVIOUS
  <2>1. 2 \in 2 .. (Width - 3) /\ InitialLength + 2 - i \in 2 .. (Height - 3)
    BY SnakeFacts
  <2> QED
    BY <2>1, FieldFacts
<1>3. t \in Seq(Field) /\ Len(t) = InitialLength
  BY <1>2, SnakeFacts, IsASeq
<1>4. t \in Seq(Board) /\ t # <<>>
  <2> HIDE DEF t
  <2>1. Field \subseteq Board /\ Len(t) # 0
    BY <1>3, SnakeFacts, FieldOnBoard
  <2> QED
    BY <1>3, <2>1, SeqMonotonic, EmptySeq
<1>5. food \in Seq(Field) /\ Len(food) <= MaxFood
  <2>1. FirstFood \in Field
    BY SnakeAssumption, FieldFacts DEF RandomCells
  <2> QED
    BY <1>1, <2>1, SnakeFacts
<1>6. TypeOK
  <2>1. counter \in 0 .. (Speed - 1) /\ keys \in 0 .. MaxKeys
    BY <1>1, SnakeFacts
  <2>2. scr \in Screens /\ snake \in Seq(Board) /\ snake # <<>>
    BY <1>1, <1>4, MapShows
  <2> HIDE DEF t
  <2> QED
    BY <1>1, <1>5, <2>1, <2>2 DEF TypeOK, Arrows
<1>7. SnakeHoldsTogether
  <2>1. ASSUME NEW i \in 1 .. (InitialLength - 1)
        PROVE  Adjacent(t[i + 1], t[i])
    <3>1. t[i + 1] = <<2, InitialLength + 2 - (i + 1)>> /\ t[i] = <<2, InitialLength + 2 - i>>
      BY SnakeFacts
    <3>2. Plus(t[i + 1], Vector["DOWN"]) = t[i]
      BY <3>1, SnakeFacts DEF Plus, Vector
    <3> QED
      BY <3>2 DEF Adjacent, Arrows
  <2>2. \A i \in 2 .. InitialLength : t[i] \in Field
    BY <1>2, SnakeFacts
  <2>3. 25 * (Len(t) - InitialLength) = 0
    BY <1>3, SnakeFacts
  <2> QED
    BY <1>1, <1>3, <2>1, <2>2, <2>3 DEF SnakeHoldsTogether
<1>8. BoardIsClean
  <2>1. Clean(Map, snake, food)
    BY MapShows, FieldOnBoard DEF Clean
  <2> QED
    BY <1>1, <2>1, CleanBoard
<1>9. Still(scr) /\ FirstFrame
  BY <1>1, MapShows, SnakeAssumption, CharAssumption DEF FirstFrame
<1> QED
  BY <1>1, <1>6, <1>7, <1>8, <1>9 DEF SnakeInv

LEMMA FrameKeeps ==
  ASSUME SnakeInv, Frame
  PROVE  SnakeInv' /\ (Whole(scr') <=> Whole(scr))
<1>1. TypeOK /\ SnakeHoldsTogether /\ BoardIsClean /\ ~over
  BY DEF SnakeInv, Frame
<1>2. /\ counter' = 0 /\ keys' = 0 /\ keyboard' = keyboard /\ pending' = pending
      /\ 0 \in 0 .. (Speed - 1) /\ 0 \in 0 .. MaxKeys /\ 0 < MaxKeys
  BY SnakeFacts DEF Frame
<1>3. PICK f \in CalculateFood :
        IF CalculateIntersection(f) \in {"SELF", "WALL"} THEN GameOver(f, Drawn(f))
        ELSE Advance(f, Drawn(f), CalculateIntersection(f))
  BY DEF Frame, Drawn
<1>4. CASE CalculateIntersection(f) \in {"SELF", "WALL"}
  <2>1. /\ food' = f /\ scr' = Drawn(f) /\ over' = TRUE /\ snake' = snake
        /\ score' = score /\ lastDirection' = lastDirection
    BY <1>3, <1>4 DEF GameOver
  <2>2. Drawn(f) \in Screens /\ (Whole(Drawn(f)) <=> Whole(scr)) /\ f \in Seq(Field) /\ Len(f) <= MaxFood
    BY <1>1, FrameDraws, FoodFalls
  <2>3. TypeOK'
    BY <1>1, <1>2, <2>1, <2>2 DEF TypeOK
  <2>4. SnakeHoldsTogether'
    BY <1>1, <2>1 DEF SnakeHoldsTogether
  <2>5. BoardIsClean'
    BY <2>1, CleanBoardNext
  <2> QED
    BY <1>2, <2>1, <2>2, <2>3, <2>4, <2>5 DEF SnakeInv
<1>5. CASE CalculateIntersection(f) \notin {"SELF", "WALL"}
  <2> DEFINE hit == CalculateIntersection(f)
             d == GetNextPosition
             t == <<Plus(Head(Follow(hit)), Vector[d])>> \o Follow(hit)
  <2>1. /\ hit \in {"FOOD", "NONE"} /\ ~HitsWall(Head(snake))
        /\ hit = "FOOD" => Contains(f, Head(snake))
    BY <1>5 DEF CalculateIntersection
  <2>2. d \in Arrows
    BY <1>1 DEF TypeOK, GetNextPosition
  <2>3. /\ food' = IF hit = "FOOD" THEN RemoveFirst(f, Head(snake)) ELSE f
        /\ score' = IF hit = "FOOD" THEN score + 25 ELSE score
        /\ lastDirection' = d /\ snake' = t
        /\ scr' = PrintScore(Erase(Drawn(f), hit)) /\ over' = over
    BY <1>3, <1>5 DEF Advance
  <2> HIDE DEF hit, d
  <2>4. /\ t \in Seq(Board) /\ t # <<>>
        /\ Len(t) = IF hit = "FOOD" THEN Len(snake) + 1 ELSE Len(snake)
        /\ \A i \in 1 .. (Len(t) - 1) : Adjacent(t[i + 1], t[i])
        /\ \A i \in 2 .. Len(t) : t[i] \in Field
        /\ ToSet(Follow(hit)) \subseteq ToSet(t)
    BY <1>1, <2>1, <2>2, SnakeMoves
  <2> HIDE DEF t
  <2>5. f \in Seq(Field) /\ Len(f) \in Nat /\ Len(f) <= MaxFood
    BY <1>1, FoodFalls, Elements
  <2>6. food' \in Seq(Field) /\ Len(food') <= MaxFood
        /\ \A p \in ToSet(f) : p \in ToSet(food') \/ p \in ToSet(t)
    <3>1. CASE hit = "FOOD"
      <4>1. /\ food' \in Seq(Field) /\ Len(food') = Len(f) - 1
            /\ \A p \in ToSet(f) : p = Head(snake) \/ p \in ToSet(food')
        BY <2>1, <2>3, <2>5, <3>1, TakenOut
      <4>2. Head(snake) \in ToSet(t)
        <5>1. snake \in Seq(Board) /\ Head(snake) = snake[1] /\ 1 \in 1 .. Len(snake)
          BY <1>1, Pieces DEF TypeOK
        <5>2. Head(snake) \in ToSet(snake)
          BY <5>1, Elements
        <5> QED
          BY <2>4, <3>1, <5>2 DEF Follow
      <4> QED
        BY <2>5, <4>1, <4>2, SnakeFacts
    <3>2. CASE hit # "FOOD"
      BY <2>3, <2>5, <3>2
    <3> QED
      BY <3>1, <3>2
  <2>7. /\ scr' \in Screens /\ Still(scr') /\ scr'.y = 0
        /\ Whole(scr') <=> Whole(scr)
        /\ Clean(scr, snake, food) => Clean(scr', snake', food')
    BY <1>1, <2>1, <2>3, <2>4, <2>6, FrameLeaves
  <2>8. score \in Nat /\ score' \in Nat /\ Len(snake) \in Nat
    BY <1>1, <2>3, Pieces DEF TypeOK
  <2>9. TypeOK'
    BY <1>1, <1>2, <2>2, <2>3, <2>4, <2>6, <2>7, <2>8 DEF TypeOK
  <2>10. SnakeHoldsTogether'
    <3>1. 25 * (Len(t) - InitialLength) = score'
      <4>1. 25 * (Len(snake) - InitialLength) = score
        BY <1>1 DEF SnakeHoldsTogether
      <4> QED
        BY <2>3, <2>4, <2>8, <4>1, SnakeFacts
    <3> QED
      BY <2>3, <2>4, <3>1 DEF SnakeHoldsTogether
  <2>11. BoardIsClean'
    BY <1>1, <2>7, CleanBoard, CleanBoardNext
  <2> QED
    BY <1>2, <2>7, <2>9, <2>10, <2>11 DEF SnakeInv
<1> QED
  BY <1>4, <1>5

LEMMA KeyKeeps ==
  ASSUME SnakeInv, KeyIrq
  PROVE  /\ SnakeInv'
         /\ Unscrolled /\ ~Unscrolled' => keys >= 1 \/ FirstFrame
<1>1. /\ TypeOK /\ SnakeHoldsTogether /\ BoardIsClean /\ ~over /\ pending /\ Still(scr)
      /\ keys < MaxKeys /\ scr \in Screens /\ keys \in Nat
      /\ keys = 0 => FirstFrame \/ scr.y = 0
  BY SnakeFacts DEF SnakeInv, KeyIrq, TypeOK
<1>2. /\ snake' = snake /\ food' = food /\ score' = score /\ lastDirection' = lastDirection
      /\ counter' = counter /\ over' = over /\ keyboard' = keyboard
      /\ pending' = FALSE /\ keys' = keys + 1
  BY DEF KeyIrq, game
<1>3. scr' = scr \/ scr' \in {CursorUp(scr), CursorDown(scr), CursorLeft(scr), CursorRight(scr)}
  BY <1>1 DEF KeyIrq, TypeOK, Arrows
<1>4. /\ scr' \in Screens /\ Still(scr')
      /\ \/ scr'.mem = scr.mem
         \/ /\ scr.y = Height - 1
            /\ \A x \in Columns : scr'.mem[PositionToOffset(x, Height - 1)] = Blank
  BY <1>1, <1>3, KeyShows
<1>5. Whole(scr') => scr'.mem = scr.mem
  BY <1>4, Places, GlyphFacts DEF Whole
<1>6. TypeOK'
  <2>1. keys + 1 \in 0 .. MaxKeys
    BY <1>1, SnakeFacts
  <2> QED
    BY <1>1, <1>2, <1>4, <2>1 DEF TypeOK
<1>7. SnakeHoldsTogether'
  BY <1>1, <1>2 DEF SnakeHoldsTogether
<1>8. BoardIsClean'
  <2>1. scr'.mem = scr.mem => /\ Whole(scr') <=> Whole(scr)
                              /\ Clean(scr, snake, food) => Clean(scr', snake, food)
    BY DEF Whole, Clean, Shown
  <2> QED
    BY <1>1, <1>2, <1>5, <2>1, CleanBoard, CleanBoardNext
<1>9. SnakeInv'
  BY <1>1, <1>2, <1>4, <1>6, <1>7, <1>8 DEF SnakeInv
<1>10. ASSUME Unscrolled, ~Unscrolled'
       PROVE  keys >= 1 \/ FirstFrame
  <2>1. scr'.mem # scr.mem
    BY <1>10, CleanBoard, CleanBoardNext DEF Whole
  <2>2. scr.y = Height - 1 /\ scr.y # 0
    BY <1>4, <2>1, SnakeFacts
  <2> QED
    BY <1>1, <2>2
<1> QED
  BY <1>9, <1>10

LEMMA SnakeInvNext == SnakeInv /\ [Next]_vars => SnakeInv'
<1> SUFFICES ASSUME SnakeInv, [Next]_vars
             PROVE  SnakeInv'
  OBVIOUS
<1>1. CASE Frame
  BY <1>1, FrameKeeps
<1>2. CASE IdleTick
  <2>1. counter + 1 \in 0 .. (Speed - 1)
    BY <1>2, SnakeFacts DEF SnakeInv, TypeOK, IdleTick
  <2>2. /\ UNCHANGED <<scr, snake, food, score, lastDirection, over, keyboard, pending, keys>>
        /\ counter' = counter + 1
    BY <1>2 DEF IdleTick
  <2>3. TypeOK'
    BY <2>1, <2>2 DEF SnakeInv, TypeOK
  <2>4. SnakeHoldsTogether' /\ BoardIsClean'
    BY <2>2 DEF SnakeInv, SnakeHoldsTogether, BoardIsClean, Unscrolled
  <2> QED
    BY <2>2, <2>3, <2>4 DEF SnakeInv, FirstFrame
<1>3. CASE \E k \in Arrows \cup {"other"} : Press(k)
  <2>1. PICK k \in Arrows \cup {"other"} : Press(k)
    BY <1>3
  <2>2. /\ UNCHANGED <<scr, snake, food, score, lastDirection, counter, over, keys>>
        /\ keyboard' = k /\ pending' = TRUE /\ keys < MaxKeys
    BY <2>1 DEF Press, game
  <2>3. TypeOK'
    BY <2>2 DEF SnakeInv, TypeOK
  <2>4. SnakeHoldsTogether' /\ BoardIsClean'
    BY <2>2 DEF SnakeInv, SnakeHoldsTogether, BoardIsClean, Unscrolled
  <2> QED
    BY <2>2, <2>3, <2>4 DEF SnakeInv, FirstFrame
<1>4. CASE KeyIrq
  BY <1>4, KeyKeeps
<1>5. CASE UNCHANGED vars
  <2>1. UNCHANGED <<scr, snake, food, score, lastDirection, counter, over, keyboard, pending, keys>>
    BY <1>5 DEF vars, game
  <2>2. TypeOK'
    BY <2>1 DEF SnakeInv, TypeOK
  <2>3. SnakeHoldsTogether' /\ BoardIsClean'
    BY <2>1 DEF SnakeInv, SnakeHoldsTogether, BoardIsClean, Unscrolled
  <2> QED
    BY <2>1, <2>2, <2>3 DEF SnakeInv, FirstFrame
<1> QED
  BY <1>1, <1>2, <1>3, <1>4, <1>5 DEF Next

LEMMA AlwaysSnakeInv == Spec => []SnakeInv
<1>1. SnakeInv /\ [Next]_vars => SnakeInv'
  BY SnakeInvNext
<1> QED
  BY SnakeInvInit, <1>1, PTL DEF Spec

-------------------------------------------------------------------------------
(***************************************************************************)
(* Everything the frames and the keys draw stays inside the video memory   *)
(* and the game's variables in their types.                                *)
(***************************************************************************)
THEOREM SnakeTyped == Spec => []TypeOK
<1>1. SnakeInv => TypeOK
  BY DEF SnakeInv
<1> QED
  BY AlwaysSnakeInv, <1>1, PTL

(***************************************************************************)
(* The snake is one path inside the wall, as long as the score says.       *)
(***************************************************************************)
THEOREM SnakeIsWhole == Spec => []SnakeHoldsTogether
<1>1. SnakeInv => SnakeHoldsTogether
  BY DEF SnakeInv
<1> QED
  BY AlwaysSnakeInv, <1>1, PTL

(***************************************************************************)
(* The drawing of the differences, with the arrow keys moving the cursor   *)
(* over the board in between, leaves nothing behind and damages nothing.   *)
(***************************************************************************)
THEOREM BoardStaysClean == Spec => []BoardIsClean
<1>1. SnakeInv => BoardIsClean
  BY DEF SnakeInv
<1> QED
  BY AlwaysSnakeInv, <1>1, PTL

(***************************************************************************)
(* A snake that lies across itself has just met food where it lies.        *)
(***************************************************************************)
THEOREM CrossingNeedsFood == Spec => CrossesOnlyOnFood
<1>1. ASSUME SnakeInv, [Next]_vars, IsInjective(Tail(snake)), ~IsInjective(Tail(snake'))
      PROVE  Contains(food, Head(snake))
  <2>1. Frame
    <3>1. snake' # snake
      BY <1>1
    <3> QED
      BY <1>1, <3>1 DEF Next, IdleTick, Press, KeyIrq, game, vars
  <2>2. TypeOK /\ SnakeHoldsTogether
    BY <1>1 DEF SnakeInv
  <2>3. PICK f \in CalculateFood :
          IF CalculateIntersection(f) \in {"SELF", "WALL"} THEN GameOver(f, Drawn(f))
          ELSE Advance(f, Drawn(f), CalculateIntersection(f))
    BY <2>1 DEF Frame, Drawn
  <2> DEFINE hit == CalculateIntersection(f)
             d == GetNextPosition
  <2>4. /\ hit \notin {"SELF", "WALL"}
        /\ snake' = <<Plus(Head(Follow(hit)), Vector[d])>> \o Follow(hit)
    BY <1>1, <2>3 DEF GameOver, Advance
  <2>5. /\ hit \in {"FOOD", "NONE"} /\ ~HitsWall(Head(snake))
        /\ hit = "FOOD" => Contains(f, Head(snake))
        /\ hit = "NONE" => ~Contains(Tail(snake), Head(snake))
    BY <2>4 DEF CalculateIntersection
  <2>6. d \in Arrows
    BY <2>2 DEF TypeOK, GetNextPosition
  <2> HIDE DEF hit, d
  <2>7. Tail(snake') = Follow(hit)
    BY <2>2, <2>4, <2>5, <2>6, SnakeMoves
  <2>8. /\ snake \in Seq(Board) /\ snake # <<>> /\ Len(snake) \in Nat /\ Len(snake) >= 2
        /\ DOMAIN snake = 1 .. Len(snake) /\ Head(snake) = snake[1]
    BY <2>2, Pieces DEF TypeOK
  <2>9. /\ Tail(snake) \in Seq(Board) /\ DOMAIN Tail(snake) = 1 .. (Len(snake) - 1)
        /\ Len(Tail(snake)) = Len(snake) - 1
        /\ \A i \in 1 .. (Len(snake) - 1) : Tail(snake)[i] = snake[i + 1]
    <3>1. /\ Tail(snake) \in Seq(Board) /\ Len(Tail(snake)) = Len(snake) - 1
          /\ \A i \in 1 .. Len(Tail(snake)) : Tail(snake)[i] = snake[i + 1]
      BY <2>8, HeadTailProperties
    <3>2. DOMAIN Tail(snake) = 1 .. Len(Tail(snake))
      BY <3>1, Elements
    <3> QED
      BY <3>1, <3>2
  <2>10. ASSUME NEW i \in 2 .. Len(snake), NEW j \in 2 .. Len(snake), snake[i] = snake[j]
         PROVE  i = j
    <3>1. i - 1 \in DOMAIN Tail(snake) /\ j - 1 \in DOMAIN Tail(snake)
      BY <2>8, <2>9
    <3>2. Tail(snake)[i - 1] = snake[i - 1 + 1] /\ Tail(snake)[j - 1] = snake[j - 1 + 1]
      BY <2>9, <3>1
    <3>3. i - 1 + 1 = i /\ j - 1 + 1 = j
      BY <2>8
    <3>4. Tail(snake)[i - 1] = Tail(snake)[j - 1]
      BY <2>10, <3>2, <3>3
    <3>5. i - 1 = j - 1
      BY <1>1, <3>1, <3>4 DEF IsInjective
    <3> QED
      BY <3>5
  <2>11. ASSUME ~\E j \in 2 .. Len(snake) : snake[j] = Head(snake)
         PROVE  FALSE
    <3>1. \A i, j \in 1 .. Len(snake) : snake[i] = snake[j] => i = j
      BY <2>8, <2>10, <2>11
    <3>2. IsInjective(snake)
      BY <2>8, <3>1 DEF IsInjective
    <3>3. IsInjective(Front(snake))
      <4>1. /\ Front(snake) \in Seq(Board) /\ Len(Front(snake)) = Len(snake) - 1
            /\ \A i \in 1 .. (Len(snake) - 1) : Front(snake)[i] = snake[i]
        BY <2>8, ButLast
      <4>2. DOMAIN Front(snake) = 1 .. (Len(snake) - 1)
        BY <4>1, Elements
      <4>3. \A i \in 1 .. (Len(snake) - 1) : i \in 1 .. Len(snake)
        BY <2>8
      <4> QED
        BY <3>1, <4>1, <4>2, <4>3 DEF IsInjective
    <3> QED
      BY <1>1, <2>7, <3>2, <3>3 DEF Follow
  <2>12. PICK j \in 2 .. Len(snake) : snake[j] = Head(snake)
    BY <2>11
  <2>13. j \in 1 .. Len(snake) /\ j - 1 \in 1 .. (Len(snake) - 1) /\ j - 1 + 1 = j
    BY <2>8
  <2>14. hit = "FOOD"
    <3>1. Tail(snake)[j - 1] = Head(snake)
      BY <2>9, <2>12, <2>13
    <3>2. Contains(Tail(snake), Head(snake))
      BY <2>9, <2>13, <3>1 DEF Contains
    <3> QED
      BY <2>5, <3>2
  <2>15. Head(snake) \in ToSet(f) /\ Head(snake) \in ToSet(snake)
    <3>1. f \in Seq(Field)
      BY <2>2, FoodFalls
    <3> QED
      BY <2>5, <2>8, <2>12, <2>13, <2>14, <3>1, Elements
  <2>16. Head(snake) \in ToSet(food)
    BY <2>2, <2>15, FoodFalls
  <2>17. food \in Seq(Field)
    BY <2>2 DEF TypeOK
  <2> QED
    BY <2>16, <2>17, Elements
<1>2. SnakeInv /\ [Next]_vars
        => (IsInjective(Tail(snake)) /\ ~IsInjective(Tail(snake')) => Contains(food, Head(snake)))
  BY <1>1
<1> QED
  BY AlwaysSnakeInv, <1>2, PTL DEF Spec, CrossesOnlyOnFood

(***************************************************************************)
(* After the first frame it takes two keys within a frame to scroll the    *)
(* board away.                                                             *)
(***************************************************************************)
THEOREM ScrollTakesTwoKeys == Spec => ScrollNeedsTwoKeys
<1>1. ASSUME SnakeInv, [Next]_vars, Unscrolled, ~Unscrolled'
      PROVE  keys >= 1 \/ FirstFrame
  <2>1. CASE Frame
    BY <1>1, <2>1, FrameKeeps, CleanBoard, CleanBoardNext
  <2>2. CASE KeyIrq
    BY <1>1, <2>2, KeyKeeps
  <2>3. CASE scr' = scr
    BY <1>1, <2>3 DEF Unscrolled
  <2> QED
    BY <1>1, <2>1, <2>2, <2>3 DEF Next, IdleTick, Press, vars
<1>2. SnakeInv /\ [Next]_vars
        => (Unscrolled /\ ~Unscrolled' => keys >= 1 \/ FirstFrame)
  BY <1>1
<1> QED
  BY AlwaysSnakeInv, <1>2, PTL DEF Spec, ScrollNeedsTwoKeys

===============================================================================
