---------------------------- MODULE TerminalProofs ----------------------------
(***************************************************************************)
(* Proofs about the terminal, for a screen and a buffer of any size, any   *)
(* texts and any keys: the object and the buffer stay well-formed, what    *)
(* the user sees is the line the program will get, and what stands before  *)
(* the line stays.                                                         *)
(***************************************************************************)
EXTENDS Terminal, VideoControlProofs, Induction

-------------------------------------------------------------------------------
(***************************************************************************)
(* The input buffer.  EndsAt(b): the string in the buffer ends at the      *)
(* index.                                                                  *)
(***************************************************************************)
EndsAt(b) ==
  /\ b.input[b.idx] = Blank
  /\ \A j \in 0 .. (b.idx - 1) : b.input[j] # Blank

\* The characters that the buffer stores.
Letters == Printable \ (Silent \cup {Shade})

\* The constants of the buffer are as InputBuffer wants them.
LEMMA BufferFacts ==
  /\ Size \in Nat \ {0} /\ Word \in Nat /\ Word > Size
  /\ Input!Slots = 0 .. (Size - 1)
  /\ Input!Buffers = [reading : BOOLEAN, idx : Input!Slots,
                      input : [Input!Slots -> Letters \cup {Blank}]]
  /\ Input!Keys = Letters \cup Silent \cup Controls
  /\ Blank \notin Letters /\ CursorChar \notin Letters
  /\ Letters \subseteq Cells /\ Silent \subseteq Cells
  /\ CursorChar \notin Silent /\ Silent \cap Letters = {}
  /\ Controls \cap (Letters \cup Silent) = {}
BY TerminalAssumption, CharAssumption
DEF Input!Slots, Input!Buffers, Input!Keys, Letters, Controls, Cells

LEMMA Wraps ==
  /\ \A i \in 0 .. Size : i % Word = i
  /\ (0 - 1) % Word \in Nat /\ (0 - 1) % Word >= Size
<1>1. ASSUME NEW w \in Nat, NEW n \in Nat \ {0}, w > n
      PROVE  /\ \A i \in 0 .. n : i % w = i
             /\ (0 - 1) % w \in Nat /\ (0 - 1) % w >= n
  <2>1. (0 - 1) % w = w - 1
    BY <1>1
  <2> QED
    BY <1>1, <2>1
<1> QED
  BY <1>1, BufferFacts

\* What a key makes of a buffer that is being filled.
AddedTo(b, c, a) ==
  /\ a.reading = (c \notin {Newline, Return})
  /\ c = Backspace => a.idx = IF b.idx = 0 THEN 0 ELSE b.idx - 1
  /\ c \in {Newline, Return} \cup Silent => a.idx = b.idx
  /\ c \in Letters => \/ a.idx = 0
                      \/ a.idx = b.idx + 1 /\ a.input[b.idx] = c
  /\ \A k \in 0 .. (a.idx - 1) : k < b.idx => a.input[k] = b.input[k]

Wide == [reading : BOOLEAN, idx : Nat, input : [Input!Slots -> Letters \cup {Blank}]]

LEMMA TerminateFields ==
  ASSUME NEW s \in Wide
  PROVE  LET i == IF s.idx >= Size THEN 0 ELSE s.idx
         IN  /\ i \in Input!Slots
             /\ Input!Terminate(s) = [reading |-> s.reading, idx |-> i,
                                      input |-> [s.input EXCEPT ![i] = Blank]]
<1> DEFINE i == IF s.idx >= Size THEN 0 ELSE s.idx
<1>1. i \in Input!Slots
  BY BufferFacts DEF Wide
<1>2. Input!Terminate(s) = [s EXCEPT !.idx = i, !.input[i] = Blank]
  BY DEF Input!Terminate
<1> HIDE DEF i
<1>3. Input!Terminate(s) = [reading |-> s.reading, idx |-> i, input |-> [s.input EXCEPT ![i] = Blank]]
  BY <1>2 DEF Wide
<1> QED
  BY <1>1, <1>3 DEF i

\* The switch of add, for each kind of key.
LEMMA SwitchFields ==
  ASSUME NEW b \in Input!Buffers, NEW c \in Input!Keys
  PROVE  /\ Input!Switch(b, c) \in Wide
         /\ Input!Switch(b, c).reading = (b.reading /\ c \notin {Newline, Return})
         /\ Input!Switch(b, c).idx = CASE c = Backspace -> (b.idx - 1) % Word
                                       [] c \in Letters -> b.idx + 1
                                       [] OTHER -> b.idx
         /\ Input!Switch(b, c).input = IF c \in Letters THEN [b.input EXCEPT ![b.idx] = c]
                                       ELSE b.input
<1> DEFINE s == Input!Switch(b, c)
<1>1. /\ b.idx \in 0 .. (Size - 1) /\ b.input \in [Input!Slots -> Letters \cup {Blank}]
      /\ b.reading \in BOOLEAN /\ Input!Slots = 0 .. (Size - 1) /\ Size \in Nat \ {0}
      /\ b = [reading |-> b.reading, idx |-> b.idx, input |-> b.input]
  BY BufferFacts
<1>2. /\ c = Backspace => c \notin {Newline, Return} /\ c \notin Letters
      /\ c \in {Newline, Return} => c \notin Letters
  BY BufferFacts, CharAssumption DEF Controls
<1>3. CASE c = Backspace
  <2> DEFINE n == (b.idx - 1) % Word
  <2>1. n \in Nat
    BY <1>1, Wraps
  <2>2. s = [b EXCEPT !.idx = n]
    BY <1>2, <1>3 DEF Input!Switch, Letters
  <2> HIDE DEF n
  <2>3. s = [reading |-> b.reading, idx |-> n, input |-> b.input]
    BY <1>1, <2>2
  <2> HIDE DEF s
  <2>4. s \in Wide /\ s.reading = b.reading /\ s.idx = n /\ s.input = b.input
    BY <1>1, <2>1, <2>3 DEF Wide
  <2> QED
    BY <1>1, <1>2, <1>3, <2>4 DEF n, s
<1>4. CASE c \in {Newline, Return}
  <2>1. s = [b EXCEPT !.reading = FALSE]
    BY <1>2, <1>4 DEF Input!Switch, Letters
  <2>2. s = [reading |-> FALSE, idx |-> b.idx, input |-> b.input]
    BY <1>1, <2>1
  <2> HIDE DEF s
  <2>3. s \in Wide /\ s.reading = FALSE /\ s.idx = b.idx /\ s.input = b.input
    BY <1>1, <2>2 DEF Wide
  <2> QED
    BY <1>1, <1>2, <1>4, <2>3 DEF s
<1>5. CASE c \in Letters
  <2> DEFINE m == [b.input EXCEPT ![b.idx] = c]
  <2>1. s = [b EXCEPT !.input[b.idx] = c, !.idx = b.idx + 1]
    BY <1>2, <1>5 DEF Input!Switch, Letters
  <2>2. m \in [Input!Slots -> Letters \cup {Blank}] /\ b.idx + 1 \in Nat
    BY <1>1, <1>5
  <2>3. s = [reading |-> b.reading, idx |-> b.idx + 1, input |-> m]
    BY <1>1, <2>1
  <2> HIDE DEF s, m
  <2>4. s \in Wide /\ s.reading = b.reading /\ s.idx = b.idx + 1 /\ s.input = m
    BY <1>1, <2>2, <2>3 DEF Wide
  <2> QED
    BY <1>1, <1>2, <1>5, <2>4 DEF s, m
<1>6. CASE c \notin Controls \cup Letters
  <2>1. s = b
    BY <1>6 DEF Input!Switch, Letters, Controls
  <2> HIDE DEF s
  <2>2. s \in Wide
    BY <1>1, <2>1 DEF Wide
  <2> QED
    BY <1>1, <1>6, <2>1, <2>2 DEF s, Controls
<1> QED
  BY <1>3, <1>4, <1>5, <1>6 DEF Controls

LEMMA AddFields ==
  ASSUME NEW b \in Input!Buffers, NEW c \in Input!Keys, b.reading, EndsAt(b)
  PROVE  /\ Input!Add(b, c) \in Input!Buffers /\ EndsAt(Input!Add(b, c))
         /\ AddedTo(b, c, Input!Add(b, c))
<1> DEFINE a == Input!Add(b, c)
           s == Input!Switch(b, c)
           i == IF s.idx >= Size THEN 0 ELSE s.idx
<1>1. /\ b.idx \in 0 .. (Size - 1) /\ b.input \in [Input!Slots -> Letters \cup {Blank}]
      /\ Size \in Nat \ {0} /\ Input!Slots = 0 .. (Size - 1) /\ Blank \notin Letters
  BY BufferFacts
<1>2. /\ b.input[b.idx] = Blank
      /\ \A j \in 0 .. (b.idx - 1) : b.input[j] # Blank
  BY DEF EndsAt
<1>3. /\ s \in Wide /\ s.reading = (c \notin {Newline, Return})
      /\ s.idx = CASE c = Backspace -> (b.idx - 1) % Word
                   [] c \in Letters -> b.idx + 1
                   [] OTHER -> b.idx
      /\ s.input = IF c \in Letters THEN [b.input EXCEPT ![b.idx] = c] ELSE b.input
  BY SwitchFields
<1>4. a = Input!Terminate(s)
  BY DEF Input!Add
<1>5. /\ c = Backspace => c \notin {Newline, Return} /\ c \notin Letters /\ c \notin Silent
      /\ c \in {Newline, Return} \cup Silent => c \notin Letters
  BY BufferFacts, CharAssumption DEF Controls
<1> HIDE DEF a, s
<1>6. i \in Input!Slots /\ a = [reading |-> s.reading, idx |-> i, input |-> [s.input EXCEPT ![i] = Blank]]
  BY <1>3, <1>4, TerminateFields
<1>7. i = CASE c = Backspace -> IF b.idx = 0 THEN 0 ELSE b.idx - 1
            [] c \in Letters -> IF b.idx + 1 = Size THEN 0 ELSE b.idx + 1
            [] OTHER -> b.idx
  <2>1. CASE c = Backspace
    BY <1>1, <1>3, <1>5, <2>1, Wraps
  <2>2. CASE c # Backspace
    BY <1>1, <1>3, <2>2
  <2> QED
    BY <2>1, <2>2
<1> HIDE DEF i
<1>8. a \in Input!Buffers /\ a.idx = i /\ a.input = [s.input EXCEPT ![i] = Blank]
  BY <1>1, <1>3, <1>6, BufferFacts DEF Wide
<1>9. a.reading = (c \notin {Newline, Return})
  BY <1>3, <1>6
<1>10. CASE c = Backspace
  <2>1. i = IF b.idx = 0 THEN 0 ELSE b.idx - 1
    BY <1>5, <1>7, <1>10
  <2>2. s.input = b.input
    BY <1>3, <1>5, <1>10
  <2>3. EndsAt(a)
    BY <1>1, <1>2, <1>6, <1>8, <2>1, <2>2 DEF EndsAt
  <2>4. AddedTo(b, c, a)
    BY <1>1, <1>5, <1>6, <1>8, <1>9, <1>10, <2>1, <2>2 DEF AddedTo
  <2> QED
    BY <1>8, <2>3, <2>4 DEF a
<1>11. CASE c \in Letters
  <2>1. i = IF b.idx + 1 = Size THEN 0 ELSE b.idx + 1
    BY <1>5, <1>7, <1>11
  <2>2. s.input = [b.input EXCEPT ![b.idx] = c]
    BY <1>3, <1>11
  <2>3. EndsAt(a)
    <3>1. CASE b.idx + 1 = Size
      BY <1>1, <1>3, <1>6, <1>8, <2>1, <3>1 DEF EndsAt, Wide
    <3>2. CASE b.idx + 1 # Size
      <4>1. a.idx = b.idx + 1 /\ a.input = [[b.input EXCEPT ![b.idx] = c] EXCEPT ![b.idx + 1] = Blank]
        BY <1>8, <2>1, <2>2, <3>2
      <4>2. b.idx \in Input!Slots /\ b.idx + 1 \in Input!Slots
        BY <1>1, <3>2
      <4>3. a.input[a.idx] = Blank
        BY <1>1, <4>1, <4>2
      <4>4. ASSUME NEW j \in 0 .. b.idx
            PROVE  a.input[j] # Blank
        BY <1>1, <1>2, <1>11, <4>1, <4>2
      <4> QED
        BY <1>1, <4>1, <4>3, <4>4 DEF EndsAt
    <3> QED
      BY <3>1, <3>2
  <2>4. AddedTo(b, c, a)
    BY <1>1, <1>5, <1>6, <1>8, <1>9, <1>11, <2>1, <2>2 DEF AddedTo
  <2> QED
    BY <1>8, <2>3, <2>4 DEF a
<1>12. CASE c # Backspace /\ c \notin Letters
  <2>1. i = b.idx
    BY <1>7, <1>12
  <2>2. s.input = b.input
    BY <1>3, <1>12
  <2>3. EndsAt(a)
    BY <1>1, <1>2, <1>6, <1>8, <2>1, <2>2 DEF EndsAt
  <2>4. AddedTo(b, c, a)
    BY <1>1, <1>5, <1>6, <1>8, <1>9, <1>12, <2>1, <2>2 DEF AddedTo
  <2> QED
    BY <1>8, <2>3, <2>4 DEF a
<1> QED
  BY <1>10, <1>11, <1>12

\* The line in a buffer is what stands before the index.
LEMMA LineFields ==
  ASSUME NEW b \in Input!Buffers, EndsAt(b)
  PROVE  /\ Len(Input!CString(b)) = b.idx
         /\ \A k \in 1 .. b.idx : Input!CString(b)[k] = b.input[k - 1]
         /\ Input!CString(b) = <<>> <=> b.idx = 0
<1> DEFINE End(k) == b.input[k] = Blank /\ \A j \in 0 .. (k - 1) : b.input[j] # Blank
           n == CHOOSE k \in Input!Slots : End(k)
           q == [k \in 1 .. n |-> b.input[k - 1]]
<1>1. b.idx \in Input!Slots /\ End(b.idx) /\ Input!Slots = 0 .. (Size - 1) /\ Size \in Nat
  BY BufferFacts DEF EndsAt
<1>2. n \in Input!Slots /\ End(n)
  BY <1>1, Zenon
<1>3. Input!CString(b) = q
  BY DEF Input!CString
<1> HIDE DEF n
<1>4. n = b.idx
  BY <1>1, <1>2
<1>5. \A k \in 1 .. n : b.input[k - 1] \in Letters \cup {Blank}
  BY <1>1, <1>2, BufferFacts
<1>6. q \in Seq(Letters \cup {Blank}) /\ Len(q) = n /\ \A k \in 1 .. n : q[k] = b.input[k - 1]
  BY <1>1, <1>2, <1>5
<1> HIDE DEF q
<1>7. q = <<>> <=> n = 0
  BY <1>6
<1> QED
  BY <1>3, <1>4, <1>6, <1>7

-------------------------------------------------------------------------------
(***************************************************************************)
(* The inductive invariant.  The random vector holds no negative value,    *)
(* the string in the buffer ends at the index, the program waits while it is filled, the echo belongs to the blinking  *)
(* cursor, and while a line is clean the cursor stands behind its last     *)
(* character and the cells before it show it.                              *)
(***************************************************************************)
Shows(b, s, first) ==
  /\ Offset(s) = first + b.idx
  /\ \A k \in 0 .. (b.idx - 1) : s.mem[first + k] = b.input[k]

\* The memory that the timer handler reads begins with the random vector.
RandomFirst ==
  /\ Len(vector) >= Width * Height
  /\ \A k \in 1 .. Width * Height : vector[k] >= 0

TermInv ==
  /\ TypeOK /\ vector \in Seq(Int)
  /\ timer = "paint" => RandomFirst
  /\ EndsAt(buf)
  /\ buf.reading => pc \in {"wait", "astray"}
  /\ show = (timer = "blink")
  /\ buf.reading /\ clean /\ show => Shows(buf, scr, start)

\* What a key echoed does to the cells of the line and before it.
LEMMA EchoKeeps ==
  ASSUME NEW s \in Screens, NEW c \in Input!Keys \ {Newline, Return}
  PROVE  LET t == SetCharacter(s, c, TRUE)
         IN  /\ t \in Screens
             /\ c \in Letters \cup Silent =>
                  /\ t.mem = [s.mem EXCEPT ![Offset(s)] = c]
                  /\ Offset(s) # Width * Height - 1 => Offset(t) = Offset(s) + 1
             /\ c = Backspace =>
                  /\ Offset(s) # 0 => Offset(t) = Offset(s) - 1
                  /\ t.mem = [WithoutCursor(s) EXCEPT ![Offset(t)] = Blank]
<1> DEFINE t == SetCharacter(s, c, TRUE)
<1>1. c \in Letters \cup Silent \cup {Backspace}
  BY BufferFacts DEF Controls
<1>2. CASE c \in Letters \cup Silent
  <2>1. c \in Cells \ {CursorChar} /\ c # Backspace
    BY <1>2, BufferFacts DEF Controls
  <2>2. t \in Screens /\ Advances(s, t) /\ t.mem = [s.mem EXCEPT ![Offset(s)] = c]
    BY <2>1, PrintGoes
  <2> HIDE DEF t
  <2>3. Offset(s) # Width * Height - 1 => Offset(t) = Offset(s) + 1
    BY <2>2, NextOffset
  <2> QED
    BY <2>1, <2>2, <2>3 DEF t
<1>3. CASE c = Backspace
  <2>1. t \in Screens /\ Retreats(s, t) /\ t.mem = [WithoutCursor(s) EXCEPT ![Offset(t)] = Blank]
    BY <1>3, EraseGoes
  <2> HIDE DEF t
  <2>2. Offset(s) # 0 => Offset(t) = Offset(s) - 1
    BY <2>1, PreviousOffset
  <2>3. c \notin Letters \cup Silent
    BY <1>3, BufferFacts DEF Controls
  <2> QED
    BY <2>1, <2>2, <2>3 DEF t
<1> QED
  BY <1>1, <1>2, <1>3

\* A letter goes behind the line, on the screen and in the buffer.
LEMMA LetterShows ==
  ASSUME NEW b \in Input!Buffers, NEW a \in Input!Buffers, NEW s \in Screens, NEW t \in Screens,
         NEW first \in Offsets, NEW c \in Letters,
         Shows(b, s, first), AddedTo(b, c, a), a.idx # 0,
         t.mem = [s.mem EXCEPT ![Offset(s)] = c], Offset(t) = Offset(s) + 1
  PROVE  Shows(a, t, first)
<1>1. /\ b.idx \in Nat /\ a.idx \in Nat /\ Offset(s) \in Offsets /\ Offsets \subseteq Nat
      /\ s.mem \in [Offsets -> Cells] /\ \A o \in Offsets : 0 .. o \subseteq Offsets
  BY BufferFacts, Fields, SizeAssumption DEF Offsets
<1>2. Offset(s) = first + b.idx /\ \A k \in 0 .. (b.idx - 1) : s.mem[first + k] = b.input[k]
  BY DEF Shows
<1>3. a.idx = b.idx + 1 /\ a.input[b.idx] = c
      /\ \A k \in 0 .. (b.idx - 1) : a.input[k] = b.input[k]
  BY <1>1 DEF AddedTo
<1>4. t.mem[first + b.idx] = c
  BY <1>1, <1>2
<1>5. ASSUME NEW k \in 0 .. (b.idx - 1)
      PROVE  t.mem[first + k] = s.mem[first + k]
  BY <1>1, <1>2
<1>6. ASSUME NEW k \in 0 .. (a.idx - 1)
      PROVE  t.mem[first + k] = a.input[k]
  <2>1. CASE k = b.idx
    BY <1>3, <1>4, <2>1
  <2>2. CASE k # b.idx
    <3>1. k \in 0 .. (b.idx - 1)
      BY <1>1, <1>3, <2>2
    <3> QED
      BY <1>2, <1>3, <1>5, <3>1
  <2> QED
    BY <2>1, <2>2
<1>7. Offset(t) = first + a.idx
  BY <1>1, <1>2, <1>3
<1> QED
  BY <1>6, <1>7 DEF Shows

\* A backspace takes the last character of the line, if there is one.
LEMMA BackspaceShows ==
  ASSUME NEW b \in Input!Buffers, NEW a \in Input!Buffers, NEW s \in Screens, NEW t \in Screens,
         NEW first \in Offsets,
         Shows(b, s, first), AddedTo(b, Backspace, a), a.idx # 0,
         t.mem = [WithoutCursor(s) EXCEPT ![Offset(t)] = Blank],
         Offset(s) # 0 => Offset(t) = Offset(s) - 1
  PROVE  Shows(a, t, first)
<1>1. /\ b.idx \in Nat /\ a.idx \in Nat /\ Offset(s) \in Offsets /\ Offsets \subseteq Nat
      /\ s.mem \in [Offsets -> Cells] /\ \A o \in Offsets : 0 .. o \subseteq Offsets
      /\ first \in Nat
  BY BufferFacts, Fields, SizeAssumption DEF Offsets
<1>2. Offset(s) = first + b.idx /\ \A k \in 0 .. (b.idx - 1) : s.mem[first + k] = b.input[k]
  BY DEF Shows
<1>3. b.idx # 0 /\ a.idx = b.idx - 1 /\ \A k \in 0 .. (a.idx - 1) : a.input[k] = b.input[k]
  BY <1>1 DEF AddedTo
<1>4. Offset(t) = first + a.idx
  BY <1>1, <1>2, <1>3
<1>5. ASSUME NEW k \in 0 .. (a.idx - 1)
      PROVE  t.mem[first + k] = s.mem[first + k]
  BY <1>1, <1>2, <1>3, <1>4 DEF WithoutCursor
<1> QED
  BY <1>1, <1>2, <1>3, <1>4, <1>5 DEF Shows

\* The line ends where it did, or is empty.
LEMMA FollowKeeps ==
  ASSUME NEW strays \in BOOLEAN, Follow(strays),
         buf' \in Input!Buffers, EndsAt(buf'), scr' \in Screens, start \in Offsets,
         clean \in BOOLEAN
  PROVE  /\ start' \in Offsets /\ clean' \in BOOLEAN
         /\ buf'.idx = 0 => start' = Offset(scr')
         /\ buf'.idx # 0 => start' = start /\ (clean' => clean /\ ~strays)
<1>1. (Input!CString(buf') = <<>>) <=> buf'.idx = 0
  BY LineFields
<1>2. Offset(scr') \in Offsets
  BY Fields
<1> QED
  BY <1>1, <1>2 DEF Follow

\* An empty line is shown wherever the cursor is.
LEMMA EmptyShows ==
  ASSUME NEW b, NEW s \in Screens, b.idx = 0
  PROVE  Shows(b, s, Offset(s))
<1>1. Offset(s) \in Int
  BY Fields, SizeAssumption DEF Offsets
<1> QED
  BY <1>1 DEF Shows

\* A key.
LEMMA KeyKeeps ==
  ASSUME TermInv, NEW c \in Input!Keys, Key(c)
  PROVE  TermInv'
<1> USE DEF TermInv, TypeOK, RandomFirst
<1>1. UNCHANGED <<show, timer, pc, output, vector, steered, counter>>
      /\ left > 0 /\ left' = left - 1
      /\ buf' = Input!Add(buf, c) /\ Follow(c \in Silent \/ (c \in Printable /\ AtLastCell))
  BY DEF Key, Interrupted, programVars
<1>2. scr' = IF show THEN SetCharacter(scr, c, TRUE) ELSE scr
  BY DEF Key, Echo
<1>3. c \in Chars
  BY BufferFacts DEF Chars
<1>4. scr' \in Screens
  BY <1>2, <1>3, SetCharacterType
<1>5. /\ buf' \in Input!Buffers /\ EndsAt(buf')
      /\ buf.reading => AddedTo(buf, c, buf')
      /\ ~buf.reading => ~buf'.reading
      /\ buf'.reading => buf.reading
  <2>1. CASE buf.reading
    BY <1>1, <2>1, AddFields
  <2>2. CASE ~buf.reading
    BY <1>1, <2>2 DEF Input!Add
  <2> QED
    BY <2>1, <2>2
<1>6. /\ start' \in Offsets /\ clean' \in BOOLEAN
      /\ buf'.idx = 0 => start' = Offset(scr')
      /\ buf'.idx # 0 => start' = start
           /\ (clean' => clean /\ ~(c \in Silent \/ (c \in Printable /\ AtLastCell)))
  BY <1>1, <1>4, <1>5, FollowKeeps
<1>7. left' \in 0 .. MaxKeys
  BY <1>1, TerminalAssumption
<1>8. ASSUME buf'.reading, clean', show
      PROVE  Shows(buf', scr', start')
  <2>1. CASE buf'.idx = 0
    BY <1>4, <1>6, <2>1, EmptyShows
  <2>2. CASE buf'.idx # 0
    <3>1. buf.reading /\ AddedTo(buf, c, buf') /\ Shows(buf, scr, start)
      BY <1>5, <1>6, <1>8, <2>2
    <3>2. c \notin {Newline, Return} /\ c \notin Silent
      BY <1>6, <1>8, <2>2, <3>1 DEF AddedTo
    <3>3. scr' = SetCharacter(scr, c, TRUE) /\ start' = start
      BY <1>2, <1>6, <1>8, <2>2
    <3>4. CASE c \in Letters
      <4>1. Offset(scr) # Width * Height - 1
        BY <1>6, <1>8, <2>2, <3>4 DEF AtLastCell, Letters
      <4>2. scr'.mem = [scr.mem EXCEPT ![Offset(scr)] = c] /\ Offset(scr') = Offset(scr) + 1
        BY <3>2, <3>3, <3>4, <4>1, EchoKeeps
      <4> QED
        BY <1>4, <1>5, <2>2, <3>1, <3>3, <3>4, <4>2, LetterShows
    <3>5. CASE c = Backspace
      <4>1. /\ Offset(scr) # 0 => Offset(scr') = Offset(scr) - 1
            /\ scr'.mem = [WithoutCursor(scr) EXCEPT ![Offset(scr')] = Blank]
        BY <3>2, <3>3, <3>5, EchoKeeps
      <4> QED
        BY <1>4, <1>5, <2>2, <3>1, <3>3, <3>5, <4>1, BackspaceShows
    <3> QED
      BY <3>2, <3>4, <3>5, BufferFacts DEF Controls
  <2> QED
    BY <2>1, <2>2
<1> QED
  BY <1>1, <1>4, <1>5, <1>6, <1>7, <1>8

LEMMA TermInvHolds == Spec => []TermInv
<1> USE DEF TermInv, TypeOK, RandomFirst
<1>1. Init => TermInv
  <2> SUFFICES ASSUME Init
               PROVE  TermInv
    OBVIOUS
  <2>1. NewScreen(Empty) \in Screens /\ CursorEnable(NewScreen(Empty), FALSE) \in Screens
    <3>1. 0 \in Columns /\ 0 \in Rows
      BY SizeAssumption DEF Columns, Rows
    <3>2. Empty \in [Offsets -> Cells]
      BY CharFacts DEF Empty
    <3> QED
      BY <3>1, <3>2, CharFacts DEF NewScreen, CursorEnable, Screens
  <2>2. 0 \in Offsets
    BY SizeAssumption, OffsetInMemory DEF Offsets, Columns, Rows, PositionToOffset
  <2>3. /\ buf \in Input!Buffers /\ EndsAt(buf) /\ ~buf.reading
    <3>1. buf = [reading |-> FALSE, idx |-> 0, input |-> [j \in Input!Slots |-> Blank]]
      BY DEF Init, Input!NewBuffer
    <3> QED
      BY <3>1, BufferFacts DEF EndsAt
  <2>4. /\ vector \in Seq(Int) /\ output \in Seq(Chars) /\ counter \in 0 .. Len(vector)
        /\ timer = "paint" => RandomFirst
    <3>1. \/ vector = <<>> /\ timer = "blink"
          \/ \E random \in Vectors, rest \in Rests : vector = random \o rest
      BY DEF Init
    <3>2. output = <<>> \/ output \in Outputs
      BY DEF Init
    <3>3. counter = 0
      BY DEF Init
    <3>4. vector \in Seq(Int) /\ (timer = "paint" => RandomFirst)
      <4>1. CASE vector = <<>> /\ timer = "blink"
        BY <4>1
      <4>2. ASSUME NEW random \in Vectors, NEW rest \in Rests, vector = random \o rest
            PROVE  vector \in Seq(Int) /\ RandomFirst
        <5> DEFINE n == Width * Height
        <5>1. n \in Nat
          <6>1. ASSUME NEW w \in Nat, NEW h \in Nat PROVE w * h \in Nat
            OBVIOUS
          <6> QED
            BY <6>1, SizeAssumption
        <5>2. random \in [1 .. n -> Nat] /\ rest \in Seq(Int)
          BY TerminalAssumption
        <5>3. RandomFirst <=> Len(vector) >= n /\ \A k \in 1 .. n : vector[k] >= 0
          BY DEF RandomFirst
        <5> HIDE DEF n
        <5>4. random \in Seq(Int) /\ Len(random) = n
          BY <5>1, <5>2
        <5>5. /\ vector \in Seq(Int) /\ Len(vector) = n + Len(rest)
              /\ \A k \in 1 .. n : vector[k] = random[k]
          <6>1. ASSUME NEW f \in Seq(Int), NEW g \in Seq(Int)
                PROVE  /\ f \o g \in Seq(Int) /\ Len(f \o g) = Len(f) + Len(g)
                       /\ \A k \in 1 .. Len(f) : (f \o g)[k] = f[k]
            OBVIOUS
          <6> QED
            BY <4>2, <5>2, <5>4, <6>1
        <5> QED
          BY <5>1, <5>2, <5>3, <5>5
      <4> QED
        BY <3>1, <4>1, <4>2
    <3>5. output \in Seq(Chars)
      <4>1. CASE output = <<>>
        BY <4>1
      <4>2. CASE output \in Outputs
        <5>1. Outputs \subseteq Seq(Chars)
          BY TerminalAssumption
        <5> QED
          BY <4>2, <5>1
      <4> QED
        BY <3>2, <4>1, <4>2
    <3>6. counter \in 0 .. Len(vector)
      BY <3>3, <3>4
    <3> QED
      BY <3>4, <3>5, <3>6
  <2>5. left \in 0 .. MaxKeys /\ start = 0 /\ clean = TRUE /\ steered = FALSE
    BY TerminalAssumption DEF Init
  <2>6. \/ scr = NewScreen(Empty) /\ show = TRUE /\ timer = "blink" /\ pc = "print"
        \/ scr = CursorEnable(NewScreen(Empty), FALSE) /\ show = FALSE /\ timer = "paint" /\ pc = "ask"
    BY DEF Init
  <2> QED
    BY <2>1, <2>2, <2>3, <2>4, <2>5, <2>6
<1>2. TermInv /\ [Next]_vars => TermInv'
  <2> SUFFICES ASSUME TermInv, [Next]_vars
               PROVE  TermInv'
    OBVIOUS
  <2>1. CASE PrintNext
    <3>1. Head(output) \in Chars /\ Tail(output) \in Seq(Chars)
      BY <2>1 DEF PrintNext
    <3>2. scr' \in Screens /\ output' \in Seq(Chars) /\ ~buf.reading
      BY <2>1, <3>1, SetCharacterType DEF PrintNext
    <3> QED
      BY <2>1, <3>2 DEF PrintNext
  <2>2. CASE Ask
    BY <2>2 DEF Ask, screenVars
  <2>3. CASE StartInput
    <3>1. /\ UNCHANGED <<scr, steered, show, timer, output, vector, counter, left>>
          /\ pc' = "wait" /\ start' = Offset(scr) /\ clean' = TRUE
          /\ buf' = [buf EXCEPT !.reading = TRUE, !.idx = 0, !.input[0] = Blank]
      BY <2>3 DEF StartInput
    <3>2. buf' = [reading |-> TRUE, idx |-> 0, input |-> [buf.input EXCEPT ![0] = Blank]]
      BY <3>1, BufferFacts
    <3>3. buf' \in Input!Buffers /\ EndsAt(buf') /\ buf'.idx = 0
      BY <3>2, BufferFacts DEF EndsAt
    <3>4. Shows(buf', scr', start') /\ start' \in Offsets
      <4>1. start' = Offset(scr') /\ scr' \in Screens
        BY <3>1
      <4> QED
        BY <3>3, <4>1, EmptyShows, Fields
    <3> QED
      BY <3>1, <3>3, <3>4
  <2>4. CASE ReturnLine
    <3>1. scr' \in Screens /\ output' \in Seq(Chars)
      <4>1. CASE output' \in Outputs /\ UNCHANGED scr
        BY <4>1, TerminalAssumption
      <4>2. CASE output' = <<>> /\ scr' = Clear(SetCursor(scr, 0, 0))
        BY <4>2, ClearType
      <4> QED
        BY <2>4, <4>1, <4>2 DEF ReturnLine
    <3> QED
      BY <2>4, <3>1 DEF ReturnLine
  <2>5. CASE StopPainting
    BY <2>5 DEF StopPainting, screenVars
  <2>6. CASE Arrow
    <3>1. /\ UNCHANGED <<buf, show, timer, pc, output, vector, counter>>
          /\ left > 0 /\ left' = left - 1 /\ steered' = TRUE /\ Follow(TRUE)
      BY <2>6 DEF Arrow, Interrupted, programVars
    <3>2. scr' \in Screens
      BY <2>6, CursorUpMoves, CursorDownMoves, CursorLeftMoves, CursorRightMoves
      DEF Arrow, Moved
    <3>3. /\ start' \in Offsets /\ clean' \in BOOLEAN
          /\ buf'.idx = 0 => start' = Offset(scr')
          /\ buf'.idx # 0 => ~clean'
      BY <3>1, <3>2, FollowKeeps
    <3>4. clean' => Shows(buf', scr', start')
      BY <3>2, <3>3, EmptyShows
    <3> QED
      BY <3>1, <3>2, <3>3, <3>4, TerminalAssumption
  <2>7. CASE Blink
    <3>1. /\ UNCHANGED <<buf, show, timer, pc, output, vector, counter, start, clean, steered>>
          /\ left > 0 /\ left' = left - 1 /\ scr' = CycleCursor(scr)
      BY <2>7 DEF Blink, Interrupted, programVars
    <3>2. /\ scr' \in Screens /\ Offset(scr') = Offset(scr)
          /\ \A o \in Offsets \ {Offset(scr)} : scr'.mem[o] = scr.mem[o]
      BY <3>1, BlinkGoes DEF Offset
    <3>3. Shows(buf, scr, start) => Shows(buf', scr', start')
      <4>1. /\ buf.idx \in Nat /\ Offset(scr) \in Offsets /\ Offsets \subseteq Nat /\ start \in Nat
            /\ \A o \in Offsets : 0 .. o \subseteq Offsets
        BY BufferFacts, Fields, SizeAssumption DEF Offsets
      <4>2. SUFFICES ASSUME Shows(buf, scr, start)
                     PROVE  Shows(buf', scr', start')
        OBVIOUS
      <4>3. Offset(scr) = start + buf.idx
            /\ \A k \in 0 .. (buf.idx - 1) : scr.mem[start + k] = buf.input[k]
        BY <4>2 DEF Shows
      <4>4. \A k \in 0 .. (buf.idx - 1) : start + k \in Offsets \ {Offset(scr)}
        BY <4>1, <4>3
      <4>5. \A k \in 0 .. (buf.idx - 1) : scr'.mem[start + k] = buf.input[k]
        BY <3>2, <4>3, <4>4
      <4> QED
        BY <3>1, <3>2, <4>3, <4>5 DEF Shows
    <3> QED
      BY <3>1, <3>2, <3>3, TerminalAssumption
  <2>8. CASE Paint
    <3> DEFINE v == vector[counter + 1]
               s == SetCursor(scr, v % Width, v \div Height)
    <3>before.
          /\ UNCHANGED <<buf, show, timer, output, vector, start, clean, steered, left>>
          /\ timer = "paint" /\ counter < Len(vector) /\ v \in Int
      BY <2>8 DEF Paint
    <3>after.
          \/ v >= 0 /\ scr' = SetCharacter(s, Shade, TRUE) /\ counter' = counter + 1 /\ UNCHANGED pc
          \/ v < 0 /\ pc' = "astray" /\ UNCHANGED <<scr, counter>>
      BY <2>8, Zenon DEF Paint
    <3>sign. v < 0 <=> ~(v >= 0)
      <4>1. ASSUME NEW w \in Int PROVE w < 0 <=> ~(w >= 0)
        OBVIOUS
      <4> QED
        BY <3>before, <4>1, Zenon
    <3>followed. pc # "astray"
      BY <2>8 DEF Paint
    <3> HIDE DEF v, s
    <3>negative. CASE v < 0
      <4>1. UNCHANGED <<scr, counter>> /\ pc' = "astray"
        BY <3>after, <3>sign, <3>negative, Zenon
      <4>2. counter >= Width * Height
        <5>1. ASSUME NEW n \in Int, counter < n
              PROVE  counter + 1 \in 1 .. n
          BY <5>1
        <5>2. Width * Height \in Int
          BY SizeAssumption
        <5>3. ~(counter + 1 \in 1 .. Width * Height)
          BY <3>before, <3>negative DEF RandomFirst, v
        <5> QED
          BY <5>1, <5>2, <5>3
      <4> QED
        BY <3>before, <4>1, <4>2 DEF RandomFirst
    <3> SUFFICES ASSUME v >= 0
                 PROVE  TermInv'
      BY <3>before, <3>negative
    <3>1. /\ counter' = counter + 1 /\ UNCHANGED pc /\ pc # "astray"
          /\ scr' = SetCharacter(s, Shade, TRUE)
      BY <3>after, <3>followed, <3>sign, Zenon
    <3>2. v \in Nat
      BY <3>before
    <3>3. v % Width \in Columns /\ v \div Height \in Nat
      <4>1. ASSUME NEW w \in Nat, w > 0
            PROVE  v % w \in 0 .. (w - 1) /\ v \div w \in Nat
        BY <3>2, <4>1
      <4> QED
        BY <4>1, SizeAssumption DEF Columns
    <3>4. s \in Screens
      <4>1. v \div Height < Height => v \div Height \in Rows
        BY <3>3, SizeAssumption DEF Rows
      <4> QED
        BY <3>3, <4>1, PlaceBoth DEF SetCursor, s
    <3>5. scr' \in Screens
      BY <3>1, <3>4, SetCharacterType, TerminalAssumption DEF Chars, Cells
    <3>6. counter' \in 0 .. Len(vector')
      BY <3>before, <3>1
    <3> QED
      BY <3>before, <3>1, <3>5, <3>6 DEF RandomFirst
  <2>9. ASSUME NEW c \in Input!Keys, Key(c)
        PROVE  TermInv'
    BY <2>9, KeyKeeps
  <2>10. CASE UNCHANGED vars
    BY <2>10 DEF vars, screenVars, programVars
  <2> QED
    BY <2>1, <2>2, <2>3, <2>4, <2>5, <2>6, <2>7, <2>8, <2>9, <2>10 DEF Next
<1> QED
  BY <1>1, <1>2, PTL DEF Spec

-------------------------------------------------------------------------------
(***************************************************************************)
(* Whatever is typed, echoed, printed and drawn, the index stays in its    *)
(* array and control characters out of the video memory; and the cursor    *)
(* stays on the screen, in the image program until its timer handler has   *)
(* drawn the whole random vector and reads a negative value behind it.     *)
(***************************************************************************)
THEOREM TerminalTyped == Spec => []TypeOK
<1>1. TermInv => TypeOK
  BY DEF TermInv
<1> QED
  BY <1>1, TermInvHolds, PTL

(***************************************************************************)
(* What the user sees is what the program will get: the cells from the     *)
(* place where the line began hold the characters in the buffer, and the   *)
(* cursor stands behind them.                                              *)
(***************************************************************************)
THEOREM EchoIsLine == Spec => []EchoShowsLine
<1>1. TermInv => EchoShowsLine
  <2> SUFFICES ASSUME TermInv, buf.reading, clean, show
               PROVE  /\ Offset(scr) = start + Len(Line)
                      /\ \A k \in 1 .. Len(Line) : scr.mem[start + k - 1] = Line[k]
    BY DEF EchoShowsLine
  <2>1. Len(Line) = buf.idx /\ \A k \in 1 .. buf.idx : Line[k] = buf.input[k - 1]
    BY LineFields DEF TermInv, TypeOK, Line
  <2>2. Offset(scr) = start + buf.idx
        /\ \A k \in 0 .. (buf.idx - 1) : scr.mem[start + k] = buf.input[k]
    BY DEF TermInv, Shows
  <2>3. buf.idx \in Nat /\ start \in Int
    BY BufferFacts, SizeAssumption DEF TermInv, TypeOK, Offsets
  <2>4. ASSUME NEW k \in 1 .. buf.idx
        PROVE  scr.mem[start + k - 1] = Line[k]
    <3>1. k - 1 \in 0 .. (buf.idx - 1) /\ start + (k - 1) = start + k - 1
      BY <2>3
    <3> QED
      BY <2>1, <2>2, <3>1
  <2> HIDE DEF Line
  <2> QED
    BY <2>1, <2>2, <2>4
<1> QED
  BY <1>1, TermInvHolds, PTL

(***************************************************************************)
(* What stands before the line stays, except for the one character that a  *)
(* backspace takes when the line is empty.                                 *)
(***************************************************************************)
THEOREM BeforeStays == Spec => TextBeforeStays
<1> DEFINE Change(o) == o < start /\ scr'.mem[o] # scr.mem[o]
<1>1. ASSUME TermInv, TermInv', buf.reading, buf'.reading, clean,
             NEW c \in Input!Keys, Key(c), NEW o \in Offsets, Change(o)
      PROVE  o = start - 1 /\ Line = <<>> /\ Key(Backspace)
  <2>1. /\ scr \in Screens /\ buf \in Input!Buffers /\ start \in Offsets /\ EndsAt(buf)
        /\ buf' = Input!Add(buf, c) /\ show
        /\ scr' = SetCharacter(scr, c, TRUE)
    BY <1>1 DEF TermInv, TypeOK, Key, Echo
  <2>2. Shows(buf, scr, start)
    BY <1>1, <2>1 DEF TermInv
  <2>3. AddedTo(buf, c, buf')
    BY <1>1, <2>1, AddFields
  <2>4. c \notin {Newline, Return}
    BY <1>1, <2>3 DEF AddedTo
  <2>5. /\ Offset(scr) = start + buf.idx /\ buf.idx \in Nat /\ start \in Nat /\ o \in Nat
        /\ scr.mem \in [Offsets -> Cells]
    BY <2>1, <2>2, BufferFacts, Fields, SizeAssumption DEF Shows, Offsets
  <2>6. CASE c \in Letters \cup Silent
    <3>1. scr'.mem = [scr.mem EXCEPT ![Offset(scr)] = c]
      BY <2>1, <2>4, <2>6, EchoKeeps
    <3> QED
      BY <1>1, <2>5, <3>1
  <2>7. CASE c = Backspace
    <3>1. /\ Offset(scr) # 0 => Offset(scr') = Offset(scr) - 1
          /\ scr'.mem = [WithoutCursor(scr) EXCEPT ![Offset(scr')] = Blank]
      BY <2>1, <2>4, <2>7, EchoKeeps
    <3>2. o # Offset(scr)
      BY <1>1, <2>5
    <3>3. o = Offset(scr')
      BY <1>1, <2>5, <3>1, <3>2 DEF WithoutCursor
    <3>4. o = start - 1 /\ buf.idx = 0
      BY <1>1, <2>5, <3>1, <3>3
    <3>5. Line = <<>>
      BY <2>1, <3>4, LineFields DEF Line
    <3> QED
      BY <1>1, <2>7, <3>4, <3>5
  <2> QED
    BY <2>4, <2>6, <2>7, BufferFacts DEF Controls
<1>2. ASSUME TermInv, buf.reading, Blink, NEW o \in Offsets, Change(o), clean
      PROVE  FALSE
  <2>1. scr \in Screens /\ scr' = CycleCursor(scr) /\ show
    BY <1>2 DEF TermInv, TypeOK, Blink
  <2>2. Offset(scr) = start + buf.idx
    BY <1>2, <2>1 DEF TermInv, Shows
  <2>3. buf.idx \in Nat /\ start \in Nat /\ o \in Nat
    BY <1>2, BufferFacts, SizeAssumption DEF TermInv, TypeOK, Offsets
  <2>4. o # Offset(scr)
    BY <1>2, <2>2, <2>3
  <2> QED
    BY <1>2, <2>1, <2>4, BlinkGoes
<1>3. TermInv /\ TermInv' /\ [Next]_vars =>
        [buf.reading /\ buf'.reading /\ clean /\ ((\E c \in Input!Keys : Key(c)) \/ Blink) =>
           \A o \in Offsets : Change(o) => o = start - 1 /\ Line = <<>> /\ Key(Backspace)]_vars
  BY <1>1, <1>2
<1> QED
  BY <1>3, TermInvHolds, PTL DEF Spec, TextBeforeStays

-------------------------------------------------------------------------------
(***************************************************************************)
(* The picture.  CellOf is defined from the value before, so that it is a  *)
(* function of the vector's indices to cells.                              *)
(***************************************************************************)
OnScreen(v) == v \div Height \in Rows
CellFor(v)  == PositionToOffset(v % Width, v \div Height)

LEMMA CellForType ==
  ASSUME NEW v \in Int
  PROVE  /\ v % Width \in Columns
         /\ v >= 0 => v \div Height \in Nat
         /\ OnScreen(v) => CellFor(v) \in Offsets
<1>1. ASSUME NEW w \in Nat, w > 0
      PROVE  /\ v % w \in 0 .. (w - 1)
             /\ v >= 0 => v \div w \in Nat
  BY <1>1
<1>2. v % Width \in Columns /\ (v >= 0 => v \div Height \in Nat)
  BY <1>1, SizeAssumption DEF Columns
<1> QED
  BY <1>2, OffsetInMemory DEF CellFor, OnScreen

LEMMA BehindType ==
  ASSUME NEW o \in Offsets
  PROVE  Behind(o) \in Offsets /\ 0 \in Offsets
<1>1. LastRow \in Nat /\ LastRow + Width = Width * Height /\ Width * Height \in Nat
  <2>1. ASSUME NEW w \in Nat, NEW h \in Nat \ {0} PROVE w * (h - 1) \in Nat /\ w * h \in Nat
    OBVIOUS
  <2> QED
    BY <2>1, LastCell, SizeAssumption DEF LastRow
<1> QED
  BY <1>1, SizeAssumption DEF Behind, Offsets

\* What the recursion says of a function.
FollowsVector(f) ==
  \A k \in 1 .. Len(vector) :
    f[k] = IF OnScreen(vector[k]) THEN CellFor(vector[k])
           ELSE IF k = 1 THEN 0 ELSE Behind(f[k - 1])

LEMMA CellOfSolves ==
  ASSUME vector \in Seq(Int)
  PROVE  CellOf \in [1 .. Len(vector) -> Offsets] /\ FollowsVector(CellOf)
<1> DEFINE D == 1 .. Len(vector)
           Body(g) == [k \in D |-> LET v == vector[k] IN
                         IF v \div Height \in Rows
                         THEN PositionToOffset(v % Width, v \div Height)
                         ELSE IF k = 1 THEN 0 ELSE Behind(g[k - 1])]
           B == [g \in [D -> Offsets] |-> Body(g)]
           m == [k \in D |-> k]
<1>1. ASSUME NEW k \in D
      PROVE  /\ k # 1 => k - 1 \in D /\ k - 1 < k
             /\ OnScreen(vector[k]) => CellFor(vector[k]) \in Offsets
  <2>1. vector[k] \in Int
    OBVIOUS
  <2>2. k # 1 => k - 1 \in D /\ k - 1 < k
    OBVIOUS
  <2> QED
    BY <2>1, <2>2, CellForType
<1>2. m \in [D -> Nat] /\ Offsets # {}
  BY BehindType, SizeAssumption, OffsetInMemory DEF Offsets, Columns, Rows
<1>3. 0 \in Offsets /\ \A o \in Offsets : Behind(o) \in Offsets
  BY <1>2, BehindType
<1>4. ASSUME NEW g \in [D -> Offsets]
      PROVE  Body(g) \in [D -> Offsets]
  <2>1. ASSUME NEW k \in D
        PROVE  (IF OnScreen(vector[k]) THEN CellFor(vector[k])
                ELSE IF k = 1 THEN 0 ELSE Behind(g[k - 1])) \in Offsets
    BY <1>1, <1>3
  <2> QED
    BY <2>1 DEF OnScreen, CellFor
<1>5. ASSUME NEW g \in [D -> Offsets], NEW h \in [D -> Offsets], NEW k \in D,
             \A j \in D : m[j] < m[k] => g[j] = h[j]
      PROVE  B[g][k] = B[h][k]
  <2>1. k # 1 => g[k - 1] = h[k - 1]
    BY <1>1, <1>5
  <2> QED
    BY <2>1
<1>6. Solvable(B, D, Offsets)
  <2>1. B \in [[D -> Offsets] -> [D -> Offsets]]
    BY <1>4
  <2>2. LooksDown(B, D, Offsets, m)
    BY <1>5 DEF LooksDown
  <2> HIDE DEF B, D, m
  <2>3. Recursion(B, D, Offsets, m)
    BY <1>2, <2>1, <2>2 DEF Recursion
  <2> QED
    BY <2>3, RecursionHasSolution
<1>7. CellOf = Body(CellOf)
  <2>1. \E f : f = Body(f)
    BY <1>6 DEF Solvable
  <2> QED
    BY <2>1, Zenon DEF CellOf
<1>8. FollowsVector(CellOf)
  BY <1>7 DEF FollowsVector, OnScreen, CellFor
<1>9. CellOf \in [D -> Offsets]
  <2>1. ASSUME NEW k \in D, \A j \in D : m[j] < m[k] => CellOf[j] \in Offsets
        PROVE  CellOf[k] \in Offsets
    <3>1. k # 1 => CellOf[k - 1] \in Offsets
      BY <1>1, <2>1
    <3> QED
      BY <1>1, <1>3, <1>8, <3>1 DEF FollowsVector
  <2>2. CellOf = [k \in D |-> CellOf[k]]
    BY <1>7
  <2>3. Progressive({k \in D : CellOf[k] \in Offsets}, D, m)
    BY <2>1 DEF Progressive
  <2> HIDE DEF D, m
  <2> QED
    BY <1>2, <2>2, <2>3, SolutionTyped
<1> QED
  BY <1>8, <1>9

(***************************************************************************)
(* While nobody steers, the cursor of the image program, which prints      *)
(* nothing, stands behind the cell drawn last.                             *)
(***************************************************************************)
Drawn(mem) == {o \in Offsets : mem[o] = Shade}

PictureInv ==
  /\ pc = "print" => timer = "blink"
  /\ timer # "blink" /\ ~steered =>
       /\ Drawn(scr.mem) = {CellOf[k] : k \in 1 .. counter}
       /\ Offset(scr) = IF counter = 0 THEN 0 ELSE Behind(CellOf[counter])

\* Where the cursor is after a character has been printed.
LEMMA AdvancesBehind ==
  ASSUME NEW s \in Screens, NEW t \in Screens, Advances(s, t)
  PROVE  Offset(t) = Behind(Offset(s))
<1>1. CASE Offset(s) # Width * Height - 1
  BY <1>1, NextOffset DEF Behind
<1>2. CASE Offset(s) = Width * Height - 1
  <2>1. s.x = Width - 1 /\ s.y = Height - 1
    <3>1. ASSUME NEW w \in Nat, NEW h \in Nat, NEW x \in Int, NEW y \in Int,
                 0 <= x, x < w, 0 <= y, y < h, x + y * w = w * h - 1
          PROVE  x = w - 1 /\ y = h - 1
      <4>1. CASE y <= h - 2
        <5>1. y * w <= (h - 2) * w
          BY <3>1, <4>1
        <5>2. (h - 2) * w = w * h - 2 * w
          BY <3>1
        <5> QED
          BY <3>1, <5>1, <5>2
      <4>2. CASE y = h - 1
        <5>1. (h - 1) * w = w * h - w
          BY <3>1
        <5> QED
          BY <3>1, <4>2, <5>1
      <4> QED
        BY <3>1, <4>1, <4>2
    <3> QED
      BY <1>2, <3>1, SizeAssumption, Places DEF Offset, PositionToOffset
  <2>2. t.x = 0 /\ t.y = Height - 1
    BY <2>1, SizeAssumption DEF Advances
  <2>3. 0 + (Height - 1) * Width = Width * (Height - 1)
    BY SizeAssumption
  <2> QED
    BY <1>2, <2>2, <2>3 DEF Behind, LastRow, Offset, PositionToOffset
<1> QED
  BY <1>1, <1>2

LEMMA PaintKeeps ==
  ASSUME TermInv, PictureInv, Paint
  PROVE  PictureInv'
<1> DEFINE n == counter + 1
           v == vector[n]
           s == SetCursor(scr, v % Width, v \div Height)
<1>before.
      /\ timer' = timer /\ vector' = vector /\ steered' = steered
      /\ timer = "paint" /\ counter \in Nat /\ n \in 1 .. Len(vector)
      /\ vector \in Seq(Int) /\ scr \in Screens /\ v \in Int
  BY DEF Paint, TermInv, TypeOK
<1>after.
      \/ v >= 0 /\ scr' = SetCharacter(s, Shade, TRUE) /\ counter' = counter + 1 /\ UNCHANGED pc
      \/ v < 0 /\ pc' = "astray" /\ UNCHANGED <<scr, counter>>
  BY Zenon DEF Paint
<1> HIDE DEF v, s
<1>sign. v < 0 <=> ~(v >= 0)
  BY <1>before
<1>negative. CASE v < 0
  <2>1. UNCHANGED <<timer, vector, steered, scr, counter>> /\ pc' = "astray"
    BY <1>before, <1>after, <1>negative, <1>sign, Zenon
  <2>2. CellOf' = CellOf
    BY <1>before DEF CellOf
  <2> QED
    BY <2>1, <2>2 DEF PictureInv, Drawn
<1> SUFFICES ASSUME v >= 0
             PROVE  PictureInv'
  BY <1>before, <1>negative
<1>1. /\ timer' = timer /\ vector' = vector /\ steered' = steered /\ counter' = n /\ pc' = pc
      /\ timer = "paint" /\ counter \in Nat /\ n \in 1 .. Len(vector)
      /\ scr' = SetCharacter(s, Shade, TRUE)
      /\ vector \in Seq(Int) /\ scr \in Screens
  BY <1>before, <1>after, <1>sign, Zenon
<1>2. CellOf' = CellOf
  BY <1>1 DEF CellOf
<1>3. CellOf \in [1 .. Len(vector) -> Offsets] /\ FollowsVector(CellOf)
  BY <1>1, CellOfSolves
<1> SUFFICES ASSUME ~steered
             PROVE  PictureInv'
  BY <1>1 DEF PictureInv
<1>4. /\ Drawn(scr.mem) = {CellOf[k] : k \in 1 .. counter}
      /\ Offset(scr) = IF counter = 0 THEN 0 ELSE Behind(CellOf[counter])
  BY <1>1 DEF PictureInv
<1>5. v \in Nat
  BY <1>before
<1>6. s \in Screens /\ s.mem = scr.mem /\ Offset(s) = CellOf[n]
  <2>1. CASE OnScreen(v)
    <3>1. s = [scr EXCEPT !.x = v % Width, !.y = v \div Height]
      <4>1. v % Width < Width /\ v \div Height < Height
        BY <1>5, <2>1, CellForType, SizeAssumption DEF Columns, OnScreen, Rows
      <4> QED
        BY <4>1 DEF SetCursor, s
    <3>2. v % Width \in Columns /\ v \div Height \in Rows
      BY <1>5, <2>1, CellForType DEF OnScreen
    <3>3. s \in Screens /\ s.mem = scr.mem /\ Offset(s) = CellFor(v)
      BY <1>1, <3>1, <3>2 DEF Screens, Offset, CellFor
    <3> QED
      BY <1>1, <1>3, <2>1, <3>3 DEF FollowsVector, v
  <2>2. CASE ~OnScreen(v)
    <3>1. s = scr
      <4>1. ~(v \div Height < Height)
        <5>1. v \div Height \in Nat /\ v \div Height \notin Rows
          BY <1>5, <2>2, CellForType DEF OnScreen
        <5> HIDE DEF v
        <5> QED
          BY <5>1, SizeAssumption DEF Rows
      <4> QED
        BY <4>1 DEF SetCursor, s
    <3>2. CellOf[n] = IF n = 1 THEN 0 ELSE Behind(CellOf[n - 1])
      BY <1>1, <1>3, <2>2 DEF FollowsVector, v
    <3> QED
      BY <1>1, <1>4, <3>1, <3>2
  <2> QED
    BY <2>1, <2>2
<1>7. /\ scr' \in Screens /\ Advances(s, scr')
      /\ scr'.mem = [scr.mem EXCEPT ![CellOf[n]] = Shade]
  <2>1. Shade \in Cells \ {CursorChar}
    BY TerminalAssumption, CharAssumption DEF Cells
  <2> QED
    BY <1>1, <1>6, <2>1, PrintGoes
<1>8. Offset(scr') = Behind(CellOf[n])
  BY <1>6, <1>7, AdvancesBehind
<1>9. Drawn(scr'.mem) = {CellOf[k] : k \in 1 .. n}
  <2>1. CellOf[n] \in Offsets /\ scr.mem \in [Offsets -> Cells]
    BY <1>1, <1>3, Fields
  <2>2. Drawn(scr'.mem) = Drawn(scr.mem) \cup {CellOf[n]}
    BY <1>7, <2>1 DEF Drawn
  <2>3. {CellOf[k] : k \in 1 .. n} = {CellOf[k] : k \in 1 .. counter} \cup {CellOf[n]}
    BY <1>1
  <2> QED
    BY <1>4, <2>2, <2>3
<1>10. /\ Drawn(scr.mem)' = {CellOf[k] : k \in 1 .. counter}'
       /\ Offset(scr)' = (IF counter = 0 THEN 0 ELSE Behind(CellOf[counter]))'
  <2>1. Drawn(scr'.mem) = {CellOf'[k] : k \in 1 .. counter'}
    BY <1>1, <1>2, <1>9
  <2>2. Offset(scr') = IF counter' = 0 THEN 0 ELSE Behind(CellOf'[counter'])
    <3>1. counter' = n /\ n # 0
      BY <1>1
    <3>2. Behind(CellOf'[counter']) = Behind(CellOf[n])
      BY <1>2, <3>1, Zenon
    <3> QED
      BY <1>8, <3>1, <3>2, Zenon
  <2> QED
    BY <2>1, <2>2 DEF Drawn
<1>11. (pc = "print" => timer = "blink")'
  BY <1>1 DEF PictureInv
<1> QED
  BY <1>10, <1>11 DEF PictureInv

(***************************************************************************)
(* The picture of the image program: whatever is typed meanwhile, the      *)
(* cells that show its character are those of the values drawn so far, and *)
(* one whose row is below the screen takes the cell behind the one before  *)
(* it, unless an arrow key moves the cursor.                               *)
(***************************************************************************)
THEOREM PictureStands == Spec => []PictureIsDrawn
<1>1. Init => PictureInv
  <2> SUFFICES ASSUME Init, timer # "blink"
               PROVE  PictureInv
    BY DEF PictureInv, Init
  <2>1. scr = CursorEnable(NewScreen(Empty), FALSE) /\ counter = 0
    BY DEF Init
  <2>2. scr.x = 0 /\ scr.y = 0 /\ scr.mem = Empty
    BY <2>1 DEF CursorEnable, NewScreen
  <2>3. Offset(scr) = 0
    BY <2>2, SizeAssumption DEF Offset, PositionToOffset
  <2>4. Shade # Blank
    BY TerminalAssumption, CharAssumption
  <2>5. Drawn(scr.mem) = {}
    BY <2>2, <2>4 DEF Drawn, Empty
  <2>6. {CellOf[k] : k \in 1 .. counter} = {}
    BY <2>1
  <2> QED
    BY <2>1, <2>3, <2>5, <2>6 DEF PictureInv, Init
<1>2. TermInv /\ PictureInv /\ [Next]_vars => PictureInv'
  <2> SUFFICES ASSUME TermInv, PictureInv, [Next]_vars
               PROVE  PictureInv'
    OBVIOUS
  <2> DEFINE Quiet == /\ UNCHANGED <<scr, steered, counter, vector>>
                      /\ (timer' # "blink" => timer # "blink")
                      /\ (pc' = "print" => pc = "print" /\ timer' = timer)
  <2>1. ASSUME Quiet PROVE PictureInv'
    <3>1. CellOf' = CellOf
      BY <2>1 DEF CellOf
    <3>2. Drawn(scr.mem)' = Drawn(scr.mem) /\ Offset(scr)' = Offset(scr)
      BY <2>1 DEF Drawn
    <3> QED
      BY <2>1, <3>1, <3>2 DEF PictureInv
  <2>2. CASE timer' = "blink"
    BY <2>2 DEF PictureInv
  <2>4. show = (timer = "blink") /\ (pc = "print" => timer = "blink")
    BY DEF TermInv, PictureInv
  <2>5. CASE Paint
    BY <2>5, PaintKeeps
  <2>6. CASE PrintNext \/ Ask \/ ReturnLine \/ Blink
    <3>1. timer' = timer /\ timer = "blink"
      BY <2>4, <2>6 DEF PrintNext, Ask, ReturnLine, Blink, programVars
    <3> QED
      BY <2>2, <3>1
  <2>7. CASE StartInput \/ StopPainting
    <3>1. Quiet
      BY <2>7 DEF StartInput, StopPainting, screenVars
    <3> QED
      BY <2>1, <3>1
  <2>8. CASE Arrow
    BY <2>4, <2>8 DEF Arrow, PictureInv, programVars
  <2>9. ASSUME NEW c \in Input!Keys, Key(c), timer' # "blink"
        PROVE  PictureInv'
    <3>1. Quiet
      BY <2>4, <2>9 DEF Key, Echo, programVars
    <3> QED
      BY <2>1, <3>1
  <2>10. CASE UNCHANGED vars
    BY <2>1, <2>10 DEF vars, screenVars, programVars
  <2> QED
    BY <2>2, <2>5, <2>6, <2>7, <2>8, <2>9, <2>10 DEF Next
<1>3. PictureInv => PictureIsDrawn
  BY DEF PictureInv, PictureIsDrawn, Drawn
<1> QED
  BY <1>1, <1>2, <1>3, TermInvHolds, PTL DEF Spec

===============================================================================
