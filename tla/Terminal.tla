------------------------------- MODULE Terminal -------------------------------
(***************************************************************************)
(* The handlers that setup_character_mode installs (computer.h), between   *)
(* the screen and the line input they connect: a key goes to               *)
(* screen_buffer and, if show_input_screen, to the screen, where the       *)
(* program prints too.  Two programs use them: the BASIC terminal, which   *)
(* prints and asks for a line again and again, and the image program,      *)
(* which has the echo switched off, a timer handler of its own and a       *)
(* picture that it draws while it waits for a line.                        *)
(*                                                                         *)
(* A call of the screen or of the buffer is one step here; Console and     *)
(* LineInput take them apart.                                              *)
(***************************************************************************)
EXTENDS VideoControl, Sequences

CONSTANTS
  Silent,       \* the characters of Printable that isprint and isblank refuse
  Size, Word,   \* as in InputBuffer
  Outputs,      \* the texts the terminal prints between two lines
  Vectors,      \* the random vectors of the image program
  Rests,        \* what the memory behind them may hold, as far as it is read
  Shade,        \* the character it draws, 177
  MaxKeys       \* bound: the keys and blinks to come

ASSUME TerminalAssumption ==
  /\ Silent \subseteq Printable /\ Shade \in Printable
  /\ Size \in Nat \ {0} /\ Word \in Nat /\ Word > Size
  /\ Outputs \subseteq Seq(Chars)
  /\ Vectors \subseteq [1 .. Width * Height -> Nat] /\ Rests \subseteq Seq(Int)
  /\ MaxKeys \in Nat

Input == INSTANCE InputBuffer WITH
  Printable <- Printable \ (Silent \cup {Shade}), Ignored <- Silent, Nul <- Blank

VARIABLES
  scr,       \* *screen
  buf,       \* screen_buffer
  show,      \* show_input_screen
  timer,     \* the timer handler: "blink", "paint", or "off" (en_timer is false)
  pc,        \* "print", "ask", "wait", "done" or "astray"
  output,    \* what is left to print
  vector,    \* random_vec and the memory behind it
  counter,
  start,     \* history: the cell where the line begins on the screen
  clean,     \* history: no key since has moved the cursor away from the line
  steered,   \* history: an arrow key has been hit
  left       \* bound: keys and blinks to come

screenVars  == <<scr, start, clean, steered>>
programVars == <<show, timer, pc, output, vector>>
vars == <<screenVars, buf, programVars, counter, left>>

-------------------------------------------------------------------------------
Empty == [o \in Offsets |-> Blank]

Init ==
  /\ buf = Input!NewBuffer /\ counter = 0 /\ left = MaxKeys
  /\ start = 0 /\ clean = TRUE /\ steered = FALSE
  /\ \/ /\ scr = NewScreen(Empty) /\ show = TRUE /\ timer = "blink"
        /\ pc = "print" /\ output \in Outputs /\ vector = <<>>
     \/ /\ scr = CursorEnable(NewScreen(Empty), FALSE) /\ show = FALSE
        /\ timer = "paint" /\ pc = "ask" /\ output = <<>>
        /\ \E random \in Vectors, rest \in Rests : vector = random \o rest

\* print_screen, a character at a time.
PrintNext ==
  /\ pc = "print" /\ output # <<>>
  /\ scr' = SetCharacter(scr, Head(output), TRUE)
  /\ output' = Tail(output)
  /\ UNCHANGED <<buf, show, timer, pc, vector, counter, start, clean, steered, left>>

Ask ==
  /\ pc = "print" /\ output = <<>>
  /\ pc' = "ask"
  /\ UNCHANGED <<screenVars, buf, show, timer, output, vector, counter, left>>

\* start_input.
StartInput ==
  /\ pc = "ask" /\ pc' = "wait"
  /\ buf' = [buf EXCEPT !.reading = TRUE, !.idx = 0, !.input[0] = Blank]
  /\ start' = Offset(scr) /\ clean' = TRUE
  /\ UNCHANGED <<scr, steered, show, timer, output, vector, counter, left>>

\* The command clear empties the screen, others print something.
ReturnLine ==
  /\ pc = "wait" /\ ~buf.reading /\ timer = "blink"
  /\ pc' = "print"
  /\ \/ output' \in Outputs /\ UNCHANGED scr
     \/ output' = <<>> /\ scr' = Clear(SetCursor(scr, 0, 0))
  /\ UNCHANGED <<buf, show, timer, vector, counter, start, clean, steered, left>>

\* The end of the image program, behind input_screen.
StopPainting ==
  /\ pc = "wait" /\ ~buf.reading /\ timer = "paint"
  /\ pc' = "done" /\ timer' = "off"
  /\ UNCHANGED <<screenVars, buf, show, output, vector, counter, left>>

-------------------------------------------------------------------------------
Interrupted == pc \notin {"done", "astray"} /\ left > 0 /\ left' = left - 1

(***************************************************************************)
(* The line moves with the cursor as long as nothing is in it.             *)
(***************************************************************************)
Follow(strays) ==
  LET none == Input!CString(buf') = <<>>
  IN  /\ start' = IF none THEN Offset(scr') ELSE start
      /\ clean' = (none \/ (clean /\ ~strays))

Arrow ==
  /\ Interrupted
  /\ scr' \in {CursorUp(scr), CursorDown(scr), CursorLeft(scr), CursorRight(scr)}
  /\ UNCHANGED <<buf, programVars, counter>>
  /\ Follow(TRUE) /\ steered' = TRUE

\* A variant with a mistake in it: only what prints is shown.
EchoNoControls(c) ==
  scr' = IF show /\ c \notin Controls THEN SetCharacter(scr, c, TRUE) ELSE scr

\* A variant with a mistake in it: a backspace is shown as one more than it is.
EchoErasesTwice(c) ==
  LET once == SetCharacter(scr, c, TRUE)
  IN  scr' = IF ~show THEN scr
             ELSE IF c = Backspace THEN SetCharacter(once, c, TRUE) ELSE once

Echo(c) == scr' = IF show THEN SetCharacter(scr, c, TRUE) ELSE scr

AtLastCell == Offset(scr) = Width * Height - 1

Key(c) ==
  /\ Interrupted
  /\ buf' = Input!Add(buf, c)
  /\ Echo(c)
  /\ Follow(c \in Silent \/ (c \in Printable /\ AtLastCell))
  /\ UNCHANGED <<programVars, steered, counter>>

Blink ==
  /\ Interrupted /\ timer = "blink"
  /\ scr' = CycleCursor(scr)
  /\ UNCHANGED <<buf, programVars, start, clean, steered, counter>>

\* A variant with a mistake in it: the cursor stays on the character.
PaintStays ==
  /\ timer = "paint" /\ pc # "astray" /\ counter < Len(vector)
  /\ LET v == vector[counter + 1]
     IN  IF v < 0 THEN pc' = "astray" /\ UNCHANGED <<scr, counter>>
         ELSE /\ scr' = SetCharacter(SetCursor(scr, v % Width, v \div Height), Shade, FALSE)
              /\ counter' = counter + 1 /\ UNCHANGED pc
  /\ UNCHANGED <<buf, show, timer, output, vector, start, clean, steered, left>>

(***************************************************************************)
(* The timer handler of the image program.  The row is the value divided   *)
(* by the height, so it can lie below the screen, and then the cursor      *)
(* stays where it is.  Nothing stops the handler at the end of the random  *)
(* vector: it goes on with what the memory holds there, and set_cursor     *)
(* does not refuse the negative column or row that a negative value gives  *)
(* on a screen at least as wide as high.  What the program does with a     *)
(* cursor that has left the screen is not followed.                        *)
(***************************************************************************)
Paint ==
  /\ timer = "paint" /\ pc # "astray" /\ counter < Len(vector)
  /\ LET v == vector[counter + 1]
     IN  \/ /\ v >= 0
            /\ scr' = SetCharacter(SetCursor(scr, v % Width, v \div Height), Shade, TRUE)
            /\ counter' = counter + 1 /\ UNCHANGED pc
         \/ v < 0 /\ pc' = "astray" /\ UNCHANGED <<scr, counter>>
  /\ UNCHANGED <<buf, show, timer, output, vector, start, clean, steered, left>>

Next ==
  \/ PrintNext \/ Ask \/ StartInput \/ ReturnLine \/ StopPainting
  \/ Arrow \/ Blink \/ Paint
  \/ \E c \in Input!Keys : Key(c)

Spec == Init /\ [][Next]_vars

-------------------------------------------------------------------------------
(***************************************************************************)
(* Type invariant: whatever is typed and drawn, the index stays in its     *)
(* array, control characters stay out of the video memory, and the cursor  *)
(* stays on the screen until the image program has drawn its whole vector  *)
(* and then reads a negative value in the memory behind it.                *)
(***************************************************************************)
TypeOK ==
  /\ scr \in Screens /\ buf \in Input!Buffers
  /\ show \in BOOLEAN /\ timer \in {"blink", "paint", "off"}
  /\ pc \in {"print", "ask", "wait", "done", "astray"} /\ output \in Seq(Chars)
  /\ pc = "astray" => timer = "paint" /\ counter >= Width * Height
  /\ counter \in 0 .. Len(vector) /\ start \in Offsets
  /\ {clean, steered} \subseteq BOOLEAN /\ left \in 0 .. MaxKeys

Line == Input!CString(buf)

(***************************************************************************)
(* What the user sees is what the program will get: from the place where   *)
(* the input began the screen shows the characters in the buffer, and the  *)
(* cursor stands behind them, whatever is typed, erased and blinked.  The  *)
(* exceptions are a character that is shown and not stored, an arrow key,  *)
(* and the end of the screen, which does not scroll; with an empty line    *)
(* they only move the beginning, as a backspace into the text before it.   *)
(***************************************************************************)
EchoShowsLine ==
  buf.reading /\ clean /\ show =>
    /\ Offset(scr) = start + Len(Line)
    /\ \A k \in 1 .. Len(Line) : scr.mem[start + k - 1] = Line[k]

(***************************************************************************)
(* Keys and blinks do not change what stands before the line, but for one  *)
(* character that a backspace takes when the line is empty, the last one   *)
(* of a prompt for instance: the buffer has nothing left to take then, and *)
(* the screen does not know.                                               *)
(***************************************************************************)
TextBeforeStays ==
  [][buf.reading /\ buf'.reading /\ clean /\ ((\E c \in Input!Keys : Key(c)) \/ Blink) =>
       \A o \in Offsets : o < start /\ scr'.mem[o] # scr.mem[o] =>
         o = start - 1 /\ Line = <<>> /\ Key(Backspace)]_vars

(***************************************************************************)
(* The picture: each value drawn, of the vector or from behind it, puts    *)
(* one character into the cell of its column and row, and one whose row is *)
(* below the screen into the cell behind the one before it.  Keys that the *)
(* user types meanwhile do not show, and nothing that has been drawn is    *)
(* lost, unless an arrow key comes.                                        *)
(***************************************************************************)
Behind(o) == IF o = Width * Height - 1 THEN LastRow ELSE o + 1

CellOf[k \in 1 .. Len(vector)] ==
  LET v == vector[k]
  IN  IF v \div Height \in Rows THEN PositionToOffset(v % Width, v \div Height)
      ELSE IF k = 1 THEN 0 ELSE Behind(CellOf[k - 1])

PictureIsDrawn ==
  timer # "blink" /\ ~steered =>
    {o \in Offsets : scr.mem[o] = Shade} = {CellOf[k] : k \in 1 .. counter}

===============================================================================
