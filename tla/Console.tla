------------------------------- MODULE Console -------------------------------
(***************************************************************************)
(* The character screen under interrupts.  The program is inside           *)
(* print_screen, which calls set_character for one character after the     *)
(* other; between any two of its accesses to the screen object a keyboard  *)
(* or timer interrupt can run to its end and work on the same object       *)
(* (setup_character_mode, computer.h).  Nothing disables interrupts and    *)
(* nothing is volatile.                                                    *)
(*                                                                         *)
(* A step of the program is one load or store of set_character and the     *)
(* methods it calls, with the values it holds in registers between them:   *)
(* an offset it has computed, a value it has loaded.  A handler is one     *)
(* step, the operator of VideoControl.  A row of the scroll, a memcpy or    *)
(* memset, is one step.                                                    *)
(*                                                                         *)
(* The memory is modelled with one more row and one more cell behind it,   *)
(* because that is how far the cursor gets: see TypeOK.                    *)
(***************************************************************************)
EXTENDS VideoControl, Naturals

CONSTANTS
  Printed,        \* the characters the program prints
  Typed,          \* the keys that are echoed
  Arrows,         \* the cursor moves for which there are keys
  MaxCalls,       \* bound: characters printed
  MaxInterrupts   \* bound: interrupts

ASSUME ConsoleAssumption ==
  /\ Printed \subseteq (Cells \cup {Newline}) /\ Typed \subseteq Chars
  /\ Arrows \subseteq {"UP", "DOWN", "LEFT", "RIGHT"}
  /\ MaxCalls \in Nat /\ MaxInterrupts \in Nat

VARIABLES
  scr,          \* *screen
  pc, ch,       \* where the program is in set_character, and its argument
  off, val,     \* registers: an offset or the part of one that has been
                \* computed, a value (a character or a coordinate)
  calls,        \* number of calls
  interrupts,   \* number of interrupts
  before,       \* history: the screen when the call began
  disturbed     \* history: what interrupted the call, "no", "timer" or "key"

regs == <<ch, off, val>>
history == <<calls, before, disturbed>>
vars == <<scr, pc, regs, history, interrupts>>

\* The cells of the array and those behind it that the cursor can reach.
Reach == 0 .. (Width * (Height + 1))

Init ==
  /\ scr = NewScreen([o \in Reach |-> Blank])
  /\ pc = "idle" /\ ch = Blank /\ off = 0 /\ val = 0
  /\ calls = 0 /\ interrupts = 0
  /\ before = scr /\ disturbed = "no"

-------------------------------------------------------------------------------
(***************************************************************************)
(* The program.                                                            *)
(***************************************************************************)
Step(from, to) == pc = from /\ pc' = to /\ UNCHANGED <<history, interrupts>>

\* A variant with a mistake in it: a newline is written like any character.
CallNoNewline(c) ==
  /\ pc = "idle" /\ calls < MaxCalls
  /\ pc' = "address"
  /\ ch' = c
  /\ calls' = calls + 1 /\ before' = scr /\ disturbed' = "no"
  /\ UNCHANGED <<scr, off, val, interrupts>>

\* print_screen hands the next character to set_character(c, true).
Call(c) ==
  /\ pc = "idle" /\ calls < MaxCalls
  /\ pc' = IF c = Newline THEN "load" ELSE "address"
  /\ ch' = c
  /\ calls' = calls + 1 /\ before' = scr /\ disturbed' = "no"
  /\ UNCHANGED <<scr, off, val, interrupts>>

(***************************************************************************)
(* position_to_offset(cursor) loads the two coordinates one after the      *)
(* other; which one is the first the language leaves open.                 *)
(***************************************************************************)
Locate(start, needsRow, needsColumn, end) ==
  /\ \/ Step(start, needsRow) /\ off' = scr.x
     \/ Step(start, needsColumn) /\ off' = scr.y * Width
     \/ Step(needsRow, end) /\ off' = off + scr.y * Width
     \/ Step(needsColumn, end) /\ off' = off + scr.x
  /\ UNCHANGED <<scr, ch, val>>

\* video_memory[position_to_offset(cursor)] = character
Address == Locate("address", "address row", "address column", "store")

Store ==
  /\ Step("store", "keep")
  /\ scr' = [scr EXCEPT !.mem[off] = ch]
  /\ UNCHANGED regs

\* if (character != cursor_char) cursor_last_char = character
Kept(s, c) == IF c = CursorChar THEN s ELSE [s EXCEPT !.last = c]

Keep == Step("keep", "load") /\ scr' = Kept(scr, ch) /\ UNCHANGED regs

\* restore_last_character, of cursor_right and of cursor_newline
Load == Step("load", "place") /\ val' = scr.last /\ UNCHANGED <<scr, ch, off>>

Place == Locate("place", "place row", "place column", "put")

Put ==
  /\ Step("put", "rekeep")
  /\ scr' = [scr EXCEPT !.mem[off] = val]
  /\ UNCHANGED regs

Rekeep ==
  /\ Step("rekeep", IF ch = Newline THEN "home" ELSE "right")
  /\ scr' = Kept(scr, val)
  /\ UNCHANGED regs

\* cursor_right looks at the column, then changes it.
Right ==
  /\ Step("right", IF CheckCursorOverrun(scr, "RIGHT") THEN "home" ELSE "advance")
  /\ val' = scr.x
  /\ UNCHANGED <<scr, ch, off>>

Advance ==
  /\ Step("advance", "look")
  /\ scr' = [scr EXCEPT !.x = val + 1]
  /\ UNCHANGED regs

Home == Step("home", "down") /\ scr' = [scr EXCEPT !.x = 0] /\ UNCHANGED regs

\* cursor_right and cursor_newline look at the row, then change it; on the
\* bottom row only the latter scrolls.
Down ==
  /\ Step("down", IF ~CheckCursorOverrun(scr, "DOWN") THEN "descend"
                  ELSE IF ch = Newline THEN "scroll" ELSE "look")
  /\ val' = IF CheckCursorOverrun(scr, "DOWN") THEN 0 ELSE scr.y
  /\ UNCHANGED <<scr, ch, off>>

Descend ==
  /\ Step("descend", IF ch = Newline THEN "forget" ELSE "look")
  /\ scr' = [scr EXCEPT !.y = val + 1]
  /\ UNCHANGED regs

\* The increments of a coordinate may load it again after the check.
Reload ==
  /\ \/ pc = "advance" /\ val' = scr.x
     \/ pc = "descend" /\ val' = scr.y
  /\ UNCHANGED <<scr, pc, ch, off, history, interrupts>>

\* add_new_row: row val + 1 is copied over row val, then the bottom row is
\* cleared.  The last row copied lies behind the array.
RowMoved(s, row) ==
  [s EXCEPT !.mem =
     [o \in Reach |-> IF o \div Width = row
                      THEN s.mem[o + Width] ELSE s.mem[o]]]

Scroll ==
  /\ pc = "scroll" /\ val * Width < Height * (Width - 1)
  /\ scr' = RowMoved(scr, val)
  /\ val' = val + 1
  /\ UNCHANGED <<pc, ch, off, history, interrupts>>

\* A variant with a mistake in it: the bottom row is not cleared.
ClearBottomNot ==
  /\ Step("scroll", "forget") /\ val * Width >= Height * (Width - 1)
  /\ UNCHANGED <<scr, regs>>

ClearBottom ==
  /\ Step("scroll", "forget") /\ val * Width >= Height * (Width - 1)
  /\ scr' = [scr EXCEPT !.mem =
               [o \in Reach |-> IF o \in LastRow .. (Width * Height - 1)
                                THEN Blank ELSE scr.mem[o]]]
  /\ UNCHANGED regs

\* cursor_newline's caller: cursor_last_char = '\0'
Forget ==
  /\ Step("forget", "idle")
  /\ scr' = [scr EXCEPT !.last = Blank]
  /\ UNCHANGED regs

\* set_last_character, of cursor_right
Look == Locate("look", "look row", "look column", "reread")

Reread == Step("reread", "save") /\ val' = scr.mem[off] /\ UNCHANGED <<scr, ch, off>>

\* A variant with a mistake in it: the character is not saved.
SaveNothing == Step("save", "idle") /\ UNCHANGED <<scr, regs>>

Save ==
  /\ Step("save", "idle")
  /\ scr' = [scr EXCEPT !.last = val]
  /\ UNCHANGED regs

Program ==
  \/ \E c \in Printed : Call(c)
  \/ Address \/ Store \/ Keep \/ Load \/ Place \/ Put \/ Rekeep
  \/ Right \/ Advance \/ Home \/ Down \/ Descend \/ Reload
  \/ Scroll \/ ClearBottom \/ Forget \/ Look \/ Reread \/ Save

-------------------------------------------------------------------------------
(***************************************************************************)
(* The handlers.                                                           *)
(***************************************************************************)
Interrupt(kind) ==
  /\ interrupts < MaxInterrupts
  /\ interrupts' = interrupts + 1
  /\ disturbed' = IF disturbed = "key" THEN "key" ELSE kind
  /\ UNCHANGED <<pc, regs, calls, before>>

Move(s, direction) ==
  CASE direction = "UP"    -> CursorUp(s)
    [] direction = "DOWN"  -> CursorDown(s)
    [] direction = "LEFT"  -> CursorLeft(s)
    [] direction = "RIGHT" -> CursorRight(s)

Keyboard ==
  /\ Interrupt("key")
  /\ \/ \E direction \in Arrows : scr' = Move(scr, direction)
     \/ \E c \in Typed : scr' = SetCharacter(scr, c, TRUE)

\* One tick in 64; the others change nothing.
Timer == Interrupt("timer") /\ scr' = CycleCursor(scr)

Next == Program \/ Keyboard \/ Timer

Spec == Init /\ [][Next]_vars

-------------------------------------------------------------------------------
(***************************************************************************)
(* Type invariant.  The cursor can leave the screen, when a key moves it   *)
(* between the moment the program looks at a coordinate and the moment it  *)
(* changes it, but by one column and one row at most, so that what is      *)
(* written behind the array is limited to the next Width + 1 bytes.  And   *)
(* no interleaving stores or saves a control character, so the recursion   *)
(* of restore_last_character ends.                                         *)
(***************************************************************************)
TypeOK ==
  /\ scr.mem \in [Reach -> Cells]
  /\ scr.x \in 0 .. Width /\ scr.y \in 0 .. Height
  /\ scr.last \in Cells
  /\ scr.showing \in BOOLEAN /\ scr.enabled \in BOOLEAN
  /\ off \in Reach
  /\ ch \in Cells \cup {Newline}

(***************************************************************************)
(* A call nothing interrupts does what the operator SetCharacter says: the *)
(* steps above and the sequential model (Screen) are the same program.     *)
(***************************************************************************)
AsInSequence ==
  pc = "idle" /\ calls > 0 /\ disturbed = "no"
    => scr = SetCharacter(before, ch, TRUE)

(***************************************************************************)
(* A blink, wherever it interrupts the call, never makes the program lose  *)
(* its place, and its damage is local: only the cell the call began at,    *)
(* the first one of that row and the one the call ends at can differ from  *)
(* what was to be there, or the cells above them if the rows moved up      *)
(* while it happened.  (The cell the call began at does differ: a blink    *)
(* between the restoring of the cell and the move leaves the picture of    *)
(* the cursor in place of the character printed.)                          *)
(***************************************************************************)
Touched ==
  {Offset(before), before.y * Width, Offset(scr)}

BlinkDamageIsLocal ==
  pc = "idle" /\ calls > 0 /\ disturbed # "key"
    => LET expected == SetCharacter(before, ch, TRUE)
       IN  /\ scr.x = expected.x /\ scr.y = expected.y
           /\ \A o \in Reach :
                \/ scr.mem[o] = expected.mem[o]
                \/ o \in Touched \/ o + Width \in Touched

===============================================================================
