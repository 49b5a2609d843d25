------------------------------ MODULE LineInput ------------------------------
(***************************************************************************)
(* input_screen (riscv-stdio.h): the program asks for a line and waits in  *)
(* a loop while the interrupt handler adds the keys.  A handler runs to    *)
(* its end before the program goes on, so a key is one step; it can come   *)
(* between any two of the program's steps.  input_uart does the same with  *)
(* the other buffer.                                                       *)
(*                                                                         *)
(* start_input is three plain stores with nothing that keeps the compiler  *)
(* from reordering them, so they are performed in any order.  The nop of   *)
(* the waiting loop is an asm statement, across which the compiler keeps   *)
(* nothing in registers: each round reads read_input again.                *)
(***************************************************************************)
EXTENDS InputBuffer

VARIABLES
  buf,      \* screen_buffer (or uart_buffer)
  pc,       \* where the program is
  pending,  \* the fields start_input still has to store
  result,   \* the line the last call returned
  line,     \* history: the line typed by the keys that came while reading
  raced     \* history: such a key came before start_input was finished

vars == <<buf, pc, pending, result, line, raced>>

Fields == {"read_input", "current_idx", "input"}

Init ==
  /\ buf = NewBuffer
  /\ pc = "idle" /\ pending = {}
  /\ result = <<>> /\ line = <<>> /\ raced = FALSE

CallInput ==
  /\ pc = "idle"
  /\ pc' = "start"
  /\ pending' = Fields
  /\ line' = <<>> /\ raced' = FALSE
  /\ UNCHANGED <<buf, result>>

Stored(b, field) ==
  CASE field = "read_input"  -> [b EXCEPT !.reading = TRUE]
    [] field = "current_idx" -> [b EXCEPT !.idx = 0]
    [] field = "input"       -> [b EXCEPT !.input[0] = Nul]

\* A variant with a mistake in it: the array is not emptied.
StartInputKeepsLine(field) ==
  /\ pc = "start" /\ field \in pending
  /\ buf' = IF field = "input" THEN buf ELSE Stored(buf, field)
  /\ pending' = pending \ {field}
  /\ pc' = IF pending' = {} THEN "wait" ELSE pc
  /\ UNCHANGED <<result, line, raced>>

StartInput(field) ==
  /\ pc = "start" /\ field \in pending
  /\ buf' = Stored(buf, field)
  /\ pending' = pending \ {field}
  /\ pc' = IF pending' = {} THEN "wait" ELSE pc
  /\ UNCHANGED <<result, line, raced>>

\* The loop ends when is_reading() is false, and the line is copied.
ReturnLine ==
  /\ pc = "wait" /\ ~buf.reading
  /\ pc' = "idle"
  /\ result' = CString(buf)
  /\ UNCHANGED <<buf, pending, line, raced>>

\* What a key makes of the line: when the array is full the line is lost.
Edit(typed, c) ==
  CASE c = Backspace -> IF typed = <<>> THEN <<>>
                        ELSE SubSeq(typed, 1, Len(typed) - 1)
    [] c \in Printable -> IF Len(typed) + 1 = Size THEN <<>>
                          ELSE Append(typed, c)
    [] OTHER -> typed

\* The handlers call add; the keyboard's passes on all but the arrow keys.
Key(c) ==
  /\ buf' = Add(buf, c)
  /\ line' = IF buf.reading THEN Edit(line, c) ELSE line
  /\ raced' = (raced \/ (buf.reading /\ pending # {}))
  /\ UNCHANGED <<pc, pending, result>>

Next ==
  \/ CallInput
  \/ \E field \in Fields : StartInput(field)
  \/ ReturnLine
  \/ \E c \in Keys : Key(c)

Spec == Init /\ [][Next]_vars

(***************************************************************************)
(* The processor goes on executing the program, and its user hits Enter    *)
(* again and again.                                                        *)
(***************************************************************************)
Fairness ==
  /\ WF_vars(\E field \in Fields : StartInput(field))
  /\ WF_vars(ReturnLine)
  /\ WF_vars(Key(Newline))

FairSpec == Spec /\ Fairness

-------------------------------------------------------------------------------
(***************************************************************************)
(* Type invariant.  The index stays inside the array between any two       *)
(* steps, whatever keys come: a backspace in an empty line, which takes    *)
(* the index below zero, and a full array bring it back to the start.      *)
(***************************************************************************)
TypeOK ==
  /\ buf \in Buffers
  /\ pc \in {"idle", "start", "wait"}
  /\ pending \subseteq Fields
  /\ result \in Seq(Printable) /\ line \in Seq(Printable)
  /\ raced \in BOOLEAN

(***************************************************************************)
(* get_input() hands out a string with an end: whatever the order of the   *)
(* stores and of the keys between them, the array holds a '\0'.            *)
(***************************************************************************)
Terminated ==
  \E k \in Slots : buf.input[k] = Nul /\ \A j \in 0 .. (k - 1) : buf.input[j] # Nul

(***************************************************************************)
(* Once start_input is done and as long as the call has not returned, the  *)
(* array holds exactly the line that was typed, if no key came while       *)
(* start_input was at work.                                                *)
(***************************************************************************)
BufferHoldsLine ==
  pc = "wait" /\ ~raced =>
    /\ buf.idx = Len(line)
    /\ \A k \in 0 .. (buf.idx - 1) : buf.input[k] = line[k + 1]
    /\ buf.input[buf.idx] = Nul

CallReturns == pc = "wait" /\ pc' = "idle"

(***************************************************************************)
(* The line returned is the one that was typed, if no key came while       *)
(* start_input was at work: no key that comes between the Enter and the    *)
(* copy of the line, nor one before the call, has a part in it.            *)
(***************************************************************************)
LineDelivered == [][CallReturns /\ ~raced => result' = line]_vars

(***************************************************************************)
(* Every call returns if the user goes on hitting Enter, also when an      *)
(* Enter was lost or came while start_input was at work.                   *)
(***************************************************************************)
InputReturns == pc # "idle" ~> pc = "idle"

===============================================================================
