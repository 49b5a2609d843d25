----------------------------- MODULE InputBuffer -----------------------------
(***************************************************************************)
(* The class InputBuffer of include/input_buffer.h: the line a user types  *)
(* on the keyboard or over the UART.  An object is the record of its three *)
(* fields; add is an operator on it.  start_input is left to the modules   *)
(* that use the class: interrupts come between its stores.                 *)
(***************************************************************************)
EXTENDS Integers, Sequences

CONSTANTS
  Size,       \* the length of the array input (1024)
  Word,       \* the number of values of a uint32_t (2^32)
  Printable,  \* the characters isprint or isblank accepts
  Ignored,    \* the other characters, those below excepted
  Nul,        \* '\0'
  Backspace, Newline, Return

Keys == Printable \cup Ignored \cup {Backspace, Newline, Return}

ASSUME BufferAssumption ==
  /\ Size \in Nat \ {0} /\ Word \in Nat /\ Word > Size
  /\ Nul \notin Printable
  /\ {Backspace, Newline, Return} \cap Printable = {}
  /\ Backspace # Newline /\ Backspace # Return

Slots == 0 .. (Size - 1)

Buffers == [reading : BOOLEAN,
            idx     : Slots,
            input   : [Slots -> Printable \cup {Nul}]]

\* An object of static storage: all its bytes are zero.
NewBuffer == [reading |-> FALSE, idx |-> 0, input |-> [k \in Slots |-> Nul]]

\* A variant with a mistake in it: only a carriage return ends the line.
SwitchReturnOnly(b, c) ==
  CASE c = Backspace -> [b EXCEPT !.idx = (@ - 1) % Word]
    [] c = Return -> [b EXCEPT !.reading = FALSE]
    [] c \in Printable -> [b EXCEPT !.input[b.idx] = c, !.idx = @ + 1]
    [] OTHER -> b

\* The switch of add; the index may leave the array here.
Switch(b, c) ==
  CASE c = Backspace -> [b EXCEPT !.idx = (@ - 1) % Word]
    [] c \in {Newline, Return} -> [b EXCEPT !.reading = FALSE]
    [] c \in Printable -> [b EXCEPT !.input[b.idx] = c, !.idx = @ + 1]
    [] OTHER -> b

\* A variant with a mistake in it: an off-by-one in the bound of the index.
TerminateLate(b) ==
  LET i == IF b.idx > Size THEN 0 ELSE b.idx
  IN  [b EXCEPT !.idx = i, !.input[i] = Nul]

\* A variant with a mistake in it: the line is not terminated.
TerminateNot(b) == [b EXCEPT !.idx = IF @ >= Size THEN 0 ELSE @]

\* The end of add: an index outside of the array starts the line anew.
Terminate(b) ==
  LET i == IF b.idx >= Size THEN 0 ELSE b.idx
  IN  [b EXCEPT !.idx = i, !.input[i] = Nul]

\* A variant with a mistake in it: add works when nothing is being read.
AddAlways(b, c) == Terminate(Switch(b, c))

Add(b, c) == IF b.reading THEN Terminate(Switch(b, c)) ELSE b

\* string(get_input()): the characters before the first '\0'.
CString(b) ==
  LET n == CHOOSE k \in Slots : b.input[k] = Nul
                                /\ \A j \in 0 .. (k - 1) : b.input[j] # Nul
  IN  [k \in 1 .. n |-> b.input[k - 1]]

===============================================================================
