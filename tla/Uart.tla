--------------------------------- MODULE Uart ---------------------------------
(***************************************************************************)
(* The serial output of include/riscv-stdio.h: the print_uart functions    *)
(* and the device they talk to.  A program is a sequence of calls.  The    *)
(* echo of a received character is one of them: the interrupt handler only *)
(* prints while the program waits in input_uart, so it never interrupts    *)
(* another print_uart.                                                     *)
(*                                                                         *)
(* The device is outside of the repository.  What the code takes for       *)
(* granted is that it sends the character in uart_tx when data_ready is 1  *)
(* and then sets data_ready to 0.                                          *)
(*                                                                         *)
(* The accesses to the device are plain, not volatile.  The functions that *)
(* take a const char * store a character in every round of their loop, so  *)
(* data_ready is read anew in every round.  In the one that takes a string *)
(* the loop that waits does nothing else: the compiler may keep it, read   *)
(* data_ready once and then wait for ever, or leave the loop out.          *)
(***************************************************************************)
EXTENDS Integers, SequencesExt

CONSTANTS
  Chars,     \* the characters printed
  Programs,  \* sequences of calls [text |-> ..., style |-> ...]
  Builds,    \* what the compiler makes of the loop that waits
  Idle       \* what uart_tx holds before the first character

Styles == {"const char *", "string"}

ASSUME UartAssumption ==
  /\ Programs \subseteq Seq([text : Seq(Chars), style : Styles])
  /\ Builds \subseteq {"polls", "reads once", "skips"}

VARIABLES
  tx, ready,   \* uart_tx and data_ready, shared with the device
  program,     \* the calls of the program
  call, idx,   \* the call being executed and the index of its character
  stage,       \* where it is: "store", "test", "signal" or "stuck"
  build,       \* what the compiler made of the waiting loop
  out          \* what the device has sent

uartVars == <<tx, ready, program, call, idx, stage, build, out>>

UartInit ==
  /\ tx = Idle /\ ready = 0 /\ out = <<>>
  /\ program \in Programs
  /\ build \in Builds
  /\ call = 1 /\ idx = 1 /\ stage = "store"

Done == call > Len(program)
Text == program[call].text
Style == program[call].style

\* The end of the string: the call returns and the next one begins.
EndCall ==
  /\ stage = "store" /\ ~Done
  /\ idx > Len(Text)
  /\ call' = call + 1 /\ idx' = 1
  /\ UNCHANGED <<tx, ready, program, stage, build, out>>

\* The character is stored before anybody looks at data_ready.
Store ==
  /\ stage = "store" /\ ~Done
  /\ idx <= Len(Text)
  /\ tx' = Text[idx]
  /\ stage' = "test"
  /\ UNCHANGED <<ready, program, call, idx, build, out>>

\* A variant with a mistake in it: the flag is not looked at.
TestAnyway ==
  /\ stage = "test" /\ Style = "const char *"
  /\ stage' = "signal"
  /\ UNCHANGED <<tx, ready, program, call, idx, build, out>>

\* A variant with a mistake in it: a busy device costs a character.
TestSkips ==
  /\ stage = "test" /\ Style = "const char *"
  /\ stage' = IF ready = 0 THEN "signal" ELSE "store"
  /\ idx' = IF ready = 0 THEN idx ELSE idx + 1
  /\ UNCHANGED <<tx, ready, program, call, build, out>>

\* A variant with a mistake in it: the flag is read the other way round.
TestInverted ==
  /\ stage = "test" /\ Style = "const char *"
  /\ stage' = IF ready = 1 THEN "signal" ELSE "store"
  /\ UNCHANGED <<tx, ready, program, call, idx, build, out>>

\* const char *: if the device is busy the whole round is repeated.
Test ==
  /\ stage = "test" /\ Style = "const char *"
  /\ stage' = IF ready = 0 THEN "signal" ELSE "store"
  /\ UNCHANGED <<tx, ready, program, call, idx, build, out>>

\* string: what the loop that waits was compiled to.
Wait ==
  /\ stage = "test" /\ Style = "string"
  /\ \/ (ready = 0 \/ build = "skips") /\ stage' = "signal"
     \/ ready = 1 /\ build = "polls" /\ stage' = "test"
     \/ ready = 1 /\ build = "reads once" /\ stage' = "stuck"
  /\ UNCHANGED <<tx, ready, program, call, idx, build, out>>

\* A variant with a mistake in it: the device is not told.
SignalNothing ==
  /\ stage = "signal"
  /\ idx' = idx + 1 /\ stage' = "store"
  /\ UNCHANGED <<tx, ready, program, call, build, out>>

Signal ==
  /\ stage = "signal"
  /\ ready' = 1
  /\ idx' = idx + 1 /\ stage' = "store"
  /\ UNCHANGED <<tx, program, call, build, out>>

Device ==
  /\ ready = 1
  /\ out' = Append(out, tx)
  /\ ready' = 0
  /\ UNCHANGED <<tx, program, call, idx, stage, build>>

Cpu == EndCall \/ Store \/ Test \/ Wait \/ Signal

UartNext == Cpu \/ Device

UartSpec == UartInit /\ [][UartNext]_uartVars

\* The processor goes on, and so does the device.
UartFairSpec == UartSpec /\ WF_uartVars(Cpu) /\ WF_uartVars(Device)

-------------------------------------------------------------------------------
\* All that the program prints, and how much of it has been signalled.
Stream == FlattenSeq([i \in 1 .. Len(program) |-> program[i].text])

Signalled ==
  Len(FlattenSeq([i \in 1 .. (call - 1) |-> program[i].text])) + idx - 1

\* The code waits for the device in front of every character.
Waits ==
  \/ build = "polls"
  \/ \A i \in 1 .. Len(program) : program[i].style = "const char *"

(***************************************************************************)
(* Nothing is signalled to a busy device: the number of characters sent is *)
(* the number signalled, but for the one the device has not taken yet.     *)
(***************************************************************************)
NoSignalLost == Waits => Len(out) + ready = Signalled

(***************************************************************************)
(* How far the output can be from the text: because the next character is  *)
(* stored while the device still holds the one before it, each character   *)
(* sent is the one meant or the one after it.  (The comment of             *)
(* riscv-stdio.h:85, wait for data ready to be open, suggests that it is   *)
(* always the one meant; the store is in front of the wait.)               *)
(***************************************************************************)
SentIsThisOrNext ==
  Waits =>
    \A k \in 1 .. Len(out) :
      out[k] = Stream[k] \/ (k < Len(Stream) /\ out[k] = Stream[k + 1])

(***************************************************************************)
(* When all is printed the device sends as many characters as there were,  *)
(* and the last one is right.  In the builds that wait, this happens.      *)
(***************************************************************************)
AllSent ==
  Done /\ ready = 0 /\ Len(out) = Len(Stream)
  /\ (out # <<>> => Last(out) = Last(Stream))

EverythingIsSent == Waits => <>[]AllSent

(***************************************************************************)
(* The program does not hang in a print_uart, but in the build that reads  *)
(* the flag once.                                                          *)
(***************************************************************************)
PrintReturns == build # "reads once" => <>Done

===============================================================================
