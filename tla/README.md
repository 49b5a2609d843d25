# A verification project for RV32IMLib

RV32IMLib is the C/C++ library (a "kernel" and its programs) of an emulated
RV32IM computer: memory-mapped video, keyboard, serial line and timer, no
operating system, one thread of control and interrupts. This directory holds
TLA+ modules that model it, TLC configurations that check them on small
instances, and TLAPS proofs of what matters most.

## 1. The system

Everything runs in one address space. `boot.s` enables interrupts and calls
`main`; `setup_character_mode()` (computer.h) allocates the video memory, makes
the global object `screen` and installs three handlers. From then on the
program and the handlers share `screen`, `screen_buffer` and `uart_buffer`.
Nothing ever disables interrupts and no shared variable is volatile. A handler
is not itself interrupted: `irq_handler` acknowledges its interrupt when the
handler is done (irq.cpp:48), and from then on the next one can come.

| component | state | operations | who calls it |
|---|---|---|---|
| character screen (`VideoControl`, vga.h) | video memory, `cursor`, `cursor_last_char`, `cursor_showing`, `cursor_enabled` | `set_character`, cursor moves, `cycle_cursor`, `set_cursor`, `clear` | `print_screen`, `clear_screen`, keyboard handler (arrows, echo), timer handler (blink), programs |
| line input (`InputBuffer`, input_buffer.h) | `read_input`, `current_idx`, `input[1024]` | `start_input`, `add`, `is_reading`, `get_input` | `input_screen`, `input_uart`; `add` from the handlers |
| serial output (riscv-stdio.h) | device registers `uart_tx`, `data_ready` | three `print_uart`s | programs, `_write`, serial echo |
| heap (syscalls.cpp, linker.lds) | `brk` | `_sbrk` | newlib's `malloc` |
| snake (snake.cpp) | the snake, the food, score, direction, the screen | the timer handler's frame | timer, while keyboard keys steer |
| BASIC interpreter (ubasic.c, tokenizer.c) | text pointer, line index, `for` and `gosub` stacks, variables | `ubasic_init`, `ubasic_run` | the terminal |
| BASIC terminal (basic.cpp) | program text by line number | `run`, `list`, `clear`, a numbered line | the user, through line input |
| interrupts, boot (irq.cpp, boot.s, common.h) | device addresses, `irq_en`, handlers | enable, dispatch, acknowledge | device, `main` |
| image and bitmap programs | a counter and a picture | timer handler | timer |

The hard part is sharing without protection: the blink and the arrow keys
change the cursor between any two accesses of `print_screen`; a key can come
between the three stores of `start_input`; the device reads `uart_tx` when it
likes. `PROJECT.json` lists every such hazard at its line with the properties
that watch it.

What makes each component correct:

* screen: no access leaves the video memory; no control character gets into it
  (`restore_last_character` would recurse for ever); the characters shown are
  those that were printed; the cursor's picture leaves no trace;
* line input: the line returned is the line typed, it has an end, the call
  returns;
* serial output: as many characters are sent as were printed, in their order;
* heap: blocks lie in the heap and do not overlap;
* snake: the snake is a path of the length the score says, the board shows the
  game and nothing else;
* BASIC interpreter: a jump arrives at its line whatever has been executed
  before, loops and subroutines come back to where they began, the stacks stay
  in their arrays, each statement leaves the scanner at the beginning of a line;
* BASIC terminal: what runs is the program typed, by its line numbers;
* terminal as a whole: what the user sees is what the program gets;
* interrupts: the program finds its registers and stack as it left them, a
  handler that is called exists with all it needs, every event is served.

## 2. The modules

| module | models | kind |
|---|---|---|
| `CharGrid` | characters, size and cell numbering | shared constants |
| `VideoControl` | the class, one operator per method, from the object before the call to the object after it | operators |
| `VideoControlProofs` | lemmas about these operators, for the proofs about all the machines that call them | proofs |
| `TextScreen` | what the screen promises: a text, a position, one bit of doubt | abstract specification |
| `Screen` | the object used by one caller at a time | state machine, implements `TextScreen` |
| `ScreenProofs` | theorems about `Screen` | proofs |
| `Console` | `print_screen` one memory access at a time, interrupted | state machine over `VideoControl` |
| `ConsoleProofs` | theorems about `Console` | proofs |
| `InputBuffer` | the class, operators on the record of its fields | operators |
| `LineInput` | `input_screen` against the handlers | state machine |
| `Uart` | the `print_uart` functions and the device | state machine |
| `Heap` | `_sbrk` and what its callers hold | state machine |
| `Snake` | the game on top of `VideoControl` | state machine |
| `SnakeProofs` | theorems about `Snake` | proofs |
| `Terminal` | the keyboard and timer handlers between `VideoControl` and `InputBuffer`, under the BASIC terminal and the image program | state machine, composition |
| `TerminalProofs` | theorems about `Terminal` | proofs |
| `Irq` | boot.s, irq.cpp, the addresses, set-up and tear-down | state machine |
| `RuntimeProofs` | theorems about `Heap`, `Irq`, `LineInput` and `Uart` | proofs |
| `Tokenizer` | tokenizer.c, as a cursor in a sequence of tokens | operators and two variables |
| `Ubasic` | ubasic.c | state machine over `Tokenizer` |
| `UbasicProofs` | theorems about `Ubasic` | proofs |
| `Basic` | what the BASIC terminal promises: a program by line number | abstract specification |
| `BasicShell` | basic.cpp with `Ubasic` behind it | state machine, implements `Basic` |
| `Induction` | what recursive functions are: lemmas for the proofs that need induction over data | proofs |

`MC*` modules give values to the constants; each `.cfg` is one run. `Heap`, `Irq` and
`Uart` name their state machines with a prefix (`HeapInit`, `IrqNext`, `UartSpec`), so
that one module can hold the proofs about all of them and about `LineInput`.

### Correspondence

* **VideoControl.** The record has the fields `mem` (`video_memory`), `x`, `y`
  (`cursor`), `last` (`cursor_last_char`), `showing`, `enabled`. Characters are
  abstract: `Blank` is 0, `CursorChar` 178, three control characters, and the
  set `Printable` of all others. A method's every call is part of its operator
  (`CursorRight` restores, moves and saves, as the code does). Only character
  mode exists here, so the tests of `mode` are gone. `RestoreLastCharacter`
  stands for the call only if the saved character is no control character; that
  is exactly what `TypeOK` of `Screen` proves.
* **Screen.** One action per public operation; every parameter is drawn from all
  characters and all positions a caller names, including a row below the bottom.
* **TextScreen** has no cursor in memory at all, and one action for each call of the
  screen. The refinement maps `text` to
  the memory with the drawn cursor replaced by the saved character;
  `ImplementsTextScreen` also asks that each call of `Screen` is the abstract action of
  that call with the same parameters (`CallByCall`), so that a blink or a move cannot
  pass for the printing of a character. `doubt` is
  the honest part: after a newline, a carriage return, `set_cursor` or `clear`
  the saved character is not the one in the cell, and the next operation writes
  it. The specification confines that damage to the one cell under the cursor.
* **Console.** A step is one load or store; `off` and `val` are the registers
  that survive between steps. The two coordinates of an address are two loads, in the
  order the compiler likes (`Locate`); a row of `add_new_row` is copied, or cleared, in
  one step. `Reload` is the compiler's freedom to load a
  coordinate again for the increment. Handlers run to their end, so they are the
  operators of `VideoControl`. The memory has `Width + 1` more cells, as far as
  the cursor is shown to get, and the values found there are `Blank` at first.
  A program prints printing characters and newlines here.
* **InputBuffer / LineInput.** `Word` is the modulus of `current_idx`. The three
  stores of `start_input` happen in any order; a key is one step. The history
  variable `line` is the line as the user would see it; `raced` says that a key
  came before `start_input` was done.
* **Uart.** A program is a sequence of calls. `build` is what the compiler made
  of the loop that only reads `data_ready`. The device is external: it sends
  `uart_tx` when `data_ready` is 1 and then clears the flag.
* **Heap.** `Trim` is a negative increment within the last block, as newlib's
  `malloc_trim` makes it. `exhausted` and `reopened` are history: a request did not
  fit, and a negative increment came after that.
* **Snake.** Positions are pairs, the deque is a sequence. Timer and keyboard
  handlers do not interrupt each other, so `Frame` and `KeyIrq` are atomic;
  the register of the keyboard changes before its handler runs (`Press`,
  `KeyIrq`). `PrintScore` is `set_cursor(0, 0)` and `print_screen` of the score
  in closed form, and so is `DrawAll`, the loop that draws a list of positions one by
  one: that the two are the same is `DrawsOneByOne` in `MCSnake`, which TLC evaluates
  for every list of up to three of nine positions. Left out: colours, the game-over box, keys and blinks that
  come while `main` still draws the map, and what happens after `exit`.
* **Tokenizer / Ubasic.** A text is a sequence of tokens and `ptr` the number of
  the current one; a position in `index` is such a number. `After` is
  `tokenizer_next`, remarks included, `Num` is `tokenizer_num` with the cut to a
  char and with what `atoi` makes of a token that is no number. One step is one
  call of `ubasic_run`. `if_statement` calls `statement` again, so `Chosen` finds
  the statement that a line comes to and each action is guarded by it. `Parse`
  is the recursive descent, as one function of the rule. `status` says how
  everything ends besides `end`: "exit" for the calls of `exit(1)`, "hang" for a
  search that never returns, "null" for the call of a peek or poke function that the host
  has not given (`Installed`), and "astray" for a scanner that has left the text.
  The last is what an unclosed quote does: `get_next_token` looks for the next quote, past
  the end of the line and the nul (tokenizer.c:150). Such a string is the token
  `UnclosedString`, nothing is behind it, and who passes it is `Outside`; what the
  interpreter then does with the memory it finds is not modelled. A number too long for
  the scanner is an ERROR that has a value, since `goto` and `tokenizer_num` call `atoi`
  at it. `Line` enters the line in the index before its
  number is accepted, as `line_statement` does. `IsText`
  says what texts the terminal makes: each begins with a digit (maybe of a number the
  scanner refuses), has an end of line behind each line but one with an unclosed quote,
  which is the last one to be seen, and a remark ends its line. A
  sign stands in front of a number without a space. Left out: what `print` writes (it goes to
  `print_screen`), where `poke` goes, and products beyond 32 bits.
* **BasicShell.** `EnterLine`, `EnterRun`, `EnterClear` and `EnterInvalid` are the
  branches of `main` for one line that was typed; `RunStep` is a round of its inner
  loop and `RunDone` leaves it. A line is a number and a statement, a record that
  `Tokens` spells out as the user would type it, with brackets only where
  precedence needs them. Numbers are between 1 and 255 (larger ones are cut to a
  char: `NumbersDiffer` of `Ubasic`), quotients are taken of single numbers, no
  `if` stands between a `then` and its `else`, and there are no strings, closed or not.
  `main` calls `ubasic_init` (basic.cpp:83), so `peek_function` and `poke_function` are
  NULL: a peek or poke calls address 0. boot.s and linker.lds put `_start` there, so the
  stack is set up and `main` entered again: `StartAgain` loses the program and keeps what
  `ubasic_init` does not reset. (What the handlers of the first `main` leave behind, which
  the second replaces, is the screen's matter and left out.)
* **Basic** has no text, scanner, index of lines or parser: execution is at a line,
  statements have the values of their expressions, stacks hold line numbers. The
  refinement maps the place of the scanner to the line whose number stands there.
  Where the interpreter departs from what one would promise, `Basic` states the
  rule it follows: a line behind a numbered remark is `Hidden` from jumps; a
  statement that would go on with the next line stops the machine if an `else`
  follows it; a peek or poke starts the terminal again; after `print` and `else`, and after a `return` without a `gosub`,
  execution is `Lost` in the middle of a line.
* **Irq.** Program and handler are one processor: `place` is 0 while the program
  executes and otherwise a place in `irq_handler`, which from the acknowledgement
  on are single instructions. The stack is a function on word addresses; the
  program's registers are the value "own" until something else is loaded or used. They
  are those that `irq_handler` saves, a0 to a5 and ra (`Saved`), and `Temp`, which stands
  for t0 to t6, a6 and a7: nobody saves them and the handler called may use them.
  `script` is what a `main` does to handlers, screen and addresses: the first is that of
  the snake and of the image program, the second that of the bitmap program; the third is in
  no `main` of the repository and leaves the character mode with what computer.h offers for it. A
  `std::function` is three words that an assignment stores in any order. External:
  the devices (one interrupt at a time until it is acknowledged) and
  `std::function`.
* **Terminal.** A call of the screen or the buffer is one step; `Console` and
  `LineInput` take those apart. Which handler the timer has is the variable `timer`,
  since programs reassign it. `start` and `clean` are history: where the line
  begins on the screen, and whether something has happened that the echo does not
  follow. The BASIC terminal and the image program are the two initial states. The image
  program's handler never looks at the end of its vector (image_prg.cpp:37): `Rests` are
  the integers that may be in the memory behind it. A value too large names a row below
  the screen and does no harm; a negative one passes the test of `set_cursor`, which
  is for the upper bound alone (vga.h:293), and takes the cursor off the screen: `pc` is
  "astray", and what is drawn after that is not modelled. The
  video memory is empty at first; in the code it is what `new[]` gives (computer.h:12).

## 3. The runs

| run | bounds | shows |
|---|---|---|
| `screen` | 3 x 2 cells, one printing character | `TypeOK`; `MovesInvert`: a move and its opposite are inverse, but at the first and the last cell and for the scroll; `StrayOnlyFromJump`; `ImplementsTextScreen`: call by call, the characters shown change only as the call says |
| `console` | 3 x 2, 3 calls, 3 interrupts | the cursor leaves the array by at most one column and one row; an undisturbed call equals `SetCharacter`; a blink never moves the cursor and damages at most the first, the old and the new cell (`BlinkDamageIsLocal`) |
| `line_input` | array of 4, one printing and one ignored character | the line delivered is the line typed, in every order of the stores; the call returns |
| `uart` | programs of up to two calls, three builds | no signal lost, each character sent is the one meant or its successor, everything is sent, no hang |
| `heap` | 14 bytes, 4 blocks, increments up to 3 | disjoint blocks until exhaustion; after it, no byte inside the heap is given twice, unless a negative increment moves the break back from the end |
| `snake` | 3 x 3 field, snake of 3 to 5, 2 pieces of food, 2 keys per frame | the snake is a path; the board is clean; crossing only over food; scrolling takes two keys |
| `ubasic` | chars of 8 values, stacks of 2, every text of 3 lines over 15 statements and of 4 over 8, of 3 over 18 that lose the rest of their line or hide the next (`StrayPrograms`), unclosed strings, numbers too long, lines the parser refuses, two texts after them | stacks and pointer in range; the index agrees with the search; calls begin at lines or at such a rest; `next` and `return` go home; `goto` arrives |
| `shell` | chars of 256 values, stacks of 2 and 3; every program of 3 lines over 14 statements and of 4 over 8, each statement before an `else`, all expressions of two operators, four loops ended in any order, the programs of tests.c; six lines or commands typed in any order | the terminal implements `Basic`, peek and poke starting it again; programs of loops return to the prompt; the assertions of tests.c hold (its last program, of peek and poke, needs functions that the terminal has not, and is only part of the first) |
| `irq` | two registers saved, three levels of nesting, three events, three programs | the registers that are saved and the stack come back whole; the device waits only for a handler, or for ever after an early interrupt; handlers are complete when called; every event is served but for three named accidents |
| `terminal` | 3 x 2 cells, an array of 4, a typed and an unprintable character, 4 outputs, 6 keys or blinks, 3 vectors and 2 memories behind them, with values that are negative or name no cell | the echo shows the buffer; the text before it stays; the picture is the one drawn; the cursor stays on the screen as long as no negative value behind the vector has been drawn |
| `shell_else` (violated) | `print` before an `else` | the machine exits |
| `shell_invalid` (violated) | the empty program | a line without a number ends the machine |

Why the bounds are enough. The code never distinguishes columns but the first
and the last, nor rows but the first and the last: 3 x 2 has a cell inside a
row, both ends, both rows, a wrap and a scroll, and keeps the screen wider than
high (add_new_row relies on `Height < 2 * Width`). Two characters besides the
cursor's tell a lost cell from an empty one. For `Console` the excursion bounds
in `TypeOK` are reached, so three interrupts are enough to show the worst case
found and the bounds are tight. In `Terminal` the memory behind
the vectors is read up to its first negative value. In `LineInput` there is no bound on the number
of keys. In `Snake` a snake of five on nine cells can turn, reverse, cross over
doubled food and run into itself and all four walls; its state space is bounded
by `MaxScore`, `MaxKeys` and by no key being pressed once the board has
scrolled. In `Ubasic` three lines are enough to jump forward over an unindexed
line and back, to jump into and out of a loop, to open a loop that is open
already and to return to a line that has been executed or not; the fourth and
the longer texts overflow both stacks. Chars of eight values wrap within a loop.
`RunReturns` speaks only of programs in which no two loops have the same variable
and every bound is below the largest char: without either condition a program
need not end, because the counter wraps to 0 before it exceeds the bound, or
because a loop that found the stack full is restarted by the `next` of another
loop of its variable. `CHECK_DEADLOCK FALSE` is used where the bound on calls, or the end
of the game, stops the system.

### Fairness

`line_input` assumes that the processor goes on executing the program and
that the user goes on hitting Enter: without an Enter the call is meant to wait.
`uart` assumes that the processor and the device go on, and so does `irq`. `shell`
assumes that the processor goes on while a program runs. There is one thread, no
scheduler and no lock, so weak fairness of the program's steps is just the clock
ticking; a handler returns to the program, but for the accident that `ReturnsWhole`
of `Irq` names.

## 4. What is proved

With TLAPS, for every value of the constants. Every property that a run checks is
stated by a theorem, but for the liveness properties, `TestsPass` and the refinement
of `Basic`; for these see the end of this section. The assumptions are those that the
modules name: sizes are positive, characters of different kinds differ, and in
addition

* `ShapeAssumption`: the screen is less than twice as high as wide (30 and 40 in the
  code). `add_new_row` bounds its loop by `Height * (Width - 1)` and copies every row
  but the last only then. The refinement of `TextScreen` needs it; nothing else does.
* `SnakeAssumption`: the first piece of food and the first snake are inside the wall,
  the score line is shorter than the screen is wide, the glyphs that move differ from
  the wall's.
* `TerminalAssumption`: outputs are sequences of characters, the vector has a natural
  number for each cell, the memory behind it holds integers.
* `UbasicAssumption`: the texts are such as the terminal makes (`IsText`, section 2),
  the stacks have room for one entry, a peek function, if there is one, gives a char.

**Screen.**

* `ScreenTyped`: `TypeOK` is inductive: each method is a lemma "typed object in, typed
  object out", built from lemmas on `SetGlyph`, `SetLastCharacter` and `AddNewRow`; the
  arithmetic of offsets (`x + y * Width` stays below `Width * Height`) is a lemma of
  its own.
* `NoStrayGlyph`: `StrayOnlyFromJump`. The predicate `StrayFree` is preserved by
  every operation but the two jumps; the argument needs `TypeOK` and the helper
  `Lone` (no picture of the cursor away from the cursor, none saved), which the
  moves keep whether the cursor is drawn or not.
* `MovesAreInverse`: every move that does not scroll is one `Depart` to another cell
  (write back, go, save), and two departures, there and back, write the first cell
  twice and the second not at all. The proof needs no more than `TypeOK`, which is why
  the property has no other condition.
* `ScreenImplementsText`: the whole refinement, initial states and one lemma for each
  action of `Screen`, which says that it is the abstract action of its own call
  (`CallByCall`), not only that it is some step of `TextScreen`. Most of the work is to follow what is under the cursor: the
  abstract text has the saved character there as long as the cursor is drawn, and
  while it is not drawn, the bit `doubt` says that saved character and cell differ.

**Console**, the same operations taken apart into memory accesses.

* `ConsoleTyped`: the invariant `WideInv` has the cursor on `Width + 1` by `Height + 1`
  positions, and strictly on the screen in the coordinate that the program has tested
  and not yet changed; that is why one column and one row is all it can get off. It
  also says which characters the registers can hold at each place.
* `UndisturbedIsSequential`: `InSequence` describes object and registers at each place
  of an undisturbed call. In the loop of `add_new_row` the object is the one before
  with the first `val` rows copied (`Rolled`), and after the last row that is
  `AddNewRow`.
* `BlinksDamageLocally`: `OnBlink` says that at each place the memory is the sequential
  one but for the three cells `Damaged` (where the call began, the first of that row,
  where the cursor is) and that blinks never move the cursor, so that all the tests of
  coordinates come out as without them. The copying of the rows takes what a damaged
  cell holds into the one above it.

**LineInput** (`LineInv`): `TypeOK` and `Terminated` are inductive as they are, the key
that wraps the index included, because `add` ends by storing a nul at the index. For
`BufferHoldsLine` the invariant also says which of the three stores of `start_input`
have happened (`Started`), in any order, as long as no key has come between them.
`LineIsDelivered` follows from it: once Enter has ended the input, `add` stores nothing.

**Heap** (`HeapSafe`, `HeapOnce`, `HeapTyped`): the inductive invariant says that until
exhaustion the blocks are in ascending order below the break; and that after it the break
is at the end of the heap, where each further block begins, as long as nothing has been
handed back (`AtEnd`).

**Irq**, for any number of saved registers, levels of nesting and events.

* `ProgramIsWhole`: `ReturnsWhole` speaks of the registers that are saved, and of the
  others only until the first interrupt. It is not inductive: while the handler executes, the
  invariant has to say which words of the stack hold the registers of the program,
  which of them have been loaded already, and where the stack pointer is at each
  place, for the case that nothing has overtaken the return (`WholeInv`); once
  something has, that `tp` is never the program's place again.
* `DeviceIsReleased` needs only which places follow the acknowledgement.
* `CallsAreSound`: `CallInv` says of each handler which assignment of the program has
  put its code there (`LastCode`), all three words of it unless the assignment is
  going on, and of the screen that it exists from the step that makes it to the step
  that deletes it; then each of the three scripts is shown to be `Orderly`:
  whenever a handler that uses the screen is installed, the screen is there.

**Terminal** (`TermInv`): the string in the buffer ends at its index (`EndsAt`), the
buffer is only filled while the program waits, and while the line is clean the cells
from `start` show it and the cursor is behind them. `TerminalTyped` has the cursor on the
screen in every state but those that are "astray", and those come only from the
timer handler of the image program after one tick for each cell. `EchoIsLine` is a consequence,
since the length of the C string is then the index. `BeforeStays` looks at one key: it
writes under the cursor, which is behind the line, except for a backspace.
`PictureStands` has an invariant of its own (`PictureInv`): while nobody steers the
cursor, the cells that show the character of the image program are those of the values
drawn so far, and the cursor stands behind the one drawn last, which is where a value
that names no cell is drawn.

**Snake** (`SnakeInv`). `SnakeHoldsTogether` and `BoardIsClean` depend on each other's
parts and on one fact about the screen: between the frames it is `Still`, that is, the
saved character is the one in the cell of the cursor. Then an arrow key writes back
what is there (`KeyShows`), or scrolls and leaves an empty bottom row, after which
`Unscrolled` is false for good. A frame draws only on cells of snake and food, which
are inside the wall or, for a head that has just hit it, on the inner wall, and never
in the bottom row (`FrameDraws`, `FrameLeaves`). `ScrollTakesTwoKeys` also needs that the
cursor is on the score line until the first key after a frame. For `CrossingNeedsFood`
it is enough that new food never falls on the snake.

**Uart.**

* `SignalsAreTaken`: `NoSignalLost` is part of `InStep`. In the builds that wait, the
  device is idle from the test to the signal, and only the program raises the flag.
* `SentIsNear`, `NothingIsMissing`: the rest of `InStep` counts. As many characters have
  been signalled as sent, with the one the device has not taken, and the one it will
  find in `uart_tx` is the one meant or, from the next store on, the next. Where in the
  whole text the k-th character of a call stands (`Position`) takes induction over
  the calls, since the texts are joined by a fold. `NothingIsMissing` is the safe half
  of `EverythingIsSent`: when all is printed and taken, nothing has been left out.

**Ubasic**, for every program text, any stacks and any width of a char. The invariant
`UbasicInv` says, while the machine runs:

* the scanner is at a `Stop`: a visible token inside of the text, with no error before
  it, where a line begins, or where `Strayed` allows it to be (a machine whose scanner
  has left the text by an unclosed quote is "astray" and runs no more);
* every entry of the index is a number at a `Stop`, and what it holds is `Num` of it;
* every entry of the `for` stack was made behind a `for` of its variable, and every
  entry of the `gosub` stack behind a `gosub` (`Loops`, `Subs`), even if that was
  long before and in a loop that has been left by a goto; a loop pushed by a `for` with no
  line behind it (in `Loops` but not in `HomeLoops`) can only be there when there is
  nothing left to execute.

Why it is needed: none of the properties is inductive. `IndexAgrees` says nothing of
where the scanner is, so a step could enter any position; `JumpsGoHome` speaks of a
stack filled many steps before. What a statement does to the scanner has to be known
first, and everything that moves it is a recursive function of places: `After`, `Atoi`,
`Parse`, `Items`, `Else`, `Chosen`, `LineEnd`, `NextLine`, the search itself. For each there
are two lemmas: it is what its equation says, and what it finds (`AfterType` to
`ItemsType`) - for `Parse` that it either fails or ends at a visible token further on in
the same line, with a value that is a char if the rule was `expr`; for the search that
it ends at the first line of that number if no error is in front of it. Then one lemma
per statement says that it keeps `UbasicInv`, and the five theorems follow:
`UbasicTyped` and `LinesBegin` at once, `IndexIsRight` and `GotosArrive` because a place in `Begins` is
found by the search, and `JumpsReturn` because the line that the stack remembers is,
numbers being different, the line that the jump finds.

The proof found what the first statement of these properties had passed over, and TLC
then showed it on short texts, which are now in the run: a number behind what a `print` stopped
at is taken for the number of a line and enters the index (`Strayed`, `Shadowed`); a
remark behind a statement hides the next line; a `gosub` in the last line remembers
line 0.

**Induction.** To the prover a recursive function is a CHOOSE of some function that
solves its equation; that one exists has to be shown (`RecursionSolvable`), along
a measure that becomes smaller in every call: how much of the text is ahead, and for
`Parse` the rule as well. The library's induction theorems have an operator as a
parameter, which the provers at hand cannot instantiate; `MeasureInduction` is about a
set instead, and rests on the library's theorem that `<` on the natural numbers is
well-founded. The function, its domain and one call of it are then given as sets and
functions, so that SMT and Zenon can do the rest.

Only model-checked, and why:

* Liveness: `InputReturns`, `EverythingIsSent`, `PrintReturns`, `RunReturns`,
  `EventsServed`. The provers at hand have no rules for ENABLED.
* `ImplementsBasic` and `TestsPass` of `BasicShell`. `Basic` and `BasicShell` use recursive
  operators (on statements, which are trees, and on what the user types) and the bitwise
  operators of the library; the prover loses its SMT backend there. `TestsPass` is about
  the constants of tests.c anyway.

## 5. Findings

The two runs marked violated each refute a sentence of the repository; the
quotes are in `PROJECT.json`. Further observations are stated by properties that
hold because they name the exception:

* An interrupt between an acknowledgement and the `jr tp` behind it overwrites `tp`
  with a place of `irq_handler`: the program never executes again
  (`overtaken` in `ReturnsWhole`).
* `irq_handler` calls ordinary functions and saves only a0 to a5 besides the ra of its
  prologue: t0 to t6, a6 and a7 are the program's only until the first interrupt
  (`Temp` in `ReturnsWhole`).
* An interrupt before `update_offsets` is acknowledged at the wrong address, and
  no other ever comes: `early` in `DeviceReleased` and `EventsServed`.
* A handler that is called in the middle of its own assignment: the exception in
  `CallsAreGood`.
* A blink between the restoring of a cell and the move leaves the picture of the
  cursor in place of the character printed: the cells `Touched` in
  `BlinkDamageIsLocal`.
* Each character sent can be the one behind the one meant, because it is stored in
  `uart_tx` before the wait: `SentIsThisOrNext`.
* A request that does not fit the heap is granted all the same: `exhausted` in
  `SafeUntilExhausted`. A negative increment then gives memory out a second time:
  `reopened` in `HeapGivenOnce`.
* A numbered remark, and a remark behind a statement, hides the line behind it from
  jumps; executing a numbered one ends the machine: `Begins` in `Ubasic`, `Hidden` and the
  last case of `Execute` in `Basic`.
* `print` skips whatever it stops at, an operator for instance, and a number behind it is
  then executed as a line and remembered as its place: `Strayed` in `BeginsAtLine`,
  `Shadowed` in `GotoArrives` and `JumpsGoHome`.
* The BASIC terminal never installs functions for peek and poke: a statement of either
  starts the terminal again, without its program ("null", `StartAgain`).
* A string whose quote is not closed takes the scanner out of the text: "astray" in
  `TypeOK` of `Ubasic`.
* A `gosub` in the last line remembers line 0: the last condition of `Home`.
* There is no way to delete a line: typing its number alone stores an empty line,
  which ends the machine when it is executed.
* A backspace in an empty line takes a character of the prompt: `TextBeforeStays`.
* The image program divides by the height to find the row, so 300 of the 1200
  values name a row below the screen and each row on it has ten columns that no
  value names: `CellOf`. README.md:60 says that it covers the screen evenly.
* Nor does it stop at the end of its vector, and what it finds there can take the
  cursor off the screen: "astray" in `TypeOK` of `Terminal`.
* `clear()` leaves the saved character alone, so the next blink writes it back
  onto the empty screen: the `doubt` of `TextScreen` that `Clear` sets.
* A key that interrupts `start_input` can be accepted and then erased, or an
  Enter can end the input before it began: `raced` in `LineDelivered` and
  `BufferHoldsLine`.
* UP followed by DOWN within one frame scrolls the snake's whole board away:
  `ScrollNeedsTwoKeys` says that it takes both after the first frame, and a
  single DOWN before it.
* The cursor can be driven one column and one row off the array: `TypeOK` of
  `Console` says how far.
* Two BASIC lines whose numbers differ by a multiple of 256 are the same line to
  a jump, and which of them it finds depends on which was executed first:
  `NumbersDiffer` in `IndexAgrees`, `JumpsGoHome` and `GotoArrives`.
* A loop to 255 never ends, nor does one whose `for` found the stack full and
  whose variable another loop has too: the conditions of `RunReturns`.
* A jump to a missing line never returns: "hang".

## 6. Not modelled, and what is left

Not modelled for good: system call stubs (constants), font and colour tables,
bitmap mode and the bitmap program (stores without state), build files, image
tools, test programs.

Left to model, should the need arise: a scanner of characters, for the lengths of
strings (tokenizer.c:247) and numbers; the echo of the serial handler, which reads
`uart_rx` twice (computer.h:47); what an interpreter or a picture that is "astray" does
to the memory it has got to; the game-over box of the snake.

Theorems to come: the refinement of `Basic`, for which `Basic` and `BasicShell` would
have to be written with recursive functions on a set of statements of bounded depth;
`UbasicProofs` holds what it needs of the interpreter.
