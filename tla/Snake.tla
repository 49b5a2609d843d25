--------------------------------- MODULE Snake ---------------------------------
(***************************************************************************)
(* The program snake.elf (lib/snake/snake.cpp) on the character screen.    *)
(* main draws the map, installs its own timer handler and returns; from    *)
(* then on everything happens in interrupts, which do not nest: the timer  *)
(* handler plays a frame on every Speed-th tick, and the keyboard handler  *)
(* is still the one of setup_character_mode (computer.h), so an arrow key  *)
(* that steers the snake moves the text cursor of the screen as well.      *)
(*                                                                         *)
(* The screen is the record of VideoControl.  Colours, and the box that    *)
(* game_over draws over the middle of the finished game, are left out.     *)
(***************************************************************************)
EXTENDS VideoControl, SequencesExt

CONSTANTS
  HeadGlyph, BodyGlyph, FoodGlyph, WallGlyph,   \* characters 2, 219, 15, 177
  ScoreGlyph,      \* any character of the score line
  ScoreLength,     \* the length of the score line, 17
  InitialLength,   \* of the snake, 4
  FirstFood,       \* the food at the start, <<15, 15>>
  MaxFood,         \* food on the board at a time, 3
  Speed,           \* ticks per frame, 2
  MaxScore,        \* bound: the game is not followed beyond this score
  MaxKeys          \* bound: keys handled between two frames

ASSUME SnakeAssumption ==
  /\ {HeadGlyph, BodyGlyph, FoodGlyph, WallGlyph, ScoreGlyph} \subseteq Printable
  /\ {HeadGlyph, BodyGlyph, FoodGlyph} \cap {WallGlyph} = {}
  /\ ScoreLength \in 1 .. (Width - 1)
  /\ InitialLength \in 2 .. (Height - 4)
  /\ FirstFood \in (2 .. (Width - 3)) \X (2 .. (Height - 3))
  /\ {MaxFood, Speed, MaxScore, MaxKeys} \subseteq Nat \ {0}

VARIABLES
  scr,             \* *screen
  snake, food,     \* the deque, head first, and the vector of positions
  score,
  lastDirection,   \* the static of get_next_position
  counter,         \* the static of the timer handler
  keyboard,        \* device: the key the register at keyboard_in holds
  pending,         \* device: the keyboard interrupt is raised
  over,            \* the program has called exit
  keys             \* history: keys handled since the last frame

game == <<snake, food, score, lastDirection, counter, over>>
vars == <<scr, game, keyboard, pending, keys>>

Arrows == {"UP", "DOWN", "LEFT", "RIGHT"}
Board  == Columns \X Rows

Vector == [UP |-> <<0, -1>>, DOWN |-> <<0, 1>>, LEFT |-> <<-1, 0>>, RIGHT |-> <<1, 0>>]
Plus(p, v) == <<p[1] + v[1], p[2] + v[2]>>

-------------------------------------------------------------------------------
(***************************************************************************)
(* Drawing: set_cursor(p); set_character(c, false).                        *)
(***************************************************************************)
DrawAt(s, p, c) == SetCharacter(SetCursor(s, p[1], p[2]), c, FALSE)

\* The loop over positions of the board: all of them get the character, and
\* the cursor stays at the last one.
DrawAll(s, positions, c) ==
  IF positions = <<>> THEN s
  ELSE DrawAt([s EXCEPT !.mem =
                 [o \in Offsets |-> IF \E i \in 1 .. Len(positions) :
                                        PositionToOffset(positions[i][1], positions[i][2]) = o
                                    THEN c ELSE s.mem[o]]],
              Last(positions), c)

DrawSnake(s) == DrawAll(DrawAt(s, Head(snake), HeadGlyph), Tail(snake), BodyGlyph)

OnMap(p) ==
  \/ p[2] \in {1, Height - 2, Height - 1}
  \/ p[1] \in {0, 1, Width - 2, Width - 1} /\ p[2] # 0

\* draw_map walks the whole screen and leaves the cursor in its last cell.
Map ==
  [mem     |-> [o \in Offsets |-> IF OnMap(<<o % Width, o \div Width>>)
                                  THEN WallGlyph ELSE Blank],
   x       |-> Width - 1,
   y       |-> Height - 1,
   last    |-> WallGlyph,
   showing |-> TRUE,
   enabled |-> FALSE]

\* set_cursor(Position(0, 0)) and print_screen of the score line, whose last
\* step saves the character the cursor comes to stand on.
PrintScore(s) ==
  [s EXCEPT !.mem  = [o \in Offsets |-> IF o < ScoreLength THEN ScoreGlyph
                                        ELSE s.mem[o]],
            !.x    = ScoreLength,
            !.y    = 0,
            !.last = s.mem[ScoreLength]]

-------------------------------------------------------------------------------
(***************************************************************************)
(* The rules of the game.                                                  *)
(***************************************************************************)
\* A variant with a mistake in it: the range of rand() is one too wide.
RandomCellsWide == (2 .. (Width - 2)) \X (2 .. (Height - 3))

RandomCells == (2 .. (Width - 3)) \X (2 .. (Height - 3))

\* calculate_food draws cells until it has one off the snake, of which it
\* does not ask whether there is food on it already.  (With the snake on
\* every cell the loop, and with it the handler, does not end: no frame.)
CalculateFood ==
  IF Len(food) < MaxFood
  THEN {Append(food, p) : p \in RandomCells \ ToSet(snake)}
  ELSE {food}

HitsWall(p) ==
  \/ p[1] <= 1 \/ p[1] >= Width - 2
  \/ p[2] <= 1 \/ p[2] >= Height - 2

\* A variant with a mistake in it: the two segments behind the head are not compared.
CalculateIntersectionLate(f) ==
  IF HitsWall(Head(snake)) THEN "WALL"
  ELSE IF Contains(f, Head(snake)) THEN "FOOD"
  ELSE IF Contains(SubSeq(snake, 4, Len(snake)), Head(snake)) THEN "SELF"
  ELSE "NONE"

\* The wall is looked for first, then food, then the snake itself.
CalculateIntersection(f) ==
  IF HitsWall(Head(snake)) THEN "WALL"
  ELSE IF Contains(f, Head(snake)) THEN "FOOD"
  ELSE IF Contains(Tail(snake), Head(snake)) THEN "SELF"
  ELSE "NONE"

\* get_next_position: the key that was pressed last decides, and nothing
\* stops the snake from turning back onto itself.
GetNextPosition == IF keyboard \in Arrows THEN keyboard ELSE lastDirection

\* A variant with a mistake in it: the cell the snake leaves is not erased.
EraseNothing(s, hit) == s

\* What the switch of the handler does to the screen and to the snake.
Erase(s, hit) == IF hit = "FOOD" THEN s ELSE DrawAt(s, Last(snake), Blank)

\* A variant with a mistake in it: the snake loses its tail when it eats, too.
FollowShrinks(hit) == Front(snake)

Follow(hit) == IF hit = "FOOD" THEN snake ELSE Front(snake)

Advance(f, drawn, hit) ==
  LET rest == Follow(hit)
  IN  /\ food' = IF hit = "FOOD" THEN RemoveFirst(f, Head(snake)) ELSE f
      /\ score' = IF hit = "FOOD" THEN score + 25 ELSE score
      /\ lastDirection' = GetNextPosition
      /\ snake' = <<Plus(Head(rest), Vector[lastDirection'])>> \o rest
      /\ scr' = PrintScore(Erase(drawn, hit))
      /\ UNCHANGED over

\* game_over ends in exit, inside the handler: the interrupt is never
\* acknowledged.
GameOver(f, drawn) ==
  /\ food' = f /\ scr' = drawn /\ over' = TRUE
  /\ UNCHANGED <<snake, score, lastDirection>>

-------------------------------------------------------------------------------
(***************************************************************************)
(* The interrupts.                                                         *)
(***************************************************************************)
Frame ==
  /\ ~over /\ counter + 1 = Speed
  /\ score < MaxScore
  /\ counter' = 0 /\ keys' = 0
  /\ \E f \in CalculateFood :
       LET drawn == DrawAll(DrawSnake(scr), f, FoodGlyph)
           hit   == CalculateIntersection(f)
       IN  IF hit \in {"SELF", "WALL"} THEN GameOver(f, drawn)
           ELSE Advance(f, drawn, hit)
  /\ UNCHANGED <<keyboard, pending>>

IdleTick ==
  /\ ~over /\ counter + 1 # Speed
  /\ counter' = counter + 1
  /\ UNCHANGED <<scr, snake, food, score, lastDirection, over, keyboard, pending, keys>>

\* The board as draw_map left it at the bottom, where the snake never gets.
Unscrolled == \A x \in Columns : scr.mem[PositionToOffset(x, Height - 1)] = WallGlyph

\* The device.  (Bounds: MaxKeys between two frames, and none once the
\* board has scrolled.)
Press(k) ==
  /\ ~over /\ ~pending
  /\ keys < MaxKeys /\ Unscrolled
  /\ keyboard' = k /\ pending' = TRUE
  /\ UNCHANGED <<scr, game, keys>>

\* The keyboard handler.  A key that is no arrow goes to the input buffer
\* and, show_input_screen being false, not to the screen.
KeyIrq ==
  /\ ~over /\ pending
  /\ scr' = CASE keyboard = "UP"    -> CursorUp(scr)
              [] keyboard = "DOWN"  -> CursorDown(scr)
              [] keyboard = "LEFT"  -> CursorLeft(scr)
              [] keyboard = "RIGHT" -> CursorRight(scr)
              [] OTHER -> scr
  /\ pending' = FALSE /\ keys' = keys + 1
  /\ UNCHANGED <<game, keyboard>>

Init ==
  /\ scr = Map
  /\ snake = [i \in 1 .. InitialLength |-> <<2, InitialLength + 2 - i>>]
  /\ food = <<FirstFood>>
  /\ score = 0 /\ lastDirection = "DOWN" /\ counter = 0 /\ over = FALSE
  /\ keyboard = "other" /\ pending = FALSE /\ keys = 0

Next ==
  \/ Frame
  \/ IdleTick
  \/ \E k \in Arrows \cup {"other"} : Press(k)
  \/ KeyIrq

Spec == Init /\ [][Next]_vars

-------------------------------------------------------------------------------
\* The cells inside the wall.
Field == {p \in Board : ~HitsWall(p)}

(***************************************************************************)
(* Type invariant: all that is drawn is on the screen, and the food lies   *)
(* where the snake can get it.                                             *)
(***************************************************************************)
TypeOK ==
  /\ scr \in Screens
  /\ snake \in Seq(Board) /\ snake # <<>>
  /\ food \in Seq(Field) /\ Len(food) <= MaxFood
  /\ score \in Nat
  /\ lastDirection \in Arrows /\ keyboard \in Arrows \cup {"other"}
  /\ counter \in 0 .. (Speed - 1) /\ keys \in 0 .. MaxKeys
  /\ {pending, over} \subseteq BOOLEAN

Adjacent(p, q) == \E d \in Arrows : Plus(p, Vector[d]) = q

(***************************************************************************)
(* The snake is a path of neighbouring cells inside the wall, but for its  *)
(* head, and is as long as the score says, whatever keys are pressed and   *)
(* wherever the food falls.                                                *)
(***************************************************************************)
SnakeHoldsTogether ==
  /\ \A i \in 1 .. (Len(snake) - 1) : Adjacent(snake[i + 1], snake[i])
  /\ \A i \in 2 .. Len(snake) : snake[i] \in Field
  /\ 25 * (Len(snake) - InitialLength) = score

(***************************************************************************)
(* The one way for a snake to lie across itself is a cell with food on it: *)
(* calculate_intersection finds the food there and never gets to the test  *)
(* against the snake.  (There is food under the snake when two pieces fell *)
(* on one cell and it has eaten one.)                                      *)
(***************************************************************************)
CrossesOnlyOnFood ==
  [][IsInjective(Tail(snake)) /\ ~IsInjective(Tail(snake')) => Contains(food, Head(snake))]_vars

(***************************************************************************)
(* As long as the board has not scrolled, the incremental drawing leaves   *)
(* nothing behind and damages nothing: a cell of the field that holds      *)
(* neither snake nor food is empty and the wall is whole, although the     *)
(* arrow keys move the cursor over the board and restore what it hides.    *)
(***************************************************************************)
BoardIsClean ==
  ~over /\ Unscrolled =>
    \A p \in Board :
      LET shown == scr.mem[PositionToOffset(p[1], p[2])]
      IN  /\ OnMap(p) => shown = WallGlyph
          /\ p \in Field \ (ToSet(snake) \cup ToSet(food)) => shown = Blank

FirstFrame == scr.mem[0] # ScoreGlyph

(***************************************************************************)
(* The keys that steer also move the cursor, and the cursor can scroll the *)
(* whole board away.  After the first frame that takes more than one key   *)
(* within a frame (UP, which wraps from the score line to the bottom row,  *)
(* then DOWN).  Before it, a single DOWN does: draw_map leaves the cursor  *)
(* on the bottom row.                                                      *)
(***************************************************************************)
ScrollNeedsTwoKeys ==
  [][Unscrolled /\ ~Unscrolled' => keys >= 1 \/ FirstFrame]_vars

===============================================================================
