------------------------------ MODULE BasicShell ------------------------------
(***************************************************************************)
(* The BASIC terminal (lib/basic/basic.cpp): the user types numbered lines *)
(* and commands, and run hands the lines, as one text, to the interpreter. *)
(*                                                                         *)
(* A line is its number and the statement behind it; Tokens is what the    *)
(* scanner makes of it.  Waiting for the line is the subject of LineInput, *)
(* so an input is one step; list and what is printed are left out, and so  *)
(* are strings, with or without a closing quote (they are in MCUbasic).    *)
(*                                                                         *)
(* main calls ubasic_init and never ubasic_init_peek_poke, so there are no *)
(* functions for peek and poke.                                            *)
(***************************************************************************)
EXTENDS Ubasic, SequencesExt

CONSTANTS
  Lines,        \* the lines with a number that the user types
  Preloaded,    \* the programs typed before the behaviour begins
  MaxInputs     \* bound: inputs to come if there is no program

VARIABLES
  program,      \* the map from line numbers to lines
  prompt,       \* main is in input_screen, and not in the loop of a run
  left          \* bound: inputs to come

shellVars == <<program, prompt, left>>

-------------------------------------------------------------------------------
(***************************************************************************)
(* The tokens of a statement, with the brackets an expression needs.       *)
(***************************************************************************)
Leaf(e)  == e.op \in {"NUMBER", "VARIABLE"}
Product(e) == e.op \in {"ASTR", "SLASH", "MOD"}

RECURSIVE ExprTokens(_)
Inner(e, brackets) ==
  IF brackets THEN << [kind |-> "LEFTPAREN", value |-> 0] >> \o ExprTokens(e)
                     \o << [kind |-> "RIGHTPAREN", value |-> 0] >>
  ELSE ExprTokens(e)

ExprTokens(e) ==
  IF Leaf(e) THEN << [kind |-> e.op, value |-> e.value] >>
  ELSE Inner(e.left, ~Leaf(e.left) /\ Product(e) /\ ~Product(e.left))
       \o << [kind |-> e.op, value |-> 0] >>
       \o Inner(e.right, ~Leaf(e.right) /\ (Product(e) \/ ~Product(e.right)))

K(kind) == << [kind |-> kind, value |-> 0] >>
N(n)    == << [kind |-> "NUMBER", value |-> n] >>
V(v)    == << [kind |-> "VARIABLE", value |-> v] >>

RECURSIVE Tokens(_)
Tokens(s) ==
  CASE s.kind = "PRINT" -> K("PRINT") \o ExprTokens(s.value)
    [] s.kind = "LET"   -> K("LET") \o V(s.variable) \o K("EQ") \o ExprTokens(s.value)
    [] s.kind \in {"GOTO", "GOSUB"} -> K(s.kind) \o N(s.line)
    [] s.kind = "FOR"   -> K("FOR") \o V(s.variable) \o K("EQ") \o ExprTokens(s.from)
                             \o K("TO") \o ExprTokens(s.to)
    [] s.kind = "NEXT"  -> K("NEXT") \o V(s.variable)
    [] s.kind = "PEEK"  -> K("PEEK") \o ExprTokens(s.value) \o K("COMMA") \o V(s.variable)
    [] s.kind = "POKE"  -> K("POKE") \o ExprTokens(s.address) \o K("COMMA")
                             \o ExprTokens(s.value)
    [] s.kind = "IF"    -> K("IF") \o ExprTokens(s.condition) \o K("THEN") \o Tokens(s.then)
                             \o (IF s.else.kind = "NOTHING" THEN <<>>
                                 ELSE K("ELSE") \o Tokens(s.else))
    [] s.kind = "EMPTY" -> <<>>
    [] OTHER            -> K(s.kind)

LineTokens(n, s) == N(n) \o Tokens(s) \o K("CR")

-------------------------------------------------------------------------------
Ascending(S) == [m \in 1 .. Cardinality(S) |->
                   CHOOSE n \in S : Cardinality({x \in S : x <= n}) = m]

\* A variant with a mistake in it: the lines come in the wrong order.
ProgramToStringDown(prg) ==
  LET numbers == Reverse(Ascending(DOMAIN prg))
  IN  FlattenSeq([m \in DOMAIN numbers |-> LineTokens(numbers[m], prg[numbers[m]])])

\* program_to_string: a map is traversed in the order of its keys.
ProgramToString(prg) ==
  LET numbers == Ascending(DOMAIN prg)
  IN  FlattenSeq([m \in DOMAIN numbers |-> LineTokens(numbers[m], prg[numbers[m]])])

ASSUME ShellAssumption == ~Installed

ShellInit ==
  /\ Init
  /\ program \in Preloaded /\ prompt = TRUE
  /\ left = IF program = <<>> THEN MaxInputs ELSE 1

\* The user hits Enter, and what was typed is looked at.
Input == prompt /\ status = "running" /\ left > 0 /\ left' = left - 1

\* The line replaces the one of its number.  There is no way to delete one.
EnterLine(l) ==
  /\ Input
  /\ program' = (l.number :> l.statement) @@ program
  /\ UNCHANGED <<vars, prompt>>

(***************************************************************************)
(* get_starting_number gives nullopt for a line without a number, and the  *)
(* any it is put into has a value then, so the any_cast throws, as stoi    *)
(* does for a number that is no int; nobody catches either.                *)
(***************************************************************************)
EnterInvalid ==
  /\ Input
  /\ status' = "exit"
  /\ UNCHANGED <<text, ptr, variables, index, stacks, ended, program, prompt>>

EnterRun ==
  /\ Input
  /\ UbasicInit(ProgramToString(program))
  /\ prompt' = FALSE
  /\ UNCHANGED program

EnterClear ==
  /\ Input
  /\ program' = <<>>
  /\ UNCHANGED <<vars, prompt>>

(***************************************************************************)
(* A peek or poke has called address 0.  That is _start, which boot.s and  *)
(* linker.lds put there: the stack is set up again and main begins again,  *)
(* with an empty map, while the variables of the interpreter, which is not *)
(* initialised anew, are what they were.                                   *)
(***************************************************************************)
StartAgain ==
  /\ status = "null" /\ status' = "running"
  /\ program' = <<>> /\ prompt' = TRUE
  /\ UNCHANGED <<text, ptr, variables, index, stacks, ended, left>>

\* The loop of a run.  In an empty text ubasic_run returns at once.
RunStep == ~prompt /\ UbasicRun /\ UNCHANGED shellVars

\* A variant with a mistake in it: only an end ends the loop.
RunDoneAtEnd ==
  /\ ~prompt /\ status = "running" /\ ended
  /\ prompt' = TRUE
  /\ UNCHANGED <<vars, program, left>>

RunDone ==
  /\ ~prompt /\ status = "running" /\ Done
  /\ prompt' = TRUE
  /\ UNCHANGED <<vars, program, left>>

ShellNext ==
  \/ \E l \in Lines : EnterLine(l)
  \/ EnterInvalid \/ EnterRun \/ EnterClear
  \/ RunStep \/ RunDone \/ StartAgain

ShellSpec == ShellInit /\ [][ShellNext]_<<vars, shellVars>>

(***************************************************************************)
(* The processor goes on while a program runs.  While Active there is      *)
(* always a RunStep, and nothing else can happen, so the last conjunct is  *)
(* WF_<<vars, shellVars>>(RunStep) without an ENABLED to evaluate, except  *)
(* at a line that does nothing but jump to itself.                         *)
(***************************************************************************)
FairShellSpec ==
  /\ ShellSpec
  /\ WF_<<vars, shellVars>>(RunDone)
  /\ []<>(prompt \/ ~Active) \/ []<><<TRUE>>_<<vars, shellVars>>

-------------------------------------------------------------------------------
(***************************************************************************)
(* The terminal implements Basic: whatever lines are typed, replaced and   *)
(* run again, each statement without a string has the effect its line      *)
(* number and its meaning say; that of peek and poke is that the terminal  *)
(* starts again.  The line is the one at whose number the scanner stands.  *)
(***************************************************************************)
Promise == INSTANCE Basic WITH
  mode  <- IF status # "running" THEN status ELSE IF prompt THEN "prompt" ELSE "run",
  line  <- IF prompt \/ Done THEN 0 ELSE IF BeginsLine(ptr) THEN Num(ptr) ELSE -1,
  env   <- variables,
  loops <- forStack,
  calls <- gosubStack

ImplementsBasic == Promise!Spec

===============================================================================
