--------------------------------- MODULE Basic ---------------------------------
(***************************************************************************)
(* What the BASIC terminal promises: a program is a function from line     *)
(* numbers to statements, execution is at a line, and a jump goes to the   *)
(* line of a number.  There is no text, no scanner, no index of lines and  *)
(* no parser here; BasicShell, which has them, is shown to implement this. *)
(*                                                                         *)
(* Where the interpreter falls short of what one would promise, the rule   *)
(* it follows is stated: at Lost, Hidden, Jump, and where the mode becomes *)
(* "exit" (the machine stops), "hang" (it never answers again) or "null"   *)
(* (it starts again: the terminal has no functions for peek and poke).     *)
(***************************************************************************)
EXTENDS Integers, Sequences, Bitwise

CONSTANTS
  Byte, Variables, MaxGosub, MaxFor,   \* as in Ubasic
  Lines,        \* the numbered lines a user types, with number and statement
  Preloaded     \* the programs typed before the behaviour begins

VARIABLES
  program,
  mode,         \* "prompt", "run", "exit", "hang" or "null"
  line,         \* the line that is next
  env, loops, calls

vars == <<program, mode, line, env, loops, calls>>

None == 0       \* behind the last line
Lost == -1      \* in the middle of a line

-------------------------------------------------------------------------------
\* The arithmetic of eight bits; a comparison or a division by zero too.
Apply(op, x, y) ==
  CASE op = "ASTR"  -> x * y
    [] op = "SLASH" -> IF y = 0 THEN Byte - 1 ELSE x \div y
    [] op = "MOD"   -> IF y = 0 THEN x ELSE x % y
    [] op = "PLUS"  -> x + y
    [] op = "MINUS" -> x - y
    [] op = "AND"   -> x & y
    [] op = "OR"    -> x | y
    [] op = "LT"    -> IF x < y THEN 1 ELSE 0
    [] op = "GT"    -> IF x > y THEN 1 ELSE 0
    [] op = "EQ"    -> IF x = y THEN 1 ELSE 0

RECURSIVE Value(_, _)
Value(e, in) ==
  CASE e.op = "NUMBER"   -> e.value % Byte
    [] e.op = "VARIABLE" -> in[e.value]
    [] OTHER -> Apply(e.op, Value(e.left, in), Value(e.right, in)) % Byte

Least(S) == CHOOSE n \in S : \A m \in S : n <= m

Following(n) ==
  LET later == {m \in DOMAIN program : m > n}
  IN  IF later = {} THEN None ELSE Least(later)

\* The search for a line passes over the one behind a remark.
Hidden(n) == \E m \in DOMAIN program : program[m].kind = "REM" /\ Following(m) = n

-------------------------------------------------------------------------------
Init ==
  /\ program \in Preloaded /\ mode = "prompt" /\ line = None
  /\ env = [v \in Variables |-> 0] /\ loops = <<>> /\ calls = <<>>

AtPrompt == mode = "prompt"

Type(l) ==
  /\ AtPrompt
  /\ program' = [n \in DOMAIN program \cup {l.number} |->
                   IF n = l.number THEN l.statement ELSE program[n]]
  /\ UNCHANGED <<mode, line, env, loops, calls>>

Clear == AtPrompt /\ program' = <<>> /\ UNCHANGED <<mode, line, env, loops, calls>>

\* A run begins at the first line; the variables keep their values.
Run ==
  /\ AtPrompt /\ mode' = "run"
  /\ line' = Following(None)
  /\ loops' = <<>> /\ calls' = <<>>
  /\ UNCHANGED <<program, env>>

\* A line without a number: the exception nobody catches.
Invalid == AtPrompt /\ mode' = "exit" /\ UNCHANGED <<program, line, env, loops, calls>>

-------------------------------------------------------------------------------
GoTo(n) == line' = n /\ UNCHANGED mode

Jump(n) ==
  IF n \in DOMAIN program /\ ~Hidden(n) THEN GoTo(n)
  ELSE mode' = "hang" /\ UNCHANGED line

End(fate) == mode' = fate /\ UNCHANGED <<line, env, loops, calls>>

Stop == End("exit")

Put(v, x) == env' = [env EXCEPT ![v] = x]

(***************************************************************************)
(* The effect of a statement; inElse says that an else follows it in its   *)
(* line.  Then a statement that would go on with the next line cannot.     *)
(***************************************************************************)
Execute(s, inElse) ==
  LET next == Following(line)
      after == line' = next /\ UNCHANGED mode
  IN
  CASE s.kind = "NOTHING" -> after /\ UNCHANGED <<env, loops, calls>>
    [] s.kind = "PRINT" ->
         GoTo(IF inElse THEN Lost ELSE next) /\ UNCHANGED <<env, loops, calls>>
    [] s.kind = "LET" ->
         IF inElse THEN Stop
         ELSE Put(s.variable, Value(s.value, env)) /\ after /\ UNCHANGED <<loops, calls>>
    [] s.kind = "GOTO" -> Jump(s.line) /\ UNCHANGED <<env, loops, calls>>
    [] s.kind = "GOSUB" ->
         IF inElse THEN Stop
         ELSE /\ IF Len(calls) < MaxGosub
                 THEN calls' = Append(calls, next) /\ Jump(s.line)
                 ELSE after /\ UNCHANGED calls
              /\ UNCHANGED <<env, loops>>
    [] s.kind = "RETURN" ->
         /\ IF calls = <<>> THEN GoTo(Lost) /\ UNCHANGED calls
            ELSE /\ Jump(calls[Len(calls)])
                 /\ calls' = SubSeq(calls, 1, Len(calls) - 1)
         /\ UNCHANGED <<env, loops>>
    [] s.kind = "FOR" ->
         LET first == Value(s.from, env)
             loop  == [variable |-> s.variable, line |-> next,
                       to |-> Value(s.to, [env EXCEPT ![s.variable] = first])]
         IN  IF inElse THEN Stop
             ELSE /\ Put(s.variable, first)
                  /\ loops' = IF Len(loops) < MaxFor THEN Append(loops, loop) ELSE loops
                  /\ after /\ UNCHANGED calls
    [] s.kind = "NEXT" ->
         LET top   == loops[Len(loops)]
             count == (env[s.variable] + 1) % Byte
             inner == loops # <<>> /\ top.variable = s.variable
         IN  IF inner /\ count <= top.to
             THEN Put(s.variable, count) /\ Jump(top.line) /\ UNCHANGED <<loops, calls>>
             ELSE IF inElse THEN Stop
             ELSE /\ IF inner
                     THEN Put(s.variable, count) /\ loops' = SubSeq(loops, 1, Len(loops) - 1)
                     ELSE UNCHANGED <<env, loops>>
                  /\ after /\ UNCHANGED calls
    [] s.kind \in {"PEEK", "POKE"} -> IF inElse THEN Stop ELSE End("null")
    [] s.kind = "END" -> GoTo(None) /\ UNCHANGED <<env, loops, calls>>
    [] OTHER -> Stop      \* a remark, or no statement at all

Step ==
  /\ mode = "run" /\ line # None
  /\ LET s == program[line]
     IN  IF line = Lost THEN Stop
         ELSE IF s.kind # "IF" THEN Execute(s, FALSE)
         ELSE IF Value(s.condition, env) = 0 THEN Execute(s.else, FALSE)
         ELSE Execute(s.then, s.else.kind # "NOTHING")
  /\ UNCHANGED program

Finish ==
  /\ mode = "run" /\ line = None /\ mode' = "prompt"
  /\ UNCHANGED <<program, line, env, loops, calls>>

\* The program is lost, and the variables are not.
StartAgain ==
  /\ mode = "null" /\ mode' = "prompt"
  /\ program' = <<>> /\ line' = None
  /\ UNCHANGED <<env, loops, calls>>

Next == (\E l \in Lines : Type(l)) \/ Clear \/ Run \/ Invalid \/ Step \/ Finish \/ StartAgain

Spec == Init /\ [][Next]_vars

===============================================================================
