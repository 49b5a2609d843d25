-------------------------------- MODULE MCShell --------------------------------
(***************************************************************************)
(* BASIC programs for TLC: some that are typed and replaced, every program *)
(* of a few lines over lists of statements, loops in any order, and those  *)
(* of lib/basic/ubasic/tests.c.  (Its last one, of peek and poke, starts   *)
(* the terminal again: tests.c gives the interpreter the functions that    *)
(* the terminal has not.)                                                  *)
(***************************************************************************)
EXTENDS BasicShell

Lit(n) == [op |-> "NUMBER", value |-> n]
Var(v) == [op |-> "VARIABLE", value |-> v]
Of(op, l, r) == [op |-> op, left |-> l, right |-> r]
Sum(l, r) == Of("PLUS", l, r)
Less(v, n) == Of("LT", Var(v), Lit(n))

a == 0
b == 1
c == 2
i == 8
j == 9
k == 10
z == 25

Only(kind)        == [kind |-> kind]
Let(v, e)         == [kind |-> "LET", variable |-> v, value |-> e]
PrintOf(e)          == [kind |-> "PRINT", value |-> e]
Goto(n)           == [kind |-> "GOTO", line |-> n]
Gosub(n)          == [kind |-> "GOSUB", line |-> n]
For(v, m, n)      == [kind |-> "FOR", variable |-> v, from |-> Lit(m), to |-> Lit(n)]
NextOf(v)         == [kind |-> "NEXT", variable |-> v]
PeekTo(v, e)      == [kind |-> "PEEK", variable |-> v, value |-> e]
Poke(at, e)       == [kind |-> "POKE", address |-> at, value |-> e]
IfElse(e, s, t)   == [kind |-> "IF", condition |-> e, then |-> s, else |-> t]
If(e, s)          == IfElse(e, s, Only("NOTHING"))

\* Counts to three and starts again.
Count == Let(a, Of("AND", Sum(Var(a), Lit(1)), Lit(3)))

-------------------------------------------------------------------------------
Statements ==
  { Goto(1), Goto(3), Gosub(3), Only("RETURN"), Only("END"), Only("REM"),
    For(a, 0, 1), For(b, 1, 2), NextOf(a), NextOf(b), Count,
    If(Less(a, 2), Goto(1)), IfElse(Less(a, 2), NextOf(a), Only("RETURN")),
    IfElse(Var(b), PrintOf(Var(b)), Count) }

ShortPrograms == [1 .. 3 -> Statements]

\* One more line, of the statements that use the stacks.
ControlPrograms ==
  [1 .. 4 -> { Goto(2), Gosub(3), Only("RETURN"), Only("REM"), For(a, 0, 1),
               For(b, 1, 2), NextOf(a), If(Less(a, 2), NextOf(b)) }]

\* What an else makes of every statement, and arithmetic with brackets.
Operands == {Lit(3), Sum(Lit(1), Lit(4)), Of("ASTR", Lit(2), Lit(3))}

\* The expressions with two operators, the brackets left out where the rules
\* of precedence allow it.
Leaves == {Lit(3), Lit(5), Lit(6)}
Arithmetic == {"PLUS", "MINUS", "AND", "OR", "ASTR"}
Inners == {Of(op, l, r) : op \in Arithmetic, l, r \in Leaves}
Trees  == {Of(op, l, r) : op \in Arithmetic, l \in Inners, r \in Leaves}
            \cup {Of(op, l, r) : op \in Arithmetic, l \in Leaves, r \in Inners}

LinePrograms ==
  { (10 :> IfElse(Var(v), s, PrintOf(Lit(1)))) @@ (20 :> Only("END")) @@ (30 :> t) :
      v \in {a, b}, t \in {Only("RETURN"), Only("EMPTY")},
      s \in { Only("RETURN"), Let(a, Lit(1)), Gosub(30), For(a, 1, 2), Goto(30),
              Poke(Lit(1), Var(a)), PeekTo(b, Lit(1)), NextOf(a), Only("END") } }
  \cup { (10 :> Let(a, Of(op, l, r))) @@ (20 :> IfElse(Of(r2, Var(a), l), Goto(10), Let(b, Lit(7))))
           @@ (30 :> Let(c, Sum(Var(a), r))) @@ (40 :> Poke(l, r)) :
         op \in Arithmetic, r2 \in {"GT", "EQ"},
         l \in Operands, r \in Operands }
  \cup { 10 :> Let(a, e) : e \in Trees }
  \cup { (10 :> [kind |-> "FOR", variable |-> b, from |-> from, to |-> to])
           @@ (20 :> Let(a, Of(op, Var(b), Lit(2)))) @@ (30 :> NextOf(b)) :
         from, to \in {Var(b), Sum(Var(b), Lit(1)), Of("ASTR", Lit(2), Lit(3))},
         op \in {"MINUS", "ASTR"} }
  \cup { 10 :> Let(a, Of(op, Lit(m), Lit(n))) : op \in {"SLASH", "MOD"},
         m \in {0, 1, 200, 255}, n \in {0, 1, 7} }

-------------------------------------------------------------------------------
\* Loops with literal bounds below the largest value, one for a variable, in
\* any order, and statements that assign to no variable.
LoopStatements ==
  { For(a, 0, 2), For(b, 252, 254), For(c, 1, 0), NextOf(a), NextOf(b), NextOf(c),
    If(Less(a, 1), NextOf(b)) }

OneLoopEach(s) ==
  \A m, n \in DOMAIN s : s[m].kind = "FOR" /\ s[m] = s[n] => m = n

\* Four loops, of which the stack takes three, ended in any order.
FourLoops ==
  { [n \in 1 .. 8 |-> IF n <= 4 THEN For(n, 254 - n, 255 - n) ELSE NextOf(order[n - 4])] :
      order \in {f \in [1 .. 4 -> 1 .. 4] : IsInjective(f)} }

\* The programs of tests.c, without the remarks, which have no number, and
\* with shorter loops in program_loop.
ProgramLet == (10 :> Let(a, Lit(42))) @@ (20 :> Only("END"))

ProgramGoto ==
  (10 :> Goto(50)) @@ (20 :> Goto(40)) @@ (30 :> Goto(60)) @@ (40 :> Goto(30))
    @@ (50 :> Goto(20)) @@ (60 :> Let(c, Lit(108))) @@ (70 :> Only("END"))

Bound == 5
ProgramLoop ==
  (10 :> For(i, 0, Bound)) @@ (20 :> For(j, 0, Bound)) @@ (30 :> For(k, 0, 10))
    @@ (40 :> Let(a, Of("ASTR", Of("ASTR", Var(i), Var(j)), Var(k))))
    @@ (50 :> NextOf(k)) @@ (60 :> NextOf(j)) @@ (70 :> NextOf(i)) @@ (80 :> Only("END"))

ProgramFibs ==
  (20 :> Let(a, Lit(1))) @@ (40 :> Let(b, Lit(1))) @@ (60 :> For(i, 0, 8))
    @@ (80 :> Let(b, Sum(Var(a), Var(b)))) @@ (100 :> Let(a, Of("MINUS", Var(b), Var(a))))
    @@ (140 :> NextOf(i)) @@ (160 :> Only("END"))

ProgramPeekPoke ==
  (10 :> PeekTo(a, Sum(Sum(Lit(100), Lit(20)), Lit(3)))) @@ (20 :> PeekTo(z, Lit(123)))
    @@ (30 :> Poke(Of("MINUS", Lit(100), Lit(1)), Lit(99))) @@ (40 :> Poke(Lit(0), Lit(0)))
    @@ (50 :> Only("END"))

TestPrograms == {ProgramLet, ProgramGoto, ProgramLoop, ProgramFibs}

TerminatingPrograms ==
  {s \in [1 .. 4 -> LoopStatements] : OneLoopEach(s)} \cup FourLoops \cup TestPrograms

-------------------------------------------------------------------------------
Empty == <<>>
MCEmpty == {Empty}
MCPreloaded ==
  ShortPrograms \cup ControlPrograms \cup LinePrograms \cup TerminatingPrograms
    \cup {ProgramPeekPoke, Empty}

Numbered(n, s) == [number |-> n, statement |-> s]
MCLines == { Numbered(1, Count), Numbered(1, Only("REM")), Numbered(2, Goto(5)),
             Numbered(5, If(Less(a, 3), Goto(1))), Numbered(5, Only("EMPTY")),
             Numbered(2, Poke(Lit(0), Var(a))) }

MCPeek(address) == address
MCPrograms == MCEmpty
MCLater == {}
MCVariables == 0 .. 25

(***************************************************************************)
(* The assertions of tests.c on its programs without peek and poke hold    *)
(* when these have been run at the terminal, and no run of them ends in    *)
(* any other way than by their end.                                        *)
(***************************************************************************)
Tested(prg, v, value) == program = prg /\ ended => variables[v] = value

TestsPass ==
  /\ Tested(ProgramLet, a, 42)
  /\ Tested(ProgramGoto, c, 108)
  /\ Tested(ProgramLoop, a, (Bound * Bound * 10) % Byte)
  /\ Tested(ProgramFibs, b, 89)
  /\ program \in TestPrograms /\ text # <<>> => IF prompt THEN ended ELSE status = "running"

(***************************************************************************)
(* The run of a program without assignments, jumps and subroutines returns *)
(* to the prompt if no two of its loops have the same variable and their   *)
(* bounds are below the largest value of a variable, however the loops are *)
(* nested or crossed, and if there are more of them than the stack takes.  *)
(* So do the runs of the programs of tests.c without peek and poke, their  *)
(* loops shortened.                                                        *)
(***************************************************************************)
RunReturns == ~prompt /\ program \in TerminatingPrograms ~> prompt

\* For the runs that show where code and documentation part.
MCElse ==
  { (10 :> Let(a, Lit(n))) @@ (20 :> IfElse(Less(a, 2), s, t)) @@ (30 :> Only("END")) :
      n \in 1 .. 2, s, t \in {PrintOf(Var(a)), Goto(30), Only("END")} }

(***************************************************************************)
(* A program made of the statements README.md of ubasic lists, if, then,   *)
(* else and print among them, is executed and does not end the machine.    *)
(***************************************************************************)
ElseSupported == ~prompt => status # "exit"

(***************************************************************************)
(* What a user types at the prompt is looked at and reported, if it is no  *)
(* input; it does not stop the machine.                                    *)
(***************************************************************************)
InvalidReported == prompt => status # "exit"

===============================================================================
