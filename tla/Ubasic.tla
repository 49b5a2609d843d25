-------------------------------- MODULE Ubasic --------------------------------
(***************************************************************************)
(* The BASIC interpreter lib/basic/ubasic/ubasic.c.  A step is one call of *)
(* ubasic_run, that is one line of the program: there is one action for    *)
(* each statement, and two for the ends a call can come to besides.        *)
(*                                                                         *)
(* Jumps look a line number up in an index of the lines executed so far    *)
(* and search the text from its beginning if it is not there; the loops    *)
(* and subroutines that are open are on two stacks of bounded size.        *)
(***************************************************************************)
EXTENDS Tokenizer

CONSTANTS
  Programs,            \* the texts the interpreter is first started with
  Later,               \* the texts it is started with after that
  Variables,           \* the variables the texts name (a to z in the code)
  MaxGosub, MaxFor,    \* MAX_GOSUB_STACK_DEPTH, MAX_FOR_STACK_DEPTH
  Installed,           \* the host has called ubasic_init_peek_poke
  Peek(_)              \* the peek_function it has given

(***************************************************************************)
(* The texts the terminal makes of typed lines: each line begins with a    *)
(* digit, and only in a string without a closing quote is there no end of  *)
(* a line to be seen.  (The number may be one the scanner refuses.  A line *)
(* that is a remark without a number, as in tests.c, is allowed.)          *)
(***************************************************************************)
IsText(t) ==
  /\ t \in Seq([kind : STRING, value : Nat \cup Variables])
  /\ \A p \in 1 .. Len(t) :
       /\ t[p].kind # "ENDOFINPUT"
       /\ t[p].kind \in Numbers => t[p].value \in Nat
       /\ t[p] = UnclosedString => p = Len(t)
       /\ t[p].kind = "VARIABLE" => t[p].value \in Variables
       /\ t[p].kind = "REM" => p < Len(t) /\ t[p + 1].kind = "CR"
       /\ t[p].kind = "CR" /\ p < Len(t) => t[p + 1].kind \in {"NUMBER", "ERROR", "REM"}
  /\ t # <<>> => t[1].kind \in {"NUMBER", "ERROR"}

ASSUME UbasicAssumption ==
  /\ {MaxGosub, MaxFor} \subseteq Nat \ {0} /\ Installed \in BOOLEAN
  /\ \A t \in Programs \cup Later : IsText(t)
  /\ \A v \in Bytes : Peek(v) \in Bytes

VARIABLES
  variables,   \* never reset by ubasic_init
  index,       \* the list line_index_head
  gosubStack,
  forStack,
  ended,
  status       \* "running", or what has become of the interpreter

(***************************************************************************)
(* There are four ways to stop running: exit, a search that never ends     *)
(* ("hang"), the scanner behind an unclosed quote ("astray"), and the call *)
(* of a function the host has not given, which is at address 0 ("null").   *)
(***************************************************************************)
Fates == {"exit", "hang", "astray", "null"}

stacks == <<gosubStack, forStack>>
vars == <<text, ptr, variables, index, stacks, ended, status>>

-------------------------------------------------------------------------------
(***************************************************************************)
(* Expressions: the recursive descent, as a function of the rule, of the   *)
(* place, and of the value to the left.  Each gives the value and the      *)
(* place behind, or fails in accept.                                       *)
(***************************************************************************)
Parsed(value, p) == [ok |-> TRUE, value |-> value, at |-> p]
Failed           == [ok |-> FALSE, value |-> 0, at |-> 0]

And[a \in Nat] ==
  [b \in Nat |-> IF a = 0 \/ b = 0 THEN 0
                 ELSE 2 * And[a \div 2][b \div 2] + (a % 2) * (b % 2)]

\* Division truncates; by zero the machine makes it -1.
Quotient(a, b) == IF b = 0 THEN -1 ELSE IF a < 0 THEN -((-a) \div b) ELSE a \div b

Truth(condition) == IF condition THEN 1 ELSE 0

\* A variant with a mistake in it: the operands of a difference are swapped.
CalculateSwapped(op, a, b) ==
  CASE op = "ASTR"  -> a * b
    [] op = "SLASH" -> Quotient(a, b)
    [] op = "MOD"   -> a - b * Quotient(a, b)
    [] op = "PLUS"  -> a + b
    [] op = "MINUS" -> b - a
    [] op = "AND"   -> And[a % Byte][b % Byte]
    [] op = "OR"    -> a + b - And[a % Byte][b % Byte]
    [] op = "LT"    -> Truth(a < b)
    [] op = "GT"    -> Truth(a > b)
    [] op = "EQ"    -> Truth(a = b)

\* The value of an expression is cut to a char when expr returns it, so only
\* the low bits matter to the operators of expr.
Calculate(op, a, b) ==
  CASE op = "ASTR"  -> a * b
    [] op = "SLASH" -> Quotient(a, b)
    [] op = "MOD"   -> a - b * Quotient(a, b)
    [] op = "PLUS"  -> a + b
    [] op = "MINUS" -> a - b
    [] op = "AND"   -> And[a % Byte][b % Byte]
    [] op = "OR"    -> a + b - And[a % Byte][b % Byte]
    [] op = "LT"    -> Truth(a < b)
    [] op = "GT"    -> Truth(a > b)
    [] op = "EQ"    -> Truth(a = b)

Operand   == [term |-> "factor", expr |-> "term", relation |-> "expr"]

\* A variant with a mistake in it: products are taken on the level of sums.
OperatorsFlat == [term     |-> {"SLASH", "MOD"},
                  expr     |-> {"PLUS", "MINUS", "AND", "OR", "ASTR"},
                  relation |-> {"LT", "GT", "EQ"}]

Operators == [term     |-> {"ASTR", "SLASH", "MOD"},
              expr     |-> {"PLUS", "MINUS", "AND", "OR"},
              relation |-> {"LT", "GT", "EQ"}]

\* inner is what an expression behind p is parsed to.
Factor(p, env, inner) ==
  CASE Token(p) = "NUMBER"    -> Parsed(Num(p), After[p])
    [] Token(p) = "VARIABLE"  -> Parsed(env[VariableNum(p)], After[p])
    [] Token(p) = "LEFTPAREN" ->
         IF inner.ok /\ Token(inner.at) = "RIGHTPAREN"
         THEN Parsed(inner.value, After[inner.at]) ELSE Failed
    [] OTHER -> Failed

\* begun says that the loop of a rule has been entered, with the value left.
Call(rule, p, begun, left) == [rule |-> rule, at |-> p, begun |-> begun, left |-> left]

Calls == [rule : {"factor", "term", "expr", "relation"},
          at : Places, begun : BOOLEAN, left : Int]

\* term, expr and relation are the same loop over different operators.
Parse(rule, start, env) ==
  LET Rule[c \in Calls] ==
        LET p     == c.at
            inner == Rule[Call("expr", After[p], FALSE, 0)]
            next  == Rule[Call(Operand[c.rule], IF c.begun THEN After[p] ELSE p, FALSE, 0)]
        IN  IF c.rule = "factor" THEN Factor(p, env, inner)
            ELSE IF c.begun /\ Token(p) \notin Operators[c.rule]
            THEN Parsed(IF c.rule = "expr" THEN c.left % Byte ELSE c.left, p)
            ELSE IF ~next.ok THEN Failed
            ELSE Rule[Call(c.rule, next.at, TRUE,
                           IF c.begun THEN Calculate(Token(p), c.left, next.value)
                           ELSE next.value)]
  IN  Rule[Call(rule, start, FALSE, 0)]

-------------------------------------------------------------------------------
(***************************************************************************)
(* Lines.  The searches give 0 when they never end: at the end of the text *)
(* the tokenizer stays and the loop goes on.                               *)
(***************************************************************************)
\* The inner loop of jump_linenum_slow: on to the next end of a line.
LineEnd[p \in Places] ==
  LET q == After[p]
  IN  IF Token(q) \in {"CR", "ENDOFINPUT"} THEN q
      ELSE IF Token(q) = "ERROR" THEN 0
      ELSE LineEnd[q]

\* The middle loop: on to the next line that begins with a number.
NextLine[p \in Places] ==
  LET e == LineEnd[p]
  IN  IF e = 0 \/ Token(e) = "ENDOFINPUT" THEN 0
      ELSE IF Token(After[e]) = "NUMBER" THEN After[e]
      ELSE NextLine[After[e]]

\* A variant with a mistake in it: the search starts at the line that jumps.
JumpLinenumSlowFromHere(line) ==
  LET From[p \in Nat] ==
        IF p = 0 \/ Num(p) = line THEN p ELSE From[NextLine[p]]
  IN  From[ptr]

JumpLinenumSlow(line) ==
  LET From[p \in Nat] ==
        IF p = 0 \/ Num(p) = line THEN p ELSE From[NextLine[p]]
  IN  From[1]

Indexed(idx, line) == {i \in 1 .. Len(idx) : idx[i].line = line}

\* A variant with a mistake in it: the entry of a line is made behind its number.
IndexAddBehind(idx, p) ==
  IF Indexed(idx, Num(p)) # {} THEN idx
  ELSE Append(idx, [line |-> Num(p), position |-> After[p]])

IndexAdd(idx, p) ==
  IF Indexed(idx, Num(p)) # {} THEN idx
  ELSE Append(idx, [line |-> Num(p), position |-> p])

\* jump_linenum; the line that jumps is in the index already.
JumpLinenum(line) ==
  LET found == Indexed(index', line)
  IN  IF found # {} THEN index'[CHOOSE i \in found : TRUE].position
      ELSE JumpLinenumSlow(line)

-------------------------------------------------------------------------------
(***************************************************************************)
(* if_statement calls statement again: the statement that a line comes to  *)
(* after all its conditions is at Chosen[p]; it is 0 when there is none    *)
(* (the condition failed and there is no else), and the place to go on     *)
(* from is in the field next.                                              *)
(***************************************************************************)
AtStatement(p) == [ok |-> TRUE, at |-> p, next |-> p]
NoStatement(p) == [ok |-> TRUE, at |-> 0, next |-> p]
BadStatement   == [ok |-> FALSE, at |-> 0, next |-> 0]

\* The loop that skips the statement; an error in it is never passed.
Else[p \in Places] ==
  LET q == After[p]
  IN  IF Token(q) \in {"ELSE", "CR", "ENDOFINPUT"} THEN q
      ELSE IF Token(q) = "ERROR" THEN 0
      ELSE Else[q]

Chosen[p \in Places] ==
  IF Token(p) # "IF" THEN AtStatement(p)
  ELSE LET r == Parse("relation", After[p], variables)
           e == Else[After[r.at]]
       IN  IF ~r.ok \/ Token(r.at) # "THEN" THEN BadStatement
           ELSE IF r.value # 0 THEN Chosen[After[r.at]]
           ELSE IF e = 0 THEN NoStatement(0)
           ELSE IF Token(e) = "ELSE" THEN Chosen[After[e]]
           ELSE NoStatement(After[e])

Statement == Chosen[After[ptr]]
At        == Statement.at

Done    == ended \/ Finished
Active  == status = "running" /\ ~Done

Executes(kind) ==
  /\ Active
  /\ Token(ptr) = "NUMBER"
  /\ Statement.ok /\ At # 0 /\ Token(At) = kind

\* line_statement: the line goes into the index, then its number is passed.
Line(kind) ==
  /\ Executes(kind)
  /\ index' = IndexAdd(index, ptr)
  /\ UNCHANGED text

\* The end of running.  (Where the scanner is then, and whether a loop is on
\* the stack, is of no consequence any more.)
Stop(fate) == status' = fate /\ UNCHANGED <<ptr, variables, stacks, ended>>

\* The text is not what accept expects.
Exit == Stop("exit")

GoOn(p) == ptr' = p /\ UNCHANGED <<ended, status>>

\* A jump to a line that is not there never comes back: the search stays at
\* the end of the text or at an error, unless it gets past an unclosed quote.
SearchEnd ==
  IF Unclosed /\ \A p \in 1 .. Len(text) : Token(p) # "ERROR" THEN "astray" ELSE "hang"

JumpTo(line) ==
  /\ UNCHANGED ended
  /\ IF JumpLinenum(line) = 0 THEN status' = SearchEnd /\ UNCHANGED ptr
     ELSE ptr' = JumpLinenum(line) /\ UNCHANGED status

\* A variant with a mistake in it: an off-by-one in the bound of the variables.
SetNotFirst(v, value) ==
  variables' = IF v = 0 THEN variables ELSE [variables EXCEPT ![v] = value % Byte]

Set(v, value) == variables' = [variables EXCEPT ![v] = value % Byte]

-------------------------------------------------------------------------------
(***************************************************************************)
(* The statements.                                                         *)
(***************************************************************************)
\* The items of a print; 0 when accept fails inside of an expression.
Items[p \in Places] ==
  LET q == CASE Token(p) \in {"STRING", "COMMA", "SEMICOLON"} -> After[p]
             [] Token(p) \in {"VARIABLE", "NUMBER"} -> Parse("expr", p, variables).at
             [] OTHER -> p
  IN  IF q = p \/ q = 0 \/ Token(q) \in {"CR", "ENDOFINPUT"} THEN q ELSE Items[q]

\* A variant with a mistake in it: the end of the line is not passed.
PrintStatementStays ==
  /\ Line("PRINT")
  /\ LET q == Items[After[At]]
     IN  IF q = 0 THEN Exit
         ELSE IF Outside(q) THEN Stop("astray")
         ELSE GoOn(q) /\ UNCHANGED <<variables, stacks>>

\* After the items one more token is skipped, whatever it is.
PrintStatement ==
  /\ Line("PRINT")
  /\ LET q == Items[After[At]]
     IN  IF q = 0 THEN Exit
         ELSE IF Outside(q) THEN Stop("astray")
         ELSE GoOn(After[q]) /\ UNCHANGED <<variables, stacks>>

GotoStatement ==
  /\ Line("GOTO")
  /\ JumpTo(Num(After[At]))
  /\ UNCHANGED <<variables, stacks>>

\* With the stack full the statement does nothing.
GosubStatement ==
  /\ Line("GOSUB")
  /\ LET n == After[At]
         q == After[n]
     IN  IF Token(n) # "NUMBER" \/ Token(q) # "CR" THEN Exit
         ELSE /\ IF Len(gosubStack) < MaxGosub
                 THEN /\ gosubStack' = Append(gosubStack, Num(After[q]))
                      /\ JumpTo(Num(n))
                 ELSE GoOn(After[q]) /\ UNCHANGED gosubStack
              /\ UNCHANGED <<variables, forStack>>

\* Without a gosub the end of the line is not passed either.
ReturnStatement ==
  /\ Line("RETURN")
  /\ IF gosubStack # <<>>
     THEN LET n == Len(gosubStack)
          IN  /\ gosubStack' = SubSeq(gosubStack, 1, n - 1)
              /\ JumpTo(gosubStack[n])
     ELSE GoOn(After[At]) /\ UNCHANGED gosubStack
  /\ UNCHANGED <<variables, forStack>>

Loop(v, to, line) == [variable |-> v, to |-> to, line |-> line]

\* A variant with a mistake in it: the depth of the stack is not looked at.
PushLoopAlways(loop) == forStack' = Append(forStack, loop)

\* With the stack full the loop is not entered on it, and nothing is said.
PushLoop(loop) ==
  forStack' = IF Len(forStack) < MaxFor THEN Append(forStack, loop) ELSE forStack

\* The bound is evaluated after the variable has its first value.
ForStatement ==
  /\ Line("FOR")
  /\ LET v     == VariableNum(After[At])
         eq    == After[After[At]]
         first == Parse("expr", After[eq], variables)
         env   == [variables EXCEPT ![v] = first.value]
         to    == Parse("expr", After[first.at], env)
     IN  IF \/ Token(After[At]) # "VARIABLE" \/ Token(eq) # "EQ"
            \/ ~first.ok \/ Token(first.at) # "TO"
            \/ ~to.ok \/ Token(to.at) # "CR"
         THEN Exit
         ELSE /\ Set(v, first.value)
              /\ PushLoop(Loop(v, to.value, Num(After[to.at])))
              /\ GoOn(After[to.at])
              /\ UNCHANGED gosubStack

\* A next that matches the innermost loop counts and jumps or leaves the
\* loop; any other one is passed over.
NextStatement ==
  /\ Line("NEXT")
  /\ LET v     == VariableNum(After[At])
         cr    == After[After[At]]
         top   == forStack[Len(forStack)]
         value == (variables[v] + 1) % Byte
     IN  IF Token(After[At]) # "VARIABLE" THEN Exit
         ELSE IF forStack # <<>> /\ v = top.variable
         THEN IF value <= top.to
              THEN Set(v, value) /\ JumpTo(top.line) /\ UNCHANGED stacks
              ELSE IF Token(cr) # "CR" THEN Exit
              ELSE /\ Set(v, value)
                   /\ forStack' = SubSeq(forStack, 1, Len(forStack) - 1)
                   /\ GoOn(After[cr])
                   /\ UNCHANGED gosubStack
         ELSE IF Token(cr) # "CR" THEN Exit
         ELSE GoOn(After[cr]) /\ UNCHANGED <<variables, stacks>>

Assign(p) ==
  LET eq == After[p]
      e  == Parse("expr", After[eq], variables)
  IN  IF \/ Token(p) # "VARIABLE" \/ Token(eq) # "EQ"
         \/ ~e.ok \/ Token(e.at) # "CR"
      THEN Exit
      ELSE Set(VariableNum(p), e.value) /\ GoOn(After[e.at]) /\ UNCHANGED stacks

LetStatement ==
  \/ Line("LET") /\ Assign(After[At])
  \/ Line("VARIABLE") /\ Assign(At)

\* The variable is set to what the function returns, if there is one.
PeekStatement ==
  /\ Line("PEEK")
  /\ LET a == Parse("expr", After[At], variables)
         v == After[a.at]
     IN  IF \/ ~a.ok \/ Token(a.at) # "COMMA" \/ Token(v) # "VARIABLE"
            \/ Token(After[v]) # "CR"
         THEN Exit
         ELSE IF ~Installed THEN Stop("null")
         ELSE /\ Set(VariableNum(v), Peek(a.value))
              /\ GoOn(After[After[v]]) /\ UNCHANGED stacks

\* What the function the host gave does with the value is its own affair.
PokeStatement ==
  /\ Line("POKE")
  /\ LET a == Parse("expr", After[At], variables)
         e == Parse("expr", After[a.at], variables)
     IN  IF ~a.ok \/ Token(a.at) # "COMMA" \/ ~e.ok \/ Token(e.at) # "CR"
         THEN Exit
         ELSE IF ~Installed THEN Stop("null")
         ELSE GoOn(After[e.at]) /\ UNCHANGED <<variables, stacks>>

EndStatement ==
  /\ Line("END")
  /\ ended' = TRUE /\ ptr' = After[At]
  /\ UNCHANGED <<variables, stacks, status>>

\* The condition of an if has failed, and there is no else to be found.
Skip ==
  /\ Active /\ Token(ptr) = "NUMBER" /\ Statement.ok /\ At = 0
  /\ index' = IndexAdd(index, ptr)
  /\ IF Statement.next = 0 THEN Stop("hang")
     ELSE IF Outside(Statement.next) THEN Stop("astray")
     ELSE GoOn(Statement.next) /\ UNCHANGED <<variables, stacks>>
  /\ UNCHANGED text

Starters == {"PRINT", "GOTO", "GOSUB", "RETURN", "FOR", "NEXT", "LET",
             "VARIABLE", "PEEK", "POKE", "END"}

\* The line has no number, its condition is malformed, or what follows is
\* no statement.
Malformed ==
  /\ Active
  /\ \/ Token(ptr) # "NUMBER"
     \/ ~Statement.ok
     \/ At # 0 /\ Token(At) \notin Starters
  /\ index' = IndexAdd(index, ptr)
  /\ Exit
  /\ UNCHANGED text

-------------------------------------------------------------------------------
\* A variant with a mistake in it: the index of the last program is kept.
UbasicInitKeepsIndex(new) ==
  /\ status = "running"
  /\ text' = new /\ ptr' = 1
  /\ gosubStack' = <<>> /\ forStack' = <<>>
  /\ ended' = FALSE
  /\ UNCHANGED <<variables, status, index>>

\* ubasic_init, for the next run.  The functions of the host stay as they are.
UbasicInit(new) ==
  /\ status = "running"
  /\ text' = new /\ ptr' = 1
  /\ index' = <<>> /\ gosubStack' = <<>> /\ forStack' = <<>>
  /\ ended' = FALSE
  /\ UNCHANGED <<variables, status>>

Init ==
  /\ text \in Programs /\ ptr = 1
  /\ variables = [v \in Variables |-> 0]
  /\ index = <<>> /\ gosubStack = <<>> /\ forStack = <<>>
  /\ ended = FALSE /\ status = "running"

UbasicRun ==
  \/ PrintStatement \/ GotoStatement \/ GosubStatement \/ ReturnStatement
  \/ ForStatement \/ NextStatement \/ LetStatement
  \/ PeekStatement \/ PokeStatement \/ EndStatement
  \/ Skip \/ Malformed

Next == UbasicRun \/ (Done /\ \E new \in Later : UbasicInit(new))

Spec == Init /\ [][Next]_vars

\* The host calls ubasic_run again and again.
FairSpec == Spec /\ WF_vars(UbasicRun)

-------------------------------------------------------------------------------
(***************************************************************************)
(* Type invariant: the stacks stay in their arrays and the tokenizer in    *)
(* the text, or at its end, until it passes a quote that is not closed;    *)
(* nothing else takes it off the text.                                     *)
(***************************************************************************)
TypeOK ==
  /\ ptr \in 1 .. End /\ ~Outside(ptr)
  /\ variables \in [Variables -> Bytes]
  /\ index \in Seq([line : Bytes, position : 1 .. End])
  /\ gosubStack \in Seq(Bytes) /\ Len(gosubStack) <= MaxGosub
  /\ forStack \in Seq([variable : Variables, to : Bytes, line : Bytes])
  /\ Len(forStack) <= MaxFor
  /\ ended \in BOOLEAN /\ status \in Fates \cup {"running"}
  /\ status = "astray" => Unclosed

BeginsLine(p) == Token(p) = "NUMBER" /\ (p = 1 \/ Token(p - 1) = "CR")

\* No end of a line is between p and q, but those that a remark takes away.
SameLine(p, q) == \A j \in p .. q : Token(j) = "CR" => Token(j - 1) = "REM"

(***************************************************************************)
(* The places where a line begins with a number, as the searches see it:   *)
(* behind a statement with a remark in its line there is no end of a line  *)
(* to be seen, and the next line is hidden in this one.                    *)
(***************************************************************************)
Begins ==
  { p \in 1 .. Len(text) :
      /\ Token(p) = "NUMBER"
      /\ \/ p = 1
         \/ \E e \in 2 .. (p - 1) :
              Token(e) = "CR" /\ Token(e - 1) # "REM" /\ After[e] = p }

\* What the loop of print goes on at.
PrintTakes == {"STRING", "COMMA", "SEMICOLON", "VARIABLE", "NUMBER"}

(***************************************************************************)
(* The places inside of a line that a statement can leave the scanner at.  *)
(* A print stops at a token it does not know, an else or an operator for   *)
(* instance, and skips it; a return without a gosub stops in front of the  *)
(* end of its line; and both can come behind a remark, to a hidden line.   *)
(* If there is a number it is taken for that of a line.                    *)
(***************************************************************************)
LeftByPrint(p) ==
  /\ Token(p - 1) \notin PrintTakes \cup {"CR"}
  /\ \E k \in 1 .. (p - 2) : Token(k) = "PRINT" /\ SameLine(k + 1, p - 1)

Strayed(p) ==
  /\ p > 2 /\ p \notin Begins
  /\ \/ LeftByPrint(p)
     \/ Token(p - 1) = "RETURN"
     \/ Token(p - 1) = "CR" /\ Token(p - 2) = "REM"

NumbersDiffer == \A p, q \in Begins : Num(p) = Num(q) => p = q

(***************************************************************************)
(* The index is a cache: what it says of a line is what the search of the  *)
(* text would say, whatever has been executed before, also in an earlier   *)
(* program, if no two lines have the same number.  (They have if their     *)
(* numbers differ by a multiple of 256, and then the target of a jump      *)
(* depends on which of them was executed first.)                           *)
(***************************************************************************)
IndexAgrees ==
  status = "running" /\ NumbersDiffer =>
    \A i \in 1 .. Len(index) :
      Strayed(index[i].position) \/ JumpLinenumSlow(index[i].line) = index[i].position

(***************************************************************************)
(* Every call of ubasic_run begins at the number of a line or behind the   *)
(* end of the text, at a number that is too long for the scanner, or where *)
(* a print or a return has left the rest of a line.                        *)
(***************************************************************************)
BeginsAtLine == Active => ptr \in Begins \/ Token(ptr) = "ERROR" \/ Strayed(ptr)

\* The place behind the line that holds p.
Behind(p) == After[LineEnd[p]]

\* An entry of the index for this number is not that of a line.
Shadowed(line) == \E i \in Indexed(index', line) : Strayed(index'[i].position)

(***************************************************************************)
(* A next that goes back goes to the line behind a for of its variable and *)
(* a return to the line behind a gosub, however jumps in and out of loops  *)
(* and subroutines have left the stacks.  (If the gosub is in the last     *)
(* line there is none; the return looks for a line of number 0.)           *)
(***************************************************************************)
Home(kind, line) ==
  \E p \in 1 .. Len(text) :
    /\ Token(p) = kind /\ LineEnd[p] # 0 /\ Num(Behind(p)) = line
    /\ kind = "FOR" \/ Token(Behind(p)) = "NUMBER" => Behind(p) = ptr'
    /\ kind = "FOR" => VariableNum(After[p]) = VariableNum(After[At])

GoesHome(kind, line) == Shadowed(line) \/ Home(kind, line)

JumpsGoHome ==
  [][NumbersDiffer /\ status' = "running" =>
       /\ Executes("NEXT") /\ variables' # variables /\ forStack' = forStack
            => GoesHome("FOR", forStack[Len(forStack)].line)
       /\ Executes("RETURN") /\ gosubStack' # gosubStack
            => GoesHome("GOSUB", gosubStack[Len(gosubStack)])]_vars

(***************************************************************************)
(* A goto to a line of the text arrives at it, before it or after it,      *)
(* executed or not; only a token the scanner does not know can be in the   *)
(* way of the search, which then never ends.                               *)
(***************************************************************************)
GotoArrives ==
  [][NumbersDiffer /\ Executes("GOTO") =>
       \A p \in Begins :
         Num(p) = Num(After[At]) /\ (\A k \in 1 .. p : Token(k) # "ERROR") =>
           ptr' = p \/ Shadowed(Num(p))]_vars

===============================================================================
