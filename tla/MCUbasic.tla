------------------------------- MODULE MCUbasic -------------------------------
(***************************************************************************)
(* Texts for the interpreter: every program of a few lines over a list of  *)
(* statements, with some longer ones and some the scanner refuses.         *)
(***************************************************************************)
EXTENDS Ubasic, SequencesExt

K(kind)  == [kind |-> kind, value |-> 0]
N(value) == [kind |-> "NUMBER", value |-> value]
V(v)     == [kind |-> "VARIABLE", value |-> v]

Text(lines) == FlattenSeq(lines)
NumberedLine(n, statement) == <<N(n)>> \o statement \o <<K("CR")>>
Numbered(statements) ==
  Text([i \in DOMAIN statements |-> NumberedLine(i, statements[i])])

a == 0
b == 1

Assignment(v, e)  == <<K("LET"), V(v), K("EQ")>> \o e
ForTo(v, e, to)   == <<K("FOR"), V(v), K("EQ")>> \o e \o <<K("TO")>> \o to
NextOf(v)         == <<K("NEXT"), V(v)>>
GotoLine(n)       == <<K("GOTO"), N(n)>>
GosubLine(n)      == <<K("GOSUB"), N(n)>>
IfThen(r, s)      == <<K("IF")>> \o r \o <<K("THEN")>> \o s
OrElse(s)         == <<K("ELSE")>> \o s
Less(v, e)        == <<V(v), K("LT"), e>>
Sum(x, y)         == <<x, K("PLUS"), y>>
PrintOf(x)        == <<K("PRINT"), x>>
Only(kind)        == <<K(kind)>>

-------------------------------------------------------------------------------
Statements ==
  { GotoLine(1), GotoLine(3), GosubLine(3), Only("RETURN"), Only("END"),
    ForTo(a, <<N(0)>>, <<N(1)>>), ForTo(b, <<V(a)>>, Sum(V(a), N(2))),
    NextOf(a), NextOf(b),
    Assignment(a, Sum(V(a), N(1))), <<V(b), K("EQ"), V(a), K("AND"), N(2)>>,
    IfThen(Less(a, N(3)), GotoLine(1)),
    IfThen(Less(a, N(2)), NextOf(a) \o OrElse(Only("RETURN"))),
    PrintOf(V(a)) \o <<K("COMMA"), V(b), K("SEMICOLON")>>,
    IfThen(<<V(b)>>, PrintOf(K("STRING")) \o OrElse(Only("END"))) }

ShortPrograms ==
  { Numbered(<<r, s, t>>) : r \in Statements, s \in Statements, t \in Statements }

\* One more line, of the statements that use the stacks.
ControlStatements ==
  { GotoLine(2), GosubLine(3), Only("RETURN"), ForTo(a, <<N(0)>>, <<N(1)>>),
    ForTo(b, <<V(a)>>, Sum(V(a), N(2))), NextOf(a), NextOf(b),
    IfThen(Less(a, N(2)), GotoLine(1)) }

ControlPrograms ==
  { Numbered(<<r, s, t, u>>) : r, s, t, u \in ControlStatements }

\* Lines that accept refuses, and jumps to a line that is not there.
BrokenPrograms ==
  { Numbered(<<s>>) : s \in
      { Only("GOSUB"), <<K("FOR"), V(a), N(1)>>, <<K("NEXT"), N(1)>>,
        <<K("LET"), V(a), N(1)>>, <<K("PEEK"), N(1), V(a)>>, <<K("POKE"), N(1)>>,
        PrintOf(V(a)) \o <<K("PLUS")>>, <<K("IF"), V(a)>>, Only("THEN"),
        PrintOf(K("LEFTPAREN")), IfThen(<<V(a)>>, Only("ERROR")), GotoLine(4),
        IfThen(<<N(0)>>, PrintOf(K("ERROR"))) } }
  \cup { Numbered(<< GotoLine(3), Only("RETURN"), GosubLine(2) >>) }

(***************************************************************************)
(* Prints and returns that leave the scanner inside of a line, at a number *)
(* or not; remarks that hide the next line; and a loop or a subroutine     *)
(* with no line behind it.                                                 *)
(***************************************************************************)
Stray(n, s) == <<K("LT"), N(n)>> \o s
Remark(s)   == s \o <<K("REM")>>

StrayStatements ==
  { PrintOf(V(a)) \o Stray(2, GotoLine(3)), PrintOf(V(a)) \o Stray(3, Only("RETURN")),
    Only("RETURN") \o <<N(3)>> \o GosubLine(1), <<K("PRINT"), K("ERROR")>>,
    PrintOf(V(a)) \o <<K("LEFTPAREN"), V(a), K("RIGHTPAREN")>>,
    Remark(GotoLine(3)), Remark(Only("RETURN")), Remark(PrintOf(V(a))), Only("REM"),
    Remark(PrintOf(K("LEFTPAREN"))), Remark(IfThen(<<V(a)>>, GotoLine(3))),
    Assignment(a, Sum(V(a), N(1))), GotoLine(1), GotoLine(3), GosubLine(3),
    Only("RETURN"), ForTo(a, <<N(0)>>, <<N(1)>>), NextOf(a) }

StrayPrograms ==
  { Numbered(<<r, s, t>>) : r, s, t \in StrayStatements }
    \cup { Text(<< NumberedLine(1, r), NumberedLine(0, s), NumberedLine(2, t) >>) :
             r \in {GotoLine(2), GotoLine(0)}, s \in {Only("RETURN"), NextOf(a), GotoLine(2)},
             t \in {GosubLine(0), ForTo(a, <<N(0)>>, <<N(1)>>)} }

(***************************************************************************)
(* A last line with a string whose quote is not closed: printed, passed    *)
(* over by an if, in the way of a search, or where nothing passes it.  And *)
(* numbers that are too long for the scanner, which goto and atoi take.    *)
(***************************************************************************)
TooLong(n) == [kind |-> "ERROR", value |-> n]

OpenStatements ==
  { s \o <<UnclosedString>> : s \in
      { Only("PRINT"), IfThen(<<N(0)>>, Only("PRINT")), Only("RETURN"), Only("END"),
        PrintOf(V(a)) \o OrElse(<<>>), Only("GOTO"), GotoLine(3), Assignment(b, <<>>) } }

OpenPrograms ==
  { NumberedLine(1, r) \o NumberedLine(2, s) \o <<N(3)>> \o t :
      r, s \in { GotoLine(3), GotoLine(5), GosubLine(3), Only("REM"), Only("RETURN"),
                 ForTo(a, <<N(0)>>, <<N(1)>>), IfThen(<<V(a)>>, Only("ERROR")) },
      t \in OpenStatements }

TooLongPrograms ==
  { Text(<< NumberedLine(1, r), NumberedLine(2, s), <<TooLong(n)>> \o NumberedLine(3, t) >>) :
      n \in {8, 9, 13},
      r, s, t \in { <<K("GOTO"), TooLong(10)>>, <<K("GOTO"), K("MINUS"), TooLong(14)>>,
                   GosubLine(2), Only("RETURN"), ForTo(a, <<N(0)>>, <<N(1)>>), NextOf(a) } }

\* Loops and subroutines one deeper than the stacks, a remark, peek and poke.
LongPrograms ==
  { Numbered(<< ForTo(a, <<N(0)>>, <<N(1)>>), ForTo(b, <<N(1)>>, <<N(2)>>),
                ForTo(a, <<N(5)>>, <<N(6)>>), NextOf(a), NextOf(b), NextOf(a) >>),
    Numbered(<< GosubLine(2), GosubLine(3), GosubLine(4), Only("RETURN") >>),
    Text(<< NumberedLine(1, <<K("PEEK"), N(3), K("COMMA"), V(b)>>), Only("REM"),
            Only("CR"), NumberedLine(2, <<K("POKE"), V(b), K("COMMA"), N(1)>>),
            NumberedLine(3, GotoLine(2)) >>) }

MCPrograms ==
  ShortPrograms \cup ControlPrograms \cup BrokenPrograms \cup LongPrograms
    \cup StrayPrograms \cup OpenPrograms \cup TooLongPrograms
MCLater == { Numbered(<< GotoLine(3), Only("END"), GosubLine(2) >>),
             Text(<< NumberedLine(3, Only("END")), NumberedLine(1, GotoLine(3)) >>) }

MCPeek(address) == address

===============================================================================
