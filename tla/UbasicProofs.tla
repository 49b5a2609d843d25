----------------------------- MODULE UbasicProofs -----------------------------
(***************************************************************************)
(* Proofs about the BASIC interpreter, for every program text the terminal *)
(* can make, any variables, any size of the two stacks and any width of a  *)
(* number: the scanner stays in the text until it passes a quote that is   *)
(* not closed, the stacks stay in their arrays,                            *)
(* every call of ubasic_run begins at a line (or where a statement is      *)
(* known to leave the rest of one), the index is a faithful cache of the   *)
(* search, and gotos, loops and returns arrive where they should.          *)
(*                                                                         *)
(* The model is built from recursive functions of places in the text.      *)
(* Before anything can be said of one of them it is shown to be what its   *)
(* equation says (RecursionSolvable): all of them go on in the text, so    *)
(* the measure is how much of the text is ahead.                           *)
(***************************************************************************)
EXTENDS Ubasic, Induction

-------------------------------------------------------------------------------
(***************************************************************************)
(* The text, and what the scanner finds behind a token (tokenizer_next).   *)
(***************************************************************************)
\* How much of the text is ahead of a place.
Ahead(p) == IF p <= Len(text) THEN Len(text) + 1 - p ELSE 0

\* A place that the scanner comes to: no remark, and no end of line that
\* a remark has taken away.
Visible(p) == p \in 1 .. End /\ Token(p) # "REM" /\ (p > 1 => Token(p - 1) # "REM")

\* Nothing from p to q but remarks with the ends of their lines.
Remarks(p, q) ==
  \A j \in p .. q : Token(j) = "REM" \/ (Token(j) = "CR" /\ Token(j - 1) = "REM")

\* What there is where a line begins.
LineStarts == {"NUMBER", "ERROR", "ENDOFINPUT"}

\* What the scanner finds behind a token that is no remark.
Follows(p, q) ==
  IF Token(p) \in {"ENDOFINPUT", "ERROR"} THEN q = p
  ELSE /\ p < q /\ q <= End /\ Token(q) # "REM" /\ Token(q - 1) # "REM"
       /\ Remarks(p + 1, q - 1)
       /\ q > p + 1 => Token(q - 1) = "CR" /\ Token(q - 2) = "REM"
       /\ Token(p) = "CR" \/ q > p + 1 => Token(q) \in LineStarts

\* What IsText says of a token.
LEMMA TextFacts ==
  ASSUME IsText(text)
  PROVE  /\ Len(text) \in Nat
         /\ \A p \in Nat \ {0} :
              /\ p <= Len(text) => Token(p) # "ENDOFINPUT" /\ Token(p) \in STRING
              /\ p > Len(text) => Token(p) = "ENDOFINPUT"
              /\ Token(p) \in Numbers => text[p].value \in Nat
              /\ Token(p) = "VARIABLE" => text[p].value \in Variables
              /\ Token(p) = "REM" => Token(p + 1) = "CR"
              /\ Token(p) = "CR" => Token(p + 1) \in LineStarts \cup {"REM"}
         /\ Token(1) \in LineStarts
<1>1. Len(text) \in Nat
  BY DEF IsText
<1>2. ASSUME NEW p \in Nat \ {0}, p <= Len(text)
      PROVE  text[p] \in [kind : STRING, value : Nat \cup Variables]
  <2>1. p \in 1 .. Len(text)
    BY <1>1, <1>2
  <2>2. QED
    BY <2>1, ElementOfSeq DEF IsText
<1>3. ASSUME NEW p \in Nat \ {0}
      PROVE  /\ p <= Len(text) => Token(p) # "ENDOFINPUT" /\ Token(p) \in STRING
             /\ p > Len(text) => Token(p) = "ENDOFINPUT"
             /\ Token(p) \in Numbers => text[p].value \in Nat
             /\ Token(p) = "VARIABLE" => text[p].value \in Variables
             /\ Token(p) = "REM" => Token(p + 1) = "CR"
             /\ Token(p) = "CR" => Token(p + 1) \in LineStarts \cup {"REM"}
  <2>1. CASE p > Len(text)
    BY <1>1, <2>1 DEF Token, Numbers
  <2>2. CASE p <= Len(text)
    <3>1. p \in 1 .. Len(text) /\ ~ (p > Len(text))
      BY <1>1, <2>2
    <3>2. Token(p) = text[p].kind /\ Token(p) \in STRING
      BY <1>2, <2>2, <3>1 DEF Token
    <3>3. /\ text[p].kind # "ENDOFINPUT"
          /\ text[p].kind \in Numbers => text[p].value \in Nat
          /\ text[p].kind = "VARIABLE" => text[p].value \in Variables
          /\ text[p].kind = "REM" => p < Len(text) /\ text[p + 1].kind = "CR"
          /\ text[p].kind = "CR" /\ p < Len(text) =>
               text[p + 1].kind \in {"NUMBER", "ERROR", "REM"}
      BY <3>1 DEF IsText
    <3>4. p < Len(text) => Token(p + 1) = text[p + 1].kind
      BY <1>1 DEF Token
    <3>5. ~ (p < Len(text)) => Token(p + 1) = "ENDOFINPUT"
      BY <1>1, <2>2 DEF Token
    <3>6. QED
      BY <3>1, <3>2, <3>3, <3>4, <3>5 DEF LineStarts
  <2>3. QED
    BY <1>1, <2>1, <2>2
<1>4. Token(1) \in LineStarts
  <2>1. CASE text = <<>>
    BY <2>1 DEF Token, LineStarts
  <2>2. CASE text # <<>>
    <3>1. text[1].kind \in {"NUMBER", "ERROR"}
      BY <2>2 DEF IsText
    <3>2. Token(1) \in {text[1].kind, "ENDOFINPUT"}
      BY DEF Token
    <3>3. QED
      BY <3>1, <3>2 DEF LineStarts
  <2>3. QED
    BY <2>1, <2>2
<1>5. QED
  BY <1>1, <1>3, <1>4

\* Further on in the text, less of it is ahead.
LEMMA AheadFacts ==
  ASSUME IsText(text)
  PROVE  /\ \A p \in Nat : Ahead(p) \in Nat
         /\ \A p, q \in Nat : p < q /\ p <= Len(text) => Ahead(q) < Ahead(p)
         /\ \A p, q \in Nat : p <= q => Ahead(q) <= Ahead(p)
<1>1. Len(text) \in Nat
  BY TextFacts
<1>2. QED
  BY <1>1 DEF Ahead

\* Behind a token is a later one, and for a token the scanner sees the next.
AfterType(p) ==
  { q \in Places : /\ q >= p
                   /\ Token(p) \notin {"ENDOFINPUT", "ERROR"} => q > p
                   /\ p \in 1 .. End /\ Token(p) # "REM" => Follows(p, q) }

\* tokenizer_next is what its equation says, and gives such a place.
LEMMA AfterSolves ==
  ASSUME IsText(text)
  PROVE  \A p \in Places :
           /\ After[p] \in AfterType(p)
           /\ After[p] = IF Token(p) \in {"ENDOFINPUT", "ERROR"} THEN p
                         ELSE IF Token(p + 1) = "REM" THEN After[p + 2] ELSE p + 1
<1> USE DEF Places
<1> DEFINE D == Places
           e(g, p) == IF Token(p) \in {"ENDOFINPUT", "ERROR"} THEN p
                      ELSE IF Token(p + 1) = "REM" THEN g[p + 2] ELSE p + 1
           Body(g) == [p \in D |-> e(g, p)]
           W == Nat \cup {After[p] : p \in D}
           B == [g \in [D -> W] |-> Body(g)]
           P == [p \in D |-> AfterType(p)]
           m == [p \in D |-> Ahead(p)]
<1>1. m \in [D -> Nat] /\ P \in [D -> SUBSET W] /\ W # {}
  <2>1. m \in [D -> Nat]
    BY AheadFacts DEF Places
  <2>2. ASSUME NEW p \in D PROVE P[p] \in SUBSET W
    BY DEF AfterType
  <2>3. QED
    BY <2>1, <2>2
<1>2. ASSUME NEW g \in [D -> W], NEW h \in [D -> W], NEW p \in D,
             \A y \in D : m[y] < m[p] => g[y] = h[y] /\ g[y] \in P[y]
      PROVE  e(g, p) = e(h, p) /\ e(g, p) \in P[p]
  <2>a. P[p] = AfterType(p)
    <3> HIDE DEF W, e
    <3>1. QED
      OBVIOUS
  <2>0. Len(text) \in Nat /\ End = Len(text) + 1 /\ p \in Nat \ {0}
    BY TextFacts DEF End, Places
  <2>1. CASE Token(p) \in {"ENDOFINPUT", "ERROR"}
    <3>1. p \in AfterType(p)
      BY <2>1 DEF AfterType, Follows
    <3>2. QED
      BY <2>1, <3>1
  <2>2. CASE Token(p) \notin {"ENDOFINPUT", "ERROR"} /\ Token(p + 1) = "REM"
    <3>1. p + 1 <= Len(text) /\ Token(p + 2) = "CR"
      <4>1. p + 1 \in Nat \ {0} /\ (p + 1) + 1 = p + 2
        OBVIOUS
      <4>2. QED
        BY <2>0, <2>2, <4>1, TextFacts
    <3>2. Ahead(p + 2) < Ahead(p)
      <4>1. p \in Nat /\ p + 2 \in Nat /\ p < p + 2 /\ p <= Len(text)
        BY <2>0, <3>1
      <4> HIDE DEF D, W, B, P, m, e, Body
      <4>2. QED
        BY <4>1, AheadFacts
    <3>3. g[p + 2] = h[p + 2] /\ g[p + 2] \in AfterType(p + 2)
      BY <1>2, <3>2
    <3> DEFINE q == g[p + 2]
    <3>4. p + 2 \in 1 .. End
      <4>1. Token(p + 2) # "ENDOFINPUT" /\ p + 2 \in Nat \ {0}
        BY <3>1
      <4>2. QED
        BY <2>0, <4>1, TextFacts
    <3>5. q \in Nat /\ Follows(p + 2, q) /\ q > p + 2
      <4>0. q \in AfterType(p + 2)
        BY <3>3
      <4> HIDE DEF q, W
      <4>1. q \in Nat /\ (Token(p + 2) \notin {"ENDOFINPUT", "ERROR"} => q > p + 2)
        BY <4>0 DEF AfterType
      <4>2. Follows(p + 2, q)
        BY <3>1, <3>4, <4>0 DEF AfterType
      <4>3. QED
        BY <3>1, <4>1, <4>2
    <3> HIDE DEF q
    <3>6. /\ q <= End /\ Token(q) # "REM" /\ Token(q - 1) # "REM" /\ Remarks(p + 3, q - 1)
          /\ q > p + 3 => Token(q - 1) = "CR" /\ Token(q - 2) = "REM"
          /\ Token(q) \in LineStarts
      <4>1. (p + 2) + 1 = p + 3
        OBVIOUS
      <4>2. QED
        BY <3>1, <3>5, <4>1, Zenon DEF Follows
    <3>7. q = p + 3 => q - 1 = p + 2 /\ q - 2 = p + 1
      OBVIOUS
    <3>8. Remarks(p + 1, q - 1)
      <4>1. ASSUME NEW j \in (p + 1) .. (q - 1)
            PROVE  Token(j) = "REM" \/ (Token(j) = "CR" /\ Token(j - 1) = "REM")
        <5>1. j = p + 1 \/ (j = p + 2 /\ j - 1 = p + 1) \/ j \in (p + 3) .. (q - 1)
          BY <3>5
        <5>2. QED
          BY <2>2, <3>1, <3>6, <5>1 DEF Remarks
      <4>2. QED
        BY <4>1 DEF Remarks
    <3>9. Follows(p, q)
      <4>1. p < q /\ q > p + 1 /\ (q > p + 3 \/ q = p + 3)
        BY <3>5
      <4>2. Token(q - 1) = "CR" /\ Token(q - 2) = "REM"
        BY <2>2, <3>1, <3>6, <3>7, <4>1
      <4>3. QED
        BY <2>2, <3>6, <3>8, <4>1, <4>2 DEF Follows
    <3>10. q \in AfterType(p)
      BY <3>5, <3>9 DEF AfterType
    <3>11. QED
      BY <2>2, <3>3, <3>10 DEF q
  <2>3. CASE Token(p) \notin {"ENDOFINPUT", "ERROR"} /\ Token(p + 1) # "REM"
    <3>1. ASSUME p \in 1 .. End, Token(p) # "REM" PROVE Follows(p, p + 1)
      <4>1. p <= Len(text)
        BY <2>0, <2>3, <3>1, TextFacts
      <4>2. Token(p) = "CR" => Token(p + 1) \in LineStarts
        BY <2>3, <3>1, TextFacts DEF LineStarts
      <4>3. Remarks(p + 1, (p + 1) - 1)
        BY DEF Remarks
      <4>4. (p + 1) - 1 = p
        OBVIOUS
      <4>5. QED
        BY <2>0, <2>3, <3>1, <4>1, <4>2, <4>3, <4>4 DEF Follows
    <3>2. p + 1 \in AfterType(p)
      BY <3>1 DEF AfterType
    <3>3. QED
      BY <2>3, <3>2
  <2>4. QED
    BY <2>1, <2>2, <2>3, <2>a
<1>3. Recursive(B, D, P, W, m)
  <2> HIDE DEF D, W, P, m, e
  <2>1. ASSUME NEW g \in [D -> W], NEW h \in [D -> W], NEW x \in D,
               \A y \in D : m[y] < m[x] => g[y] = h[y] /\ g[y] \in P[y]
        PROVE  B[g][x] = B[h][x] /\ B[g][x] \in P[x]
    <3>1. e(g, x) = e(h, x) /\ e(g, x) \in P[x]
      BY <1>2, <2>1
    <3>2. QED
      BY <3>1
  <2> HIDE DEF B
  <2>2. QED
    BY <1>1, <2>1 DEF Recursive
<1>4. PICK g \in [D -> W] : Solution(g, B, D)
  <2> HIDE DEF D, W, B, P, m
  <2>1. QED
    BY <1>3, RecursionSolvable
<1>5. g = Body(g)
  <2>1. \A x \in D : g[x] = B[g][x]
    BY <1>4 DEF Solution
  <2>2. B[g] = Body(g)
    <3> HIDE DEF W, Body
    <3>1. QED
      OBVIOUS
  <2> HIDE DEF D, W, B, e
  <2>3. QED
    BY <2>1, <2>2
<1>6. After = Body(After)
  BY <1>5, Zenon DEF After
<1>7. After \in [D -> W]
  <2>1. \A x \in D : After[x] \in W
    <3> HIDE DEF D, P
    <3>1. QED
      OBVIOUS
  <2> HIDE DEF D, e, W
  <2>2. QED
    BY <1>6, <2>1
<1>8. Solution(After, B, D) /\ \A x \in D : After[x] = e(After, x)
  <2>1. B[After] = Body(After)
    <3> HIDE DEF D, W, Body
    <3>1. QED
      BY <1>7
  <2>2. QED
    <3> HIDE DEF D, W, B, e
    <3>1. QED
      BY <1>6, <2>1 DEF Solution
<1>9. \A x \in D : After[x] \in P[x]
  <2> HIDE DEF D, W, B, P, m
  <2>1. QED
    BY <1>3, <1>7, <1>8, SolutionHasType
<1>10. QED
  BY <1>8, <1>9

-------------------------------------------------------------------------------
(***************************************************************************)
(* Numbers: what tokenizer_num and the operators give.                     *)
(***************************************************************************)
\* It is recursive along the text.
LEMMA AtoiTyped ==
  ASSUME IsText(text)
  PROVE  Atoi \in [Places -> Int]
<1> USE DEF Places
<1> DEFINE D == Places
           e(g, p) == CASE Token(p) \in Numbers -> text[p].value
                        [] Token(p) = "CR"     -> g[p + 1]
                        [] Token(p) = "PLUS"  /\ Token(p + 1) \in Numbers -> text[p + 1].value
                        [] Token(p) = "MINUS" /\ Token(p + 1) \in Numbers -> -text[p + 1].value
                        [] OTHER -> 0
           Body(g) == [p \in D |-> e(g, p)]
           W == Int \cup {Atoi[p] : p \in D}
           B == [g \in [D -> W] |-> Body(g)]
           P == [p \in D |-> Int]
           m == [p \in D |-> Ahead(p)]
<1>1. m \in [D -> Nat] /\ P \in [D -> SUBSET W] /\ W # {}
  <2>1. m \in [D -> Nat]
    BY AheadFacts
  <2>2. QED
    BY <2>1
<1>2. ASSUME NEW g \in [D -> W], NEW h \in [D -> W], NEW p \in D,
             \A y \in D : m[y] < m[p] => g[y] = h[y] /\ g[y] \in P[y]
      PROVE  e(g, p) = e(h, p) /\ e(g, p) \in P[p]
  <2>1. /\ Token(p + 1) \in Numbers => text[p + 1].value \in Int
        /\ Token(p) \in Numbers => text[p].value \in Int
    <3>1. p + 1 \in Nat \ {0}
      OBVIOUS
    <3>2. QED
      BY <3>1, TextFacts
  <2>2. ASSUME Token(p) = "CR" PROVE g[p + 1] = h[p + 1] /\ g[p + 1] \in Int
    <3>1. p <= Len(text)
      BY <2>2, TextFacts
    <3>2. m[p + 1] < m[p]
      BY <3>1, AheadFacts
    <3>3. QED
      BY <1>2, <3>2
  <2> HIDE DEF W
  <2>3. QED
    BY <2>1, <2>2
<1>3. Recursive(B, D, P, W, m)
  <2> HIDE DEF D, W, P, m, e
  <2>1. ASSUME NEW g \in [D -> W], NEW h \in [D -> W], NEW x \in D,
               \A y \in D : m[y] < m[x] => g[y] = h[y] /\ g[y] \in P[y]
        PROVE  B[g][x] = B[h][x] /\ B[g][x] \in P[x]
    <3>1. e(g, x) = e(h, x) /\ e(g, x) \in P[x]
      BY <1>2, <2>1
    <3>2. QED
      BY <3>1
  <2> HIDE DEF B
  <2>2. QED
    BY <1>1, <2>1 DEF Recursive
<1>4. PICK g \in [D -> W] : Solution(g, B, D)
  <2> HIDE DEF D, W, B, P, m
  <2>1. QED
    BY <1>3, RecursionSolvable
<1>5. g = Body(g)
  <2>1. \A x \in D : g[x] = B[g][x]
    BY <1>4 DEF Solution
  <2>2. B[g] = Body(g)
    <3> HIDE DEF W, Body
    <3>1. QED
      OBVIOUS
  <2> HIDE DEF D, W, B, e
  <2>3. QED
    BY <2>1, <2>2
<1>6. Atoi = Body(Atoi)
  BY <1>5 DEF Atoi
<1>7. Atoi \in [D -> W]
  <2>1. \A x \in D : Atoi[x] \in W
    <3> HIDE DEF D, P
    <3>1. QED
      OBVIOUS
  <2> HIDE DEF D, e, W
  <2>2. QED
    BY <1>6, <2>1
<1>8. Solution(Atoi, B, D) /\ \A x \in D : Atoi[x] = e(Atoi, x)
  <2>1. B[Atoi] = Body(Atoi)
    <3> HIDE DEF D, W, Body
    <3>1. QED
      BY <1>7
  <2>2. QED
    <3> HIDE DEF D, W, B, e
    <3>1. QED
      BY <1>6, <2>1 DEF Solution
<1>9. \A x \in D : Atoi[x] \in P[x]
  <2> HIDE DEF D, W, B, P, m
  <2>1. QED
    BY <1>3, <1>7, <1>8, SolutionHasType
<1>10. QED
  <2> HIDE DEF W, e
  <2>1. \A p \in D : Atoi[p] \in Int
    BY <1>9
  <2>2. QED
    BY <1>6, <2>1

\* What tokenizer_num returns is a byte, at whatever token it is called.
LEMMA NumTyped ==
  ASSUME IsText(text)
  PROVE  \A p \in Places : Num(p) \in Bytes
<1>1. \A v \in Int : v % Byte \in Bytes
  BY ByteAssumption DEF Bytes
<1>2. QED
  BY <1>1, AtoiTyped DEF Num

\* The bitwise and of two natural numbers is a natural number.
LEMMA AndTyped == And \in [Nat -> [Nat -> Nat]]
<1> DEFINE D == Nat
           e(g, a) == [b \in Nat |-> IF a = 0 \/ b = 0 THEN 0
                         ELSE 2 * g[a \div 2][b \div 2] + (a % 2) * (b % 2)]
           Body(g) == [a \in D |-> e(g, a)]
           W == [Nat -> Nat] \cup {And[a] : a \in D}
           B == [g \in [D -> W] |-> Body(g)]
           P == [a \in D |-> [Nat -> Nat]]
           m == [a \in D |-> a]
<1>1. m \in [D -> Nat] /\ P \in [D -> SUBSET W] /\ W # {}
  <2>1. [Nat -> Nat] # {}
    <3>1. [a \in Nat |-> 0] \in [Nat -> Nat]
      OBVIOUS
    <3>2. QED
      BY <3>1
  <2>2. QED
    BY <2>1
<1>2. ASSUME NEW g \in [D -> W], NEW h \in [D -> W], NEW a \in D,
             \A y \in D : m[y] < m[a] => g[y] = h[y] /\ g[y] \in P[y]
      PROVE  e(g, a) = e(h, a) /\ e(g, a) \in P[a]
  <2>1. \A n \in Nat : n \div 2 \in Nat /\ n % 2 \in {0, 1} /\ (n # 0 => n \div 2 < n)
    OBVIOUS
  <2>2. a # 0 => g[a \div 2] = h[a \div 2] /\ g[a \div 2] \in [Nat -> Nat]
    BY <1>2, <2>1
  <2> HIDE DEF W
  <2>3. CASE a = 0
    BY <2>3
  <2>4. CASE a # 0
    <3> DEFINE f == g[a \div 2]
               r == a % 2
    <3>1. f \in [Nat -> Nat] /\ h[a \div 2] = f /\ r \in {0, 1}
      BY <2>1, <2>2, <2>4
    <3>2. e(g, a) = [b \in Nat |-> IF b = 0 THEN 0 ELSE 2 * f[b \div 2] + r * (b % 2)]
      BY <2>4
    <3>3. e(h, a) = [b \in Nat |-> IF b = 0 THEN 0 ELSE 2 * f[b \div 2] + r * (b % 2)]
      BY <2>4, <3>1
    <3> HIDE DEF f, r, e
    <3>4. ASSUME NEW b \in Nat PROVE 2 * f[b \div 2] + r * (b % 2) \in Nat
      <4>1. b \div 2 \in Nat /\ b % 2 \in {0, 1}
        BY <2>1
      <4>2. f[b \div 2] \in Nat
        BY <3>1, <4>1
      <4>3. r * (b % 2) \in {0, 1}
        BY <3>1, <4>1
      <4>4. QED
        BY <4>2, <4>3
    <3>5. QED
      BY <3>2, <3>3, <3>4
  <2>5. QED
    BY <2>3, <2>4
<1>3. Recursive(B, D, P, W, m)
  <2> HIDE DEF D, W, P, m, e
  <2>1. ASSUME NEW g \in [D -> W], NEW h \in [D -> W], NEW x \in D,
               \A y \in D : m[y] < m[x] => g[y] = h[y] /\ g[y] \in P[y]
        PROVE  B[g][x] = B[h][x] /\ B[g][x] \in P[x]
    <3>1. e(g, x) = e(h, x) /\ e(g, x) \in P[x]
      BY <1>2, <2>1
    <3>2. QED
      BY <3>1
  <2> HIDE DEF B
  <2>2. QED
    BY <1>1, <2>1 DEF Recursive
<1>4. PICK g \in [D -> W] : Solution(g, B, D)
  <2> HIDE DEF D, W, B, P, m
  <2>1. QED
    BY <1>3, RecursionSolvable
<1>5. g = Body(g)
  <2>1. \A x \in D : g[x] = B[g][x]
    BY <1>4 DEF Solution
  <2>2. B[g] = Body(g)
    <3> HIDE DEF W, Body
    <3>1. QED
      OBVIOUS
  <2> HIDE DEF D, W, B, e
  <2>3. QED
    BY <2>1, <2>2
<1>6. And = Body(And)
  BY <1>5, Zenon DEF And
<1>7. And \in [D -> W]
  <2>1. \A x \in D : And[x] \in W
    <3> HIDE DEF D, P
    <3>1. QED
      OBVIOUS
  <2> HIDE DEF D, e, W
  <2>2. QED
    BY <1>6, <2>1
<1>8. Solution(And, B, D) /\ \A x \in D : And[x] = e(And, x)
  <2>1. B[And] = Body(And)
    <3> HIDE DEF D, W, Body
    <3>1. QED
      BY <1>7
  <2>2. QED
    <3> HIDE DEF D, W, B, e
    <3>1. QED
      BY <1>6, <2>1 DEF Solution
<1>9. \A x \in D : And[x] \in P[x]
  <2> HIDE DEF D, W, B, P, m
  <2>1. QED
    BY <1>3, <1>7, <1>8, SolutionHasType
<1>10. QED
  <2> HIDE DEF W, e
  <2>1. \A a \in D : And[a] \in [Nat -> Nat]
    BY <1>9
  <2>2. QED
    BY <1>6, <2>1

\* The operators of the three rules.
AllOperators == Operators.term \cup Operators.expr \cup Operators.relation

\* An operator makes a number of two numbers. (The operands of a division are
\* factors, which have no sign.)
LEMMA CalculateTyped ==
  ASSUME NEW op \in AllOperators, NEW a \in Int, NEW b \in Int,
         op \in {"SLASH", "MOD"} => b \in Nat
  PROVE  Calculate(op, a, b) \in Int
<1>1. op \in {"ASTR", "SLASH", "MOD", "PLUS", "MINUS", "AND", "OR", "LT", "GT", "EQ"}
  BY DEF AllOperators, Operators
<1>2. a * b \in Int /\ a + b \in Int /\ a - b \in Int
  OBVIOUS
<1>4. op \in {"SLASH", "MOD"} => Quotient(a, b) \in Int
  BY DEF Quotient
<1>5. ASSUME op = "MOD" PROVE a - b * Quotient(a, b) \in Int
  <2> DEFINE q == Quotient(a, b)
  <2>1. q \in Int
    BY <1>4, <1>5
  <2> HIDE DEF q
  <2>2. b * q \in Int
    BY <2>1
  <2>3. a - b * q \in Int
    BY <2>2
  <2>4. QED
    BY <2>3 DEF q
<1>6. And[a % Byte][b % Byte] \in Nat
  <2>1. a % Byte \in Nat /\ b % Byte \in Nat
    BY ByteAssumption
  <2>2. QED
    BY <2>1, AndTyped
<1>7. a + b - And[a % Byte][b % Byte] \in Int
  BY <1>6
<1>8. QED
  <2>1. CASE op \in {"ASTR", "PLUS", "MINUS"}
    BY <1>2, <2>1 DEF Calculate
  <2>2. CASE op = "SLASH"
    BY <1>4, <2>2 DEF Calculate
  <2>3. CASE op = "MOD"
    BY <1>5, <2>3 DEF Calculate
  <2>4. CASE op \in {"AND", "OR"}
    BY <1>6, <1>7, <2>4 DEF Calculate
  <2>5. CASE op \in {"LT", "GT", "EQ"}
    <3>1. /\ op = "LT" => Calculate(op, a, b) = Truth(a < b)
          /\ op = "GT" => Calculate(op, a, b) = Truth(a > b)
          /\ op = "EQ" => Calculate(op, a, b) = Truth(a = b)
      BY DEF Calculate
    <3>2. Truth(a < b) \in Int /\ Truth(a > b) \in Int /\ Truth(a = b) \in Int
      BY DEF Truth
    <3>3. QED
      BY <2>5, <3>1, <3>2
  <2>6. QED
    BY <1>1, <2>1, <2>2, <2>3, <2>4, <2>5

-------------------------------------------------------------------------------
(***************************************************************************)
(* How the scanner moves: from p it can come to q, and in the line of p.   *)
(***************************************************************************)
\* No token from p to q is one the scanner refuses.
NoError(p, q) == \A j \in p .. q : Token(j) # "ERROR"

\* From p the scanner can come to q, and in the line of p.
Moves(p, q) == p <= q /\ Visible(q) /\ NoError(p, q - 1)
\* And it stays in the line.
Reads(p, q) == Moves(p, q) /\ SameLine(p, q - 1)

\* Both can be put together.
LEMMA MovesOn ==
  /\ \A p \in Places : Visible(p) => Reads(p, p)
  /\ \A p, q, r \in Places : Moves(p, q) /\ Moves(q, r) => Moves(p, r)
  /\ \A p, q, r \in Places : Reads(p, q) /\ Reads(q, r) => Reads(p, r)
<1> USE DEF Places
<1>1. ASSUME NEW p \in Places, NEW q \in Places, NEW r \in Places, p <= q, q <= r
      PROVE  p <= r /\ p .. (r - 1) \subseteq (p .. (q - 1)) \cup (q .. (r - 1))
  BY <1>1
<1>2. ASSUME NEW p \in Places PROVE p <= p /\ p .. (p - 1) = {}
  OBVIOUS
<1>3. ASSUME NEW p \in Places, Visible(p) PROVE Reads(p, p)
  BY <1>2, <1>3 DEF Reads, Moves, NoError, SameLine
<1>4. ASSUME NEW p \in Places, NEW q \in Places, NEW r \in Places,
             Moves(p, q), Moves(q, r)
      PROVE  Moves(p, r)
  <2>1. p <= q /\ q <= r /\ Visible(r)
    BY <1>4 DEF Moves
  <2>2. QED
    BY <1>1, <1>4, <2>1 DEF Moves, NoError
<1>5. ASSUME NEW p \in Places, NEW q \in Places, NEW r \in Places,
             Reads(p, q), Reads(q, r)
      PROVE  Reads(p, r)
  <2>1. p <= q /\ q <= r /\ Moves(p, r)
    BY <1>4, <1>5 DEF Moves, Reads
  <2>2. QED
    BY <1>1, <1>5, <2>1 DEF Reads, SameLine
<1>6. QED
  BY <1>3, <1>4, <1>5

\* tokenizer_next goes on, and stays in the line unless it stands at its end.
LEMMA NextMoves ==
  ASSUME IsText(text), NEW p \in Places, Visible(p)
  PROVE  /\ After[p] \in Places /\ Visible(After[p]) /\ Moves(p, After[p])
         /\ Token(p) \in {"ENDOFINPUT", "ERROR"} => After[p] = p
         /\ Token(p) \notin {"ENDOFINPUT", "ERROR"} =>
              After[p] > p /\ Follows(p, After[p])
         /\ Token(p) \notin {"ENDOFINPUT", "ERROR", "CR"} => Reads(p, After[p])
<1> USE DEF Places
<1> DEFINE q == After[p]
<1>1. q \in AfterType(p)
  BY AfterSolves
<1>2. q \in Places /\ Follows(p, q)
  BY <1>1 DEF AfterType, Visible
<1>3. CASE Token(p) \in {"ENDOFINPUT", "ERROR"}
  <2>1. q = p
    BY <1>2, <1>3 DEF Follows
  <2>2. Reads(p, p)
    BY MovesOn
  <2> HIDE DEF q
  <2>3. QED
    BY <1>2, <1>3, <2>1, <2>2 DEF Reads, q
<1>4. CASE Token(p) \notin {"ENDOFINPUT", "ERROR"}
  <2> HIDE DEF q
  <2>1. /\ p < q /\ q <= End /\ Token(q) # "REM" /\ Token(q - 1) # "REM"
        /\ Remarks(p + 1, q - 1)
    BY <1>2, <1>4 DEF Follows
  <2>2. Visible(q)
    BY <1>2, <2>1 DEF Visible
  <2>3. ASSUME NEW j \in p .. (q - 1)
        PROVE  /\ Token(j) # "ERROR"
               /\ Token(p) # "CR" => (Token(j) = "CR" => Token(j - 1) = "REM")
    <3>1. j = p \/ j \in (p + 1) .. (q - 1)
      OBVIOUS
    <3>2. QED
      BY <1>4, <2>1, <3>1 DEF Remarks
  <2>4. Moves(p, q)
    BY <1>2, <2>1, <2>2, <2>3 DEF Moves, NoError
  <2>5. Token(p) # "CR" => Reads(p, q)
    BY <2>3, <2>4 DEF Reads, SameLine
  <2>6. QED
    BY <1>2, <1>4, <2>1, <2>2, <2>4, <2>5 DEF q
<1>5. QED
  BY <1>3, <1>4

\* What a call of the parser can give: it fails, or it has read something,
\* unless it is the rest of a loop; a factor has no sign and an expression is
\* a byte.
ParseType(c) ==
  {Failed} \cup
  { r \in [ok : {TRUE}, value : Int, at : Places] :
      /\ IF c.begun /\ c.rule # "factor" THEN r.at >= c.at
         ELSE r.at > c.at /\ Token(c.at) # "ENDOFINPUT"
      /\ c.rule = "factor" => r.value \in Nat
      /\ c.rule = "expr" => r.value \in Bytes
      /\ Visible(c.at) => Reads(c.at, r.at) }

\* The rule a rule calls has a lower rank.
Rank == [factor |-> 0, term |-> 1, expr |-> 2, relation |-> 3]

\* How a result comes to be one of these.
LEMMA ParsedIn ==
  ASSUME NEW c \in Calls, NEW v \in Int, NEW q \in Places,
         IF c.begun /\ c.rule # "factor" THEN q >= c.at
         ELSE q > c.at /\ Token(c.at) # "ENDOFINPUT",
         c.rule = "factor" => v \in Nat,
         c.rule = "expr" => v \in Bytes,
         Visible(c.at) => Reads(c.at, q)
  PROVE  Parsed(v, q) \in ParseType(c)
<1>1. /\ Parsed(v, q) \in [ok : {TRUE}, value : Int, at : Places]
      /\ Parsed(v, q).value = v /\ Parsed(v, q).at = q
  BY DEF Parsed
<1>2. QED
  BY <1>1 DEF ParseType

\* A factor is one of these if the expression in its parentheses is.
LEMMA FactorTyped ==
  ASSUME IsText(text), NEW env \in [Variables -> Bytes], NEW c \in Calls, c.rule = "factor",
         NEW inner,
         Token(c.at) = "LEFTPAREN" => inner \in ParseType(Call("expr", After[c.at], FALSE, 0))
  PROVE  Factor(c.at, env, inner) \in ParseType(c)
<1> DEFINE p == c.at
           q == After[p]
           d == Call("expr", q, FALSE, 0)
<1>1. p \in Places /\ q \in Places
  BY AfterSolves DEF Calls, AfterType
<1>2. Token(p) \notin {"ENDOFINPUT", "ERROR"} => q > p
  BY <1>1, AfterSolves DEF AfterType
<1>3. Token(p) \notin {"ENDOFINPUT", "ERROR", "CR"} /\ Visible(p) => Reads(p, q)
  BY <1>1, NextMoves
<1>4. \A b \in Bytes : b \in Nat
  BY DEF Bytes
<1>5. Num(p) \in Nat /\ (Token(p) = "VARIABLE" => env[VariableNum(p)] \in Nat)
  <2>1. Num(p) \in Bytes
    BY <1>1, NumTyped
  <2>2. Token(p) = "VARIABLE" => VariableNum(p) \in Variables
    BY <1>1, TextFacts DEF Places, VariableNum
  <2>3. QED
    BY <1>4, <2>1, <2>2
<1> HIDE DEF q
<1>6. CASE Token(p) = "NUMBER"
  <2>1. Parsed(Num(p), q) \in ParseType(c)
    BY <1>1, <1>2, <1>3, <1>5, <1>6, ParsedIn
  <2>2. QED
    BY <1>6, <2>1 DEF Factor, q
<1>7. CASE Token(p) = "VARIABLE"
  <2>1. Parsed(env[VariableNum(p)], q) \in ParseType(c)
    BY <1>1, <1>2, <1>3, <1>5, <1>7, ParsedIn
  <2>2. QED
    BY <1>7, <2>1 DEF Factor, q
<1>8. CASE Token(p) = "LEFTPAREN"
  <2>1. Factor(p, env, inner) = IF inner.ok /\ Token(inner.at) = "RIGHTPAREN"
                                THEN Parsed(inner.value, After[inner.at]) ELSE Failed
    BY <1>8 DEF Factor
  <2>2. inner \in ParseType(d)
    BY <1>8 DEF q
  <2>3. d.rule = "expr" /\ d.at = q /\ d.begun = FALSE
    BY DEF Call
  <2> HIDE DEF d
  <2>4. CASE inner = Failed
    <3>1. ~ inner.ok
      BY <2>4 DEF Failed
    <3>2. QED
      BY <2>1, <3>1 DEF ParseType
  <2>5. CASE inner # Failed /\ Token(inner.at) = "RIGHTPAREN"
    <3>1. /\ inner.value \in Nat /\ inner.at \in Places /\ inner.at > q
          /\ Visible(q) => Reads(q, inner.at)
      BY <1>4, <2>2, <2>3, <2>5 DEF ParseType
    <3> DEFINE r == After[inner.at]
    <3>2. r \in Places /\ r > inner.at
      BY <2>5, <3>1, AfterSolves DEF AfterType
    <3>3. r > p
      BY <1>1, <1>2, <1>8, <3>1, <3>2 DEF Places
    <3>4. ASSUME Visible(p) PROVE Reads(p, r)
      <4>1. Reads(p, q) /\ Visible(q)
        BY <1>3, <1>8, <3>4 DEF Reads, Moves
      <4>2. Reads(q, inner.at) /\ Visible(inner.at)
        BY <3>1, <4>1 DEF Reads, Moves
      <4>3. Reads(inner.at, r)
        BY <2>5, <3>1, <4>2, NextMoves
      <4> HIDE DEF r
      <4>4. Reads(q, r)
        BY <1>1, <3>1, <3>2, <4>2, <4>3, MovesOn
      <4>5. QED
        BY <1>1, <3>2, <4>1, <4>4, MovesOn
    <3> HIDE DEF r
    <3>5. Parsed(inner.value, r) \in ParseType(c)
      <4>1. inner.value \in Int /\ Token(c.at) # "ENDOFINPUT"
        BY <1>8, <3>1
      <4>2. QED
        BY <3>1, <3>2, <3>3, <3>4, <4>1, ParsedIn
    <3>6. QED
      BY <2>1, <2>5, <3>5 DEF r, ParseType
  <2>6. QED
    BY <2>1, <2>4, <2>5 DEF ParseType
<1>9. CASE Token(p) \notin {"NUMBER", "VARIABLE", "LEFTPAREN"}
  BY <1>9 DEF Factor, ParseType
<1>10. QED
  BY <1>6, <1>7, <1>8, <1>9

-------------------------------------------------------------------------------
(***************************************************************************)
(* The parser.  term, expr and relation are one loop, which is recursive   *)
(* along the rest of the text and, where nothing has been read yet, the    *)
(* rank of the rule.                                                       *)
(***************************************************************************)
\* The loop that term, expr and relation have in common: next is what the
\* operand is parsed to, on what the rest of the loop gives.
LoopRest(c, next) ==
  Call(c.rule, next.at, TRUE,
       IF c.begun THEN Calculate(Token(c.at), c.left, next.value) ELSE next.value)

\* What is known of a result that is no failure.
LEMMA ParsedFields ==
  ASSUME NEW c, NEW r \in ParseType(c), r.ok
  PROVE  /\ r.value \in Int /\ r.at \in Places
         /\ IF c.begun /\ c.rule # "factor" THEN r.at >= c.at
            ELSE r.at > c.at /\ Token(c.at) # "ENDOFINPUT"
         /\ c.rule = "factor" => r.value \in Nat
         /\ c.rule = "expr" => r.value \in Bytes
         /\ Visible(c.at) => Reads(c.at, r.at)
<1>1. r # Failed
  BY DEF Failed
<1>2. QED
  BY <1>1 DEF ParseType

\* The operand of a rule is a call of the rule below it.
LEMMA OperandTyped ==
  ASSUME NEW c \in Calls, c.rule # "factor", NEW p \in Places
  PROVE  LET d == Call(Operand[c.rule], p, FALSE, 0)
         IN  /\ d \in Calls /\ d.at = p /\ d.begun = FALSE
             /\ d.rule = Operand[c.rule] /\ Rank[d.rule] + 1 = Rank[c.rule]
             /\ Rank[d.rule] \in 0 .. 3 /\ Rank[c.rule] \in 0 .. 3
             /\ c.rule = "term" => d.rule = "factor"
  BY DEF Calls, Call, Operand, Rank

\* The rest of a loop is a call that is smaller than the one it comes from,
\* and what it gives is right for that.
LEMMA LoopGoesOn ==
  ASSUME IsText(text), NEW c \in Calls, c.rule # "factor",
         NEW p \in Places,
         IF c.begun THEN p = After[c.at] /\ Token(c.at) \in Operators[c.rule] ELSE p = c.at,
         NEW next \in ParseType(Call(Operand[c.rule], p, FALSE, 0)), next.ok
  PROVE  /\ LoopRest(c, next) \in Calls
         /\ next.at > c.at /\ Token(c.at) # "ENDOFINPUT"
         /\ ParseType(LoopRest(c, next)) \in SUBSET ParseType(c)
<1> DEFINE d == Call(Operand[c.rule], p, FALSE, 0)
           k == LoopRest(c, next)
<1>1. /\ d \in Calls /\ d.at = p /\ d.begun = FALSE /\ d.rule = Operand[c.rule]
      /\ c.rule = "term" => d.rule = "factor"
  BY OperandTyped
<1>2. /\ c.at \in Places /\ c.left \in Int /\ c.begun \in BOOLEAN
      /\ c.rule \in {"term", "expr", "relation"}
  BY DEF Calls
<1>3. /\ next.value \in Int /\ next.at \in Places /\ next.at > p /\ Token(p) # "ENDOFINPUT"
      /\ d.rule = "factor" => next.value \in Nat
      /\ Visible(p) => Reads(p, next.at)
  <2> HIDE DEF d
  <2>1. QED
    BY <1>1, ParsedFields DEF d
<1>4. c.begun => /\ Token(c.at) \in AllOperators
                 /\ Token(c.at) \notin {"ENDOFINPUT", "ERROR", "CR"}
                 /\ c.rule # "term" => Token(c.at) \notin {"SLASH", "MOD"}
  BY <1>2 DEF AllOperators, Operators
<1>5. c.begun => Calculate(Token(c.at), c.left, next.value) \in Int
  BY <1>1, <1>2, <1>3, <1>4, CalculateTyped
<1>6. /\ k \in Calls /\ k.rule = c.rule /\ k.at = next.at /\ k.begun = TRUE
  BY <1>2, <1>3, <1>5 DEF LoopRest, Call, Calls
<1>7. p >= c.at
  BY <1>2, <1>4, AfterSolves DEF AfterType, Places
<1>8. next.at > c.at
  BY <1>2, <1>3, <1>7 DEF Places
<1>9. Token(c.at) # "ENDOFINPUT"
  BY <1>3, <1>4
<1>10. ParseType(k) \in SUBSET ParseType(c)
  <2>1. Visible(c.at) => Reads(c.at, next.at)
    <3>1. SUFFICES ASSUME Visible(c.at) PROVE Reads(c.at, next.at)
      OBVIOUS
    <3>2. Visible(p) /\ Reads(c.at, p)
      <4>1. CASE c.begun
        <5>1. Reads(c.at, p)
          BY <1>2, <1>4, <3>1, <4>1, NextMoves
        <5>2. QED
          BY <5>1 DEF Reads, Moves
      <4>2. CASE ~ c.begun
        BY <1>2, <3>1, <4>2, MovesOn
      <4>3. QED
        BY <4>1, <4>2
    <3>3. QED
      BY <1>2, <1>3, <3>2, MovesOn
  <2>2. Visible(c.at) => Visible(next.at)
    BY <2>1 DEF Reads, Moves
  <2>3. ASSUME NEW r \in ParseType(k), r # Failed PROVE r \in ParseType(c)
    <3>1. /\ r \in [ok : {TRUE}, value : Int, at : Places] /\ r.at >= next.at
          /\ c.rule = "expr" => r.value \in Bytes
          /\ Visible(next.at) => Reads(next.at, r.at)
      <4> HIDE DEF k
      <4>1. QED
        BY <1>2, <1>6, <2>3 DEF ParseType
    <3>2. r.at > c.at
      BY <1>2, <1>3, <1>8, <3>1 DEF Places
    <3>3. Visible(c.at) => Reads(c.at, r.at)
      BY <1>2, <1>3, <2>1, <2>2, <3>1, MovesOn
    <3>4. QED
      <4>1. r.at > c.at /\ r.at >= c.at
        BY <1>2, <3>1, <3>2 DEF Places
      <4>2. IF c.begun /\ c.rule # "factor" THEN r.at >= c.at
            ELSE r.at > c.at /\ Token(c.at) # "ENDOFINPUT"
        BY <1>9, <4>1, Zenon
      <4>3. r \in { s \in [ok : {TRUE}, value : Int, at : Places] :
                      /\ IF c.begun /\ c.rule # "factor" THEN s.at >= c.at
                         ELSE s.at > c.at /\ Token(c.at) # "ENDOFINPUT"
                      /\ c.rule = "factor" => s.value \in Nat
                      /\ c.rule = "expr" => s.value \in Bytes
                      /\ Visible(c.at) => Reads(c.at, s.at) }
        BY <3>1, <3>3, <4>2, Zenon
      <4>4. QED
        BY <4>3, Zenon DEF ParseType
  <2>4. QED
    BY <2>3 DEF ParseType
<1>11. QED
  BY <1>6, <1>8, <1>9, <1>10

\* The parser ends, whatever the text, and gives a result of this type.
LEMMA RuleTyped ==
  ASSUME IsText(text), NEW env \in [Variables -> Bytes], NEW rule, NEW start,
         Call(rule, start, FALSE, 0) \in Calls
  PROVE  Parse(rule, start, env) \in ParseType(Call(rule, start, FALSE, 0))
<1> DEFINE D == Calls
           inner(g, c) == g[Call("expr", After[c.at], FALSE, 0)]
           next(g, c) == g[Call(Operand[c.rule], IF c.begun THEN After[c.at] ELSE c.at, FALSE, 0)]
           e(g, c) ==
             IF c.rule = "factor" THEN Factor(c.at, env, inner(g, c))
             ELSE IF c.begun /\ Token(c.at) \notin Operators[c.rule]
             THEN Parsed(IF c.rule = "expr" THEN c.left % Byte ELSE c.left, c.at)
             ELSE IF ~ next(g, c).ok THEN Failed
             ELSE g[LoopRest(c, next(g, c))]
           Body(g) == [c \in D |-> e(g, c)]
           R == CHOOSE f : f = Body(f)
           W == (UNION {ParseType(c) : c \in D}) \cup {R[c] : c \in D}
           B == [g \in [D -> W] |-> Body(g)]
           P == [c \in D |-> ParseType(c)]
           m == [c \in D |-> 4 * Ahead(c.at) + Rank[c.rule]]
<1>0. ASSUME NEW c \in D
      PROVE  /\ c.at \in Places /\ c.left \in Int /\ c.begun \in BOOLEAN
             /\ c.rule \in {"factor", "term", "expr", "relation"}
             /\ After[c.at] \in Places
             /\ Ahead(c.at) \in Nat /\ Rank[c.rule] \in 0 .. 3
             /\ m[c] = 4 * Ahead(c.at) + Rank[c.rule] /\ P[c] = ParseType(c)
  <2>1. /\ c.at \in Places /\ c.left \in Int /\ c.begun \in BOOLEAN
        /\ c.rule \in {"factor", "term", "expr", "relation"}
    BY DEF Calls
  <2>2. After[c.at] \in Places
    BY <2>1, AfterSolves DEF AfterType
  <2>3. Ahead(c.at) \in Nat
    BY <2>1, AheadFacts DEF Places
  <2>4. Rank[c.rule] \in 0 .. 3
    BY <2>1 DEF Rank
  <2> HIDE DEF W
  <2>5. QED
    BY <2>1, <2>2, <2>3, <2>4
<1>1. m \in [D -> Nat] /\ P \in [D -> SUBSET W] /\ W # {}
  <2>1. ASSUME NEW c \in D PROVE 4 * Ahead(c.at) + Rank[c.rule] \in Nat
    BY <1>0
  <2>2. m \in [D -> Nat]
    <3> HIDE DEF D
    <3>1. QED
      BY <2>1
  <2>3. W # {} /\ \A c \in D : ParseType(c) \in SUBSET W
    <3> HIDE DEF R, D
    <3>1. Call(rule, start, FALSE, 0) \in D
      BY DEF D
    <3>2. Failed \in ParseType(Call(rule, start, FALSE, 0))
      BY DEF ParseType
    <3>3. QED
      BY <3>1, <3>2
  <2>4. P \in [D -> SUBSET W]
    <3> HIDE DEF D, W
    <3>1. QED
      BY <2>3
  <2>5. QED
    BY <2>2, <2>3, <2>4
<1>2. ASSUME NEW g \in [D -> W], NEW h \in [D -> W], NEW c \in D,
             \A y \in D : m[y] < m[c] => g[y] = h[y] /\ g[y] \in P[y]
      PROVE  e(g, c) = e(h, c) /\ e(g, c) \in P[c]
  <2>1. ASSUME NEW y \in D,
               \/ Ahead(y.at) < Ahead(c.at)
               \/ Ahead(y.at) = Ahead(c.at) /\ Rank[y.rule] < Rank[c.rule]
        PROVE  g[y] = h[y] /\ g[y] \in ParseType(y)
    <3> HIDE DEF D, W, m, P
    <3>1. m[y] < m[c]
      BY <1>0, <2>1
    <3>2. g[y] \in P[y] /\ g[y] = h[y]
      BY <1>2, <3>1
    <3>3. QED
      BY <1>0, <3>2
  <2> HIDE DEF W, m
  <2>2. Len(text) \in Nat /\ (Token(c.at) # "ENDOFINPUT" => c.at <= Len(text))
    BY <1>0, TextFacts DEF Places
  <2>3. CASE c.rule = "factor"
    <3> DEFINE y == Call("expr", After[c.at], FALSE, 0)
    <3>1. e(g, c) = Factor(c.at, env, inner(g, c)) /\ e(h, c) = Factor(c.at, env, inner(h, c))
      BY <2>3
    <3>2. ASSUME Token(c.at) = "LEFTPAREN"
          PROVE  inner(g, c) = inner(h, c) /\ inner(g, c) \in ParseType(y)
      <4>1. y \in D /\ y.at = After[c.at]
        BY <1>0 DEF Call, Calls
      <4>2. After[c.at] > c.at
        BY <1>0, <3>2, AfterSolves DEF AfterType
      <4>3. Ahead(y.at) < Ahead(c.at)
        <5> HIDE DEF y
        <5>1. c.at \in Nat /\ y.at \in Nat /\ c.at < y.at /\ c.at <= Len(text)
          BY <1>0, <2>2, <3>2, <4>1, <4>2 DEF Places
        <5>2. QED
          BY <5>1, AheadFacts
      <4>4. g[y] = h[y] /\ g[y] \in ParseType(y)
        BY <2>1, <4>1, <4>3
      <4>5. QED
        BY <4>4
    <3>3. Factor(c.at, env, inner(g, c)) \in ParseType(c)
      <4> HIDE DEF inner
      <4>1. QED
        BY <2>3, <3>2, FactorTyped
    <3>4. Factor(c.at, env, inner(g, c)) = Factor(c.at, env, inner(h, c))
      <4> HIDE DEF inner
      <4>1. CASE Token(c.at) = "LEFTPAREN"
        BY <3>2, <4>1
      <4>2. CASE Token(c.at) # "LEFTPAREN"
        BY <4>2 DEF Factor
      <4>3. QED
        BY <4>1, <4>2
    <3>5. P[c] = ParseType(c)
      BY <1>0
    <3> HIDE DEF e, inner, P
    <3>6. QED
      BY <3>1, <3>3, <3>4, <3>5
  <2>4. CASE c.rule # "factor" /\ c.begun /\ Token(c.at) \notin Operators[c.rule]
    <3> DEFINE v == IF c.rule = "expr" THEN c.left % Byte ELSE c.left
    <3>1. e(g, c) = Parsed(v, c.at) /\ e(h, c) = Parsed(v, c.at)
      BY <2>4
    <3>2. v \in Int /\ (c.rule = "expr" => v \in Bytes)
      BY <1>0, ByteAssumption DEF Bytes
    <3>3. Visible(c.at) => Reads(c.at, c.at)
      BY <1>0, MovesOn
    <3>4. c.at >= c.at
      BY <1>0 DEF Places
    <3> HIDE DEF v
    <3>5. Parsed(v, c.at) \in ParseType(c)
      BY <1>0, <2>4, <3>2, <3>3, <3>4, ParsedIn
    <3>6. P[c] = ParseType(c)
      BY <1>0
    <3> HIDE DEF e, P
    <3>7. QED
      BY <3>1, <3>5, <3>6
  <2>5. CASE c.rule # "factor" /\ ~ (c.begun /\ Token(c.at) \notin Operators[c.rule])
    <3> DEFINE p == IF c.begun THEN After[c.at] ELSE c.at
               d == Call(Operand[c.rule], p, FALSE, 0)
               r == next(g, c)
               k == LoopRest(c, r)
    <3>1. /\ d \in D /\ d.at = p /\ d.begun = FALSE /\ p \in Places
          /\ Rank[d.rule] + 1 = Rank[c.rule] /\ Rank[d.rule] \in 0 .. 3
      <4>1. p \in Places
        BY <1>0
      <4> HIDE DEF p
      <4>2. QED
        BY <2>5, <4>1, OperandTyped
    <3>2. g[d] = h[d] /\ g[d] \in ParseType(d)
      <4>1. Ahead(d.at) < Ahead(c.at) \/ (Ahead(d.at) = Ahead(c.at) /\ Rank[d.rule] < Rank[c.rule])
        <5>1. CASE ~ c.begun
          <6>1. d.at = c.at
            BY <3>1, <5>1
          <6> HIDE DEF d
          <6>2. QED
            BY <1>0, <3>1, <6>1
        <5>2. CASE c.begun
          <6>1. Token(c.at) \notin {"ENDOFINPUT", "ERROR"}
            BY <1>0, <2>5, <5>2 DEF Operators
          <6>2. After[c.at] > c.at /\ d.at = After[c.at]
            BY <1>0, <3>1, <5>2, <6>1, AfterSolves DEF AfterType
          <6> HIDE DEF d
          <6>3. QED
            BY <1>0, <2>2, <6>1, <6>2, AheadFacts DEF Places
        <5>3. QED
          BY <1>0, <5>1, <5>2
      <4> HIDE DEF d
      <4>2. QED
        BY <2>1, <3>1, <4>1
    <3>3. r = g[d] /\ next(h, c) = r
      BY <3>2
    <3>4. r \in ParseType(Call(Operand[c.rule], p, FALSE, 0))
      BY <3>2, <3>3
    <3>5. /\ e(g, c) = IF ~ next(g, c).ok THEN Failed ELSE g[LoopRest(c, next(g, c))]
          /\ e(h, c) = IF ~ next(h, c).ok THEN Failed ELSE h[LoopRest(c, next(h, c))]
      <4> HIDE DEF next, inner, W, P, B, m, R
      <4>1. QED
        BY <2>5, Zenon
    <3>6. /\ e(g, c) = IF ~ r.ok THEN Failed ELSE g[k]
          /\ e(h, c) = IF ~ r.ok THEN Failed ELSE h[k]
      <4> HIDE DEF e, next, LoopRest
      <4>1. next(g, c) = r /\ next(h, c) = r
        BY <3>3
      <4>2. QED
        BY <3>5, <4>1, Zenon
    <3>7. ASSUME r.ok PROVE g[k] = h[k] /\ g[k] \in ParseType(c)
      <4>1. IF c.begun THEN p = After[c.at] /\ Token(c.at) \in Operators[c.rule] ELSE p = c.at
        BY <2>5
      <4> HIDE DEF r, p
      <4>2. /\ k \in D /\ r.at > c.at /\ Token(c.at) # "ENDOFINPUT"
            /\ ParseType(k) \in SUBSET ParseType(c)
        BY <2>5, <3>1, <3>4, <3>7, <4>1, LoopGoesOn
      <4>3. k.at = r.at
        BY DEF LoopRest, Call
      <4> HIDE DEF k
      <4>4. Ahead(k.at) < Ahead(c.at)
        <5>1. k.at \in Places /\ c.at \in Places
          BY <1>0, <4>2
        <5>2. QED
          BY <2>2, <4>2, <4>3, <5>1, AheadFacts DEF Places
      <4>5. QED
        BY <2>1, <4>2, <4>4
    <3>8. P[c] = ParseType(c) /\ Failed \in ParseType(c)
      BY <1>0 DEF ParseType
    <3> HIDE DEF e, P, next, k, r, W
    <3>9. QED
      BY <3>6, <3>7, <3>8
  <2> HIDE DEF e, P
  <2>6. QED
    BY <2>3, <2>4, <2>5
<1>3. Recursive(B, D, P, W, m)
  <2> HIDE DEF D, W, P, m, e
  <2>1. ASSUME NEW g \in [D -> W], NEW h \in [D -> W], NEW x \in D,
               \A y \in D : m[y] < m[x] => g[y] = h[y] /\ g[y] \in P[y]
        PROVE  B[g][x] = B[h][x] /\ B[g][x] \in P[x]
    <3>1. e(g, x) = e(h, x) /\ e(g, x) \in P[x]
      BY <1>2, <2>1
    <3>2. QED
      BY <3>1
  <2> HIDE DEF B
  <2>2. QED
    BY <1>1, <2>1 DEF Recursive
<1>4. PICK g \in [D -> W] : Solution(g, B, D)
  <2> HIDE DEF D, W, B, P, m
  <2>1. QED
    BY <1>3, RecursionSolvable
<1>5. g = Body(g)
  <2>1. \A x \in D : g[x] = B[g][x]
    BY <1>4 DEF Solution
  <2>2. B[g] = Body(g)
    <3> HIDE DEF W, Body
    <3>1. QED
      OBVIOUS
  <2> HIDE DEF D, W, B, e
  <2>3. QED
    BY <2>1, <2>2
<1>6. R = Body(R)
  <2> HIDE DEF Body
  <2>1. QED
    BY <1>5, Zenon
<1>7. R \in [D -> W]
  <2>1. \A x \in D : R[x] \in W
    <3> HIDE DEF D, P, R
    <3>1. QED
      OBVIOUS
  <2> HIDE DEF D, e, W, R
  <2>2. QED
    BY <1>6, <2>1
<1>8. Solution(R, B, D) /\ \A x \in D : R[x] = e(R, x)
  <2>1. B[R] = Body(R)
    <3> HIDE DEF D, W, Body, R
    <3>1. QED
      BY <1>7
  <2>2. QED
    <3> HIDE DEF D, W, B, e, R
    <3>1. QED
      BY <1>6, <2>1 DEF Solution
<1>9. \A x \in D : R[x] \in P[x]
  <2> HIDE DEF D, W, B, P, m
  <2>1. QED
    BY <1>3, <1>7, <1>8, SolutionHasType
<1>10. Parse(rule, start, env) = R[Call(rule, start, FALSE, 0)]
  BY Zenon DEF Parse, LoopRest
<1>11. QED
  <2> HIDE DEF R, P, W
  <2>1. R[Call(rule, start, FALSE, 0)] \in P[Call(rule, start, FALSE, 0)]
    BY <1>9
  <2>2. P[Call(rule, start, FALSE, 0)] = ParseType(Call(rule, start, FALSE, 0))
    BY <1>0
  <2>3. QED
    BY <1>10, <2>1, <2>2

-------------------------------------------------------------------------------
(***************************************************************************)
(* The ends of lines: the inner loop of jump_linenum_slow.                 *)
(***************************************************************************)
\* What the parser gives for a rule of which a statement asks.
LEMMA ParseTyped ==
  ASSUME IsText(text), NEW env \in [Variables -> Bytes],
         NEW rule \in {"expr", "relation"}, NEW p \in Places
  PROVE  LET r == Parse(rule, p, env)
         IN  /\ ~ r.ok => r.at = 0
             /\ r.ok => /\ r.value \in Int /\ (rule = "expr" => r.value \in Bytes)
                        /\ r.at \in Places /\ r.at > p /\ Token(p) # "ENDOFINPUT"
                        /\ Visible(p) => Reads(p, r.at)
<1> DEFINE c == Call(rule, p, FALSE, 0)
           r == Parse(rule, p, env)
<1>1. c \in Calls /\ c.rule = rule /\ c.at = p /\ c.begun = FALSE
  BY DEF Call, Calls
<1>2. r \in ParseType(c)
  BY <1>1, RuleTyped
<1> HIDE DEF c, r
<1>3. CASE r = Failed
  <2>1. ~ r.ok /\ r.at = 0
    BY <1>3 DEF Failed
  <2>2. QED
    BY <2>1 DEF r
<1>4. CASE r # Failed
  <2>1. r.ok
    BY <1>2, <1>4 DEF ParseType
  <2>2. QED
    BY <1>1, <1>2, <2>1, ParsedFields DEF r
<1>5. QED
  BY <1>3, <1>4

\* The first end of a line behind p, if no error is in the way.
LineEndType(p) ==
  {0} \cup { e \in Places :
               /\ e >= p /\ Token(e) \in {"CR", "ENDOFINPUT"}
               /\ p <= Len(text) => e > p
               /\ Visible(p) => Visible(e) /\ NoError(p, e - 1) /\ SameLine(p + 1, e - 1) }

\* The search for it is what its equation says.
LEMMA LineEndSolves ==
  ASSUME IsText(text)
  PROVE  \A p \in Places :
           /\ LineEnd[p] \in LineEndType(p)
           /\ LineEnd[p] = LET q == After[p]
                           IN  IF Token(q) \in {"CR", "ENDOFINPUT"} THEN q
                               ELSE IF Token(q) = "ERROR" THEN 0
                               ELSE LineEnd[q]
<1> DEFINE D == Places
           e(g, p) == IF Token(After[p]) \in {"CR", "ENDOFINPUT"} THEN After[p]
                      ELSE IF Token(After[p]) = "ERROR" THEN 0
                      ELSE g[After[p]]
           Body(g) == [p \in D |-> e(g, p)]
           W == Nat \cup {LineEnd[p] : p \in D}
           B == [g \in [D -> W] |-> Body(g)]
           P == [p \in D |-> LineEndType(p)]
           m == [p \in D |-> Ahead(p)]
<1>1. m \in [D -> Nat] /\ P \in [D -> SUBSET W] /\ W # {}
  <2>1. m \in [D -> Nat]
    BY AheadFacts DEF Places
  <2>2. ASSUME NEW p \in D PROVE P[p] \in SUBSET W
    BY DEF LineEndType, Places
  <2>3. QED
    BY <2>1, <2>2
<1>2. ASSUME NEW g \in [D -> W], NEW h \in [D -> W], NEW p \in D,
             \A y \in D : m[y] < m[p] => g[y] = h[y] /\ g[y] \in P[y]
      PROVE  e(g, p) = e(h, p) /\ e(g, p) \in P[p]
  <2> DEFINE q == After[p]
  <2> HIDE DEF W, q
  <2>0. P[p] = LineEndType(p)
    OBVIOUS
  <2>1. /\ q \in Places /\ q >= p
        /\ Token(p) \notin {"ENDOFINPUT", "ERROR"} => q > p
        /\ Visible(p) => Visible(q) /\ NoError(p, q - 1) /\ SameLine(p + 1, q - 1)
    <3>1. /\ q \in Places /\ q >= p
          /\ Token(p) \notin {"ENDOFINPUT", "ERROR"} => q > p
      BY AfterSolves DEF q, AfterType
    <3>2. ASSUME Visible(p) PROVE Visible(q) /\ NoError(p, q - 1)
      BY <3>2, NextMoves DEF q, Moves
    <3>3. ASSUME Visible(p) PROVE SameLine(p + 1, q - 1)
      <4>1. q = p \/ Remarks(p + 1, q - 1)
        BY <3>3, NextMoves DEF q, Follows
      <4>2. q = p => (p + 1) .. (q - 1) = {}
        BY DEF Places
      <4>3. QED
        BY <4>1, <4>2 DEF Remarks, SameLine
    <3>4. QED
      BY <3>1, <3>2, <3>3
  <2>2. Len(text) \in Nat /\ (Token(p) = "ENDOFINPUT" <=> p > Len(text))
    BY TextFacts DEF Places
  <2>3. Token(p) = "ERROR" => Token(q) = "ERROR"
    <3>1. SUFFICES ASSUME Token(p) = "ERROR" PROVE q = p
      OBVIOUS
    <3>2. QED
      BY <3>1, AfterSolves DEF q
  <2>4. CASE Token(q) \in {"CR", "ENDOFINPUT"}
    <3>1. q \in LineEndType(p)
      BY <2>1, <2>2, <2>3, <2>4 DEF LineEndType
    <3>2. QED
      BY <2>0, <2>4, <3>1 DEF q
  <2>5. CASE Token(q) = "ERROR"
    BY <2>0, <2>5 DEF q, LineEndType
  <2>6. CASE Token(q) \notin {"CR", "ENDOFINPUT", "ERROR"}
    <3>0. Token(p) \notin {"ENDOFINPUT", "ERROR"} /\ p < q /\ p <= Len(text)
      <4>1. Token(p) = "ENDOFINPUT" => q = p
        BY AfterSolves DEF q
      <4>2. QED
        BY <2>1, <2>2, <2>3, <2>6, <4>1 DEF Places
    <3>1. Ahead(q) < Ahead(p)
      BY <2>1, <2>2, <3>0, AheadFacts DEF Places
    <3>2. g[q] = h[q] /\ g[q] \in LineEndType(q)
      BY <1>2, <2>1, <3>1
    <3> DEFINE r == g[q]
    <3> HIDE DEF r
    <3>3. r \in LineEndType(p)
      <4>1. CASE r = 0
        BY <4>1 DEF LineEndType
      <4>2. CASE r # 0
        <5>1. /\ r \in Places /\ r >= q /\ Token(r) \in {"CR", "ENDOFINPUT"}
              /\ Visible(q) => Visible(r) /\ NoError(q, r - 1) /\ SameLine(q + 1, r - 1)
          BY <3>2, <4>2 DEF r, LineEndType
        <5>2. r >= p /\ r > p
          BY <2>1, <3>0, <5>1 DEF Places
        <5>3. ASSUME Visible(p)
              PROVE  Visible(r) /\ NoError(p, r - 1) /\ SameLine(p + 1, r - 1)
          <6>1. ASSUME NEW j \in p .. (r - 1)
                PROVE  j \in p .. (q - 1) \/ j = q \/ j \in (q + 1) .. (r - 1)
            BY <2>1, <5>1 DEF Places
          <6>2. NoError(p, r - 1)
            <7>1. ASSUME NEW j \in p .. (r - 1)
                  PROVE  j \in p .. (q - 1) \/ j \in q .. (r - 1)
              BY <2>1, <5>1 DEF Places
            <7>2. QED
              BY <2>1, <5>1, <5>3, <7>1 DEF NoError
          <6>3. SameLine(p + 1, r - 1)
            <7>1. ASSUME NEW j \in (p + 1) .. (r - 1)
                  PROVE  j \in (p + 1) .. (q - 1) \/ j = q \/ j \in (q + 1) .. (r - 1)
              BY <2>1, <5>1 DEF Places
            <7>2. QED
              BY <2>1, <2>6, <5>1, <5>3, <7>1 DEF SameLine
          <6>4. QED
            BY <2>1, <5>1, <5>3, <6>2, <6>3
        <5>4. QED
          BY <5>1, <5>2, <5>3 DEF LineEndType
      <4>3. QED
        BY <4>1, <4>2
    <3>4. QED
      BY <2>0, <2>6, <3>2, <3>3 DEF q, r
  <2>7. QED
    BY <2>4, <2>5, <2>6
<1>3. Recursive(B, D, P, W, m)
  <2> HIDE DEF D, W, P, m, e
  <2>1. ASSUME NEW g \in [D -> W], NEW h \in [D -> W], NEW x \in D,
               \A y \in D : m[y] < m[x] => g[y] = h[y] /\ g[y] \in P[y]
        PROVE  B[g][x] = B[h][x] /\ B[g][x] \in P[x]
    <3>1. e(g, x) = e(h, x) /\ e(g, x) \in P[x]
      BY <1>2, <2>1
    <3>2. QED
      BY <3>1
  <2> HIDE DEF B
  <2>2. QED
    BY <1>1, <2>1 DEF Recursive
<1>4. PICK g \in [D -> W] : Solution(g, B, D)
  <2> HIDE DEF D, W, B, P, m
  <2>1. QED
    BY <1>3, RecursionSolvable
<1>5. g = Body(g)
  <2>1. \A x \in D : g[x] = B[g][x]
    BY <1>4 DEF Solution
  <2>2. B[g] = Body(g)
    <3> HIDE DEF W, Body
    <3>1. QED
      OBVIOUS
  <2> HIDE DEF D, W, B, e
  <2>3. QED
    BY <2>1, <2>2
<1>6. LineEnd = Body(LineEnd)
  BY <1>5, Zenon DEF LineEnd
<1>7. LineEnd \in [D -> W]
  <2>1. \A x \in D : LineEnd[x] \in W
    <3> HIDE DEF D, P
    <3>1. QED
      OBVIOUS
  <2> HIDE DEF D, e, W
  <2>2. QED
    BY <1>6, <2>1
<1>8. Solution(LineEnd, B, D) /\ \A x \in D : LineEnd[x] = e(LineEnd, x)
  <2>1. B[LineEnd] = Body(LineEnd)
    <3> HIDE DEF D, W, Body
    <3>1. QED
      BY <1>7
  <2>2. QED
    <3> HIDE DEF D, W, B, e
    <3>1. QED
      BY <1>6, <2>1 DEF Solution
<1>9. \A x \in D : LineEnd[x] \in P[x]
  <2> HIDE DEF D, W, B, P, m
  <2>1. QED
    BY <1>3, <1>7, <1>8, SolutionHasType
<1>10. ASSUME NEW p \in Places PROVE LineEnd[p] \in LineEndType(p)
  BY <1>9
<1>11. ASSUME NEW p \in Places PROVE LineEnd[p] = e(LineEnd, p)
  BY <1>8
<1>12. QED
  BY <1>10, <1>11

-------------------------------------------------------------------------------
(***************************************************************************)
(* The lines: nothing the scanner sees lies between a token and the next,  *)
(* so the searches miss no end of a line and no line.                      *)
(***************************************************************************)
\* Nothing that the scanner sees lies between a token and the next.
LEMMA NextIsNext ==
  ASSUME IsText(text), NEW p \in Places, NEW c \in Places,
         Visible(p), Visible(c), p < c,
         Token(p) \notin {"ENDOFINPUT", "ERROR"}
  PROVE  After[p] <= c
<1> DEFINE q == After[p]
<1>1. q \in Places /\ Follows(p, q)
  BY NextMoves
<1> HIDE DEF q
<1>2. Remarks(p + 1, q - 1)
  BY <1>1 DEF Follows
<1>3. SUFFICES ASSUME c < q PROVE FALSE
  BY <1>1 DEF q, Places
<1>4. c \in (p + 1) .. (q - 1) /\ c > 1
  BY <1>1, <1>3 DEF Places
<1>5. Token(c) # "REM" /\ Token(c - 1) # "REM"
  BY <1>4 DEF Visible
<1>6. QED
  BY <1>2, <1>4, <1>5 DEF Remarks

\* The search for the end of a line finds the first that the scanner sees.
LEMMA LineEndFinds ==
  ASSUME IsText(text), NEW c \in Places, Visible(c), Token(c) \in {"CR", "ENDOFINPUT"}
  PROVE  \A p \in Places :
           Visible(p) /\ p < c /\ NoError(p, c - 1) => LineEnd[p] \in (p + 1) .. c
<1> DEFINE m == [p \in Places |-> Ahead(p)]
           R == { p \in Places :
                    Visible(p) /\ p < c /\ NoError(p, c - 1) => LineEnd[p] \in (p + 1) .. c }
<1>1. ASSUME NEW p \in Places, \A y \in Places : m[y] < m[p] => y \in R
      PROVE  p \in R
  <2>1. SUFFICES ASSUME Visible(p), p < c, NoError(p, c - 1)
                 PROVE  LineEnd[p] \in (p + 1) .. c
    OBVIOUS
  <2> DEFINE q == After[p]
  <2>2. p < Len(text) + 1 /\ c <= Len(text) + 1 /\ Len(text) \in Nat
    BY <2>1, TextFacts DEF Places, Visible, End
  <2>3. Token(p) \notin {"ENDOFINPUT", "ERROR"}
    <3>1. Token(p) # "ERROR"
      BY <2>1 DEF NoError, Places
    <3>2. Token(p) # "ENDOFINPUT"
      BY <2>2, TextFacts DEF Places
    <3>3. QED
      BY <3>1, <3>2
  <2>4. q \in Places /\ Visible(q) /\ q > p /\ q <= c
    BY <2>1, <2>3, NextMoves, NextIsNext
  <2>5. LineEnd[p] = IF Token(q) \in {"CR", "ENDOFINPUT"} THEN q
                     ELSE IF Token(q) = "ERROR" THEN 0 ELSE LineEnd[q]
    BY LineEndSolves
  <2>6. m[q] < m[p]
    <3>1. Ahead(q) < Ahead(p)
      <4> HIDE DEF q, m
      <4>1. p \in Nat /\ q \in Nat /\ p < q /\ p <= Len(text)
        BY <2>2, <2>4 DEF Places
      <4>2. QED
        BY <4>1, AheadFacts
    <3>2. QED
      BY <2>4, <3>1
  <2> HIDE DEF q, m
  <2>7. CASE Token(q) \in {"CR", "ENDOFINPUT"}
    BY <2>4, <2>5, <2>7 DEF Places
  <2>8. CASE Token(q) \notin {"CR", "ENDOFINPUT"}
    <3>1. q < c
      <4>1. q # c
        BY <2>8
      <4>2. QED
        BY <2>4, <4>1 DEF Places
    <3>2. NoError(q, c - 1) /\ Token(q) # "ERROR"
      BY <2>1, <2>4, <3>1 DEF NoError, Places
    <3>3. LineEnd[q] \in (q + 1) .. c
      BY <1>1, <2>4, <2>6, <3>1, <3>2
    <3>4. LineEnd[p] = LineEnd[q]
      BY <2>5, <2>8, <3>2
    <3>5. QED
      BY <2>4, <3>3, <3>4 DEF Places
  <2>9. QED
    BY <2>7, <2>8
<1>2. m \in [Places -> Nat] /\ R \in SUBSET Places /\ Progressive(R, Places, m)
  <2>1. m \in [Places -> Nat] /\ R \in SUBSET Places
    BY AheadFacts DEF Places
  <2> HIDE DEF m, R
  <2>2. QED
    BY <1>1, <2>1 DEF Progressive
<1>3. R = Places
  <2> HIDE DEF m, R
  <2>1. QED
    BY <1>2, MeasureInduction
<1>4. QED
  BY <1>3

\* What the type of a found end says.
LEMMA LineEndFacts ==
  ASSUME IsText(text), NEW p \in Places, Visible(p), LineEnd[p] # 0
  PROVE  LET e == LineEnd[p]
         IN  /\ e \in Places /\ e >= p /\ (p <= Len(text) => e > p)
             /\ Token(e) \in {"CR", "ENDOFINPUT"} /\ Moves(p, e) /\ SameLine(p + 1, e - 1)
<1>1. LineEnd[p] \in LineEndType(p)
  BY LineEndSolves
<1>2. QED
  BY <1>1 DEF LineEndType, Moves, Places

\* The places of lines, as the scanner comes to them.
LEMMA BeginsFacts ==
  ASSUME IsText(text), NEW b \in Begins
  PROVE  /\ b \in Places /\ b <= Len(text) /\ Token(b) = "NUMBER" /\ Visible(b)
         /\ b # 1 => \E e \in Places : /\ e < b /\ e >= 2 /\ Token(e) = "CR" /\ Visible(e)
                                       /\ After[e] = b
<1>1. Len(text) \in Nat /\ End = Len(text) + 1
  BY TextFacts DEF End
<1>2. b \in Places /\ b <= Len(text) /\ Token(b) = "NUMBER" /\ b \in 1 .. End
  BY <1>1 DEF Begins, Places
<1>3. CASE b = 1
  BY <1>2, <1>3 DEF Visible
<1>4. CASE b # 1
  <2>1. PICK e \in 2 .. (b - 1) : Token(e) = "CR" /\ Token(e - 1) # "REM" /\ After[e] = b
    BY <1>4 DEF Begins
  <2>2. e \in Places /\ e < b /\ e >= 2 /\ e \in 1 .. End
    BY <1>1, <1>2 DEF Places
  <2>3. Visible(e)
    BY <2>1, <2>2 DEF Visible
  <2>4. Visible(b)
    BY <2>1, <2>2, <2>3, NextMoves
  <2>5. QED
    BY <1>2, <2>1, <2>2, <2>3, <2>4
<1>5. QED
  BY <1>3, <1>4

\* What comes behind an end of a line is a line, unless it is an error or
\* the end of the text.
LEMMA BehindEnd ==
  ASSUME IsText(text), NEW e \in Places, Visible(e), Token(e) = "CR"
  PROVE  /\ After[e] \in Places /\ After[e] > e /\ Visible(After[e]) /\ Moves(e, After[e])
         /\ Token(After[e]) \in LineStarts
         /\ Token(After[e]) = "NUMBER" => After[e] \in Begins
<1> DEFINE n == After[e]
<1>1. n \in Places /\ n > e /\ Visible(n) /\ Moves(e, n) /\ Token(n) \in LineStarts
  BY NextMoves DEF Follows
<1>2. ASSUME Token(n) = "NUMBER" PROVE n \in Begins
  <2>1. e # 1
    <3>1. Token(1) # "CR"
      BY TextFacts DEF LineStarts
    <3>2. QED
      BY <3>1
  <2>2. e \in 2 .. (n - 1) /\ Token(e - 1) # "REM"
    BY <1>1, <2>1 DEF Visible, Places
  <2>3. n \in 1 .. Len(text)
    BY <1>1, <1>2, TextFacts DEF Places
  <2>4. QED
    BY <1>2, <2>2, <2>3 DEF Begins
<1>3. QED
  BY <1>1, <1>2

\* A place where a search goes on: inside of a line.
AtToken(p) == Visible(p) /\ Token(p) # "CR"

\* The next line that begins with a number; none in between is missed.
NextLineType(p) ==
  { n \in Nat :
      /\ n # 0 => n > p /\ Token(n) = "NUMBER" /\ (AtToken(p) => n \in Begins /\ Moves(p, n))
      /\ \A b \in Begins : AtToken(p) /\ p < b /\ NoError(p, b) => n # 0 /\ n <= b }

\* The middle loop of jump_linenum_slow gives this line, or never ends.
LEMMA NextLineSolves ==
  ASSUME IsText(text)
  PROVE  \A p \in Places : NextLine[p] \in NextLineType(p)
<1> DEFINE D == Places
           e(g, p) == IF LineEnd[p] = 0 \/ Token(LineEnd[p]) = "ENDOFINPUT" THEN 0
                      ELSE IF Token(After[LineEnd[p]]) = "NUMBER" THEN After[LineEnd[p]]
                      ELSE g[After[LineEnd[p]]]
           Body(g) == [p \in D |-> e(g, p)]
           W == Nat \cup {NextLine[p] : p \in D}
           B == [g \in [D -> W] |-> Body(g)]
           P == [p \in D |-> NextLineType(p)]
           m == [p \in D |-> Ahead(p)]
<1>1. m \in [D -> Nat] /\ P \in [D -> SUBSET W] /\ W # {}
  <2>1. m \in [D -> Nat]
    BY AheadFacts DEF Places
  <2>2. ASSUME NEW p \in D PROVE P[p] \in SUBSET W
    BY DEF NextLineType
  <2>3. QED
    BY <2>1, <2>2
<1>2. ASSUME NEW g \in [D -> W], NEW h \in [D -> W], NEW p \in D,
             \A y \in D : m[y] < m[p] => g[y] = h[y] /\ g[y] \in P[y]
      PROVE  e(g, p) = e(h, p) /\ e(g, p) \in P[p]
  <2>0. P[p] = NextLineType(p)
    OBVIOUS
  <2> HIDE DEF W
  <2> DEFINE c == LineEnd[p]
             q == After[c]
  <2>1. c \in LineEndType(p)
    BY LineEndSolves
  <2>2. Len(text) \in Nat /\ p \in Nat /\ End = Len(text) + 1
    BY TextFacts DEF Places, End
  <2>3. ASSUME AtToken(p), NEW b \in Begins, p < b, NoError(p, b)
        PROVE  /\ c # 0 /\ Token(c) = "CR" /\ c < b /\ q <= b
               /\ Token(q) = "NUMBER"
    <3>1. b \in Places /\ b <= Len(text) /\ b # 1 /\ Visible(b)
      BY <2>2, <2>3, BeginsFacts DEF Places
    <3>2. PICK f \in Places : f < b /\ f >= 2 /\ Token(f) = "CR" /\ Visible(f) /\ After[f] = b
      BY <3>1, BeginsFacts
    <3>3. p < f
      <4>1. SUFFICES ASSUME f < p PROVE FALSE
        <5>1. f # p
          BY <2>3, <3>2 DEF AtToken
        <5>2. QED
          BY <2>2, <3>2, <4>1, <5>1 DEF Places
      <4>2. After[f] <= p
        BY <2>3, <3>2, <4>1, NextIsNext DEF AtToken
      <4>3. QED
        BY <2>2, <2>3, <3>1, <3>2, <4>2 DEF Places
    <3>4. NoError(p, f - 1)
      BY <2>2, <2>3, <3>1, <3>2 DEF NoError, Places
    <3>5. c \in (p + 1) .. f
      BY <2>3, <3>2, <3>3, <3>4, LineEndFinds DEF AtToken
    <3>6. c # 0 /\ c \in Places /\ c < b /\ c <= Len(text)
      BY <2>2, <3>1, <3>2, <3>5 DEF Places
    <3>7. Token(c) = "CR" /\ Visible(c)
      <4>1. Token(c) \in {"CR", "ENDOFINPUT"} /\ Visible(c)
        BY <2>3, <3>6, LineEndFacts DEF AtToken, Moves
      <4>2. Token(c) # "ENDOFINPUT"
        BY <3>6, TextFacts DEF Places
      <4>3. QED
        BY <4>1, <4>2
    <3> HIDE DEF c, q
    <3>8. /\ q <= b /\ q \in Places /\ Token(q) \in LineStarts /\ q > c
      BY <3>1, <3>6, <3>7, NextIsNext, BehindEnd DEF q
    <3>9. Token(q) # "ERROR" /\ Token(q) # "ENDOFINPUT"
      <4>1. q \in p .. b
        BY <2>2, <3>1, <3>5, <3>8 DEF Places
      <4>2. q <= Len(text)
        BY <3>1, <3>8, <2>2 DEF Places
      <4>3. QED
        BY <2>3, <3>8, <4>1, <4>2, TextFacts DEF NoError, Places
    <3>10. QED
      BY <3>6, <3>7, <3>8, <3>9 DEF LineStarts
  <2> HIDE DEF q, c
  <2>4. CASE c = 0 \/ Token(c) = "ENDOFINPUT"
    <3>1. 0 \in NextLineType(p)
      <4>1. ASSUME AtToken(p), NEW b \in Begins, p < b, NoError(p, b) PROVE FALSE
        BY <2>3, <2>4, <4>1
      <4>2. QED
        BY <4>1 DEF NextLineType
    <3>2. QED
      BY <2>0, <2>4, <3>1 DEF c
  <2>5. CASE c # 0 /\ Token(c) # "ENDOFINPUT"
    <3>1. c \in Places /\ c >= p /\ Token(c) = "CR" /\ (p <= Len(text) => c > p)
      BY <2>1, <2>5 DEF LineEndType
    <3>2. p <= Len(text) /\ c > p
      <4>1. c <= Len(text)
        BY <2>5, <3>1, TextFacts DEF Places
      <4>2. QED
        BY <2>2, <3>1, <4>1 DEF Places
    <3>3. q \in Places /\ q > c
      BY <2>5, <3>1, AfterSolves DEF q, AfterType
    <3>4. q > p
      BY <2>2, <3>1, <3>2, <3>3 DEF Places
    <3>5. AtToken(p) => /\ Visible(c) /\ Moves(p, c) /\ Moves(c, q)
                        /\ Token(q) = "NUMBER" => q \in Begins
      BY <2>5, <3>1, LineEndFacts, BehindEnd DEF AtToken, Moves, c, q
    <3>6. AtToken(p) => Moves(p, q)
      BY <3>1, <3>3, <3>5, MovesOn
    <3>7. CASE Token(q) = "NUMBER"
      <4>1. q \in NextLineType(p)
        <5>1. q \in Nat /\ q # 0
          BY <3>3 DEF Places
        <5>2. QED
          BY <2>3, <3>4, <3>5, <3>6, <3>7, <5>1 DEF NextLineType
      <4>2. QED
        BY <2>0, <2>5, <3>7, <4>1 DEF q, c
    <3>8. CASE Token(q) # "NUMBER"
      <4>1. Ahead(q) < Ahead(p)
        BY <2>2, <3>2, <3>3, <3>4, AheadFacts DEF Places
      <4>2. g[q] = h[q] /\ g[q] \in NextLineType(q)
        BY <1>2, <3>3, <4>1
      <4> DEFINE r == g[q]
      <4> HIDE DEF r
      <4>3. r \in NextLineType(p)
        <5>1. /\ r \in Nat
              /\ r # 0 => r > q /\ Token(r) = "NUMBER" /\ (AtToken(q) => r \in Begins /\ Moves(q, r))
          BY <4>2 DEF NextLineType, r
        <5>2. r # 0 => r > p
          BY <2>2, <3>3, <3>4, <5>1 DEF Places
        <5>3. AtToken(p) => AtToken(q)
          <6>1. Token(q) # "CR" \/ ~ AtToken(p)
            BY <3>1, <3>5, BehindEnd DEF LineStarts, q
          <6>2. QED
            BY <3>5, <6>1 DEF AtToken, Moves
        <5>4. ASSUME r # 0, AtToken(p) PROVE r \in Begins /\ Moves(p, r)
          <6>1. r \in Places
            BY <5>1, <5>4 DEF Places
          <6>2. QED
            BY <3>3, <3>6, <5>1, <5>3, <5>4, <6>1, MovesOn
        <5>5. ASSUME AtToken(p), NEW b \in Begins, p < b, NoError(p, b) PROVE FALSE
          BY <2>3, <3>8, <5>5
        <5>6. QED
          BY <5>1, <5>2, <5>4, <5>5 DEF NextLineType
      <4>4. QED
        BY <2>0, <2>5, <3>8, <4>2, <4>3 DEF r, q, c
    <3>9. QED
      BY <3>7, <3>8
  <2>6. QED
    BY <2>4, <2>5
<1>3. Recursive(B, D, P, W, m)
  <2> HIDE DEF D, W, P, m, e
  <2>1. ASSUME NEW g \in [D -> W], NEW h \in [D -> W], NEW x \in D,
               \A y \in D : m[y] < m[x] => g[y] = h[y] /\ g[y] \in P[y]
        PROVE  B[g][x] = B[h][x] /\ B[g][x] \in P[x]
    <3>1. e(g, x) = e(h, x) /\ e(g, x) \in P[x]
      BY <1>2, <2>1
    <3>2. QED
      BY <3>1
  <2> HIDE DEF B
  <2>2. QED
    BY <1>1, <2>1 DEF Recursive
<1>4. PICK g \in [D -> W] : Solution(g, B, D)
  <2> HIDE DEF D, W, B, P, m
  <2>1. QED
    BY <1>3, RecursionSolvable
<1>5. g = Body(g)
  <2>1. \A x \in D : g[x] = B[g][x]
    BY <1>4 DEF Solution
  <2>2. B[g] = Body(g)
    <3> HIDE DEF W, Body
    <3>1. QED
      OBVIOUS
  <2> HIDE DEF D, W, B, e
  <2>3. QED
    BY <2>1, <2>2
<1>6. NextLine = Body(NextLine)
  BY <1>5, Zenon DEF NextLine
<1>7. NextLine \in [D -> W]
  <2>1. \A x \in D : NextLine[x] \in W
    <3> HIDE DEF D, P
    <3>1. QED
      OBVIOUS
  <2> HIDE DEF D, e, W
  <2>2. QED
    BY <1>6, <2>1
<1>8. Solution(NextLine, B, D) /\ \A x \in D : NextLine[x] = e(NextLine, x)
  <2>1. B[NextLine] = Body(NextLine)
    <3> HIDE DEF D, W, Body
    <3>1. QED
      BY <1>7
  <2>2. QED
    <3> HIDE DEF D, W, B, e
    <3>1. QED
      BY <1>6, <2>1 DEF Solution
<1>9. \A x \in D : NextLine[x] \in P[x]
  <2> HIDE DEF D, W, B, P, m
  <2>1. QED
    BY <1>3, <1>7, <1>8, SolutionHasType
<1>10. QED
  BY <1>9

-------------------------------------------------------------------------------
(***************************************************************************)
(* The search of the text for a line (jump_linenum_slow).                  *)
(***************************************************************************)
\* What the search of the text for a line gives.
FromType(p, line) ==
  { n \in Nat :
      /\ n # 0 => Num(n) = line /\ (n = p \/ (AtToken(p) => n \in Begins /\ Moves(p, n)))
      /\ \A b \in Begins :
           AtToken(p) /\ p <= b /\ NoError(p, b) /\ Num(b) = line => n # 0 /\ n <= b }

\* The search comes to the first line with the number, if it comes back.
LEMMA SearchTyped ==
  ASSUME IsText(text), NEW line
  PROVE  JumpLinenumSlow(line) \in FromType(1, line)
<1> DEFINE D == Nat
           e(g, p) == IF p = 0 \/ Num(p) = line THEN p ELSE g[NextLine[p]]
           Body(g) == [p \in D |-> e(g, p)]
           R == CHOOSE f : f = Body(f)
           W == Nat \cup {R[p] : p \in D}
           B == [g \in [D -> W] |-> Body(g)]
           P == [p \in D |-> IF p = 0 THEN {0} ELSE FromType(p, line)]
           m == [p \in D |-> IF p = 0 THEN 0 ELSE Ahead(p) + 1]
<1>1. m \in [D -> Nat] /\ P \in [D -> SUBSET W] /\ W # {}
  <2> HIDE DEF R
  <2>1. m \in [D -> Nat]
    BY AheadFacts
  <2>2. ASSUME NEW p \in D PROVE P[p] \in SUBSET W
    BY DEF FromType
  <2>3. QED
    BY <2>1, <2>2
<1>2. ASSUME NEW g \in [D -> W], NEW h \in [D -> W], NEW p \in D,
             \A y \in D : m[y] < m[p] => g[y] = h[y] /\ g[y] \in P[y]
      PROVE  e(g, p) = e(h, p) /\ e(g, p) \in P[p]
  <2> HIDE DEF W
  <2>1. CASE p = 0
    BY <2>1
  <2>2. CASE p # 0 /\ Num(p) = line
    <3>1. p \in FromType(p, line)
      BY <2>2 DEF FromType
    <3>2. QED
      BY <2>2, <3>1
  <2>3. CASE p # 0 /\ Num(p) # line
    <3> DEFINE q == NextLine[p]
    <3>1. q \in NextLineType(p) /\ p \in Places
      BY <2>3, NextLineSolves DEF Places
    <3> HIDE DEF q
    <3>2. /\ q \in Nat
          /\ q # 0 => q > p /\ Token(q) = "NUMBER" /\ (AtToken(p) => q \in Begins /\ Moves(p, q))
          /\ \A b \in Begins : AtToken(p) /\ p < b /\ NoError(p, b) => q # 0 /\ q <= b
      BY <3>1 DEF NextLineType
    <3>3. q # 0 => Ahead(q) < Ahead(p)
      <4>1. q # 0 => q <= Len(text) /\ Len(text) \in Nat
        BY <3>2, TextFacts
      <4>2. q # 0 => p <= Len(text) /\ p < q
        BY <3>2, <4>1
      <4>3. QED
        BY <3>2, <4>2, AheadFacts
    <3>4. m[q] < m[p]
      <4>1. Ahead(p) \in Nat /\ Ahead(q) \in Nat
        BY <3>2, AheadFacts
      <4>2. QED
        BY <2>3, <3>2, <3>3, <4>1
    <3>5. g[q] = h[q] /\ g[q] \in P[q]
      BY <1>2, <3>2, <3>4
    <3> DEFINE r == g[q]
    <3> HIDE DEF r
    <3>6. r \in FromType(p, line)
      <4>1. CASE q = 0
        <5>1. r = 0
          BY <3>5, <4>1 DEF r
        <5>2. ASSUME NEW b \in Begins, AtToken(p), p <= b, NoError(p, b), Num(b) = line PROVE FALSE
          <6>1. p # b
            BY <2>3, <5>2
          <6>2. p < b
            BY <5>2, <6>1, BeginsFacts DEF Places
          <6>3. QED
            BY <3>2, <4>1, <5>2, <6>2
        <5>3. QED
          BY <5>1, <5>2 DEF FromType
      <4>2. CASE q # 0
        <5>1. r \in FromType(q, line)
          BY <3>2, <3>5, <4>2 DEF r
        <5>2. /\ r \in Nat
              /\ r # 0 => Num(r) = line /\ (r = q \/ (AtToken(q) => r \in Begins /\ Moves(q, r)))
              /\ \A b \in Begins :
                   AtToken(q) /\ q <= b /\ NoError(q, b) /\ Num(b) = line => r # 0 /\ r <= b
          BY <5>1 DEF FromType
        <5>3. AtToken(p) => AtToken(q)
          BY <3>2, <4>2 DEF AtToken, Moves
        <5>4. ASSUME r # 0, AtToken(p) PROVE r \in Begins /\ Moves(p, r)
          <6>1. CASE r = q
            BY <3>2, <4>2, <5>4, <6>1
          <6>2. CASE r # q
            <7>1. r \in Begins /\ Moves(q, r) /\ Moves(p, q)
              BY <3>2, <4>2, <5>2, <5>3, <5>4, <6>2
            <7>2. r \in Places /\ q \in Places
              BY <3>2, <4>2, <5>2, <5>4 DEF Places
            <7>3. QED
              BY <3>1, <7>1, <7>2, MovesOn
          <6>3. QED
            BY <6>1, <6>2
        <5>5. ASSUME NEW b \in Begins, AtToken(p), p <= b, NoError(p, b), Num(b) = line
              PROVE  r # 0 /\ r <= b
          <6>1. p # b
            BY <2>3, <5>5
          <6>2. p < b /\ b \in Nat
            BY <5>5, <6>1, BeginsFacts DEF Places
          <6>3. q <= b
            BY <3>2, <5>5, <6>2
          <6>4. NoError(q, b)
            BY <3>2, <4>2, <5>5, <6>2 DEF NoError
          <6>5. QED
            BY <5>2, <5>3, <5>5, <6>3, <6>4
        <5>6. QED
          BY <5>2, <5>4, <5>5 DEF FromType
      <4>3. QED
        BY <4>1, <4>2
    <3>7. QED
      BY <2>3, <3>5, <3>6 DEF q, r
  <2>4. QED
    BY <2>1, <2>2, <2>3
<1>3. Recursive(B, D, P, W, m)
  <2> HIDE DEF D, W, P, m, e
  <2>1. ASSUME NEW g \in [D -> W], NEW h \in [D -> W], NEW x \in D,
               \A y \in D : m[y] < m[x] => g[y] = h[y] /\ g[y] \in P[y]
        PROVE  B[g][x] = B[h][x] /\ B[g][x] \in P[x]
    <3>1. e(g, x) = e(h, x) /\ e(g, x) \in P[x]
      BY <1>2, <2>1
    <3>2. QED
      BY <3>1
  <2> HIDE DEF B
  <2>2. QED
    BY <1>1, <2>1 DEF Recursive
<1>4. PICK g \in [D -> W] : Solution(g, B, D)
  <2> HIDE DEF D, W, B, P, m
  <2>1. QED
    BY <1>3, RecursionSolvable
<1>5. g = Body(g)
  <2>1. \A x \in D : g[x] = B[g][x]
    BY <1>4 DEF Solution
  <2>2. B[g] = Body(g)
    <3> HIDE DEF W, Body
    <3>1. QED
      OBVIOUS
  <2> HIDE DEF D, W, B, e
  <2>3. QED
    BY <2>1, <2>2
<1>6. R = Body(R)
  <2> HIDE DEF Body
  <2>1. QED
    BY <1>5, Zenon
<1>7. R \in [D -> W]
  <2>1. \A x \in D : R[x] \in W
    <3> HIDE DEF D, P, R
    <3>1. QED
      OBVIOUS
  <2> HIDE DEF D, e, W, R
  <2>2. QED
    BY <1>6, <2>1
<1>8. Solution(R, B, D) /\ \A x \in D : R[x] = e(R, x)
  <2>1. B[R] = Body(R)
    <3> HIDE DEF D, W, Body, R
    <3>1. QED
      BY <1>7
  <2>2. QED
    <3> HIDE DEF D, W, B, e, R
    <3>1. QED
      BY <1>6, <2>1 DEF Solution
<1>9. \A x \in D : R[x] \in P[x]
  <2> HIDE DEF D, W, B, P, m
  <2>1. QED
    BY <1>3, <1>7, <1>8, SolutionHasType
<1>10. JumpLinenumSlow(line) = R[1]
  BY Zenon DEF JumpLinenumSlow
<1>11. QED
  <2>1. P[1] = FromType(1, line)
    OBVIOUS
  <2> HIDE DEF R, P, W
  <2>2. R[1] \in P[1]
    BY <1>9
  <2>3. QED
    BY <1>10, <2>1, <2>2

\* The search comes to a line with the number that is asked for, and with
\* different numbers to the one line that has it.
LEMMA SlowLands ==
  ASSUME IsText(text), Token(1) = "NUMBER", NEW line, JumpLinenumSlow(line) # 0
  PROVE  /\ JumpLinenumSlow(line) \in Begins /\ Num(JumpLinenumSlow(line)) = line
         /\ NoError(1, JumpLinenumSlow(line))
<1> DEFINE n == JumpLinenumSlow(line)
<1>1. n \in FromType(1, line)
  BY SearchTyped
<1> HIDE DEF n
<1>2. Len(text) \in Nat /\ End = Len(text) + 1 /\ 1 <= Len(text)
  BY TextFacts DEF End
<1>3. AtToken(1) /\ 1 \in Begins
  BY <1>2 DEF AtToken, Visible, Begins
<1>4. n \in Nat /\ n # 0 /\ Num(n) = line /\ n \in Begins /\ (n = 1 \/ Moves(1, n))
  BY <1>1, <1>3 DEF FromType, n
<1>5. NoError(1, n)
  <2>1. Token(n) # "ERROR" /\ Token(1) # "ERROR"
    BY <1>4, BeginsFacts
  <2>2. ASSUME NEW j \in 1 .. n PROVE j = n \/ j = 1 \/ j \in 1 .. (n - 1)
    BY <1>4
  <2>3. QED
    BY <1>4, <2>1, <2>2 DEF Moves, NoError
<1>6. QED
  BY <1>4, <1>5 DEF n

\* If no two lines have the same number the search finds every line that has
\* no error in front of it.
LEMMA SearchFinds ==
  ASSUME IsText(text), NumbersDiffer, NEW p \in Begins, NoError(1, p)
  PROVE  JumpLinenumSlow(Num(p)) = p
<1> DEFINE n == JumpLinenumSlow(Num(p))
<1>1. n \in FromType(1, Num(p))
  BY SearchTyped
<1>2. p \in Places /\ p <= Len(text) /\ Len(text) \in Nat
  BY BeginsFacts, TextFacts
<1>3. Token(1) = "NUMBER"
  <2>1. Token(1) # "ERROR" /\ Token(1) # "ENDOFINPUT"
    BY <1>2, TextFacts DEF NoError, Places
  <2>2. QED
    BY <2>1, TextFacts DEF LineStarts
<1>4. AtToken(1)
  <2>1. 1 \in 1 .. End
    BY <1>2 DEF End, Places
  <2>2. QED
    BY <1>3, <2>1 DEF AtToken, Visible
<1> HIDE DEF n
<1>5. n # 0
  BY <1>1, <1>2, <1>4 DEF FromType, Places
<1>6. n \in Begins /\ Num(n) = Num(p)
  BY <1>3, <1>5, SlowLands DEF n
<1>7. QED
  BY <1>6 DEF NumbersDiffer, n

-------------------------------------------------------------------------------
(***************************************************************************)
(* The statement a line comes to (if_statement).                           *)
(***************************************************************************)
\* The else or the end of the line, if no error is in the way.
ElseType(p) ==
  {0} \cup { e \in Places :
               /\ e >= p /\ Token(e) \in {"ELSE", "CR", "ENDOFINPUT"}
               /\ Visible(p) => Moves(p, e) }

\* The loop of if_statement that skips a statement stops at an else or at the
\* end of the line, or never ends.
LEMMA ElseTyped ==
  ASSUME IsText(text)
  PROVE  \A p \in Places : Else[p] \in ElseType(p)
<1> DEFINE D == Places
           e(g, p) == IF Token(After[p]) \in {"ELSE", "CR", "ENDOFINPUT"} THEN After[p]
                      ELSE IF Token(After[p]) = "ERROR" THEN 0
                      ELSE g[After[p]]
           Body(g) == [p \in D |-> e(g, p)]
           W == Nat \cup {Else[p] : p \in D}
           B == [g \in [D -> W] |-> Body(g)]
           P == [p \in D |-> ElseType(p)]
           m == [p \in D |-> Ahead(p)]
<1>1. m \in [D -> Nat] /\ P \in [D -> SUBSET W] /\ W # {}
  <2>1. m \in [D -> Nat]
    BY AheadFacts DEF Places
  <2>2. ASSUME NEW p \in D PROVE P[p] \in SUBSET W
    BY DEF ElseType, Places
  <2>3. QED
    BY <2>1, <2>2
<1>2. ASSUME NEW g \in [D -> W], NEW h \in [D -> W], NEW p \in D,
             \A y \in D : m[y] < m[p] => g[y] = h[y] /\ g[y] \in P[y]
      PROVE  e(g, p) = e(h, p) /\ e(g, p) \in P[p]
  <2> DEFINE q == After[p]
  <2> HIDE DEF W, q
  <2>0. P[p] = ElseType(p)
    OBVIOUS
  <2>1. /\ q \in Places /\ q >= p /\ (Visible(p) => Moves(p, q))
        /\ Token(p) \in {"ENDOFINPUT", "ERROR"} => q = p
        /\ Token(p) \notin {"ENDOFINPUT", "ERROR"} => q > p
    BY AfterSolves, NextMoves DEF q, AfterType
  <2>2. Len(text) \in Nat /\ (Token(p) = "ENDOFINPUT" <=> p > Len(text))
    BY TextFacts DEF Places
  <2>4. CASE Token(q) \in {"ELSE", "CR", "ENDOFINPUT"}
    <3>1. q \in ElseType(p)
      BY <2>1, <2>4 DEF ElseType
    <3>2. QED
      BY <2>0, <2>4, <3>1 DEF q
  <2>5. CASE Token(q) = "ERROR"
    BY <2>0, <2>5 DEF q, ElseType
  <2>6. CASE Token(q) \notin {"ELSE", "CR", "ENDOFINPUT", "ERROR"}
    <3>0. p < q /\ p <= Len(text)
      BY <2>1, <2>2, <2>6 DEF Places
    <3>1. Ahead(q) < Ahead(p)
      BY <2>1, <3>0, AheadFacts DEF Places
    <3>2. g[q] = h[q] /\ g[q] \in ElseType(q)
      BY <1>2, <2>1, <3>1
    <3> DEFINE r == g[q]
    <3> HIDE DEF r
    <3>3. r \in ElseType(p)
      <4>1. CASE r = 0
        BY <4>1 DEF ElseType
      <4>2. CASE r # 0
        <5>1. /\ r \in Places /\ r >= q /\ Token(r) \in {"ELSE", "CR", "ENDOFINPUT"}
              /\ Visible(q) => Moves(q, r)
          BY <3>2, <4>2 DEF r, ElseType
        <5>2. r >= p
          BY <2>1, <3>0, <5>1 DEF Places
        <5>3. ASSUME Visible(p) PROVE Moves(p, r)
          <6>1. Moves(p, q) /\ Moves(q, r)
            BY <2>1, <5>1, <5>3 DEF Moves
          <6>2. QED
            BY <2>1, <5>1, <6>1, MovesOn
        <5>4. QED
          BY <5>1, <5>2, <5>3 DEF ElseType
      <4>3. QED
        BY <4>1, <4>2
    <3>4. QED
      BY <2>0, <2>6, <3>2, <3>3 DEF q, r
  <2>7. QED
    BY <2>4, <2>5, <2>6
<1>3. Recursive(B, D, P, W, m)
  <2> HIDE DEF D, W, P, m, e
  <2>1. ASSUME NEW g \in [D -> W], NEW h \in [D -> W], NEW x \in D,
               \A y \in D : m[y] < m[x] => g[y] = h[y] /\ g[y] \in P[y]
        PROVE  B[g][x] = B[h][x] /\ B[g][x] \in P[x]
    <3>1. e(g, x) = e(h, x) /\ e(g, x) \in P[x]
      BY <1>2, <2>1
    <3>2. QED
      BY <3>1
  <2> HIDE DEF B
  <2>2. QED
    BY <1>1, <2>1 DEF Recursive
<1>4. PICK g \in [D -> W] : Solution(g, B, D)
  <2> HIDE DEF D, W, B, P, m
  <2>1. QED
    BY <1>3, RecursionSolvable
<1>5. g = Body(g)
  <2>1. \A x \in D : g[x] = B[g][x]
    BY <1>4 DEF Solution
  <2>2. B[g] = Body(g)
    <3> HIDE DEF W, Body
    <3>1. QED
      OBVIOUS
  <2> HIDE DEF D, W, B, e
  <2>3. QED
    BY <2>1, <2>2
<1>6. Else = Body(Else)
  BY <1>5, Zenon DEF Else
<1>7. Else \in [D -> W]
  <2>1. \A x \in D : Else[x] \in W
    <3> HIDE DEF D, P
    <3>1. QED
      OBVIOUS
  <2> HIDE DEF D, e, W
  <2>2. QED
    BY <1>6, <2>1
<1>8. Solution(Else, B, D) /\ \A x \in D : Else[x] = e(Else, x)
  <2>1. B[Else] = Body(Else)
    <3> HIDE DEF D, W, Body
    <3>1. QED
      BY <1>7
  <2>2. QED
    <3> HIDE DEF D, W, B, e
    <3>1. QED
      BY <1>6, <2>1 DEF Solution
<1>9. \A x \in D : Else[x] \in P[x]
  <2> HIDE DEF D, W, B, P, m
  <2>1. QED
    BY <1>3, <1>7, <1>8, SolutionHasType
<1>10. QED
  BY <1>9

\* Behind a condition that has failed a line begins.
AtLine(p) == Token(p) \in LineStarts /\ (Token(p) = "NUMBER" => p \in Begins)

\* What if_statement comes to: a statement, none, or text it cannot read.
ChosenType(p) ==
  {BadStatement, NoStatement(0)}
    \cup { AtStatement(q) : q \in { j \in Places : Visible(p) => Moves(p, j) } }
    \cup { NoStatement(q) : q \in { j \in Places : Visible(p) => Moves(p, j) /\ AtLine(j) } }

\* What it comes to from further on it can come to from here.
LEMMA ChosenGrows ==
  ASSUME NEW p \in Places, NEW q \in Places, Visible(p) => Moves(p, q)
  PROVE  ChosenType(q) \in SUBSET ChosenType(p)
<1>1. \A j \in Places : (Visible(q) => Moves(q, j)) => (Visible(p) => Moves(p, j))
  BY MovesOn DEF Moves
<1>2. \A j \in Places : (Visible(q) => Moves(q, j) /\ AtLine(j))
                          => (Visible(p) => Moves(p, j) /\ AtLine(j))
  BY <1>1 DEF Moves
<1>3. QED
  BY <1>1, <1>2 DEF ChosenType

\* An if, and the ifs behind its then and its else, come to such a statement.
LEMMA ChosenTyped ==
  ASSUME IsText(text), variables \in [Variables -> Bytes]
  PROVE  \A p \in Places : Chosen[p] \in ChosenType(p)
<1> DEFINE D == Places
           r(p) == Parse("relation", After[p], variables)
           f(p) == Else[After[r(p).at]]
           e(g, p) == IF Token(p) # "IF" THEN AtStatement(p)
                      ELSE IF ~ r(p).ok \/ Token(r(p).at) # "THEN" THEN BadStatement
                      ELSE IF r(p).value # 0 THEN g[After[r(p).at]]
                      ELSE IF f(p) = 0 THEN NoStatement(0)
                      ELSE IF Token(f(p)) = "ELSE" THEN g[After[f(p)]]
                      ELSE NoStatement(After[f(p)])
           Body(g) == [p \in D |-> e(g, p)]
           W == (UNION {ChosenType(p) : p \in D}) \cup {Chosen[p] : p \in D}
           B == [g \in [D -> W] |-> Body(g)]
           P == [p \in D |-> ChosenType(p)]
           m == [p \in D |-> Ahead(p)]
<1>1. m \in [D -> Nat] /\ P \in [D -> SUBSET W] /\ W # {}
  <2>1. m \in [D -> Nat]
    BY AheadFacts DEF Places
  <2>2. W # {} /\ \A p \in D : ChosenType(p) \in SUBSET W
    BY DEF ChosenType, Places
  <2>3. QED
    <3> HIDE DEF W
    <3>1. QED
      BY <2>1, <2>2
<1>2. ASSUME NEW g \in [D -> W], NEW h \in [D -> W], NEW p \in D,
             \A y \in D : m[y] < m[p] => g[y] = h[y] /\ g[y] \in P[y]
      PROVE  e(g, p) = e(h, p) /\ e(g, p) \in P[p]
  <2> HIDE DEF W
  <2>0. P[p] = ChosenType(p)
    OBVIOUS
  <2>1. CASE Token(p) # "IF"
    <3>1. Visible(p) => Moves(p, p)
      BY MovesOn DEF Reads
    <3>2. AtStatement(p) \in ChosenType(p)
      BY <3>1 DEF ChosenType
    <3>3. QED
      BY <2>0, <2>1, <3>2
  <2>2. CASE Token(p) = "IF" /\ (~ r(p).ok \/ Token(r(p).at) # "THEN")
    BY <2>0, <2>2 DEF ChosenType
  <2>3. CASE Token(p) = "IF" /\ r(p).ok /\ Token(r(p).at) = "THEN"
    <3> DEFINE s == r(p)
               t == After[s.at]
               j == Else[t]
    <3>1. s.ok /\ Token(s.at) = "THEN"
      BY <2>3
    <3>2. Len(text) \in Nat /\ (Token(p) # "ENDOFINPUT" => p <= Len(text))
      BY TextFacts DEF Places
    <3>3. /\ After[p] \in Places /\ After[p] > p /\ p <= Len(text)
          /\ Visible(p) => Moves(p, After[p])
      BY <2>3, <3>2, AfterSolves, NextMoves DEF AfterType
    <3>4. /\ s.at \in Places /\ s.at > After[p]
          /\ Visible(After[p]) => Moves(After[p], s.at)
      <4>1. /\ s.at \in Places /\ s.at > After[p]
            /\ Visible(After[p]) => Reads(After[p], s.at)
        BY <3>1, <3>3, ParseTyped
      <4>2. QED
        BY <4>1 DEF Reads
    <3> HIDE DEF s
    <3>5. /\ t \in Places /\ t > s.at /\ (Visible(s.at) => Moves(s.at, t))
      BY <3>1, <3>4, AfterSolves, NextMoves DEF AfterType
    <3>6. t > p /\ (Visible(p) => Moves(p, t))
      <4>1. t > p
        BY <3>3, <3>4, <3>5 DEF Places
      <4>2. Visible(p) => Moves(p, s.at) /\ Visible(s.at)
        BY <3>3, <3>4, MovesOn DEF Moves
      <4>3. QED
        BY <3>4, <3>5, <4>1, <4>2, MovesOn
    <3> HIDE DEF t, j
    <3>7. ASSUME NEW q \in Places, q > p, Visible(p) => Moves(p, q)
          PROVE  g[q] = h[q] /\ g[q] \in ChosenType(p)
      <4>1. Ahead(q) < Ahead(p)
        BY <3>2, <3>3, <3>7, AheadFacts DEF Places
      <4>2. g[q] = h[q] /\ g[q] \in ChosenType(q)
        BY <1>2, <3>7, <4>1
      <4>3. QED
        BY <3>7, <4>2, ChosenGrows
    <3>8. CASE s.value # 0
      <4>1. g[t] = h[t] /\ g[t] \in ChosenType(p)
        BY <3>5, <3>6, <3>7
      <4>2. e(g, p) = g[t] /\ e(h, p) = h[t]
        BY <2>3, <3>8 DEF s, t
      <4> HIDE DEF e, P
      <4>3. QED
        BY <2>0, <4>1, <4>2
    <3>9. CASE s.value = 0 /\ j = 0
      <4>1. e(g, p) = NoStatement(0) /\ e(h, p) = NoStatement(0)
        BY <2>3, <3>9 DEF s, t, j
      <4> HIDE DEF e, P
      <4>2. QED
        BY <2>0, <4>1 DEF ChosenType
    <3>10. CASE s.value = 0 /\ j # 0
      <4>1. /\ j \in Places /\ j >= t /\ Token(j) \in {"ELSE", "CR", "ENDOFINPUT"}
            /\ Visible(t) => Moves(t, j)
        BY <3>5, <3>10, ElseTyped DEF ElseType, j
      <4>2. j > p /\ (Visible(p) => Moves(p, j))
        <5>1. j > p
          BY <3>5, <3>6, <4>1 DEF Places
        <5>2. Visible(p) => Moves(p, t) /\ Moves(t, j)
          BY <3>6, <4>1 DEF Moves
        <5>3. QED
          BY <3>5, <4>1, <5>1, <5>2, MovesOn
      <4> DEFINE k == After[j]
      <4>3. /\ k \in Places /\ k >= j /\ (Visible(j) => Moves(j, k))
        BY <4>1, AfterSolves, NextMoves DEF AfterType
      <4>4. k > p /\ (Visible(p) => Moves(p, k))
        <5> HIDE DEF k
        <5>1. k > p
          BY <4>1, <4>2, <4>3 DEF Places
        <5>2. Visible(p) => Moves(p, j) /\ Moves(j, k)
          BY <4>2, <4>3 DEF Moves
        <5>3. QED
          BY <4>1, <4>3, <5>1, <5>2, MovesOn
      <4>5. CASE Token(j) = "ELSE"
        <5> HIDE DEF k
        <5>1. g[k] = h[k] /\ g[k] \in ChosenType(p)
          BY <3>7, <4>3, <4>4
        <5>2. e(g, p) = g[k] /\ e(h, p) = h[k]
          BY <2>3, <3>10, <4>5 DEF s, t, j, k
        <5> HIDE DEF e, P
        <5>3. QED
          BY <2>0, <5>1, <5>2
      <4>6. CASE Token(j) # "ELSE"
        <5>1. Visible(p) => AtLine(k)
          <6>1. SUFFICES ASSUME Visible(p) PROVE AtLine(k)
            OBVIOUS
          <6>2. Visible(j)
            BY <4>2, <6>1 DEF Moves
          <6>3. CASE Token(j) = "CR"
            BY <4>1, <6>2, <6>3, BehindEnd DEF AtLine
          <6>4. CASE Token(j) = "ENDOFINPUT"
            <7>1. k = j
              BY <4>1, <6>2, <6>4, NextMoves
            <7>2. QED
              BY <6>4, <7>1 DEF AtLine, LineStarts
          <6>5. QED
            BY <4>1, <4>6, <6>3, <6>4
        <5> HIDE DEF k
        <5>2. NoStatement(k) \in ChosenType(p)
          BY <4>3, <4>4, <5>1 DEF ChosenType
        <5>3. e(g, p) = NoStatement(k) /\ e(h, p) = NoStatement(k)
          BY <2>3, <3>10, <4>6 DEF s, t, j, k
        <5> HIDE DEF e, P
        <5>4. QED
          BY <2>0, <5>2, <5>3
      <4>7. QED
        BY <4>5, <4>6
    <3>11. QED
      BY <3>8, <3>9, <3>10
  <2>4. QED
    BY <2>1, <2>2, <2>3
<1>3. Recursive(B, D, P, W, m)
  <2> HIDE DEF D, W, P, m, e
  <2>1. ASSUME NEW g \in [D -> W], NEW h \in [D -> W], NEW x \in D,
               \A y \in D : m[y] < m[x] => g[y] = h[y] /\ g[y] \in P[y]
        PROVE  B[g][x] = B[h][x] /\ B[g][x] \in P[x]
    <3>1. e(g, x) = e(h, x) /\ e(g, x) \in P[x]
      BY <1>2, <2>1
    <3>2. QED
      BY <3>1
  <2> HIDE DEF B
  <2>2. QED
    BY <1>1, <2>1 DEF Recursive
<1>4. PICK g \in [D -> W] : Solution(g, B, D)
  <2> HIDE DEF D, W, B, P, m
  <2>1. QED
    BY <1>3, RecursionSolvable
<1>5. g = Body(g)
  <2>1. \A x \in D : g[x] = B[g][x]
    BY <1>4 DEF Solution
  <2>2. B[g] = Body(g)
    <3> HIDE DEF W, Body
    <3>1. QED
      OBVIOUS
  <2> HIDE DEF D, W, B, e
  <2>3. QED
    BY <2>1, <2>2
<1>6. Chosen = Body(Chosen)
  BY <1>5, Zenon DEF Chosen
<1>7. Chosen \in [D -> W]
  <2>1. \A x \in D : Chosen[x] \in W
    <3> HIDE DEF D, P
    <3>1. QED
      OBVIOUS
  <2> HIDE DEF D, e, W
  <2>2. QED
    BY <1>6, <2>1
<1>8. Solution(Chosen, B, D) /\ \A x \in D : Chosen[x] = e(Chosen, x)
  <2>1. B[Chosen] = Body(Chosen)
    <3> HIDE DEF D, W, Body
    <3>1. QED
      BY <1>7
  <2>2. QED
    <3> HIDE DEF D, W, B, e
    <3>1. QED
      BY <1>6, <2>1 DEF Solution
<1>9. \A x \in D : Chosen[x] \in P[x]
  <2> HIDE DEF D, W, B, P, m
  <2>1. QED
    BY <1>3, <1>7, <1>8, SolutionHasType
<1>10. QED
  <2> HIDE DEF W, e
  <2>1. QED
    BY <1>9

-------------------------------------------------------------------------------
(***************************************************************************)
(* Lines that are read to their end, and the items of a print.             *)
(***************************************************************************)
\* The end of the line is what a statement that reads its line comes to.
LEMMA LineEndIs ==
  ASSUME IsText(text), NEW p \in Places, NEW c \in Places, Visible(p),
         p < c, Reads(p, c), Token(c) = "CR"
  PROVE  LineEnd[p] = c
<1> DEFINE r == LineEnd[p]
<1>1. Visible(c) /\ NoError(p, c - 1) /\ SameLine(p, c - 1)
  BY DEF Reads, Moves
<1>2. r \in (p + 1) .. c
  BY <1>1, LineEndFinds
<1>3. r # 0 /\ r \in Places
  BY <1>2 DEF Places
<1>4. Token(r) \in {"CR", "ENDOFINPUT"} /\ Visible(r)
  BY <1>3, LineEndFacts DEF Moves
<1> HIDE DEF r
<1>5. c <= Len(text) /\ Len(text) \in Nat
  BY TextFacts DEF Places
<1>6. ASSUME r < c PROVE FALSE
  <2>1. Token(r) # "ENDOFINPUT"
    BY <1>2, <1>3, <1>5, TextFacts DEF Places
  <2>2. r \in p .. (c - 1) /\ r > 1
    BY <1>2, <1>6 DEF Places
  <2>3. Token(r - 1) = "REM"
    BY <1>1, <1>4, <2>1, <2>2 DEF SameLine
  <2>4. QED
    BY <1>4, <2>2, <2>3 DEF Visible
<1>7. QED
  BY <1>2, <1>6 DEF r, Places

\* Where the items of a print end.
ItemsType(p) ==
  {0} \cup { q \in Places :
               /\ q >= p
               /\ Token(q) \notin PrintTakes
               /\ Visible(p) => Reads(p, q) }

\* A print reads on in its line until it finds what it does not take.
LEMMA ItemsTyped ==
  ASSUME IsText(text), variables \in [Variables -> Bytes]
  PROVE  \A p \in Places : Items[p] \in ItemsType(p)
<1> DEFINE D == Places
           n(p) == CASE Token(p) \in {"STRING", "COMMA", "SEMICOLON"} -> After[p]
                     [] Token(p) \in {"VARIABLE", "NUMBER"} -> Parse("expr", p, variables).at
                     [] OTHER -> p
           e(g, p) == IF n(p) = p \/ n(p) = 0 \/ Token(n(p)) \in {"CR", "ENDOFINPUT"}
                      THEN n(p) ELSE g[n(p)]
           Body(g) == [p \in D |-> e(g, p)]
           W == Nat \cup {Items[p] : p \in D}
           B == [g \in [D -> W] |-> Body(g)]
           P == [p \in D |-> ItemsType(p)]
           m == [p \in D |-> Ahead(p)]
<1>1. m \in [D -> Nat] /\ P \in [D -> SUBSET W] /\ W # {}
  <2>1. m \in [D -> Nat]
    BY AheadFacts DEF Places
  <2>2. ASSUME NEW p \in D PROVE P[p] \in SUBSET W
    BY DEF ItemsType, Places
  <2>3. QED
    BY <2>1, <2>2
<1>2. ASSUME NEW g \in [D -> W], NEW h \in [D -> W], NEW p \in D,
             \A y \in D : m[y] < m[p] => g[y] = h[y] /\ g[y] \in P[y]
      PROVE  e(g, p) = e(h, p) /\ e(g, p) \in P[p]
  <2> HIDE DEF W
  <2>0. P[p] = ItemsType(p)
    OBVIOUS
  <2> DEFINE q == n(p)
  <2>1. \/ q = p /\ Token(p) \notin PrintTakes
        \/ q = 0
        \/ /\ q \in Places /\ q > p /\ Token(p) # "ENDOFINPUT"
           /\ Visible(p) => Reads(p, q)
    <3>1. CASE Token(p) \in {"STRING", "COMMA", "SEMICOLON"}
      <4>1. q = After[p]
        BY <3>1
      <4>2. /\ After[p] \in Places /\ After[p] > p
            /\ Visible(p) => Reads(p, After[p])
        BY <3>1, AfterSolves, NextMoves DEF AfterType
      <4> HIDE DEF q
      <4>3. QED
        BY <3>1, <4>1, <4>2
    <3>2. CASE Token(p) \in {"VARIABLE", "NUMBER"}
      <4> DEFINE r == Parse("expr", p, variables)
      <4>1. q = r.at
        BY <3>2
      <4>2. /\ ~ r.ok => r.at = 0
            /\ r.ok => r.at \in Places /\ r.at > p /\ (Visible(p) => Reads(p, r.at))
        BY ParseTyped
      <4> HIDE DEF q, r
      <4>3. QED
        BY <3>2, <4>1, <4>2
    <3>3. CASE Token(p) \notin {"STRING", "COMMA", "SEMICOLON", "VARIABLE", "NUMBER"}
      BY <3>3 DEF PrintTakes
    <3>4. QED
      BY <3>1, <3>2, <3>3
  <2>2. e(g, p) = IF q = p \/ q = 0 \/ Token(q) \in {"CR", "ENDOFINPUT"} THEN q ELSE g[q]
    OBVIOUS
  <2>3. e(h, p) = IF q = p \/ q = 0 \/ Token(q) \in {"CR", "ENDOFINPUT"} THEN q ELSE h[q]
    OBVIOUS
  <2>4. p \in Nat /\ Len(text) \in Nat /\ (Token(p) # "ENDOFINPUT" => p <= Len(text))
    BY TextFacts DEF Places
  <2> HIDE DEF q, e, n, P
  <2>5. CASE q = 0
    <3>1. 0 \in ItemsType(p)
      BY DEF ItemsType
    <3>2. QED
      BY <2>0, <2>2, <2>3, <2>5, <3>1
  <2>6. CASE q = p /\ Token(p) \notin PrintTakes
    <3>1. p >= p /\ (Visible(p) => Reads(p, p))
      BY <2>4, MovesOn
    <3>2. p \in ItemsType(p)
      BY <2>6, <3>1 DEF ItemsType
    <3>3. QED
      BY <2>0, <2>2, <2>3, <2>6, <3>2
  <2>7. CASE /\ q \in Places /\ q > p /\ Token(p) # "ENDOFINPUT"
             /\ Visible(p) => Reads(p, q)
    <3>1. q # p /\ q # 0 /\ q >= p
      BY <2>4, <2>7 DEF Places
    <3>2. CASE Token(q) \in {"CR", "ENDOFINPUT"}
      <4>1. q \in ItemsType(p)
        BY <2>7, <3>1, <3>2 DEF ItemsType, PrintTakes
      <4>2. QED
        BY <2>0, <2>2, <2>3, <3>2, <4>1
    <3>3. CASE Token(q) \notin {"CR", "ENDOFINPUT"}
      <4>1. Ahead(q) < Ahead(p)
        BY <2>4, <2>7, AheadFacts DEF Places
      <4>2. g[q] = h[q] /\ g[q] \in P[q] /\ P[q] = ItemsType(q)
        <5>1. m[q] < m[p]
          BY <2>7, <4>1
        <5>2. g[q] = h[q] /\ g[q] \in P[q]
          BY <1>2, <2>7, <5>1
        <5>3. P[q] = ItemsType(q)
          BY <2>7 DEF P
        <5>4. QED
          BY <5>2, <5>3
      <4> DEFINE r == g[q]
      <4>3. r \in ItemsType(q)
        BY <4>2
      <4> HIDE DEF r
      <4>4. r \in ItemsType(p)
        <5>1. CASE r = 0
          BY <5>1 DEF ItemsType
        <5>2. CASE r # 0
          <6>1. /\ r \in Places /\ r >= q /\ Token(r) \notin PrintTakes
                /\ Visible(q) => Reads(q, r)
            BY <4>3, <5>2 DEF ItemsType
          <6>2. r >= p
            BY <2>7, <6>1, <2>4 DEF Places
          <6>3. Visible(p) => Reads(p, q) /\ Reads(q, r)
            BY <2>7, <6>1 DEF Reads, Moves
          <6>4. Visible(p) => Reads(p, r)
            BY <2>7, <6>1, <6>3, MovesOn
          <6>5. QED
            BY <6>1, <6>2, <6>4 DEF ItemsType
        <5>3. QED
          BY <5>1, <5>2
      <4>5. e(g, p) = r /\ e(h, p) = r
        BY <2>2, <2>3, <3>1, <3>3, <4>2 DEF r
      <4>6. QED
        BY <2>0, <4>4, <4>5
    <3>4. QED
      BY <3>2, <3>3
  <2>8. QED
    BY <2>1, <2>5, <2>6, <2>7
<1>3. Recursive(B, D, P, W, m)
  <2> HIDE DEF D, W, P, m, e
  <2>1. ASSUME NEW g \in [D -> W], NEW h \in [D -> W], NEW x \in D,
               \A y \in D : m[y] < m[x] => g[y] = h[y] /\ g[y] \in P[y]
        PROVE  B[g][x] = B[h][x] /\ B[g][x] \in P[x]
    <3>1. e(g, x) = e(h, x) /\ e(g, x) \in P[x]
      BY <1>2, <2>1
    <3>2. QED
      BY <3>1
  <2> HIDE DEF B
  <2>2. QED
    BY <1>1, <2>1 DEF Recursive
<1>4. PICK g \in [D -> W] : Solution(g, B, D)
  <2> HIDE DEF D, W, B, P, m
  <2>1. QED
    BY <1>3, RecursionSolvable
<1>5. g = Body(g)
  <2>1. \A x \in D : g[x] = B[g][x]
    BY <1>4 DEF Solution
  <2>2. B[g] = Body(g)
    <3> HIDE DEF W, Body
    <3>1. QED
      OBVIOUS
  <2> HIDE DEF D, W, B, e
  <2>3. QED
    BY <2>1, <2>2
<1>6. Items = Body(Items)
  BY <1>5 DEF Items
<1>7. Items \in [D -> W]
  <2>1. \A x \in D : Items[x] \in W
    <3> HIDE DEF D, P
    <3>1. QED
      OBVIOUS
  <2> HIDE DEF D, e, W
  <2>2. QED
    BY <1>6, <2>1
<1>8. Solution(Items, B, D) /\ \A x \in D : Items[x] = e(Items, x)
  <2>1. B[Items] = Body(Items)
    <3> HIDE DEF D, W, Body
    <3>1. QED
      BY <1>7
  <2>2. QED
    <3> HIDE DEF D, W, B, e
    <3>1. QED
      BY <1>6, <2>1 DEF Solution
<1>9. \A x \in D : Items[x] \in P[x]
  <2> HIDE DEF D, W, B, P, m
  <2>1. QED
    BY <1>3, <1>7, <1>8, SolutionHasType
<1>10. QED
  <2> HIDE DEF W, e
  <2>1. QED
    BY <1>9

-------------------------------------------------------------------------------
(***************************************************************************)
(* The inductive invariant.  A call of ubasic_run begins where the scanner *)
(* sees a token, with no error in front of it, and where a line begins or  *)
(* a print or a return has left the rest of one; what is in the index and  *)
(* on the stacks comes from lines of the text.                             *)
(***************************************************************************)
\* Where a line begins, or a statement has left the rest of one.
Placed(p) == p \in Begins \/ Token(p) \in {"ERROR", "ENDOFINPUT"} \/ Strayed(p)

\* The places where a call of ubasic_run can begin.
Stops == { p \in 1 .. End : Visible(p) /\ NoError(1, p - 1) /\ Placed(p) }

\* The places the scanner can be at while it has not left the text.
Inside == {p \in 1 .. End : ~ Outside(p)}

\* The entries the index can have.
Entries ==
  { x \in [line : Bytes, position : 1 .. End] :
      /\ x.position \in Stops /\ Token(x.position) = "NUMBER"
      /\ x.line = Num(x.position) }

\* The statement at p, of the kind named, has a line behind it with this number.
Before(kind, p, line) ==
  Token(p) = kind /\ LineEnd[p] # 0 /\ Num(Behind(p)) = line

\* The records on the stack of loops.
LoopRecords == [variable : Variables, to : Bytes, line : Bytes]

\* The loops that can be open; the line behind the for of the last that was
\* opened need not exist, but then the text is at its end.
Loops ==
  { l \in LoopRecords : \E p \in 1 .. Len(text) :
      Before("FOR", p, l.line) /\ VariableNum(After[p]) = l.variable }

\* The loops whose line is there.
HomeLoops ==
  { l \in LoopRecords : \E p \in 1 .. Len(text) :
      /\ Before("FOR", p, l.line) /\ VariableNum(After[p]) = l.variable
      /\ Behind(p) \in Begins }

\* The numbers of the lines subroutines return to.
Subs ==
  { n \in Bytes : \E p \in 1 .. Len(text) :
      /\ Before("GOSUB", p, n)
      /\ Token(Behind(p)) = "NUMBER" => Behind(p) \in Begins }

\* The inductive invariant.
UbasicInv ==
  /\ IsText(text) /\ TypeOK
  /\ gosubStack \in Seq(Subs) /\ forStack \in Seq(Loops)
  /\ status = "running" => index \in Seq(Entries)
  /\ status = "running" /\ ~ ended =>
       /\ ptr \in Stops
       /\ Token(ptr) = "NUMBER" => forStack \in Seq(HomeLoops)

\* What is said of a text stays true while it is not changed.
LEMMA SameText ==
  ASSUME text' = text
  PROVE  /\ End' = End /\ Stops' = Stops /\ Entries' = Entries
         /\ Loops' = Loops /\ HomeLoops' = HomeLoops /\ Subs' = Subs
<1>2. After' = After
  BY Zenon DEF After, Token
<1>3. Atoi' = Atoi
  BY SMT DEF Atoi, Token
<1>4. LineEnd' = LineEnd
  BY <1>2, SMT DEF LineEnd, Token
<1>5. Begins' = Begins
  BY <1>2, Zenon DEF Begins, Token
<1>6. End' = End
  BY DEF End
<1>7. Stops' = Stops
  <2>1. \A p : Visible(p)' <=> Visible(p)
    BY <1>6, Zenon DEF Visible, Token
  <2>2. \A p : NoError(1, p - 1)' <=> NoError(1, p - 1)
    BY Zenon DEF NoError, Token
  <2>3. \A p : LeftByPrint(p)' <=> LeftByPrint(p)
    BY Zenon DEF LeftByPrint, SameLine, PrintTakes, Token
  <2>4. \A p : Strayed(p)' <=> Strayed(p)
    BY <1>5, <2>3, Zenon DEF Strayed, Token
  <2>5. \A p : Placed(p)' <=> Placed(p)
    BY <1>5, <2>4, Zenon DEF Placed, Token
  <2>6. QED
    BY <1>6, <2>1, <2>2, <2>5, SMT DEF Stops
<1>8. Entries' = Entries
  BY <1>3, <1>6, <1>7, Zenon DEF Entries, Token, Num
<1>9. Loops' = Loops
  BY <1>2, <1>3, <1>4, Zenon
     DEF Loops, Before, Behind, VariableNum, Num, Token
<1>10. HomeLoops' = HomeLoops
  BY <1>2, <1>3, <1>4, <1>5, Zenon
     DEF HomeLoops, Before, Behind, VariableNum, Num, Token
<1>11. Subs' = Subs
  BY <1>2, <1>3, <1>4, <1>5, Zenon DEF Subs, Before, Behind, Num, Token
<1>12. QED
  BY <1>6, <1>7, <1>8, <1>9, <1>10, <1>11

\* A place with a token is in the text.
LEMMA TokensInside ==
  ASSUME IsText(text), NEW p \in Places, Token(p) # "ENDOFINPUT"
  PROVE  p \in Inside
<1>1. Len(text) \in Nat /\ End = Len(text) + 1 /\ p \in Nat \ {0} /\ p <= Len(text)
  BY TextFacts DEF End, Places
<1>2. QED
  BY <1>1 DEF Inside, Outside

\* Only from a string does the scanner leave it.
LEMMA StaysInside ==
  ASSUME IsText(text), NEW p \in Places, Visible(p),
         Token(p) \notin {"STRING", "ENDOFINPUT"}
  PROVE  After[p] \in Inside
<1> DEFINE q == After[p]
<1>1. /\ q \in Places /\ q \in 1 .. End /\ Follows(p, q)
      /\ Token(p) = "ERROR" => q = p
  <2>1. q \in Places /\ Visible(q) /\ (Token(p) = "ERROR" => q = p)
    BY NextMoves
  <2>2. Follows(p, q)
    BY AfterSolves DEF AfterType, Visible
  <2>3. QED
    BY <2>1, <2>2 DEF Visible
<1> HIDE DEF q
<1>2. CASE Token(p) = "ERROR"
  BY <1>1, <1>2, TokensInside DEF q
<1>3. CASE Token(p) # "ERROR"
  <2>1. SUFFICES ASSUME Outside(q) PROVE FALSE
    BY <1>1 DEF Inside, q
  <2>2. Len(text) \in Nat /\ q - 1 = Len(text) /\ Len(text) # 0
    <3>1. Len(text) \in Nat /\ text # <<>>
      BY <2>1, TextFacts DEF Outside, Unclosed
    <3>2. Len(text) # 0
      BY <3>1, EmptySeq DEF IsText
    <3>3. QED
      BY <1>1, <2>1, <3>1, <3>2 DEF Outside, End, Places
  <2>3. Token(q - 1) = "STRING"
    BY <2>1, <2>2 DEF Outside, Unclosed, UnclosedString, Token
  <2>4. p < q /\ (q > p + 1 => Token(q - 1) = "CR")
    BY <1>1, <1>3 DEF Follows
  <2>5. q = p + 1 => Token(q - 1) = Token(p)
    BY DEF Places
  <2>6. QED
    BY <1>1, <2>3, <2>4, <2>5 DEF Places
<1>4. QED
  BY <1>2, <1>3

\* What is known of a place where a call can begin.
LEMMA InStops ==
  ASSUME IsText(text), NEW p \in Stops
  PROVE  /\ p \in Places /\ p \in 1 .. End /\ Visible(p) /\ NoError(1, p - 1) /\ Placed(p)
         /\ Token(p) = "NUMBER" => /\ p \in 1 .. Len(text) /\ Token(1) = "NUMBER"
                                   /\ NoError(1, p)
<1>1. Len(text) \in Nat /\ End = Len(text) + 1
  BY TextFacts DEF End
<1>2. /\ p \in Places /\ p \in 1 .. End /\ Visible(p) /\ NoError(1, p - 1) /\ Placed(p)
  BY <1>1 DEF Stops, Places
<1>3. ASSUME Token(p) = "NUMBER"
      PROVE  p \in 1 .. Len(text) /\ Token(1) = "NUMBER" /\ NoError(1, p)
  <2>1. p \in 1 .. Len(text)
    BY <1>1, <1>2, <1>3, TextFacts DEF Places
  <2>2. Token(1) # "ERROR"
    <3>1. p = 1 \/ 1 \in 1 .. (p - 1)
      BY <2>1
    <3>2. QED
      BY <1>2, <1>3, <3>1 DEF NoError
  <2>3. Token(1) # "ENDOFINPUT"
    BY <1>1, <2>1, TextFacts DEF Places
  <2>4. \A j \in 1 .. p : j = p \/ j \in 1 .. (p - 1)
    BY <2>1
  <2>5. QED
    BY <1>2, <1>3, <2>1, <2>2, <2>3, <2>4, TextFacts DEF LineStarts, NoError
<1>4. QED
  BY <1>2, <1>3

\* A place that the scanner comes to and where a line begins.
LEMMA LineStops ==
  ASSUME IsText(text), NEW p \in Places, NEW q \in Places, p >= 1,
         NoError(1, p - 1), Moves(p, q), Placed(q)
  PROVE  q \in Stops
<1>1. Visible(q) /\ NoError(p, q - 1) /\ p <= q
  BY DEF Moves
<1>2. \A j \in 1 .. (q - 1) : j \in 1 .. (p - 1) \/ j \in p .. (q - 1)
  BY <1>1 DEF Places
<1>3. NoError(1, q - 1)
  BY <1>1, <1>2 DEF NoError
<1>4. QED
  BY <1>1, <1>3 DEF Stops, Visible

\* A line with no error up to it is such a place.
LEMMA BeginsStop ==
  ASSUME IsText(text), NEW p \in Begins, NoError(1, p)
  PROVE  p \in Stops
<1>1. p \in Places /\ Visible(p) /\ p \in 1 .. End
  BY BeginsFacts DEF Visible
<1>2. NoError(1, p - 1)
  BY <1>1 DEF NoError, Places
<1>3. QED
  BY <1>1, <1>2 DEF Stops, Placed

\* The line that is executed goes into the index.
LEMMA IndexGrows ==
  ASSUME IsText(text), ptr \in Stops, Token(ptr) = "NUMBER", index \in Seq(Entries)
  PROVE  IndexAdd(index, ptr) \in Seq(Entries)
<1> DEFINE x == [line |-> Num(ptr), position |-> ptr]
<1>1. Num(ptr) \in Bytes /\ ptr \in 1 .. End
  BY InStops, NumTyped
<1>2. x \in Entries
  BY <1>1 DEF Entries
<1> HIDE DEF x
<1>3. Append(index, x) \in Seq(Entries)
  BY <1>2, AppendProperties
<1>4. QED
  BY <1>3 DEF IndexAdd, x

\* A jump that comes back goes to a line with the number asked for: to the
\* one the search finds, or to one of the index.
LEMMA JumpLands ==
  ASSUME IsText(text), Token(1) = "NUMBER", index' \in Seq(Entries), NEW line,
         JumpLinenum(line) # 0
  PROVE  LET p == JumpLinenum(line)
         IN  /\ p \in Stops /\ p \in Inside /\ Token(p) = "NUMBER" /\ Num(p) = line
             /\ p \in Begins \/ Shadowed(line)
<1> DEFINE p == JumpLinenum(line)
           found == Indexed(index', line)
<1>0. ASSUME p \in Stops, Token(p) = "NUMBER" PROVE p \in Inside
  <2> HIDE DEF p
  <2>1. QED
    BY <1>0, InStops, TokensInside
<1>1. CASE found = {}
  <2>1. p = JumpLinenumSlow(line)
    BY <1>1 DEF JumpLinenum
  <2> HIDE DEF p
  <2>2. p \in Begins /\ Num(p) = line /\ NoError(1, p)
    BY <2>1, SlowLands DEF p
  <2>3. p \in Stops /\ Token(p) = "NUMBER"
    BY <2>2, BeginsStop, BeginsFacts
  <2>4. QED
    BY <1>0, <2>2, <2>3 DEF p
<1>2. CASE found # {}
  <2> DEFINE i == CHOOSE j \in found : TRUE
  <2>1. i \in found /\ p = index'[i].position
    BY <1>2 DEF JumpLinenum
  <2> HIDE DEF i
  <2>2. i \in 1 .. Len(index') /\ index'[i].line = line
    BY <2>1 DEF Indexed
  <2>3. index'[i] \in Entries
    BY <2>2, ElementOfSeq
  <2>4. p \in Stops /\ Token(p) = "NUMBER" /\ Num(p) = line
    BY <2>1, <2>2, <2>3 DEF Entries
  <2> HIDE DEF p, found
  <2>5. p \in Begins \/ Strayed(p)
    BY <2>4, InStops DEF Placed
  <2>6. Strayed(p) => Shadowed(line)
    BY <2>1 DEF Shadowed, found
  <2>7. QED
    BY <1>0, <2>4, <2>5, <2>6 DEF p
<1>3. QED
  BY <1>1, <1>2

-------------------------------------------------------------------------------
(***************************************************************************)
(* What all statements have in common.                                     *)
(***************************************************************************)
\* A sequence over a set is one over a larger set.
LEMMA SeqGrows ==
  ASSUME NEW S, NEW T, S \in SUBSET T, NEW q \in Seq(S)
  PROVE  q \in Seq(T)
  OBVIOUS

\* The records in the index.
IndexRecords == [line : Bytes, position : 1 .. End]

\* What is true of the rest of the state when the place to go on from is known.
LEMMA KeepsInv ==
  ASSUME UbasicInv, text' = text, ptr' \in Inside,
         variables' \in [Variables -> Bytes],
         index' \in Seq(IndexRecords), status' = "running" => index' \in Seq(Entries),
         gosubStack' \in Seq(Subs), Len(gosubStack') <= MaxGosub,
         forStack' \in Seq(Loops), Len(forStack') <= MaxFor,
         ended' \in BOOLEAN, status' \in Fates \cup {"running"},
         status' = "astray" => Unclosed,
         status' = "running" /\ ~ ended' =>
           /\ ptr' \in Stops
           /\ Token(ptr') = "NUMBER" => forStack' \in Seq(HomeLoops)
  PROVE  UbasicInv'
<1>1. /\ End' = End /\ Stops' = Stops /\ Entries' = Entries
      /\ Loops' = Loops /\ HomeLoops' = HomeLoops /\ Subs' = Subs
  BY SameText
<1>2. Token(ptr)' = Token(ptr')
  BY Zenon DEF Token
<1>3. IsText(text)' /\ ptr' \in 1 .. End /\ ~ Outside(ptr)' /\ Unclosed' = Unclosed
  BY DEF UbasicInv, Inside, Outside, Unclosed
<1>4. gosubStack' \in Seq(Bytes) /\ forStack' \in Seq(LoopRecords)
  <2>1. Subs \in SUBSET Bytes /\ Loops \in SUBSET LoopRecords
    BY DEF Subs, Loops
  <2>2. QED
    BY <2>1, SeqGrows
<1>5. TypeOK'
  BY <1>1, <1>3, <1>4 DEF TypeOK, LoopRecords, IndexRecords
<1>6. QED
  BY <1>1, <1>2, <1>3, <1>5 DEF UbasicInv

\* The parts of the invariant that do not depend on the place.
LEMMA InvFacts ==
  ASSUME UbasicInv
  PROVE  /\ IsText(text) /\ ptr \in Inside /\ variables \in [Variables -> Bytes]
         /\ index \in Seq(IndexRecords) /\ (status = "running" => index \in Seq(Entries))
         /\ gosubStack \in Seq(Subs) /\ Len(gosubStack) <= MaxGosub
         /\ forStack \in Seq(Loops) /\ Len(forStack) <= MaxFor
         /\ ended \in BOOLEAN /\ status \in Fates \cup {"running"}
         /\ status = "astray" => Unclosed
         /\ MaxGosub \in Nat \ {0} /\ MaxFor \in Nat \ {0}
  BY UbasicAssumption DEF UbasicInv, TypeOK, IndexRecords, Inside

\* The end of running.
LEMMA StopKeeps ==
  ASSUME UbasicInv, text' = text, index' \in Seq(IndexRecords),
         NEW fate \in Fates, Stop(fate), fate = "astray" => Unclosed
  PROVE  UbasicInv'
<1>1. /\ status' = fate /\ fate # "running"
      /\ ptr' = ptr /\ variables' = variables /\ ended' = ended
      /\ gosubStack' = gosubStack /\ forStack' = forStack
  BY DEF Stop, stacks, Fates
<1>2. QED
  BY <1>1, InvFacts, KeepsInv

\* In particular a failure of accept.
LEMMA ExitKeeps ==
  ASSUME UbasicInv, text' = text, index' \in Seq(IndexRecords), Exit
  PROVE  UbasicInv'
<1>1. "exit" \in Fates /\ Stop("exit")
  BY DEF Exit, Fates
<1>2. QED
  BY <1>1, StopKeeps

\* What is known when a line is executed.
LEMMA InLine ==
  ASSUME UbasicInv, NEW kind, Line(kind)
  PROVE  /\ text' = text /\ status = "running" /\ ~ ended
         /\ ptr \in Stops /\ Token(1) = "NUMBER"
         /\ index' \in Seq(Entries) /\ index' \in Seq(IndexRecords)
         /\ forStack \in Seq(HomeLoops) /\ forStack \in Seq(Loops)
         /\ At \in Places /\ Visible(At) /\ NoError(1, At - 1) /\ Token(At) = kind
<1>1. /\ text' = text /\ status = "running" /\ ~ ended /\ index' = IndexAdd(index, ptr)
      /\ Token(ptr) = "NUMBER" /\ Statement.ok /\ At # 0 /\ Token(At) = kind
  BY DEF Line, Executes, Active, Done
<1>2. /\ IsText(text) /\ ptr \in Stops /\ index \in Seq(Entries) /\ forStack \in Seq(HomeLoops)
      /\ forStack \in Seq(Loops) /\ variables \in [Variables -> Bytes]
  BY <1>1, InvFacts DEF UbasicInv
<1>3. /\ ptr \in Places /\ Visible(ptr) /\ NoError(1, ptr - 1) /\ Token(1) = "NUMBER"
  BY <1>1, <1>2, InStops
<1>4. index' \in Seq(Entries)
  BY <1>1, <1>2, IndexGrows
<1>5. index' \in Seq(IndexRecords)
  <2>1. Entries \in SUBSET IndexRecords
    BY DEF Entries, IndexRecords
  <2>2. QED
    BY <1>4, <2>1, SeqGrows
<1>6. After[ptr] \in Places /\ Visible(After[ptr]) /\ Moves(ptr, After[ptr])
  BY <1>2, <1>3, NextMoves
<1>7. Statement \in ChosenType(After[ptr])
  BY <1>2, <1>6, ChosenTyped DEF Statement
<1>8. At \in Places /\ Moves(After[ptr], At)
  <2>1. PICK q \in Places : Statement = AtStatement(q) /\ Moves(After[ptr], q)
    BY <1>1, <1>6, <1>7 DEF ChosenType, BadStatement, NoStatement, At
  <2>2. QED
    BY <2>1 DEF AtStatement, At
<1>9. Moves(ptr, At)
  BY <1>3, <1>6, <1>8, MovesOn
<1>10. Visible(At) /\ NoError(1, At - 1)
  <2>1. Visible(At) /\ NoError(ptr, At - 1) /\ ptr <= At
    BY <1>9 DEF Moves
  <2>2. \A j \in 1 .. (At - 1) : j \in 1 .. (ptr - 1) \/ j \in ptr .. (At - 1)
    BY <1>3, <1>8, <2>1 DEF Places
  <2>3. QED
    BY <1>3, <2>1, <2>2 DEF NoError
<1>11. QED
  BY <1>1, <1>2, <1>3, <1>4, <1>5, <1>8, <1>10

\* A line that comes to its end goes on at the next one.
LEMMA NextLineStops ==
  ASSUME UbasicInv, NEW kind, Line(kind), NEW c \in Places, Moves(At, c), Token(c) = "CR"
  PROVE  /\ After[c] \in Places /\ After[c] \in Stops /\ After[c] \in Inside
         /\ Token(After[c]) = "NUMBER" => After[c] \in Begins
<1>1. /\ IsText(text) /\ At \in Places /\ At >= 1 /\ NoError(1, At - 1) /\ Visible(c)
  BY InvFacts, InLine DEF Moves, Places
<1>2. /\ After[c] \in Places /\ Moves(c, After[c]) /\ Token(After[c]) \in LineStarts
      /\ Token(After[c]) = "NUMBER" => After[c] \in Begins
  BY <1>1, BehindEnd
<1>3. Moves(At, After[c])
  BY <1>1, <1>2, MovesOn
<1>4. Placed(After[c])
  BY <1>2 DEF Placed, LineStarts
<1>5. After[c] \in Stops
  BY <1>1, <1>2, <1>3, <1>4, LineStops
<1>6. QED
  BY <1>1, <1>2, <1>5, StaysInside

\* A statement that goes on at a place where a call can begin.
LEMMA GoOnKeeps ==
  ASSUME UbasicInv, NEW kind, Line(kind), NEW p \in Stops, p \in Inside, GoOn(p),
         variables' \in [Variables -> Bytes],
         gosubStack' \in Seq(Subs), Len(gosubStack') <= MaxGosub,
         forStack' \in Seq(Loops), Len(forStack') <= MaxFor,
         Token(p) = "NUMBER" => forStack' \in Seq(HomeLoops)
  PROVE  UbasicInv'
<1>1. ptr' = p /\ ended' = ended /\ status' = status
  BY DEF GoOn
<1>2. QED
  BY <1>1, InvFacts, InLine, KeepsInv

\* A statement that jumps, or does not come back from the search.
LEMMA JumpKeeps ==
  ASSUME UbasicInv, NEW kind, Line(kind), NEW line, JumpTo(line),
         variables' \in [Variables -> Bytes],
         gosubStack' \in Seq(Subs), Len(gosubStack') <= MaxGosub,
         forStack' \in Seq(HomeLoops), Len(forStack') <= MaxFor
  PROVE  UbasicInv'
<1>0. forStack' \in Seq(Loops)
  <2>1. HomeLoops \in SUBSET Loops
    BY DEF HomeLoops, Loops
  <2>2. QED
    BY <2>1, SeqGrows
<1>1. CASE JumpLinenum(line) = 0
  <2>1. /\ status' \in Fates /\ status' # "running" /\ (status' = "astray" => Unclosed)
        /\ ptr' = ptr /\ ended' = ended
    BY <1>1 DEF JumpTo, SearchEnd, Fates
  <2>2. QED
    BY <1>0, <2>1, InvFacts, InLine, KeepsInv
<1>2. CASE JumpLinenum(line) # 0
  <2>1. ptr' = JumpLinenum(line) /\ ended' = ended /\ status' = status
    BY <1>2 DEF JumpTo
  <2>2. ptr' \in Stops /\ ptr' \in Inside
    BY <1>2, <2>1, InvFacts, InLine, JumpLands
  <2>3. QED
    BY <1>0, <2>1, <2>2, InvFacts, InLine, KeepsInv
<1>3. QED
  BY <1>1, <1>2

\* An assignment cuts its value to a byte.
LEMMA SetTyped ==
  ASSUME UbasicInv, NEW v \in Variables, NEW value \in Int, Set(v, value)
  PROVE  variables' \in [Variables -> Bytes]
<1>1. value % Byte \in Bytes
  BY ByteAssumption DEF Bytes
<1>2. QED
  BY <1>1, InvFacts DEF Set

-------------------------------------------------------------------------------
(***************************************************************************)
(* The statements that print and jump.                                     *)
(***************************************************************************)
\* What is on a stack is left of it when its top is taken.
LEMMA PopTyped ==
  ASSUME NEW S, NEW q \in Seq(S), q # <<>>
  PROVE  /\ q[Len(q)] \in S
         /\ SubSeq(q, 1, Len(q) - 1) \in Seq(S)
         /\ Len(SubSeq(q, 1, Len(q) - 1)) <= Len(q)
<1>1. Len(q) \in Nat /\ Len(q) # 0
  BY EmptySeq
<1>2. q[Len(q)] \in S
  BY <1>1, ElementOfSeq
<1>3. \A i \in 1 .. (Len(q) - 1) : q[i] \in S
  BY <1>1, ElementOfSeq
<1> DEFINE n == Len(q) - 1
<1>4. n \in Int /\ n <= Len(q) /\ n >= 0
  BY <1>1
<1> HIDE DEF n
<1>5. /\ SubSeq(q, 1, n) \in Seq(S)
      /\ Len(SubSeq(q, 1, n)) = IF 1 <= n THEN n - 1 + 1 ELSE 0
  BY <1>3, <1>4, SubSeqProperties DEF n
<1>6. QED
  BY <1>1, <1>2, <1>4, <1>5 DEF n

\* What a push below the limit leaves.
LEMMA PushTyped ==
  ASSUME NEW S, NEW q \in Seq(S), NEW x \in S, NEW m \in Nat, Len(q) < m
  PROVE  Append(q, x) \in Seq(S) /\ Len(Append(q, x)) <= m
<1>1. Append(q, x) \in Seq(S) /\ Len(Append(q, x)) = Len(q) + 1 /\ Len(q) \in Nat
  BY AppendProperties
<1>2. QED
  BY <1>1

\* The line goes on, and what comes next is a token of it.
LEMMA LineReads ==
  ASSUME UbasicInv, NEW kind, Line(kind), NEW p \in Places, Reads(At, p),
         Token(p) \notin {"ENDOFINPUT", "ERROR", "CR"}
  PROVE  /\ After[p] \in Places /\ Reads(At, After[p]) /\ Moves(At, After[p])
         /\ After[p] > p /\ Visible(p) /\ Visible(After[p]) /\ p >= At
<1>1. IsText(text) /\ At \in Places /\ Visible(p) /\ p >= At
  BY InvFacts, InLine DEF Reads, Moves
<1>2. After[p] \in Places /\ Reads(p, After[p]) /\ After[p] > p
  BY <1>1, NextMoves
<1>3. Reads(At, After[p])
  BY <1>1, <1>2, MovesOn
<1>4. QED
  BY <1>1, <1>2, <1>3 DEF Reads, Moves

\* An expression in the line, and what is behind it.
LEMMA LineParses ==
  ASSUME UbasicInv, NEW kind, Line(kind), NEW p \in Places, Reads(At, p),
         NEW env \in [Variables -> Bytes], Parse("expr", p, env).ok
  PROVE  LET r == Parse("expr", p, env)
         IN  r.value \in Bytes /\ r.at \in Places /\ Reads(At, r.at) /\ r.at > p
<1> DEFINE r == Parse("expr", p, env)
<1>1. IsText(text) /\ At \in Places /\ Visible(p)
  BY InvFacts, InLine DEF Reads, Moves
<1>2. r.value \in Bytes /\ r.at \in Places /\ Reads(p, r.at) /\ r.at > p
  BY <1>1, ParseTyped
<1> HIDE DEF r
<1>3. Reads(At, r.at)
  BY <1>1, <1>2, MovesOn
<1>4. QED
  BY <1>2, <1>3 DEF r

\* The statement is in its line.
LEMMA AtReads ==
  ASSUME UbasicInv, NEW kind, Line(kind)
  PROVE  Reads(At, At)
  BY InvFacts, InLine, MovesOn

\* Behind the items of a print a line begins, or the scanner has strayed.
LEMMA PrintStrays ==
  ASSUME IsText(text), NEW k \in Places, Token(k) = "PRINT", NoError(1, k - 1),
         NEW q \in Places, q > k, Reads(k, q), Token(q) \notin PrintTakes
  PROVE  After[q] \in Stops
<1> DEFINE p == After[q]
<1>1. Visible(q) /\ Moves(k, q) /\ SameLine(k, q - 1)
  BY DEF Reads, Moves
<1>2. /\ p \in Places /\ Moves(q, p)
      /\ Token(q) \in {"ENDOFINPUT", "ERROR"} => p = q
      /\ Token(q) \notin {"ENDOFINPUT", "ERROR"} => p > q /\ Follows(q, p)
  BY <1>1, NextMoves
<1> HIDE DEF p
<1>3. Moves(k, p)
  BY <1>1, <1>2, MovesOn
<1>4. ASSUME Token(q) = "CR"
      PROVE  Placed(p)
  BY <1>1, <1>4, BehindEnd DEF p, Placed, LineStarts
<1>5. ASSUME Token(q) \in {"ENDOFINPUT", "ERROR"}
      PROVE  Placed(p)
  BY <1>2, <1>5 DEF Placed
<1>6. ASSUME Token(q) \notin {"CR", "ENDOFINPUT", "ERROR"}
      PROVE  Placed(p)
  <2>1. p > q /\ Follows(q, p) /\ p \in Places
    BY <1>2, <1>6
  <2>2. p > 2
    BY <2>1 DEF Places
  <2>3. CASE p = q + 1
    <3>1. SameLine(k + 1, p - 1)
      <4>1. \A j \in (k + 1) .. (p - 1) : j = q \/ j \in k .. (q - 1)
        BY <2>3 DEF Places
      <4>2. QED
        BY <1>1, <1>6, <4>1 DEF SameLine
    <3>2. k \in 1 .. (p - 2) /\ Token(p - 1) = Token(q)
      BY <2>3 DEF Places
    <3>3. LeftByPrint(p)
      BY <1>6, <3>1, <3>2 DEF LeftByPrint
    <3>4. QED
      BY <2>2, <3>3 DEF Placed, Strayed
  <2>4. CASE p # q + 1
    <3>1. Token(p - 1) = "CR" /\ Token(p - 2) = "REM"
      BY <1>6, <2>1, <2>4 DEF Follows, Places
    <3>2. QED
      BY <2>2, <3>1 DEF Placed, Strayed
  <2>5. QED
    BY <2>3, <2>4
<1>7. Placed(p)
  BY <1>4, <1>5, <1>6
<1>8. QED
  BY <1>2, <1>3, <1>7, LineStops DEF p, Places

\* The invariant is kept by print.
LEMMA PrintKeeps ==
  ASSUME UbasicInv, PrintStatement
  PROVE  UbasicInv'
<1> DEFINE q == Items[After[At]]
<1>1. Line("PRINT")
  BY DEF PrintStatement
<1>2. /\ IsText(text) /\ text' = text /\ Token(At) = "PRINT" /\ At \in Places
      /\ NoError(1, At - 1) /\ index' \in Seq(IndexRecords) /\ forStack \in Seq(HomeLoops)
      /\ variables \in [Variables -> Bytes] /\ gosubStack \in Seq(Subs)
      /\ Len(gosubStack) <= MaxGosub /\ forStack \in Seq(Loops) /\ Len(forStack) <= MaxFor
  BY <1>1, InvFacts, InLine
<1>3. After[At] \in Places /\ Reads(At, After[At]) /\ After[At] > At /\ Visible(After[At])
  BY <1>1, <1>2, AtReads, LineReads
<1>4. q \in ItemsType(After[At])
  BY <1>2, <1>3, ItemsTyped
<1>5. CASE q = 0
  BY <1>1, <1>2, <1>5, ExitKeeps DEF PrintStatement
<1>6. CASE q # 0 /\ Outside(q)
  <2>1. Stop("astray") /\ Unclosed /\ "astray" \in Fates
    BY <1>6 DEF PrintStatement, Outside, Fates
  <2>2. QED
    BY <1>2, <2>1, StopKeeps
<1>7. CASE q # 0 /\ ~ Outside(q)
  <2>1. /\ q \in Places /\ q > At /\ Token(q) \notin PrintTakes
        /\ Reads(After[At], q)
    BY <1>2, <1>3, <1>4, <1>7 DEF ItemsType, Places
  <2>2. GoOn(After[q]) /\ variables' = variables
        /\ gosubStack' = gosubStack /\ forStack' = forStack
    BY <1>7 DEF PrintStatement, stacks
  <2> HIDE DEF q
  <2>3. After[q] \in Stops
    <3>1. Reads(At, q)
      BY <1>2, <1>3, <2>1, MovesOn
    <3>2. QED
      BY <1>2, <2>1, <3>1, PrintStrays
  <2>4. After[q] \in Inside
    <3>1. Visible(q)
      BY <2>1 DEF Reads, Moves
    <3>2. CASE Token(q) = "ENDOFINPUT"
      BY <1>2, <1>7, <2>1, <3>1, <3>2, NextMoves DEF Inside, Visible
    <3>3. CASE Token(q) # "ENDOFINPUT"
      BY <1>2, <2>1, <3>1, <3>3, StaysInside DEF PrintTakes
    <3>4. QED
      BY <3>2, <3>3
  <2>5. QED
    BY <1>1, <1>2, <2>2, <2>3, <2>4, GoOnKeeps
<1>8. QED
  BY <1>5, <1>6, <1>7

\* The invariant is kept by goto.
LEMMA GotoKeeps ==
  ASSUME UbasicInv, GotoStatement
  PROVE  UbasicInv'
<1>1. /\ Line("GOTO") /\ JumpTo(Num(After[At])) /\ variables' = variables
      /\ gosubStack' = gosubStack /\ forStack' = forStack
  BY DEF GotoStatement, stacks
<1>2. QED
  BY <1>1, InvFacts, InLine, JumpKeeps

\* A statement that reads its line to the end has that end at LineEnd.
LEMMA EndIsSeen ==
  ASSUME UbasicInv, NEW kind, Line(kind), kind # "ENDOFINPUT",
         NEW c \in Places, Reads(At, c), c > At, Token(c) = "CR"
  PROVE  /\ At \in 1 .. Len(text) /\ LineEnd[At] = c /\ LineEnd[At] # 0
         /\ Behind(At) = After[c] /\ Num(After[c]) \in Bytes
         /\ After[c] \in Stops /\ After[c] \in Inside
         /\ Token(After[c]) = "NUMBER" => After[c] \in Begins
<1>1. /\ IsText(text) /\ At \in Places /\ Visible(At) /\ Token(At) = kind
  BY InvFacts, InLine
<1>2. At \in 1 .. Len(text)
  BY <1>1, TextFacts DEF Places
<1>3. LineEnd[At] = c
  BY <1>1, LineEndIs
<1>4. /\ After[c] \in Places /\ After[c] \in Stops /\ After[c] \in Inside
      /\ Token(After[c]) = "NUMBER" => After[c] \in Begins
  BY NextLineStops DEF Reads
<1>5. Num(After[c]) \in Bytes
  BY <1>1, <1>4, NumTyped
<1>6. QED
  BY <1>2, <1>3, <1>4, <1>5 DEF Behind, Places

\* The invariant is kept by gosub.
LEMMA GosubKeeps ==
  ASSUME UbasicInv, GosubStatement
  PROVE  UbasicInv'
<1> DEFINE n == After[At]
           q == After[n]
           back == Num(After[q])
<1>1. Line("GOSUB")
  BY DEF GosubStatement
<1>2. /\ IsText(text) /\ text' = text /\ Token(At) = "GOSUB" /\ At \in Places
      /\ index' \in Seq(IndexRecords) /\ forStack \in Seq(HomeLoops)
      /\ variables \in [Variables -> Bytes] /\ gosubStack \in Seq(Subs)
      /\ Len(gosubStack) <= MaxGosub /\ forStack \in Seq(Loops) /\ Len(forStack) <= MaxFor
      /\ MaxGosub \in Nat
  BY <1>1, InvFacts, InLine
<1>3. n \in Places /\ Reads(At, n) /\ n > At
  BY <1>1, <1>2, AtReads, LineReads
<1>4. CASE Token(n) # "NUMBER" \/ Token(q) # "CR"
  BY <1>1, <1>2, <1>4, ExitKeeps DEF GosubStatement
<1>5. CASE Token(n) = "NUMBER" /\ Token(q) = "CR"
  <2>1. q \in Places /\ Reads(At, q) /\ q > At
    <3> HIDE DEF n
    <3>1. After[n] \in Places /\ Reads(At, After[n]) /\ After[n] > n
      BY <1>1, <1>3, <1>5, LineReads
    <3>2. QED
      BY <1>2, <1>3, <3>1 DEF Places
  <2>2. /\ IF Len(gosubStack) < MaxGosub
           THEN gosubStack' = Append(gosubStack, back) /\ JumpTo(Num(n))
           ELSE GoOn(After[q]) /\ gosubStack' = gosubStack
        /\ variables' = variables /\ forStack' = forStack
    BY <1>5 DEF GosubStatement
  <2> HIDE DEF n, q
  <2>3. /\ At \in 1 .. Len(text) /\ LineEnd[At] # 0 /\ Behind(At) = After[q]
        /\ back \in Bytes /\ After[q] \in Stops /\ After[q] \in Inside
        /\ Token(After[q]) = "NUMBER" => After[q] \in Begins
    BY <1>1, <1>5, <2>1, EndIsSeen
  <2>4. CASE Len(gosubStack) < MaxGosub
    <3>1. back \in Subs
      BY <1>2, <2>3 DEF Subs, Before
    <3> HIDE DEF back
    <3>2. gosubStack' \in Seq(Subs) /\ Len(gosubStack') <= MaxGosub
      BY <1>2, <2>2, <2>4, <3>1, PushTyped
    <3>3. QED
      BY <1>1, <1>2, <2>2, <2>4, <3>2, JumpKeeps
  <2>5. CASE ~ Len(gosubStack) < MaxGosub
    BY <1>1, <1>2, <2>2, <2>3, <2>5, GoOnKeeps
  <2>6. QED
    BY <2>4, <2>5
<1>6. QED
  BY <1>4, <1>5

\* The invariant is kept by return.
LEMMA ReturnKeeps ==
  ASSUME UbasicInv, ReturnStatement
  PROVE  UbasicInv'
<1>1. Line("RETURN") /\ variables' = variables /\ forStack' = forStack
  BY DEF ReturnStatement
<1>2. /\ IsText(text) /\ text' = text /\ Token(At) = "RETURN" /\ At \in Places
      /\ NoError(1, At - 1) /\ Token(1) = "NUMBER"
      /\ index' \in Seq(IndexRecords) /\ forStack \in Seq(HomeLoops)
      /\ variables \in [Variables -> Bytes] /\ gosubStack \in Seq(Subs)
      /\ Len(gosubStack) <= MaxGosub /\ forStack \in Seq(Loops) /\ Len(forStack) <= MaxFor
      /\ MaxGosub \in Nat
  BY <1>1, InvFacts, InLine
<1>3. CASE gosubStack # <<>>
  <2>1. /\ gosubStack' = SubSeq(gosubStack, 1, Len(gosubStack) - 1)
        /\ JumpTo(gosubStack[Len(gosubStack)])
    BY <1>3 DEF ReturnStatement
  <2>2. gosubStack' \in Seq(Subs) /\ Len(gosubStack') <= MaxGosub
    <3>1. gosubStack' \in Seq(Subs) /\ Len(gosubStack') <= Len(gosubStack)
      BY <1>2, <1>3, <2>1, PopTyped
    <3>2. Len(gosubStack) \in Nat /\ Len(gosubStack') \in Nat
      BY <1>2, <3>1, LenProperties
    <3>3. QED
      BY <1>2, <3>1, <3>2
  <2>3. QED
    BY <1>1, <1>2, <2>1, <2>2, JumpKeeps
<1>4. CASE gosubStack = <<>>
  <2> DEFINE p == After[At]
  <2>1. GoOn(p) /\ gosubStack' = gosubStack
    BY <1>4 DEF ReturnStatement
  <2>2. /\ Visible(At) /\ p \in Places /\ Moves(At, p) /\ p > At
    BY <1>1, <1>2, AtReads, LineReads
  <2>3. Follows(At, p)
    BY <1>2, <2>2, NextMoves
  <2> HIDE DEF p
  <2>4. p > 2
    BY <1>2, <2>2 DEF Places
  <2>5. Token(p - 1) = "RETURN" \/ (Token(p - 1) = "CR" /\ Token(p - 2) = "REM")
    <3>1. CASE p = At + 1
      BY <1>2, <3>1 DEF Places
    <3>2. CASE p # At + 1
      BY <1>2, <2>2, <2>3, <3>2 DEF Follows, Places
    <3>3. QED
      BY <3>1, <3>2
  <2>6. Placed(p)
    BY <2>4, <2>5 DEF Placed, Strayed
  <2>7. p \in Stops
    BY <1>2, <2>2, <2>6, LineStops DEF Places
  <2>8. p \in Inside
    BY <1>2, <2>2, StaysInside DEF p
  <2>9. QED
    BY <1>1, <1>2, <2>1, <2>7, <2>8, GoOnKeeps
<1>5. QED
  BY <1>3, <1>4

-------------------------------------------------------------------------------
(***************************************************************************)
(* Loops, assignments, and peek and poke.                                  *)
(***************************************************************************)
\* A line that ends where the scanner reads it to.
LEMMA EndsLine ==
  ASSUME UbasicInv, NEW kind, Line(kind), NEW c \in Places, Reads(At, c), Token(c) = "CR",
         GoOn(After[c]), variables' \in [Variables -> Bytes],
         gosubStack' = gosubStack, forStack' = forStack
  PROVE  UbasicInv'
<1>1. After[c] \in Stops /\ After[c] \in Inside
  BY NextLineStops DEF Reads
<1>2. QED
  BY <1>1, InvFacts, InLine, GoOnKeeps

\* What a line knows of the state it changes.
LEMMA LineFacts ==
  ASSUME UbasicInv, NEW kind, Line(kind)
  PROVE  /\ IsText(text) /\ text' = text /\ Token(At) = kind /\ At \in Places
         /\ index' \in Seq(IndexRecords) /\ variables \in [Variables -> Bytes]
         /\ gosubStack \in Seq(Subs) /\ Len(gosubStack) <= MaxGosub
         /\ forStack \in Seq(HomeLoops) /\ forStack \in Seq(Loops) /\ Len(forStack) <= MaxFor
         /\ MaxFor \in Nat /\ Reads(At, At)
  BY InvFacts, InLine, AtReads

\* A variable of the text is one of the variables.
LEMMA VariableTyped ==
  ASSUME IsText(text), NEW p \in Places, Token(p) = "VARIABLE"
  PROVE  VariableNum(p) \in Variables
  BY TextFacts DEF VariableNum, Places

\* The invariant is kept by for.
LEMMA ForKeeps ==
  ASSUME UbasicInv, ForStatement
  PROVE  UbasicInv'
<1> DEFINE a     == After[At]
           v     == VariableNum(a)
           eq    == After[a]
           first == Parse("expr", After[eq], variables)
           env   == [variables EXCEPT ![v] = first.value]
           to    == Parse("expr", After[first.at], env)
           c     == to.at
           back  == Num(After[c])
           loop  == Loop(v, to.value, back)
           Good  == /\ Token(a) = "VARIABLE" /\ Token(eq) = "EQ"
                    /\ first.ok /\ Token(first.at) = "TO" /\ to.ok /\ Token(c) = "CR"
<1>1. Line("FOR")
  BY DEF ForStatement
<1>2. a \in Places /\ Reads(At, a) /\ a > At
  BY <1>1, LineFacts, LineReads
<1>3. CASE ~ Good
  <2>1. Exit
    BY <1>3 DEF ForStatement
  <2>2. QED
    BY <1>1, <2>1, LineFacts, ExitKeeps
<1>4. CASE Good
  <2>1. /\ Set(v, first.value) /\ PushLoop(loop) /\ GoOn(After[c])
        /\ gosubStack' = gosubStack
    BY <1>4 DEF ForStatement
  <2>2. v \in Variables
    BY <1>1, <1>2, <1>4, LineFacts, VariableTyped
  <2>3. eq \in Places /\ Reads(At, eq) /\ eq > a
    <3> HIDE DEF a
    <3>1. QED
      BY <1>1, <1>2, <1>4, LineReads
  <2>4. After[eq] \in Places /\ Reads(At, After[eq]) /\ After[eq] > eq
    <3> HIDE DEF a, eq
    <3>1. QED
      BY <1>1, <1>4, <2>3, LineReads
  <2>5. /\ first.value \in Bytes /\ first.at \in Places /\ Reads(At, first.at)
        /\ first.at > After[eq]
    <3>1. variables \in [Variables -> Bytes] /\ first.ok
      BY <1>1, <1>4, LineFacts
    <3> HIDE DEF a, eq
    <3>2. QED
      BY <1>1, <2>4, <3>1, LineParses
  <2>6. env \in [Variables -> Bytes]
    <3> HIDE DEF first, v
    <3>1. QED
      BY <1>1, <2>5, LineFacts
  <2> HIDE DEF first, env
  <2>7. /\ After[first.at] \in Places /\ Reads(At, After[first.at])
        /\ After[first.at] > first.at
    BY <1>1, <1>4, <2>5, LineReads
  <2>8. /\ to.value \in Bytes /\ c \in Places /\ Reads(At, c) /\ c > After[first.at]
    BY <1>1, <1>4, <2>6, <2>7, LineParses
  <2> HIDE DEF to
  <2>9. c > At
    BY <1>1, <1>2, <2>3, <2>4, <2>5, <2>7, <2>8, LineFacts DEF Places
  <2> HIDE DEF eq
  <2>10. /\ At \in 1 .. Len(text) /\ LineEnd[At] # 0 /\ Behind(At) = After[c]
         /\ back \in Bytes /\ After[c] \in Stops /\ After[c] \in Inside
         /\ Token(After[c]) = "NUMBER" => After[c] \in Begins
    BY <1>1, <1>4, <2>8, <2>9, EndIsSeen
  <2>11. Token(At) = "FOR"
    BY <1>1, LineFacts
  <2>12. /\ loop \in Loops
         /\ Token(After[c]) = "NUMBER" => loop \in HomeLoops
    <3> HIDE DEF v, c
    <3>1. loop \in LoopRecords
      BY <2>2, <2>8, <2>10 DEF Loop, LoopRecords, c
    <3>2. Before("FOR", At, loop.line) /\ VariableNum(After[At]) = loop.variable
      BY <2>10, <2>11 DEF Before, Loop, v
    <3> HIDE DEF loop
    <3>3. QED
      BY <2>10, <3>1, <3>2 DEF Loops, HomeLoops
  <2>13. /\ forStack' = forStack \/ (forStack' = Append(forStack, loop)
                                       /\ Len(forStack) < MaxFor)
    BY <2>1 DEF PushLoop
  <2> HIDE DEF loop
  <2>14. /\ forStack' \in Seq(Loops) /\ Len(forStack') <= MaxFor
         /\ Token(After[c]) = "NUMBER" => forStack' \in Seq(HomeLoops)
    BY <1>1, <2>12, <2>13, LineFacts, PushTyped
  <2>15. variables' \in [Variables -> Bytes]
    <3>1. first.value \in Int
      BY <2>5 DEF Bytes
    <3>2. QED
      BY <2>1, <2>2, <3>1, SetTyped
  <2> HIDE DEF v, c
  <2>16. QED
    BY <1>1, <2>1, <2>10, <2>14, <2>15, LineFacts, GoOnKeeps
<1>5. QED
  BY <1>3, <1>4

\* The invariant is kept by next.
LEMMA NextKeeps ==
  ASSUME UbasicInv, NextStatement
  PROVE  UbasicInv'
<1> DEFINE a     == After[At]
           v     == VariableNum(a)
           cr    == After[a]
           top   == forStack[Len(forStack)]
           value == (variables[v] + 1) % Byte
           Inner == forStack # <<>> /\ v = top.variable
<1>1. Line("NEXT")
  BY DEF NextStatement
<1>2. a \in Places /\ Reads(At, a) /\ a > At
  BY <1>1, LineFacts, LineReads
<1>3. \/ Exit
      \/ /\ Token(a) = "VARIABLE" /\ Inner
         /\ Set(v, value) /\ JumpTo(top.line)
         /\ forStack' = forStack /\ gosubStack' = gosubStack
      \/ /\ Token(a) = "VARIABLE" /\ Inner /\ Token(cr) = "CR"
         /\ Set(v, value) /\ forStack' = SubSeq(forStack, 1, Len(forStack) - 1)
         /\ GoOn(After[cr]) /\ gosubStack' = gosubStack
      \/ /\ Token(a) = "VARIABLE" /\ Token(cr) = "CR" /\ GoOn(After[cr])
         /\ variables' = variables /\ forStack' = forStack /\ gosubStack' = gosubStack
  BY DEF NextStatement, stacks
<1>4. CASE Exit
  BY <1>1, <1>4, LineFacts, ExitKeeps
<1>5. ASSUME Token(a) = "VARIABLE"
      PROVE  v \in Variables /\ cr \in Places /\ Reads(At, cr)
  <2>1. v \in Variables
    BY <1>1, <1>2, <1>5, LineFacts, VariableTyped
  <2> HIDE DEF a, v
  <2>2. QED
    BY <1>1, <1>2, <1>5, <2>1, LineReads
<1>6. ASSUME Token(a) = "VARIABLE", Set(v, value)
      PROVE  variables' \in [Variables -> Bytes]
  <2>1. v \in Variables
    BY <1>5, <1>6
  <2> HIDE DEF v
  <2>2. variables[v] \in Bytes
    BY <1>1, <2>1, LineFacts
  <2>3. value \in Int
    BY <2>2, ByteAssumption DEF Bytes
  <2> HIDE DEF value
  <2>4. QED
    BY <1>6, <2>1, <2>3, SetTyped
<1>7. CASE /\ Token(a) = "VARIABLE" /\ Inner
           /\ Set(v, value) /\ JumpTo(top.line) /\ forStack' = forStack
           /\ gosubStack' = gosubStack
  <2>1. variables' \in [Variables -> Bytes]
    BY <1>6, <1>7
  <2> HIDE DEF a, v, value, top
  <2>2. QED
    BY <1>1, <1>7, <2>1, LineFacts, JumpKeeps
<1>8. CASE /\ Token(a) = "VARIABLE" /\ Inner /\ Token(cr) = "CR"
           /\ Set(v, value) /\ forStack' = SubSeq(forStack, 1, Len(forStack) - 1)
           /\ GoOn(After[cr]) /\ gosubStack' = gosubStack
  <2>1. variables' \in [Variables -> Bytes] /\ cr \in Places /\ Reads(At, cr)
    BY <1>5, <1>6, <1>8
  <2>2. /\ forStack' \in Seq(HomeLoops) /\ forStack' \in Seq(Loops)
        /\ Len(forStack') <= Len(forStack)
    BY <1>1, <1>8, LineFacts, PopTyped
  <2>3. Len(forStack') <= MaxFor
    <3>1. Len(forStack) \in Nat /\ Len(forStack') \in Nat /\ Len(forStack) <= MaxFor
      BY <1>1, <2>2, LineFacts, LenProperties
    <3>2. QED
      BY <1>1, <2>2, <3>1, LineFacts
  <2> HIDE DEF a, v, value, top, cr
  <2>4. After[cr] \in Stops /\ After[cr] \in Inside
    BY <1>1, <1>8, <2>1, NextLineStops DEF Reads
  <2>5. QED
    BY <1>1, <1>8, <2>1, <2>2, <2>3, <2>4, LineFacts, GoOnKeeps
<1>9. CASE /\ Token(a) = "VARIABLE" /\ Token(cr) = "CR" /\ GoOn(After[cr])
           /\ variables' = variables /\ forStack' = forStack /\ gosubStack' = gosubStack
  <2>1. cr \in Places /\ Reads(At, cr)
    BY <1>5, <1>9
  <2> HIDE DEF a, v, cr
  <2>2. QED
    BY <1>1, <1>9, <2>1, LineFacts, EndsLine
<1>10. QED
  BY <1>3, <1>4, <1>7, <1>8, <1>9

\* An assignment, with or without let.
LEMMA AssignKeeps ==
  ASSUME UbasicInv, NEW kind, Line(kind), NEW p \in Places, Reads(At, p), Assign(p)
  PROVE  UbasicInv'
<1> DEFINE eq == After[p]
           r  == Parse("expr", After[eq], variables)
           Good == Token(p) = "VARIABLE" /\ Token(eq) = "EQ" /\ r.ok /\ Token(r.at) = "CR"
<1>1. CASE ~ Good
  <2>1. Exit
    BY <1>1 DEF Assign
  <2>2. QED
    BY <2>1, LineFacts, ExitKeeps
<1>2. CASE Good
  <2>1. /\ Set(VariableNum(p), r.value) /\ GoOn(After[r.at])
        /\ gosubStack' = gosubStack /\ forStack' = forStack
    BY <1>2 DEF Assign, stacks
  <2>2. VariableNum(p) \in Variables
    BY <1>2, LineFacts, VariableTyped
  <2>3. eq \in Places /\ Reads(At, eq)
    BY <1>2, LineReads
  <2> HIDE DEF eq
  <2>4. After[eq] \in Places /\ Reads(At, After[eq])
    BY <1>2, <2>3, LineReads
  <2>5. r.value \in Bytes /\ r.at \in Places /\ Reads(At, r.at)
    BY <1>2, <2>4, LineFacts, LineParses
  <2> HIDE DEF r
  <2>6. variables' \in [Variables -> Bytes]
    BY <2>1, <2>2, <2>5, SetTyped DEF Bytes
  <2>7. QED
    BY <1>2, <2>1, <2>5, <2>6, EndsLine
<1>3. QED
  BY <1>1, <1>2

\* The invariant is kept by let.
LEMMA LetKeeps ==
  ASSUME UbasicInv, LetStatement
  PROVE  UbasicInv'
<1>1. CASE Line("LET") /\ Assign(After[At])
  <2>1. After[At] \in Places /\ Reads(At, After[At])
    BY <1>1, LineFacts, LineReads
  <2>2. QED
    BY <1>1, <2>1, AssignKeeps
<1>2. CASE Line("VARIABLE") /\ Assign(At)
  BY <1>2, LineFacts, AssignKeeps
<1>3. QED
  BY <1>1, <1>2 DEF LetStatement

\* The invariant is kept by peek.
LEMMA PeekKeeps ==
  ASSUME UbasicInv, PeekStatement
  PROVE  UbasicInv'
<1> DEFINE b == After[At]
           r == Parse("expr", b, variables)
           v == After[r.at]
           c == After[v]
           Good == /\ r.ok /\ Token(r.at) = "COMMA" /\ Token(v) = "VARIABLE"
                   /\ Token(c) = "CR"
<1>1. Line("PEEK")
  BY DEF PeekStatement
<1>2. b \in Places /\ Reads(At, b)
  BY <1>1, LineFacts, LineReads
<1>3. CASE ~ Good
  <2>1. Exit
    BY <1>3 DEF PeekStatement
  <2>2. QED
    BY <1>1, <2>1, LineFacts, ExitKeeps
<1>4. CASE Good /\ ~ Installed
  <2>1. Stop("null") /\ "null" \in Fates
    BY <1>4 DEF PeekStatement, Fates
  <2>2. QED
    BY <1>1, <2>1, LineFacts, StopKeeps
<1>5. CASE Good /\ Installed
  <2>1. /\ Set(VariableNum(v), Peek(r.value)) /\ GoOn(After[c])
        /\ gosubStack' = gosubStack /\ forStack' = forStack
    BY <1>5 DEF PeekStatement, stacks
  <2> HIDE DEF b
  <2>2. r.value \in Bytes /\ r.at \in Places /\ Reads(At, r.at)
    BY <1>1, <1>2, <1>5, LineFacts, LineParses
  <2> HIDE DEF r
  <2>3. v \in Places /\ Reads(At, v)
    BY <1>1, <1>5, <2>2, LineReads
  <2> HIDE DEF v
  <2>4. c \in Places /\ Reads(At, c)
    BY <1>1, <1>5, <2>3, LineReads
  <2>5. VariableNum(v) \in Variables
    BY <1>1, <1>5, <2>3, LineFacts, VariableTyped
  <2>6. Peek(r.value) \in Int
    BY <2>2, UbasicAssumption DEF Bytes
  <2> HIDE DEF c
  <2>7. variables' \in [Variables -> Bytes]
    BY <2>1, <2>5, <2>6, SetTyped
  <2>8. QED
    BY <1>1, <1>5, <2>1, <2>4, <2>7, EndsLine
<1>6. QED
  BY <1>3, <1>4, <1>5

\* The invariant is kept by poke.
LEMMA PokeKeeps ==
  ASSUME UbasicInv, PokeStatement
  PROVE  UbasicInv'
<1> DEFINE b == After[At]
           r == Parse("expr", b, variables)
           d == After[r.at]
           e == Parse("expr", d, variables)
           Good == r.ok /\ Token(r.at) = "COMMA" /\ e.ok /\ Token(e.at) = "CR"
<1>1. Line("POKE")
  BY DEF PokeStatement
<1>2. b \in Places /\ Reads(At, b)
  BY <1>1, LineFacts, LineReads
<1>3. CASE ~ Good
  <2>1. Exit
    BY <1>3 DEF PokeStatement
  <2>2. QED
    BY <1>1, <2>1, LineFacts, ExitKeeps
<1>4. CASE Good /\ ~ Installed
  <2>1. Stop("null") /\ "null" \in Fates
    BY <1>4 DEF PokeStatement, Fates
  <2>2. QED
    BY <1>1, <2>1, LineFacts, StopKeeps
<1>5. CASE Good /\ Installed
  <2>1. /\ GoOn(After[e.at]) /\ variables' = variables
        /\ gosubStack' = gosubStack /\ forStack' = forStack
    BY <1>5 DEF PokeStatement, stacks
  <2> HIDE DEF b
  <2>2. r.at \in Places /\ Reads(At, r.at)
    BY <1>1, <1>2, <1>5, LineFacts, LineParses
  <2> HIDE DEF r
  <2>3. d \in Places /\ Reads(At, d)
    BY <1>1, <1>5, <2>2, LineReads
  <2> HIDE DEF d
  <2>4. e.at \in Places /\ Reads(At, e.at)
    BY <1>1, <1>5, <2>3, LineFacts, LineParses
  <2> HIDE DEF e
  <2>5. QED
    BY <1>1, <1>5, <2>1, <2>4, LineFacts, EndsLine
<1>6. QED
  BY <1>3, <1>4, <1>5

-------------------------------------------------------------------------------
(***************************************************************************)
(* The end, ubasic_init, and the invariant of the specification.           *)
(***************************************************************************)
\* The invariant is kept by end.
LEMMA EndKeeps ==
  ASSUME UbasicInv, EndStatement
  PROVE  UbasicInv'
<1>1. /\ Line("END") /\ ended' = TRUE /\ ptr' = After[At] /\ variables' = variables
      /\ gosubStack' = gosubStack /\ forStack' = forStack /\ status' = status
  BY DEF EndStatement, stacks
<1>2. After[At] \in Inside
  BY <1>1, InvFacts, InLine, StaysInside
<1>3. QED
  BY <1>1, <1>2, InvFacts, InLine, KeepsInv

\* What is known when a line with a number is executed.
LEMMA NumberedLine ==
  ASSUME UbasicInv, Active, Token(ptr) = "NUMBER"
  PROVE  /\ IsText(text) /\ ptr \in Places /\ Visible(ptr) /\ NoError(1, ptr - 1)
         /\ After[ptr] \in Places /\ Visible(After[ptr]) /\ Moves(ptr, After[ptr])
         /\ Statement \in ChosenType(After[ptr])
<1>1. IsText(text) /\ ptr \in Stops /\ variables \in [Variables -> Bytes]
  BY InvFacts DEF UbasicInv, Active, Done
<1>2. ptr \in Places /\ Visible(ptr) /\ NoError(1, ptr - 1)
  BY <1>1, InStops
<1>3. After[ptr] \in Places /\ Visible(After[ptr]) /\ Moves(ptr, After[ptr])
  BY <1>1, <1>2, NextMoves
<1>4. Statement \in ChosenType(After[ptr])
  BY <1>1, <1>3, ChosenTyped DEF Statement
<1>5. QED
  BY <1>1, <1>2, <1>3, <1>4

\* The entries of the index are records of it.
LEMMA EntriesAreRecords ==
  ASSUME NEW q \in Seq(Entries)
  PROVE  q \in Seq(IndexRecords)
<1>1. Entries \in SUBSET IndexRecords
  BY DEF Entries, IndexRecords
<1>2. QED
  BY <1>1, SeqGrows

\* An if whose condition fails, with no else, keeps the invariant.
LEMMA SkipKeeps ==
  ASSUME UbasicInv, Skip
  PROVE  UbasicInv'
<1> DEFINE q == Statement.next
<1>1. /\ Active /\ Token(ptr) = "NUMBER" /\ Statement.ok /\ At = 0
      /\ index' = IndexAdd(index, ptr)
      /\ text' = text /\ status = "running" /\ ~ ended
  BY DEF Skip, Active, Done
<1>2. /\ IsText(text) /\ ptr \in Places /\ NoError(1, ptr - 1) /\ ptr \in Stops
      /\ After[ptr] \in Places /\ Visible(After[ptr]) /\ Moves(ptr, After[ptr])
      /\ Statement \in ChosenType(After[ptr]) /\ index \in Seq(Entries)
      /\ forStack \in Seq(HomeLoops)
  BY <1>1, NumberedLine, InvFacts DEF UbasicInv
<1>3. index' \in Seq(Entries) /\ index' \in Seq(IndexRecords)
  BY <1>1, <1>2, IndexGrows, EntriesAreRecords
<1>4. CASE q = 0
  <2>1. Stop("hang") /\ "hang" \in Fates
    BY <1>4 DEF Skip, Fates
  <2>2. QED
    BY <1>1, <1>3, <2>1, StopKeeps
<1>5. CASE q # 0 /\ Outside(q)
  <2>1. Stop("astray") /\ "astray" \in Fates /\ Unclosed
    BY <1>5 DEF Skip, Fates, Outside
  <2>2. QED
    BY <1>1, <1>3, <2>1, StopKeeps
<1>6. CASE q # 0 /\ ~ Outside(q)
  <2>1. q \in Places /\ Moves(After[ptr], q) /\ AtLine(q)
    <3>1. Statement # BadStatement
      BY <1>1 DEF BadStatement
    <3>2. Statement # NoStatement(0)
      BY <1>6 DEF NoStatement
    <3>3. ASSUME NEW j \in Places PROVE Statement # AtStatement(j)
      BY <1>1, SMT DEF AtStatement, At, Places
    <3>4. PICK j \in Places : /\ Statement = NoStatement(j)
                              /\ Visible(After[ptr]) => Moves(After[ptr], j) /\ AtLine(j)
      BY <1>2, <3>1, <3>2, <3>3 DEF ChosenType
    <3>5. q = j
      BY <3>4 DEF NoStatement
    <3>6. QED
      BY <1>2, <3>4, <3>5
  <2>2. /\ ptr' = q /\ ended' = ended /\ status' = status /\ variables' = variables
        /\ gosubStack' = gosubStack /\ forStack' = forStack
    BY <1>6 DEF Skip, GoOn, stacks
  <2> HIDE DEF q
  <2>3. q \in Stops
    <3>1. Moves(ptr, q)
      BY <1>2, <2>1, MovesOn
    <3>2. Placed(q)
      BY <2>1 DEF Placed, AtLine, LineStarts
    <3>3. QED
      BY <1>2, <2>1, <3>1, <3>2, LineStops DEF Places
  <2>4. q \in Inside
    BY <1>6, <2>3 DEF Stops, Inside, q
  <2>5. QED
    BY <1>1, <1>2, <1>3, <2>2, <2>3, <2>4, InvFacts, KeepsInv
<1>7. QED
  BY <1>4, <1>5, <1>6

\* A line that is no line keeps the invariant: the interpreter exits.
LEMMA MalformedKeeps ==
  ASSUME UbasicInv, Malformed
  PROVE  UbasicInv'
<1>1. index' = IndexAdd(index, ptr) /\ Exit /\ text' = text
  BY DEF Malformed
<1>2. Len(text) \in Nat /\ ptr \in 1 .. End /\ index \in Seq(IndexRecords)
  BY InvFacts, TextFacts DEF Inside
<1>3. Num(ptr) \in Bytes
  BY <1>2, InvFacts, NumTyped DEF End, Places
<1> DEFINE x == [line |-> Num(ptr), position |-> ptr]
<1>4. x \in IndexRecords
  BY <1>2, <1>3 DEF IndexRecords
<1> HIDE DEF x
<1>5. Append(index, x) \in Seq(IndexRecords)
  BY <1>2, <1>4, AppendProperties
<1>6. index' \in Seq(IndexRecords)
  BY <1>1, <1>2, <1>5 DEF IndexAdd, x
<1>7. QED
  BY <1>1, <1>6, ExitKeeps

\* A text begins where ubasic_init sets the scanner.
LEMMA TextStarts == IsText(text) => 1 \in Stops /\ 1 \in 1 .. End /\ ~ Outside(1)
<1> SUFFICES ASSUME IsText(text) PROVE 1 \in Stops /\ 1 \in 1 .. End /\ ~ Outside(1)
  OBVIOUS
<1>1. Len(text) \in Nat /\ Token(1) \in LineStarts
  BY TextFacts
<1>2. 1 \in 1 .. End /\ Visible(1)
  BY <1>1 DEF End, Visible, LineStarts
<1>3. Token(1) = "NUMBER" => 1 \in Begins
  <2>1. Token(1) = "NUMBER" => 1 \in 1 .. Len(text)
    BY <1>1 DEF Token
  <2>2. QED
    BY <2>1 DEF Begins
<1>4. Placed(1) /\ NoError(1, 1 - 1)
  BY <1>1, <1>3 DEF Placed, LineStarts, NoError
<1>5. ~ Outside(1)
  <2>1. text # <<>> => Len(text) # 0
    BY EmptySeq DEF IsText
  <2>2. QED
    BY <1>1, <2>1 DEF Outside, Unclosed
<1>6. QED
  BY <1>2, <1>4, <1>5 DEF Stops

\* What ubasic_init leaves behind.
LEMMA Begun ==
  IsText(text) /\ ptr = 1 /\ variables \in [Variables -> Bytes]
    /\ index = <<>> /\ gosubStack = <<>> /\ forStack = <<>>
    /\ ended = FALSE /\ status = "running" => UbasicInv
<1> SUFFICES ASSUME IsText(text), ptr = 1, variables \in [Variables -> Bytes],
                    index = <<>>, gosubStack = <<>>, forStack = <<>>,
                    ended = FALSE, status = "running"
             PROVE  UbasicInv
  OBVIOUS
<1>1. 1 \in Stops /\ 1 \in 1 .. End /\ ~ Outside(1)
  BY TextStarts
<1>2. /\ <<>> \in Seq(Entries) /\ <<>> \in Seq(Subs) /\ <<>> \in Seq(Loops)
      /\ <<>> \in Seq(HomeLoops) /\ <<>> \in Seq(Bytes)
      /\ <<>> \in Seq([variable : Variables, to : Bytes, line : Bytes])
      /\ <<>> \in Seq([line : Bytes, position : 1 .. End])
      /\ Len(<<>>) = 0
  BY EmptySeq, LenProperties
<1>3. TypeOK
  <2>1. Len(gosubStack) <= MaxGosub /\ Len(forStack) <= MaxFor
    BY UbasicAssumption, SMT
  <2>2. /\ ended \in BOOLEAN /\ status \in Fates \cup {"running"} /\ status # "astray"
        /\ ptr \in 1 .. End /\ ~ Outside(ptr)
    BY <1>1
  <2>3. /\ index \in Seq([line : Bytes, position : 1 .. End])
        /\ gosubStack \in Seq(Bytes)
        /\ forStack \in Seq([variable : Variables, to : Bytes, line : Bytes])
    BY <1>2
  <2>4. QED
    BY <2>1, <2>2, <2>3, Zenon DEF TypeOK
<1>4. QED
  BY <1>1, <1>2, <1>3 DEF UbasicInv

\* The invariant holds when the interpreter is first started.
LEMMA InitHolds ==
  ASSUME Init
  PROVE  UbasicInv
<1>1. IsText(text)
  BY UbasicAssumption DEF Init
<1>2. variables \in [Variables -> Bytes]
  BY ByteAssumption DEF Init, Bytes
<1>3. QED
  BY <1>1, <1>2, Begun DEF Init

\* ubasic_init with the next text establishes the invariant again.
LEMMA UbasicInitKeeps ==
  ASSUME UbasicInv, NEW new \in Later, UbasicInit(new)
  PROVE  UbasicInv'
<1>1. /\ text' = new /\ ptr' = 1 /\ index' = <<>> /\ gosubStack' = <<>> /\ forStack' = <<>>
      /\ ended' = FALSE /\ variables' = variables /\ status' = status /\ status = "running"
  BY DEF UbasicInit
<1>2. IsText(text') /\ variables' \in [Variables -> Bytes]
  BY <1>1, InvFacts, UbasicAssumption
<1>3. (IsText(text) /\ ptr = 1 /\ variables \in [Variables -> Bytes]
         /\ index = <<>> /\ gosubStack = <<>> /\ forStack = <<>>
         /\ ended = FALSE /\ status = "running" => UbasicInv)'
  BY Begun, PTL
<1>4. QED
  BY <1>1, <1>2, <1>3, Zenon DEF Bytes

\* Nothing changes.
LEMMA StutterKeeps ==
  ASSUME UbasicInv, UNCHANGED vars
  PROVE  UbasicInv'
<1>1. /\ text' = text /\ ptr' = ptr /\ variables' = variables /\ index' = index
      /\ gosubStack' = gosubStack /\ forStack' = forStack /\ ended' = ended
      /\ status' = status
  BY DEF vars, stacks
<1>2. QED
  BY <1>1, InvFacts, KeepsInv DEF UbasicInv

\* Every step keeps the invariant.
LEMMA StepKeeps ==
  ASSUME UbasicInv, [Next]_vars
  PROVE  UbasicInv'
<1>1. CASE UbasicRun
  BY <1>1, PrintKeeps, GotoKeeps, GosubKeeps, ReturnKeeps, ForKeeps, NextKeeps, LetKeeps,
     PeekKeeps, PokeKeeps, EndKeeps, SkipKeeps, MalformedKeeps DEF UbasicRun
<1>2. CASE Done /\ \E new \in Later : UbasicInit(new)
  BY <1>2, UbasicInitKeeps
<1>3. CASE UNCHANGED vars
  BY <1>3, StutterKeeps
<1>4. QED
  BY <1>1, <1>2, <1>3 DEF Next

\* The invariant holds in every reachable state.
LEMMA UbasicInvariant == Spec => []UbasicInv
<1>1. Init => UbasicInv
  BY InitHolds
<1>2. UbasicInv /\ [Next]_vars => UbasicInv'
  BY StepKeeps
<1>3. QED
  BY <1>1, <1>2, PTL DEF Spec

(***************************************************************************)
(* Whatever the program text: the tokenizer stays in it while its quotes   *)
(* are closed, and with one that is not the status is "astray" when it     *)
(* passes that (get_next_token); the stacks of gosub and for stay in their *)
(* arrays and every number in memory is one a VARIABLE_TYPE can hold       *)
(* (ubasic_run).                                                           *)
(***************************************************************************)
THEOREM UbasicTyped == Spec => []TypeOK
<1>1. UbasicInv => TypeOK
  BY DEF UbasicInv
<1>2. QED
  BY <1>1, UbasicInvariant, PTL

(***************************************************************************)
(* Every call of ubasic_run that does something begins at the number of a  *)
(* line or at a number the scanner refuses, or where a print or a return   *)
(* without a gosub has left the rest of a line.                            *)
(***************************************************************************)
THEOREM LinesBegin == Spec => []BeginsAtLine
<1>1. UbasicInv => BeginsAtLine
  <2> SUFFICES ASSUME UbasicInv, Active
               PROVE  ptr \in Begins \/ Token(ptr) = "ERROR" \/ Strayed(ptr)
    BY DEF BeginsAtLine
  <2>1. ptr \in Stops /\ Token(ptr) # "ENDOFINPUT"
    BY DEF UbasicInv, Active, Done, Finished
  <2>2. QED
    BY <2>1 DEF Stops, Placed
<1>2. QED
  BY <1>1, UbasicInvariant, PTL

(***************************************************************************)
(* If no two lines have the same number, the index (index_add, index_find) *)
(* never says anything of a line but what the search of the text would,    *)
(* whatever was executed before; only stray numbers have entries of their  *)
(* own.                                                                    *)
(***************************************************************************)
THEOREM IndexIsRight == Spec => []IndexAgrees
<1>1. UbasicInv => IndexAgrees
  <2> SUFFICES ASSUME UbasicInv, status = "running", NumbersDiffer,
                      NEW i \in 1 .. Len(index), ~ Strayed(index[i].position)
               PROVE  JumpLinenumSlow(index[i].line) = index[i].position
    BY DEF IndexAgrees
  <2> DEFINE p == index[i].position
  <2>1. IsText(text) /\ index[i] \in Entries
    BY InvFacts, ElementOfSeq
  <2>2. p \in Stops /\ Token(p) = "NUMBER" /\ index[i].line = Num(p)
    BY <2>1 DEF Entries
  <2> HIDE DEF p
  <2>3. p \in Begins /\ NoError(1, p)
    BY <2>1, <2>2, InStops DEF Placed, p
  <2>4. QED
    BY <2>1, <2>2, <2>3, SearchFinds DEF p
<1>2. QED
  BY <1>1, UbasicInvariant, PTL

\* A call of ubasic_run that comes to one of these statements executes it.
LEMMA ExecutesWhat ==
  ASSUME Next
  PROVE  /\ Executes("GOTO") => GotoStatement
         /\ Executes("NEXT") => NextStatement
         /\ Executes("RETURN") => ReturnStatement
<1>1. ASSUME NEW kind \in {"GOTO", "NEXT", "RETURN"}, Executes(kind)
      PROVE  /\ Token(ptr) = "NUMBER" /\ Statement.ok /\ At # 0 /\ Token(At) = kind
             /\ kind \in Starters /\ ~ Done
  BY <1>1 DEF Executes, Active, Starters
<1>2. ASSUME NEW kind \in {"GOTO", "NEXT", "RETURN"}, Executes(kind)
      PROVE  /\ ~ PrintStatement /\ ~ GosubStatement /\ ~ ForStatement /\ ~ LetStatement
             /\ ~ PeekStatement /\ ~ PokeStatement /\ ~ EndStatement
             /\ GotoStatement => kind = "GOTO"
             /\ NextStatement => kind = "NEXT"
             /\ ReturnStatement => kind = "RETURN"
  <2>1. \A k : Line(k) => Token(At) = k
    BY DEF Line, Executes
  <2>2. QED
    BY <1>1, <1>2, <2>1 DEF PrintStatement, GosubStatement, ForStatement, LetStatement,
       PeekStatement, PokeStatement, EndStatement, GotoStatement, NextStatement,
       ReturnStatement
<1>3. ASSUME NEW kind \in {"GOTO", "NEXT", "RETURN"}, Executes(kind)
      PROVE  ~ Skip /\ ~ Malformed /\ ~ Done
  BY <1>1, <1>3 DEF Skip, Malformed
<1>4. QED
  BY <1>2, <1>3 DEF Next, UbasicRun

\* Where a jump that comes back arrives.
LEMMA JumpArrives ==
  ASSUME UbasicInv, NEW kind, Line(kind), NEW line, JumpTo(line), status' = "running"
  PROVE  /\ ptr' \in Begins \/ Shadowed(line)
         /\ Num(ptr') = line
<1>1. JumpLinenum(line) # 0 /\ ptr' = JumpLinenum(line)
  BY DEF JumpTo, SearchEnd
<1>2. QED
  BY <1>1, InvFacts, InLine, JumpLands

\* A goto to a line with no error in front of it arrives.
LEMMA GotoStep ==
  ASSUME UbasicInv, GotoStatement, NumbersDiffer, NEW p \in Begins,
         Num(p) = Num(After[At]), \A k \in 1 .. p : Token(k) # "ERROR"
  PROVE  ptr' = p \/ Shadowed(Num(p))
<1> DEFINE line == Num(p)
           found == Indexed(index', line)
<1>1. Line("GOTO") /\ JumpTo(line)
  BY DEF GotoStatement
<1>2. IsText(text) /\ p \in Places /\ NoError(1, p) /\ index' \in Seq(Entries)
  BY <1>1, InvFacts, InLine, BeginsFacts DEF NoError
<1>3. CASE found = {}
  <2>1. JumpLinenum(line) = p
    <3>1. JumpLinenumSlow(line) = p
      BY <1>2, SearchFinds
    <3>2. QED
      BY <1>3, <3>1 DEF JumpLinenum
  <2> HIDE DEF line
  <2>2. QED
    BY <1>1, <1>2, <2>1 DEF JumpTo, Places
<1>4. CASE found # {}
  <2> DEFINE i == CHOOSE j \in found : TRUE
  <2> HIDE DEF line
  <2>1. i \in found /\ JumpLinenum(line) = index'[i].position
    BY <1>4 DEF JumpLinenum
  <2> HIDE DEF i
  <2>2. index'[i] \in Entries
    <3>1. i \in 1 .. Len(index')
      BY <2>1 DEF Indexed
    <3>2. QED
      BY <1>2, <3>1, ElementOfSeq
  <2> HIDE DEF found
  <2>3. JumpLinenum(line) # 0
    BY <2>1, <2>2 DEF Entries
  <2>4. ptr' = JumpLinenum(line)
    BY <1>1, <2>3 DEF JumpTo
  <2>5. /\ Num(ptr') = line
        /\ ptr' \in Begins \/ Shadowed(line)
    BY <1>1, <1>2, <2>3, <2>4, InLine, JumpLands
  <2>6. QED
    BY <2>5 DEF line, NumbersDiffer
<1>5. QED
  BY <1>3, <1>4

(***************************************************************************)
(* A goto to a line of the text with no error in front of it arrives       *)
(* there, found by the index or by the search (jump_linenum), unless a     *)
(* stray number stands for it in the index.                                *)
(***************************************************************************)
THEOREM GotosArrive == Spec => GotoArrives
<1>1. UbasicInv /\ [Next]_vars =>
        [NumbersDiffer /\ Executes("GOTO") =>
           \A p \in Begins :
             Num(p) = Num(After[At]) /\ (\A k \in 1 .. p : Token(k) # "ERROR") =>
               ptr' = p \/ Shadowed(Num(p))]_vars
  <2> SUFFICES ASSUME UbasicInv, Next, NumbersDiffer, Executes("GOTO"), NEW p \in Begins,
                      Num(p) = Num(After[At]), \A k \in 1 .. p : Token(k) # "ERROR"
               PROVE  ptr' = p \/ Shadowed(Num(p))
    OBVIOUS
  <2>1. QED
    BY ExecutesWhat, GotoStep
<1>2. QED
  BY <1>1, UbasicInvariant, PTL DEF Spec, GotoArrives

\* A next that goes back goes behind a for of its variable.
LEMMA NextGoesHome ==
  ASSUME UbasicInv, NextStatement, NumbersDiffer, status' = "running",
         variables' # variables, forStack' = forStack
  PROVE  GoesHome("FOR", forStack[Len(forStack)].line)
<1> DEFINE v   == VariableNum(After[At])
           top == forStack[Len(forStack)]
<1>1. Line("NEXT") /\ ~ Exit
  BY DEF NextStatement, Exit, Stop
<1>2. forStack \in Seq(HomeLoops) /\ Len(forStack) \in Nat
  BY <1>1, InLine, LenProperties
<1>3. forStack # <<>> /\ v = top.variable /\ JumpTo(top.line)
  <2>1. ~ (forStack # <<>> /\ forStack' = SubSeq(forStack, 1, Len(forStack) - 1))
    <3> SUFFICES ASSUME forStack # <<>>, forStack' = SubSeq(forStack, 1, Len(forStack) - 1)
                 PROVE  FALSE
      OBVIOUS
    <3>1. Len(SubSeq(forStack, 1, Len(forStack) - 1)) < Len(forStack)
      BY <1>2, PopTyped
    <3>2. QED
      BY <1>2, <3>1
  <2>2. QED
    BY <1>1, <2>1 DEF NextStatement, stacks
<1>4. top \in HomeLoops
  BY <1>2, <1>3, PopTyped
<1> HIDE DEF v, top
<1>5. PICK p \in 1 .. Len(text) : /\ Before("FOR", p, top.line)
                                  /\ VariableNum(After[p]) = top.variable
                                  /\ Behind(p) \in Begins
  BY <1>4 DEF HomeLoops
<1>6. (ptr' \in Begins \/ Shadowed(top.line)) /\ Num(ptr') = top.line
  BY <1>1, <1>3, JumpArrives
<1>7. CASE Shadowed(top.line)
  BY <1>7 DEF GoesHome, top
<1>8. CASE ptr' \in Begins
  <2>1. Behind(p) = ptr'
    BY <1>5, <1>6, <1>8 DEF NumbersDiffer, Before
  <2>2. Home("FOR", top.line)
    BY <1>3, <1>5, <2>1 DEF Home, Before, v
  <2>3. QED
    BY <2>2 DEF GoesHome, top
<1>9. QED
  BY <1>6, <1>7, <1>8

\* A return goes behind a gosub.
LEMMA ReturnGoesHome ==
  ASSUME UbasicInv, ReturnStatement, NumbersDiffer, status' = "running",
         gosubStack' # gosubStack
  PROVE  GoesHome("GOSUB", gosubStack[Len(gosubStack)])
<1> DEFINE line == gosubStack[Len(gosubStack)]
<1>1. Line("RETURN") /\ gosubStack # <<>> /\ JumpTo(line)
  BY DEF ReturnStatement
<1>2. line \in Subs
  BY <1>1, InvFacts, PopTyped
<1> HIDE DEF line
<1>3. PICK p \in 1 .. Len(text) :
        /\ Before("GOSUB", p, line)
        /\ Token(Behind(p)) = "NUMBER" => Behind(p) \in Begins
  BY <1>2 DEF Subs
<1>4. (ptr' \in Begins \/ Shadowed(line)) /\ Num(ptr') = line
  BY <1>1, JumpArrives
<1>5. CASE Shadowed(line)
  BY <1>5 DEF GoesHome, line
<1>6. CASE ptr' \in Begins
  <2>1. Token(Behind(p)) = "NUMBER" => Behind(p) = ptr'
    BY <1>3, <1>4, <1>6 DEF NumbersDiffer, Before
  <2>2. Home("GOSUB", line)
    BY <1>3, <2>1 DEF Home, Before
  <2>3. QED
    BY <2>2 DEF GoesHome, line
<1>7. QED
  BY <1>4, <1>5, <1>6

(***************************************************************************)
(* However gotos have left the stacks, a next that goes back goes to the   *)
(* line behind a for of its variable and a return to the line behind a     *)
(* gosub (next_statement, return_statement).                               *)
(***************************************************************************)
THEOREM JumpsReturn == Spec => JumpsGoHome
<1>1. UbasicInv /\ [Next]_vars =>
        [NumbersDiffer /\ status' = "running" =>
           /\ Executes("NEXT") /\ variables' # variables /\ forStack' = forStack
                => GoesHome("FOR", forStack[Len(forStack)].line)
           /\ Executes("RETURN") /\ gosubStack' # gosubStack
                => GoesHome("GOSUB", gosubStack[Len(gosubStack)])]_vars
  <2> SUFFICES ASSUME UbasicInv, Next, NumbersDiffer, status' = "running"
               PROVE  /\ Executes("NEXT") /\ variables' # variables /\ forStack' = forStack
                           => GoesHome("FOR", forStack[Len(forStack)].line)
                      /\ Executes("RETURN") /\ gosubStack' # gosubStack
                           => GoesHome("GOSUB", gosubStack[Len(gosubStack)])
    OBVIOUS
  <2>1. QED
    BY ExecutesWhat, NextGoesHome, ReturnGoesHome
<1>2. QED
  BY <1>1, UbasicInvariant, PTL DEF Spec, JumpsGoHome

===============================================================================
