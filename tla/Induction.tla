------------------------------ MODULE Induction ------------------------------
(***************************************************************************)
(* Lemmas for definitions that are recursive: induction along a measure,   *)
(* and that a recursive function whose arguments become smaller is what    *)
(* its equation says.  For tlapm f[x \in D] == e is a CHOOSE of some f that *)
(* solves f = [x \in D |-> e]; before anything can be said of f it has to  *)
(* be shown that there is one.                                             *)
(***************************************************************************)
EXTENDS Integers, SequenceTheorems, WellFoundedInduction, TLAPS

\* Every non-empty set of natural numbers has a least element.
LEMMA LeastNumber ==
  ASSUME NEW S \in SUBSET Nat, S # {}
  PROVE  \E m \in S : \A k \in S : m <= k
<1>1. PICK m \in S : \A k \in S : ~ (<<k, m>> \in OpToRel(<, Nat))
  BY WFMin, NatLessThanWellFounded, Zenon
<1>2. ASSUME NEW k \in S PROVE m <= k
  <2>1. ~ (k < m)
    BY <1>1, Zenon DEF OpToRel
  <2>2. QED
    BY <2>1
<1>3. QED
  BY <1>2, Zenon

(***************************************************************************)
(* Induction along a measure m of D.  S is progressive if it holds every x *)
(* for which it holds all that is smaller.                                 *)
(***************************************************************************)
Progressive(S, D, m) ==
  \A x \in D : (\A y \in D : m[y] < m[x] => y \in S) => x \in S

\* Induction along a measure: a set that holds every x for which it holds all
\* that is smaller holds everything.
LEMMA MeasureInduction ==
  ASSUME NEW D, NEW m \in [D -> Nat], NEW S \in SUBSET D,
         Progressive(S, D, m)
  PROVE  S = D
<1>1. SUFFICES ASSUME NEW z \in D, z \notin S PROVE FALSE
  OBVIOUS
<1> DEFINE Bad == {m[x] : x \in D \ S}
<1>2. Bad \in SUBSET Nat /\ Bad # {}
  BY <1>1
<1>3. PICK k \in Bad : \A j \in Bad : k <= j
  <2> HIDE DEF Bad
  <2>1. QED
    BY <1>2, LeastNumber
<1>4. PICK x \in D : x \notin S /\ m[x] = k
  BY <1>3
<1>5. ASSUME NEW y \in D, m[y] < m[x] PROVE y \in S
  <2>1. SUFFICES ASSUME y \notin S PROVE FALSE
    OBVIOUS
  <2>2. m[y] \in Bad
    BY <2>1
  <2>3. k <= m[y]
    BY <1>3, <2>2
  <2>4. QED
    BY <1>4, <1>5, <2>3
<1>6. QED
  BY <1>4, <1>5 DEF Progressive

-------------------------------------------------------------------------------
(***************************************************************************)
(* B is what the body of a definition f[x \in D] == e makes of a function. *)
(* It is a recursion along m if what it gives at x is in P[x] and depends  *)
(* on smaller arguments only, provided that what it finds there is as it   *)
(* should be.  W is any set that holds all these values.                   *)
(***************************************************************************)
Recursive(B, D, P, W, m) ==
  /\ m \in [D -> Nat] /\ P \in [D -> SUBSET W] /\ W # {}
  /\ \A g, h \in [D -> W] : \A x \in D :
       (\A y \in D : m[y] < m[x] => g[y] = h[y] /\ g[y] \in P[y])
         => B[g][x] = B[h][x] /\ B[g][x] \in P[x]

Solution(f, B, D) == \A x \in D : f[x] = B[f][x]

\* A solution has the values it should have.
LEMMA SolutionHasType ==
  ASSUME NEW B, NEW D, NEW P, NEW W, NEW m, Recursive(B, D, P, W, m),
         NEW f \in [D -> W], Solution(f, B, D)
  PROVE  \A x \in D : f[x] \in P[x]
<1> DEFINE R == {x \in D : f[x] \in P[x]}
<1>1. ASSUME NEW x \in D, \A y \in D : m[y] < m[x] => y \in R
      PROVE  x \in R
  <2>1. \A y \in D : m[y] < m[x] => f[y] = f[y] /\ f[y] \in P[y]
    BY <1>1
  <2>2. B[f][x] \in P[x]
    BY <2>1 DEF Recursive
  <2>3. QED
    BY <2>2 DEF Solution
<1>2. Progressive(R, D, m) /\ R \in SUBSET D
  BY <1>1 DEF Progressive
<1>3. R = D
  <2>1. m \in [D -> Nat]
    BY DEF Recursive
  <2> HIDE DEF R
  <2>2. QED
    BY <1>2, <2>1, MeasureInduction
<1>4. QED
  BY <1>3

\* A solution up to n, made of nothing but the values below n.
Reaches(g, n, B, D, m) == \A x \in D : m[x] < n => g[x] = B[g][x]

LEMMA ReachesTyped ==
  ASSUME NEW B, NEW D, NEW P, NEW W, NEW m, Recursive(B, D, P, W, m),
         NEW n \in Nat, NEW g \in [D -> W], Reaches(g, n, B, D, m)
  PROVE  \A x \in D : m[x] < n => g[x] \in P[x]
<1> DEFINE R == {x \in D : m[x] < n => g[x] \in P[x]}
<1>0. m \in [D -> Nat]
  BY DEF Recursive
<1>1. ASSUME NEW x \in D, \A y \in D : m[y] < m[x] => y \in R
      PROVE  x \in R
  <2>1. SUFFICES ASSUME m[x] < n PROVE g[x] \in P[x]
    OBVIOUS
  <2>2. \A y \in D : m[y] < m[x] => g[y] = g[y] /\ g[y] \in P[y]
    BY <1>0, <1>1, <2>1
  <2>3. B[g][x] \in P[x]
    BY <2>2 DEF Recursive
  <2>4. QED
    BY <2>1, <2>3 DEF Reaches
<1>2. Progressive(R, D, m) /\ R \in SUBSET D
  BY <1>1 DEF Progressive
<1>3. R = D
  <2> HIDE DEF R
  <2>1. QED
    BY <1>0, <1>2, MeasureInduction
<1>4. QED
  BY <1>3

\* Two of them agree as far as both reach.
LEMMA ReachesAgree ==
  ASSUME NEW B, NEW D, NEW P, NEW W, NEW m, Recursive(B, D, P, W, m),
         NEW n \in Nat, NEW g \in [D -> W], NEW h \in [D -> W],
         Reaches(g, n, B, D, m), Reaches(h, n, B, D, m)
  PROVE  \A x \in D : m[x] < n => g[x] = h[x]
<1> DEFINE R == {x \in D : m[x] < n => g[x] = h[x]}
<1>0. m \in [D -> Nat]
  BY DEF Recursive
<1>1. ASSUME NEW x \in D, \A y \in D : m[y] < m[x] => y \in R
      PROVE  x \in R
  <2>1. SUFFICES ASSUME m[x] < n PROVE g[x] = h[x]
    OBVIOUS
  <2>2. \A y \in D : m[y] < m[x] => g[y] = h[y] /\ g[y] \in P[y]
    BY <1>0, <1>1, <2>1, ReachesTyped
  <2>3. B[g][x] = B[h][x]
    BY <2>2 DEF Recursive
  <2>4. QED
    BY <2>1, <2>3 DEF Reaches
<1>2. Progressive(R, D, m) /\ R \in SUBSET D
  BY <1>1 DEF Progressive
<1>3. R = D
  <2> HIDE DEF R
  <2>1. QED
    BY <1>0, <1>2, MeasureInduction
<1>4. QED
  BY <1>3

\* A recursion has a solution.
LEMMA RecursionSolvable ==
  ASSUME NEW B, NEW D, NEW P, NEW W, NEW m, Recursive(B, D, P, W, m)
  PROVE  \E f \in [D -> W] : Solution(f, B, D)
<1> DEFINE Solves(g, n) == Reaches(g, n, B, D, m)
           Reached == {n \in Nat : \E g \in [D -> W] : Solves(g, n)}
<1>0. /\ m \in [D -> Nat] /\ P \in [D -> SUBSET W] /\ W # {}
      /\ \A x \in D : m[x] \in Nat /\ m[x] + 1 \in Nat /\ m[x] < m[x] + 1
  BY DEF Recursive
<1>1. PICK w : w \in W
  BY <1>0, Zenon
<1>2. 0 \in Reached
  <2>1. [x \in D |-> w] \in [D -> W]
    BY <1>1
  <2>2. Solves([x \in D |-> w], 0)
    BY <1>0 DEF Reaches
  <2>3. QED
    BY <2>1, <2>2
<1>3. ASSUME NEW n \in Reached PROVE n + 1 \in Reached
  <2>1. PICK g \in [D -> W] : Solves(g, n)
    BY <1>3
  <2> DEFINE h == [x \in D |-> IF m[x] < n + 1 THEN B[g][x] ELSE w]
  <2>2. ASSUME NEW x \in D, m[x] < n + 1
        PROVE  \A y \in D : m[y] < m[x] => g[y] = B[g][y] /\ g[y] \in P[y] /\ m[y] < n + 1
    <3>1. \A y \in D : m[y] < m[x] => m[y] < n /\ m[y] < n + 1
      BY <1>0, <2>2
    <3>2. QED
      BY <2>1, <3>1, ReachesTyped DEF Reaches
  <2>3. h \in [D -> W]
    <3>1. ASSUME NEW x \in D, m[x] < n + 1 PROVE B[g][x] \in W
      <4>1. B[g][x] \in P[x]
        BY <2>2, <3>1 DEF Recursive
      <4>2. QED
        BY <1>0, <4>1
    <3>2. QED
      BY <1>1, <3>1
  <2>4. ASSUME NEW x \in D, m[x] < n + 1 PROVE h[x] = B[h][x]
    <3>1. \A y \in D : m[y] < m[x] => g[y] = h[y] /\ g[y] \in P[y]
      BY <2>2, <2>4
    <3> HIDE DEF h
    <3>2. B[g][x] = B[h][x]
      BY <2>3, <3>1 DEF Recursive
    <3>3. QED
      BY <2>4, <3>2 DEF h
  <2>5. Solves(h, n + 1)
    <3> HIDE DEF h
    <3>1. QED
      BY <2>4 DEF Reaches
  <2>6. QED
    BY <2>3, <2>5
<1>4. Reached = Nat
  <2> DEFINE id == [n \in Nat |-> n]
  <2>1. ASSUME NEW n \in Nat, \A k \in Nat : id[k] < id[n] => k \in Reached
        PROVE  n \in Reached
    <3>1. CASE n = 0
      BY <1>2, <3>1
    <3>2. CASE n # 0
      <4>1. n - 1 \in Nat /\ n - 1 < n /\ (n - 1) + 1 = n
        BY <3>2
      <4>2. n - 1 \in Reached
        BY <2>1, <4>1
      <4>3. QED
        BY <1>3, <4>1, <4>2
    <3>3. QED
      BY <3>1, <3>2
  <2>2. Reached \in SUBSET Nat /\ id \in [Nat -> Nat]
    OBVIOUS
  <2>3. Progressive(Reached, Nat, id)
    BY <2>1 DEF Progressive
  <2> HIDE DEF Reached, id
  <2>4. QED
    BY <2>2, <2>3, MeasureInduction
<1> DEFINE c == [n \in Nat |-> CHOOSE g \in [D -> W] : Solves(g, n)]
<1>5. \A n \in Nat : c[n] \in [D -> W] /\ Solves(c[n], n)
  <2>1. ASSUME NEW n \in Nat PROVE c[n] \in [D -> W] /\ Solves(c[n], n)
    <3>1. \E g \in [D -> W] : Solves(g, n)
      BY <1>4
    <3>2. c[n] = CHOOSE g \in [D -> W] : Solves(g, n)
      OBVIOUS
    <3> HIDE DEF Solves, c
    <3>3. QED
      BY <3>1, <3>2, Zenon
  <2>2. QED
    BY <2>1
<1> HIDE DEF c
<1> DEFINE f == [x \in D |-> c[m[x] + 1][x]]
<1>6. f \in [D -> W]
  BY <1>0, <1>5
<1>7. ASSUME NEW x \in D PROVE f[x] = B[f][x]
  <2> DEFINE n == m[x] + 1
             g == c[n]
  <2>1. n \in Nat /\ g \in [D -> W] /\ Solves(g, n) /\ m[x] < n /\ f[x] = g[x]
    BY <1>0, <1>5
  <2>2. ASSUME NEW y \in D, m[y] < m[x] PROVE g[y] = f[y] /\ g[y] \in P[y]
    <3> DEFINE k == m[y] + 1
               h == c[k]
    <3>1. k \in Nat /\ m[y] < k /\ m[y] < n /\ \A z \in D : m[z] < k => m[z] < n
      BY <1>0, <2>2
    <3>2. h \in [D -> W] /\ Solves(h, k) /\ f[y] = h[y]
      BY <1>5, <3>1
    <3>3. Solves(g, k)
      BY <2>1, <3>1 DEF Reaches
    <3> HIDE DEF h, g, n, k, f
    <3>4. g[y] = h[y]
      BY <2>1, <3>1, <3>2, <3>3, ReachesAgree
    <3>5. g[y] \in P[y]
      BY <2>1, <3>1, ReachesTyped
    <3>6. QED
      BY <3>2, <3>4, <3>5
  <2> HIDE DEF f, g
  <2>3. B[g][x] = B[f][x]
    BY <1>6, <2>1, <2>2 DEF Recursive
  <2>4. QED
    BY <2>1, <2>3 DEF Reaches
<1>8. QED
  <2> HIDE DEF f
  <2>1. Solution(f, B, D)
    BY <1>7 DEF Solution
  <2>2. QED
    BY <1>6, <2>1

-------------------------------------------------------------------------------
(***************************************************************************)
(* The same for a recursion whose values are all of one type T: it looks   *)
(* down if its value at x depends on smaller arguments only.               *)
(***************************************************************************)
LooksDown(B, D, T, m) ==
  \A g, h \in [D -> T] : \A x \in D :
    (\A y \in D : m[y] < m[x] => g[y] = h[y]) => B[g][x] = B[h][x]

Recursion(B, D, T, m) ==
  /\ m \in [D -> Nat] /\ T # {}
  /\ B \in [[D -> T] -> [D -> T]]
  /\ LooksDown(B, D, T, m)

Solvable(B, D, T) == \E f \in [D -> T] : f = B[f]

LEMMA RecursionHasSolution ==
  ASSUME NEW D, NEW T, NEW m, NEW B, Recursion(B, D, T, m)
  PROVE  Solvable(B, D, T)
<1> DEFINE P == [x \in D |-> T]
<1>1. /\ m \in [D -> Nat] /\ T # {} /\ B \in [[D -> T] -> [D -> T]]
      /\ LooksDown(B, D, T, m)
  BY DEF Recursion
<1>2. P \in [D -> SUBSET T] /\ \A x \in D : P[x] = T
  OBVIOUS
<1>3. ASSUME NEW g \in [D -> T], NEW h \in [D -> T], NEW x \in D,
             \A y \in D : m[y] < m[x] => g[y] = h[y] /\ g[y] \in P[y]
      PROVE  B[g][x] = B[h][x] /\ B[g][x] \in P[x]
  <2>1. B[g] \in [D -> T]
    BY <1>1
  <2>2. B[g][x] \in P[x]
    BY <1>2, <2>1
  <2>3. B[g][x] = B[h][x]
    BY <1>1, <1>3 DEF LooksDown
  <2>4. QED
    BY <2>2, <2>3
<1> HIDE DEF P
<1>4. Recursive(B, D, P, T, m)
  BY <1>1, <1>2, <1>3 DEF Recursive
<1>5. PICK f \in [D -> T] : Solution(f, B, D)
  BY <1>4, RecursionSolvable
<1>6. f = B[f]
  <2>1. B[f] \in [D -> T]
    BY <1>1
  <2>2. QED
    BY <1>5, <2>1 DEF Solution
<1>7. QED
  BY <1>6 DEF Solvable

\* What solves the equation has values of the type, by induction.
LEMMA SolutionTyped ==
  ASSUME NEW D, NEW T, NEW m \in [D -> Nat], NEW f, f = [x \in D |-> f[x]],
         Progressive({x \in D : f[x] \in T}, D, m)
  PROVE  f \in [D -> T]
<1> DEFINE R == {x \in D : f[x] \in T}
<1>1. R = D
  <2>1. R \in SUBSET D /\ Progressive(R, D, m)
    OBVIOUS
  <2> HIDE DEF R
  <2>2. QED
    BY <2>1, MeasureInduction
<1>2. QED
  BY <1>1

-------------------------------------------------------------------------------
\* A function on 1 .. n is a sequence of length n.
LEMMA FunctionIsSeq ==
  ASSUME NEW S, NEW n \in Nat, NEW q \in [1 .. n -> S]
  PROVE  q \in Seq(S) /\ Len(q) = n
<1>1. q \in Seq(S)
  BY SeqDef
<1>2. Len(q) \in Nat /\ DOMAIN q = 1 .. Len(q)
  BY <1>1, LenProperties
<1>3. 1 .. Len(q) = 1 .. n
  BY <1>2
<1>4. QED
  BY <1>1, <1>2, <1>3

===============================================================================
