----------------------------- MODULE RuntimeProofs -----------------------------
(***************************************************************************)
(* Proofs about what lies under the programs.                              *)
(*                                                                         *)
(* Heap, for every heap and every sequence of calls of _sbrk: the blocks   *)
(* are apart from each other until a request does not fit.                 *)
(*                                                                         *)
(* Irq, for any number of saved registers and any bounds: the program is   *)
(* whole whenever it executes, the device is not left waiting, and a       *)
(* handler that is called is complete and has what it uses.                *)
(*                                                                         *)
(* LineInput, for an array of any size and any characters: what            *)
(* get_input() hands out always has an end, and a call returns the line    *)
(* that was typed, whatever the order of the stores of start_input and     *)
(* whenever the keys come.                                                 *)
(*                                                                         *)
(* Uart, for any characters, any program and any pace of the device: in    *)
(* the builds that wait no signal is lost, and each character sent is the  *)
(* one meant or the one after it.                                          *)
(***************************************************************************)
EXTENDS Heap, Irq, LineInput, Uart, Induction

-------------------------------------------------------------------------------
\* The size of the block that _sbrk(-extra) can shrink.
LastSize == IF Len(blocks) = 0 THEN 0 ELSE blocks[Len(blocks)].size

(***************************************************************************)
(* What makes the three invariants inductive: until a test fails the       *)
(* blocks are in ascending order and the break is twice the size of the    *)
(* last block away from its start, so that shrinking this block cannot     *)
(* bring the break down into it or into an earlier one.  After that the    *)
(* break is at the end of the heap until a negative increment comes.       *)
(***************************************************************************)
Ascending ==
  /\ HeapStart <= brk
  /\ \A i \in 1 .. Len(blocks) :
       /\ InHeap(blocks[i])
       /\ \A j \in 1 .. (i - 1) :
            blocks[j].base + blocks[j].size <= blocks[i].base
  /\ Len(blocks) > 0 =>
       brk = blocks[Len(blocks)].base + 2 * blocks[Len(blocks)].size

BreakBounded == HeapStart - 2 * MaxRequest <= brk - 2 * LastSize

AtEnd ==
  HeapStart # HeapEnd /\ ~reopened =>
    /\ exhausted => brk = HeapEnd
    /\ \A i \in 1 .. Len(blocks) : \A j \in 1 .. (i - 1) :
         \/ blocks[j].base + blocks[j].size <= blocks[i].base
         \/ HeapEnd <= blocks[i].base

HeapInv == HeapTypeOK /\ BreakBounded /\ AtEnd /\ (~exhausted => Ascending)

-------------------------------------------------------------------------------
Blocks == [base : Addresses \cup {0}, size : 0 .. MaxRequest]

LEMMA BlockTypes ==
  ASSUME HeapTypeOK
  PROVE  /\ Len(blocks) \in Nat
         /\ \A i \in 1 .. Len(blocks) :
              /\ blocks[i] = Block(blocks[i].base, blocks[i].size)
              /\ blocks[i].base \in Int
              /\ blocks[i].size \in Nat /\ blocks[i].size <= MaxRequest
         /\ LastSize \in Nat
<1>1. blocks \in Seq(Blocks)
  BY DEF HeapTypeOK, Blocks
<1>2. Len(blocks) \in Nat /\ \A i \in 1 .. Len(blocks) : blocks[i] \in Blocks
  BY <1>1
<1>3. \A b \in Blocks : /\ b = Block(b.base, b.size)
                        /\ b.base \in Int
                        /\ b.size \in Nat /\ b.size <= MaxRequest
  BY HeapAssumption DEF Blocks, Addresses, Block
<1>4. \A i \in 1 .. Len(blocks) :
        /\ blocks[i] = Block(blocks[i].base, blocks[i].size)
        /\ blocks[i].base \in Int
        /\ blocks[i].size \in Nat /\ blocks[i].size <= MaxRequest
  BY <1>2, <1>3
<1>5. LastSize \in Nat
  BY <1>2, <1>4 DEF LastSize
<1> QED
  BY <1>2, <1>4, <1>5

LEMMA InitInductive == HeapInit => HeapInv
<1> SUFFICES ASSUME HeapInit PROVE HeapInv
  OBVIOUS
<1>1. brk = HeapStart /\ blocks = <<>> /\ exhausted = FALSE /\ reopened = FALSE
  BY DEF HeapInit
<1>2. Len(blocks) = 0
  BY <1>1
<1>3. HeapTypeOK
  <2>1. brk \in Addresses
    BY <1>1, HeapAssumption DEF Addresses
  <2>2. blocks \in Seq([base : Addresses \cup {0}, size : 0 .. MaxRequest])
    BY <1>1
  <2> QED
    BY <1>1, <2>1, <2>2 DEF HeapTypeOK
<1>4. BreakBounded /\ AtEnd
  BY <1>1, <1>2, HeapAssumption DEF BreakBounded, LastSize, AtEnd
<1>5. Ascending
  BY <1>1, <1>2, HeapAssumption DEF Ascending
<1> QED
  BY <1>3, <1>4, <1>5 DEF HeapInv

LEMMA MoveBreakEffect ==
  ASSUME HeapTypeOK, NEW incr \in Int, MoveBreak(incr)
  PROVE  /\ reopened' = (reopened \/ (exhausted /\ incr < 0))
         /\ exhausted => exhausted'
         /\ exhausted' => exhausted \/ brk' = HeapEnd
         /\ HeapStart # HeapEnd /\ exhausted /\ brk = HeapEnd /\ incr >= 0 => brk' = HeapEnd
         /\ ~exhausted' => ~exhausted /\ brk + incr < HeapEnd
                           /\ brk' = brk + 2 * incr
         /\ brk' = brk + 2 * incr \/ brk' = HeapEnd
         /\ brk' <= HeapEnd \/ brk' < HeapEnd + incr
         /\ brk' \in Int /\ exhausted' \in BOOLEAN /\ reopened' \in BOOLEAN
<1>1. brk \in Int /\ HeapEnd \in Int /\ HeapStart \in Int
  BY HeapAssumption DEF HeapTypeOK, Addresses
<1>2. exhausted' \in BOOLEAN /\ reopened' \in BOOLEAN
  BY DEF MoveBreak, HeapTypeOK
<1>3. /\ ~exhausted' => ~exhausted /\ Fits(incr)
      /\ exhausted => exhausted'
      /\ exhausted' => exhausted \/ ~Fits(incr)
      /\ reopened' = (reopened \/ (exhausted /\ incr < 0))
  BY DEF MoveBreak, HeapTypeOK
<1>4. brk' = IF Fits(incr) THEN brk + incr + incr ELSE HeapEnd
  BY DEF MoveBreak, NewBreak
<1> QED
  BY <1>1, <1>2, <1>3, <1>4 DEF Fits

LEMMA SbrkInductive ==
  ASSUME HeapInv, NEW incr \in 0 .. MaxRequest, Sbrk(incr)
  PROVE  HeapInv'
<1> DEFINE n == Len(blocks)
           b == Block(Result(incr), incr)
<1>1. HeapTypeOK /\ BreakBounded /\ AtEnd /\ (~exhausted => Ascending)
  BY DEF HeapInv
<1>2. /\ incr \in Int /\ 0 <= incr /\ incr <= MaxRequest
      /\ HeapStart \in Nat /\ HeapEnd \in Nat /\ MaxRequest \in Nat
      /\ brk \in Int
  BY <1>1, HeapAssumption DEF HeapTypeOK, Addresses
<1>3. MoveBreak(incr) /\ blocks' = Append(blocks, b)
  BY DEF Sbrk
<1>4. /\ reopened' = (reopened \/ (exhausted /\ incr < 0))
      /\ exhausted => exhausted'
      /\ exhausted' => exhausted \/ brk' = HeapEnd
      /\ HeapStart # HeapEnd /\ exhausted /\ brk = HeapEnd /\ incr >= 0 => brk' = HeapEnd
      /\ ~exhausted' => ~exhausted /\ brk + incr < HeapEnd
                        /\ brk' = brk + 2 * incr
      /\ brk' = brk + 2 * incr \/ brk' = HeapEnd
      /\ brk' <= HeapEnd \/ brk' < HeapEnd + incr
      /\ brk' \in Int /\ exhausted' \in BOOLEAN /\ reopened' \in BOOLEAN
  BY <1>1, <1>2, <1>3, MoveBreakEffect
<1>5. b \in Blocks /\ b.base = Result(incr) /\ b.size = incr
  BY <1>1 DEF HeapTypeOK, Block, Result, Blocks
<1>6. blocks \in Seq(Blocks)
  BY <1>1 DEF HeapTypeOK, Blocks
<1> HIDE DEF b
<1>7. /\ n \in Nat /\ Len(blocks') = n + 1
      /\ blocks' \in Seq(Blocks)
      /\ blocks'[n + 1] = b
      /\ \A i \in 1 .. n : blocks'[i] = blocks[i]
  BY <1>3, <1>5, <1>6
<1>8. /\ LastSize \in Nat
      /\ \A i \in 1 .. n : /\ blocks[i].base \in Int
                           /\ blocks[i].size \in Nat
  BY <1>1, BlockTypes
<1>9. (n = 0 => LastSize = 0) /\ (n > 0 => LastSize = blocks[n].size)
  BY <1>7 DEF LastSize
<1> HIDE DEF n
<1>10. LastSize' = incr
  BY <1>5, <1>7 DEF LastSize
<1>11. HeapStart - 2 * MaxRequest <= brk' - 2 * incr
  <2>1. LastSize \in Nat /\ HeapStart - 2 * MaxRequest <= brk - 2 * LastSize
    BY <1>1, <1>8 DEF BreakBounded
  <2>2. brk' = brk + 2 * incr \/ brk' = HeapEnd
    BY <1>4
  <2>3. HeapStart <= HeapEnd
    BY HeapAssumption
  <2> QED
    BY <1>2, <2>1, <2>2, <2>3
<1>12. HeapTypeOK' /\ BreakBounded'
  <2>1. brk' \in Int /\ (brk' <= HeapEnd \/ brk' < HeapEnd + incr)
    BY <1>4
  <2>2. brk' <= HeapEnd + MaxRequest
    BY <1>2, <2>1
  <2>3. HeapStart - 2 * MaxRequest <= brk'
    <3>1. ASSUME NEW m \in Int, NEW p \in Int, NEW q \in Nat, m <= p - 2 * q
          PROVE  m <= p
      BY <3>1
    <3>2. HeapStart - 2 * MaxRequest \in Int /\ incr \in Nat
      BY <1>2
    <3> QED
      BY <1>11, <2>1, <3>1, <3>2
  <2>4. brk' \in Addresses
    BY <1>2, <2>1, <2>2, <2>3 DEF Addresses
  <2> QED
    BY <1>4, <1>7, <1>10, <1>11, <2>4 DEF HeapTypeOK, Blocks, BreakBounded
<1>13. ASSUME ~exhausted, Ascending, NEW i \in 1 .. n
       PROVE  blocks[i].base + blocks[i].size <= brk
  <2>1. n > 0 => brk = blocks[n].base + 2 * blocks[n].size
    BY <1>13 DEF Ascending, n
  <2>2. \A k \in 1 .. n : \A j \in 1 .. (k - 1) :
          blocks[j].base + blocks[j].size <= blocks[k].base
    BY <1>13 DEF Ascending, n
  <2>3. n \in 1 .. n /\ n > 0 /\ i \in Int
    BY <1>7
  <2>4. i = n \/ blocks[i].base + blocks[i].size <= blocks[n].base
    BY <1>7, <2>2, <2>3
  <2> QED
    BY <1>2, <1>8, <2>1, <2>3, <2>4
<1>14. ASSUME ~exhausted'
       PROVE  Ascending'
  <2>1. Ascending /\ brk + incr < HeapEnd /\ brk' = brk + 2 * incr
    BY <1>1, <1>4, <1>14
  <2>2. b.base = brk /\ b.size = incr /\ HeapStart <= brk
    BY <1>2, <1>5, <2>1 DEF Result, Ascending
  <2>4. \A i \in 1 .. n : \A j \in 1 .. (i - 1) :
          blocks[j].base + blocks[j].size <= blocks[i].base
    BY <2>1 DEF Ascending, n
  <2>5. ASSUME NEW i \in 1 .. n
        PROVE  blocks[i].base + blocks[i].size <= brk
    BY <1>4, <1>13, <1>14, <2>1
  <2>6. \A i \in 1 .. n : InHeap(blocks[i])
    BY <2>1 DEF Ascending, n
  <2>7. InHeap(b)
    BY <1>2, <2>1, <2>2 DEF InHeap
  <2>8. \A i \in 1 .. (n + 1) : InHeap(blocks'[i])
    BY <1>7, <2>6, <2>7
  <2>9. \A i \in 1 .. (n + 1) : \A j \in 1 .. (i - 1) :
          blocks'[j].base + blocks'[j].size <= blocks'[i].base
    <3> SUFFICES ASSUME NEW i \in 1 .. (n + 1), NEW j \in 1 .. (i - 1)
                 PROVE  blocks'[j].base + blocks'[j].size <= blocks'[i].base
      OBVIOUS
    <3>1. j \in 1 .. n /\ blocks'[j] = blocks[j]
      BY <1>7
    <3>2. CASE i = n + 1
      BY <1>7, <2>2, <2>5, <3>1, <3>2
    <3>3. CASE i \in 1 .. n
      BY <1>7, <2>4, <3>1, <3>3
    <3> QED
      BY <1>7, <3>2, <3>3
  <2>10. HeapStart <= brk' /\ brk' = blocks'[n + 1].base + 2 * blocks'[n + 1].size
    BY <1>2, <1>7, <2>1, <2>2
  <2> QED
    BY <1>7, <2>8, <2>9, <2>10 DEF Ascending
<1>15. ASSUME HeapStart # HeapEnd, ~reopened'
       PROVE  /\ exhausted' => brk' = HeapEnd
              /\ \A i \in 1 .. (n + 1) : \A j \in 1 .. (i - 1) :
                   \/ blocks'[j].base + blocks'[j].size <= blocks'[i].base
                   \/ HeapEnd <= blocks'[i].base
  <2>1. /\ ~reopened
        /\ exhausted => brk = HeapEnd
        /\ \A i \in 1 .. n : \A j \in 1 .. (i - 1) :
             \/ blocks[j].base + blocks[j].size <= blocks[i].base
             \/ HeapEnd <= blocks[i].base
    BY <1>1, <1>4, <1>15 DEF AtEnd, n
  <2>2. exhausted' => brk' = HeapEnd
    BY <1>2, <1>4, <1>15, <2>1
  <2>3. b.base = brk
    BY <1>5, <1>15 DEF Result
  <2>4. ASSUME NEW i \in 1 .. (n + 1), NEW j \in 1 .. (i - 1)
        PROVE  \/ blocks'[j].base + blocks'[j].size <= blocks'[i].base
               \/ HeapEnd <= blocks'[i].base
    <3>1. j \in 1 .. n /\ blocks'[j] = blocks[j]
      BY <1>7, <2>4
    <3>2. CASE i = n + 1 /\ exhausted
      BY <1>2, <1>7, <2>1, <2>3, <3>2
    <3>3. CASE i = n + 1 /\ ~exhausted
      BY <1>1, <1>7, <1>13, <2>3, <3>1, <3>3
    <3>4. CASE i \in 1 .. n
      BY <1>7, <2>1, <2>4, <3>1, <3>4
    <3> QED
      BY <1>7, <2>4, <3>2, <3>3, <3>4
  <2> QED
    BY <2>2, <2>4
<1>16. AtEnd'
  BY <1>7, <1>15 DEF AtEnd
<1> QED
  BY <1>12, <1>14, <1>16 DEF HeapInv

LEMMA TrimInductive ==
  ASSUME HeapInv, NEW extra \in 1 .. MaxRequest, Trim(extra)
  PROVE  HeapInv'
<1> DEFINE n == Len(blocks)
           b == Block(blocks[n].base, blocks[n].size - extra)
<1>1. HeapTypeOK /\ BreakBounded /\ AtEnd /\ (~exhausted => Ascending)
  BY DEF HeapInv
<1>2. /\ extra \in Int /\ 1 <= extra /\ extra <= MaxRequest
      /\ HeapStart \in Nat /\ HeapEnd \in Nat /\ MaxRequest \in Nat
      /\ brk \in Int /\ -extra \in Int
  BY <1>1, HeapAssumption DEF HeapTypeOK, Addresses
<1>3. /\ n > 0 /\ extra <= blocks[n].size /\ MoveBreak(-extra)
      /\ blocks' = [blocks EXCEPT ![n].size = @ - extra]
  BY DEF Trim
<1>4. /\ reopened' = (reopened \/ exhausted)
      /\ exhausted' => exhausted \/ brk' = HeapEnd
      /\ ~exhausted' => ~exhausted /\ brk' = brk - 2 * extra
      /\ brk' = brk - 2 * extra \/ brk' = HeapEnd
      /\ brk' <= HeapEnd
      /\ brk' \in Int /\ exhausted' \in BOOLEAN /\ reopened' \in BOOLEAN
  <2>1. /\ reopened' = (reopened \/ (exhausted /\ -extra < 0))
        /\ exhausted' => exhausted \/ brk' = HeapEnd
        /\ ~exhausted' => ~exhausted /\ brk' = brk + 2 * (-extra)
        /\ brk' = brk + 2 * (-extra) \/ brk' = HeapEnd
        /\ brk' <= HeapEnd \/ brk' < HeapEnd + (-extra)
        /\ brk' \in Int /\ exhausted' \in BOOLEAN /\ reopened' \in BOOLEAN
    BY <1>1, <1>2, <1>3, MoveBreakEffect
  <2>2. -extra < 0
    BY <1>2
  <2>3. reopened' = (reopened \/ exhausted)
    BY <2>1, <2>2
  <2> QED
    BY <1>2, <2>1, <2>3
<1>5. /\ LastSize \in Nat
      /\ n \in Nat /\ n \in 1 .. n
      /\ \A i \in 1 .. n : /\ blocks[i].base \in Int
                           /\ blocks[i].size \in Nat
                           /\ blocks[i].size <= MaxRequest
  BY <1>1, <1>3, BlockTypes
<1>6. blocks \in Seq(Blocks)
  BY <1>1 DEF HeapTypeOK, Blocks
<1>7. b \in Blocks /\ b.base = blocks[n].base /\ b.size = blocks[n].size - extra
  <2>1. blocks[n] \in Blocks
    BY <1>5, <1>6
  <2> QED
    BY <1>2, <1>3, <1>5, <2>1 DEF Blocks, Block
<1>8. [blocks[n] EXCEPT !.size = @ - extra] = b
  <2>1. blocks[n] = Block(blocks[n].base, blocks[n].size)
    BY <1>1, <1>5, BlockTypes
  <2> QED
    BY <2>1 DEF Block
<1> HIDE DEF b
<1>9. blocks' = [blocks EXCEPT ![n] = b]
  BY <1>3, <1>8
<1>10. /\ Len(blocks') = n
       /\ blocks' \in Seq(Blocks)
       /\ blocks'[n] = b
       /\ \A i \in 1 .. n : i # n => blocks'[i] = blocks[i]
  BY <1>5, <1>6, <1>7, <1>9
<1>11. LastSize = blocks[n].size
  BY <1>3, <1>5 DEF LastSize
<1> HIDE DEF n
<1>12. LastSize' = b.size
  <2>1. n \in Nat /\ n > 0 /\ Len(blocks') = n /\ blocks'[n] = b
    BY <1>3, <1>5, <1>10 DEF n
  <2> QED
    BY <2>1 DEF LastSize
<1>13. /\ b.size \in Nat /\ b.size <= MaxRequest
       /\ HeapStart - 2 * MaxRequest <= brk' - 2 * b.size
  <2>1. LastSize \in Nat /\ HeapStart - 2 * MaxRequest <= brk - 2 * LastSize
    BY <1>1, <1>5 DEF BreakBounded
  <2>2. b.size = LastSize - extra /\ extra <= LastSize /\ LastSize <= MaxRequest
    BY <1>3, <1>5, <1>7, <1>11
  <2>3. HeapStart <= HeapEnd /\ (brk' = brk - 2 * extra \/ brk' = HeapEnd)
    BY <1>4, HeapAssumption
  <2> QED
    BY <1>2, <2>1, <2>2, <2>3
<1>14. HeapTypeOK' /\ BreakBounded'
  <2>1. brk' \in Int /\ brk' <= HeapEnd
    BY <1>4
  <2>2. brk' \in Addresses
    BY <1>2, <1>13, <2>1 DEF Addresses
  <2> QED
    BY <1>4, <1>10, <1>12, <1>13, <2>2 DEF HeapTypeOK, Blocks, BreakBounded
<1>15. ASSUME HeapStart # HeapEnd, ~reopened'
       PROVE  /\ exhausted' => brk' = HeapEnd
              /\ \A i \in 1 .. n : \A j \in 1 .. (i - 1) :
                   \/ blocks'[j].base + blocks'[j].size <= blocks'[i].base
                   \/ HeapEnd <= blocks'[i].base
  <2>1. /\ ~exhausted /\ ~reopened
        /\ \A i \in 1 .. n : \A j \in 1 .. (i - 1) :
             \/ blocks[j].base + blocks[j].size <= blocks[i].base
             \/ HeapEnd <= blocks[i].base
    BY <1>1, <1>4, <1>15 DEF AtEnd, n, HeapTypeOK
  <2>2. ASSUME NEW i \in 1 .. n, NEW j \in 1 .. (i - 1)
        PROVE  \/ blocks'[j].base + blocks'[j].size <= blocks'[i].base
               \/ HeapEnd <= blocks'[i].base
    <3>1. j \in 1 .. n /\ j # n /\ blocks'[j] = blocks[j]
      BY <1>5, <1>10, <2>2
    <3>2. blocks'[i].base = blocks[i].base
      BY <1>7, <1>10
    <3> QED
      BY <2>1, <3>1, <3>2
  <2> QED
    BY <1>4, <2>1, <2>2
<1>17. AtEnd'
  BY <1>10, <1>15 DEF AtEnd
<1>16. ASSUME ~exhausted'
       PROVE  Ascending'
  <2>1. Ascending /\ brk' = brk - 2 * extra
    BY <1>1, <1>4, <1>16
  <2>2. brk = blocks[n].base + 2 * blocks[n].size
    BY <1>3, <2>1 DEF Ascending, n
  <2>3. \A i \in 1 .. n : InHeap(blocks[i]) /\ \A j \in 1 .. (i - 1) :
          blocks[j].base + blocks[j].size <= blocks[i].base
    BY <2>1 DEF Ascending, n
  <2>4. brk' = b.base + 2 * b.size /\ b.size \in Nat /\ b.base \in Int
    BY <1>2, <1>3, <1>5, <1>7, <2>1, <2>2
  <2>5. InHeap(b)
    BY <1>2, <1>3, <1>5, <1>7, <2>3 DEF InHeap
  <2>6. \A i \in 1 .. n : InHeap(blocks'[i])
    BY <1>10, <2>3, <2>5
  <2>7. \A i \in 1 .. n : \A j \in 1 .. (i - 1) :
          blocks'[j].base + blocks'[j].size <= blocks'[i].base
    <3> SUFFICES ASSUME NEW i \in 1 .. n, NEW j \in 1 .. (i - 1)
                 PROVE  blocks'[j].base + blocks'[j].size <= blocks'[i].base
      OBVIOUS
    <3>1. j \in 1 .. n /\ j # n /\ blocks'[j] = blocks[j]
      BY <1>5, <1>10
    <3>2. blocks'[i].base = blocks[i].base
      BY <1>7, <1>10
    <3> QED
      BY <2>3, <3>1, <3>2
  <2>8. HeapStart <= brk'
    BY <1>2, <2>4, <2>5 DEF InHeap
  <2> QED
    BY <1>10, <2>4, <2>6, <2>7, <2>8 DEF Ascending
<1> QED
  BY <1>14, <1>16, <1>17 DEF HeapInv

LEMMA HeapInductive == HeapSpec => []HeapInv
<1>1. HeapInv /\ [HeapNext]_heapVars => HeapInv'
  <2>1. HeapInv /\ UNCHANGED heapVars => HeapInv'
    BY DEF HeapInv, HeapTypeOK, BreakBounded, LastSize, AtEnd, Ascending, heapVars
  <2> QED
    BY <2>1, SbrkInductive, TrimInductive DEF HeapNext
<1> QED
  BY <1>1, InitInductive, PTL DEF HeapSpec

-------------------------------------------------------------------------------
(***************************************************************************)
(* Until a call of _sbrk fails its test every block is in the heap and     *)
(* apart from the others, for every sequence of requests and trims.        *)
(***************************************************************************)
THEOREM HeapSafe == HeapSpec => []SafeUntilExhausted
<1>1. HeapInv => SafeUntilExhausted
  <2> SUFFICES ASSUME HeapInv, ~exhausted, NEW i \in 1 .. Len(blocks)
               PROVE  /\ InHeap(blocks[i])
                      /\ blocks[i].base + blocks[i].size <= brk
                      /\ \A j \in 1 .. (i - 1) : Disjoint(blocks[i], blocks[j])
    BY DEF SafeUntilExhausted
  <2>1. HeapTypeOK /\ Ascending
    BY DEF HeapInv
  <2> DEFINE n == Len(blocks)
  <2>2. /\ n \in Nat /\ n > 0 /\ n \in 1 .. n
        /\ \A k \in 1 .. n : blocks[k].base \in Int /\ blocks[k].size \in Nat
    BY <2>1, BlockTypes
  <2>3. brk = blocks[n].base + 2 * blocks[n].size
    BY <2>1, <2>2 DEF Ascending
  <2>4. i = n \/ blocks[i].base + blocks[i].size <= blocks[n].base
    BY <2>1, <2>2 DEF Ascending
  <2>5. blocks[i].base + blocks[i].size <= brk
    <3>1. brk \in Int /\ i \in 1 .. n
      BY <2>1, HeapAssumption DEF HeapTypeOK, Addresses
    <3>2. /\ blocks[i].base \in Int /\ blocks[i].size \in Nat
          /\ blocks[n].base \in Int /\ blocks[n].size \in Nat
      BY <2>2, <3>1
    <3> QED
      BY <2>3, <2>4, <3>1, <3>2
  <2> QED
    BY <2>1, <2>5 DEF Ascending, Disjoint
<1> QED
  BY <1>1, HeapInductive, PTL

(***************************************************************************)
(* After that no byte inside of the heap is given out twice, until a       *)
(* negative increment moves the break back.                                *)
(***************************************************************************)
THEOREM HeapOnce == HeapSpec => []HeapGivenOnce
<1>1. HeapInv => HeapGivenOnce
  BY DEF HeapInv, AtEnd, HeapGivenOnce, Disjoint
<1> QED
  BY <1>1, HeapInductive, PTL

(***************************************************************************)
(* The break stays within one request of the end of the heap and two of    *)
(* its start, even after the heap is exhausted.                            *)
(***************************************************************************)
THEOREM HeapTyped == HeapSpec => []HeapTypeOK
<1>1. HeapInv => HeapTypeOK
  BY DEF HeapInv
<1> QED
  BY <1>1, HeapInductive, PTL

-------------------------------------------------------------------------------
(***************************************************************************)
(* While nothing has overtaken a return there is at most one frame on the  *)
(* stack, right below the program's, and what is still to be loaded is in  *)
(* it.  After that no jump can lead to the program.                        *)
(***************************************************************************)
Typed ==
  /\ place \in Places /\ tp \in Places /\ sp \in Int
  /\ regs \in [Registers -> Values] /\ stack \in [Words -> Values]
  /\ interrupts \in Nat /\ raised \subseteq Kinds
  /\ interrupts = 0 => raised = {} /\ place = Program /\ regs[Temp] = "own"
  /\ {busy, early, overtaken} \subseteq BOOLEAN

Own == \A r \in Saved : regs[r] = "own"

InProgram == place = Program /\ tp \in Places /\ sp = 0 /\ Own

InHandler ==
  /\ place # Program /\ tp = Program
  /\ sp = IF place <= Release THEN -FrameSize ELSE IF place <= ReleaseRa THEN -4 ELSE 0
  /\ \A r \in Args : IF place <= Load(r) THEN stack[r - 1 - FrameSize] = "own"
                     ELSE regs[r] = "own"
  /\ IF place <= LoadRa THEN stack[-1] = "own" ELSE regs[Ra] = "own"

WholeInv ==
  /\ Typed
  /\ IF overtaken THEN place # Program /\ tp # Program ELSE InProgram \/ InHandler

WaitInv ==
  /\ tp \in Places \ {Dispatch, Acknowledge} /\ place \in Places
  /\ busy \in BOOLEAN /\ early \in BOOLEAN
  /\ place \in {Dispatch, Acknowledge} => busy
  /\ busy => early \/ place \in {Dispatch, Acknowledge}

\* The places are a range of natural numbers, the stack of integers.
LEMMA PlacesAndWords ==
  /\ ArgRegisters \in Nat \ {0} /\ StackTop \in Nat /\ StackLow \in Int
  /\ Ra \in Saved /\ Args = Saved \ {Ra}
  /\ Saved = Registers \ {Temp} /\ Temp \in Registers
  /\ StackLow <= -FrameSize
<1>1. FrameSize \in Nat /\ MaxNesting \in Nat \ {0}
  BY IrqAssumption DEF FrameSize
<1>2. MaxNesting * FrameSize \in Int /\ MaxNesting * FrameSize >= FrameSize
  <2>1. ASSUME NEW m \in Nat \ {0}, NEW f \in Nat PROVE m * f \in Int /\ m * f >= f
    BY <2>1
  <2>2. QED BY <1>1, <2>1
<1>3. QED
  BY <1>1, <1>2, IrqAssumption DEF StackLow, Ra, Temp, Saved, Registers, Args

\* An interrupt of the program leaves its registers in the new frame.
LEMMA FrameIsSaved ==
  ASSUME Typed, InProgram, NEW k \in Kinds, Interrupt(k)
  PROVE  /\ stack' \in [Words -> Values]
         /\ \A r \in Args : stack'[r - 1 - FrameSize] = "own"
         /\ stack'[-1] = "own"
<1>1. sp' = -FrameSize /\ -FrameSize >= StackLow /\ stack' = SavedAt(-FrameSize)
  BY PlacesAndWords DEF Interrupt, InProgram, FrameSize
<1>2. ASSUME NEW r \in Saved
      PROVE  /\ Slot(r) - FrameSize \in Words
             /\ stack'[Slot(r) - FrameSize] = "own"
  <2>1. Slot(r) \in 0 .. (ArgRegisters + 3)
    BY PlacesAndWords DEF Slot, Saved, Ra
  <2>2. Slot(r) - FrameSize \in Words
    BY <1>1, <2>1, PlacesAndWords DEF Words, FrameSize
  <2> DEFINE w == Slot(r) - FrameSize
  <2>3. w = -FrameSize + Slot(r)
    BY <2>1, PlacesAndWords DEF FrameSize
  <2>4. stack'[w] = regs[CHOOSE q \in Saved : w = -FrameSize + Slot(q)]
    BY <1>1, <2>2, <2>3 DEF SavedAt
  <2>5. (CHOOSE q \in Saved : w = -FrameSize + Slot(q)) \in Saved
    BY <2>3
  <2>6. QED
    BY <2>2, <2>4, <2>5 DEF InProgram, Own
<1>3. stack' \in [Words -> Values]
  BY <1>1 DEF SavedAt, Typed, InProgram, Own, Values
<1>4. \A r \in Args : r \in Saved /\ Slot(r) = r - 1
  BY PlacesAndWords DEF Slot, Args, Saved, Ra
<1>5. Slot(Ra) - FrameSize = -1
  BY PlacesAndWords DEF Slot, FrameSize
<1>6. QED
  BY <1>2, <1>3, <1>4, <1>5, PlacesAndWords

\* The step of the return that the place says.
LEMMA ReturnKeeps == ASSUME WholeInv, ReturnStep PROVE WholeInv'
<1> USE PlacesAndWords DEF FrameSize, Load, Release, LoadRa, ReleaseRa, Jump,
        Program, Places, Dispatch, Acknowledge
<1>0. UNCHANGED <<busy, early, overtaken, stack>>
  BY DEF ReturnStep, device
<1>00. UNCHANGED <<interrupts, raised>> /\ interrupts # 0
  BY DEF ReturnStep, device, WholeInv, Typed, Args
<1>1. CASE \E r \in Args : place = Load(r) /\ Reload(r, sp + Slot(r))
  <2> PICK r \in Args : place = Load(r) /\ Reload(r, sp + Slot(r))
    BY <1>1
  <2>1. r \in 1 .. ArgRegisters /\ Slot(r) = r - 1
    BY DEF Args, Slot, Ra
  <2>2. /\ place' = place + 1 /\ UNCHANGED <<sp, tp>>
        /\ regs' = [regs EXCEPT ![r] = IF sp + Slot(r) \in Words
                                       THEN stack[sp + Slot(r)] ELSE "other"]
    BY DEF Reload
  <2>3. Typed'
    BY <1>0, <1>00, <2>1, <2>2 DEF WholeInv, Typed, Values, Registers
  <2>4. CASE overtaken
    BY <1>0, <2>1, <2>2, <2>3, <2>4 DEF WholeInv
  <2>5. CASE ~overtaken
    <3>1. InHandler /\ sp = -FrameSize /\ stack[r - 1 - FrameSize] = "own"
      BY <2>1, <2>5 DEF WholeInv, InProgram, InHandler
    <3>2. sp + Slot(r) = r - 1 - FrameSize /\ sp + Slot(r) \in Words
      BY <2>1, <3>1 DEF Words
    <3>3. regs'[r] = "own" /\ \A q \in Registers \ {r} : regs'[q] = regs[q]
      BY <2>1, <2>2, <3>1, <3>2 DEF WholeInv, Typed, Registers
    <3>4. \A q \in Args : IF place' <= Load(q) THEN stack'[q - 1 - FrameSize] = "own"
                          ELSE regs'[q] = "own"
      BY <1>0, <2>1, <2>2, <3>1, <3>3 DEF InHandler, Args, Registers, Ra
    <3>5. InHandler'
      BY <1>0, <2>1, <2>2, <3>1, <3>4 DEF InHandler
    <3>6. QED
      BY <1>0, <2>3, <2>5, <3>5 DEF WholeInv
  <2>6. QED
    BY <2>4, <2>5
<1>2. CASE place = Release /\ Pop(ArgRegisters)
  <2>1. /\ place' = place + 1 /\ sp' = sp + ArgRegisters /\ UNCHANGED <<regs, tp>>
    BY <1>2 DEF Pop
  <2>2. Typed'
    BY <1>0, <1>00, <1>2, <2>1 DEF WholeInv, Typed
  <2>3. \A r \in Args : r <= ArgRegisters /\ r \in Nat
    BY DEF Args
  <2>4. InHandler => InHandler'
    BY <1>0, <1>2, <2>1, <2>3 DEF InHandler
  <2>5. QED
    BY <1>0, <1>2, <2>1, <2>2, <2>4 DEF WholeInv, InProgram
<1>3. CASE place = LoadRa /\ Reload(Ra, sp + Slot(Ra) - ArgRegisters)
  <2>1. Slot(Ra) - ArgRegisters = 3
    BY DEF Slot
  <2>2. /\ place' = place + 1 /\ UNCHANGED <<sp, tp>>
        /\ regs' = [regs EXCEPT ![Ra] = IF sp + Slot(Ra) - ArgRegisters \in Words
                                        THEN stack[sp + Slot(Ra) - ArgRegisters]
                                        ELSE "other"]
    BY <1>3 DEF Reload
  <2>3. Typed'
    BY <1>0, <1>00, <1>3, <2>2 DEF WholeInv, Typed, Values
  <2>4. ASSUME InHandler PROVE InHandler'
    <3>1. sp = -4 /\ stack[-1] = "own" /\ -1 \in Words
      BY <1>3, <2>4 DEF InHandler, Words
    <3>2. Slot(Ra) = ArgRegisters + 3
      BY DEF Slot
    <3>3. sp + Slot(Ra) - ArgRegisters = -1
      BY <3>1, <3>2
    <3>4. regs'[Ra] = "own" /\ \A r \in Args : regs'[r] = regs[r]
      BY <2>2, <3>1, <3>3 DEF WholeInv, Typed
    <3>5. \A r \in Args : r <= ArgRegisters /\ r \in Nat
      BY DEF Args
    <3>6. QED
      BY <1>0, <1>3, <2>2, <2>4, <3>4, <3>5 DEF InHandler
  <2>5. QED
    BY <1>0, <1>3, <2>2, <2>3, <2>4 DEF WholeInv, InProgram
<1>4. CASE place = ReleaseRa /\ Pop(4)
  <2>1. /\ place' = place + 1 /\ sp' = sp + 4 /\ UNCHANGED <<regs, tp>>
    BY <1>4 DEF Pop
  <2>2. Typed'
    BY <1>0, <1>00, <1>4, <2>1 DEF WholeInv, Typed
  <2>3. \A r \in Args : r <= ArgRegisters /\ r \in Nat
    BY DEF Args
  <2>4. InHandler => InHandler'
    BY <1>0, <1>4, <2>1, <2>3 DEF InHandler
  <2>5. QED
    BY <1>0, <1>4, <2>1, <2>2, <2>4 DEF WholeInv, InProgram
<1>5. CASE place = Jump /\ place' = tp /\ UNCHANGED <<sp, regs, tp>>
  <2>1. Typed'
    BY <1>0, <1>00, <1>5 DEF WholeInv, Typed
  <2>2. ASSUME InHandler PROVE InProgram'
    <3>1. sp = 0 /\ tp = Program /\ \A r \in Args \cup {Ra} : regs[r] = "own"
      BY <1>5, <2>2 DEF InHandler, Args
    <3>2. Own
      BY <3>1 DEF Own
    <3>3. QED
      BY <1>5, <3>1, <3>2 DEF InProgram, Own
  <2>3. QED
    BY <1>0, <1>5, <2>1, <2>2 DEF WholeInv, InProgram
<1>6. QED
  BY <1>1, <1>2, <1>3, <1>4, <1>5 DEF ReturnStep

-------------------------------------------------------------------------------
(***************************************************************************)
(* ReturnsWhole holds in every execution: an interrupt leaves no trace in  *)
(* the stack pointer of the program and in the registers that irq_handler  *)
(* saves, or the program never executes again.  In the registers that it   *)
(* does not save every interrupt may leave one.                            *)
(***************************************************************************)
THEOREM ProgramIsWhole == IrqSpec => []ReturnsWhole
<1>1. IrqInit => WholeInv
  <2>1. ASSUME IrqInit
        PROVE  /\ place = Program /\ tp = Program /\ sp = 0 /\ interrupts = 0 /\ raised = {}
               /\ regs = [r \in Registers |-> "own"]
               /\ stack = [w \in Words |-> "other"]
               /\ busy = FALSE /\ early = FALSE /\ overtaken = FALSE
    BY <2>1 DEF IrqInit
  <2>2. QED
    BY <2>1, PlacesAndWords DEF WholeInv, Typed, InProgram, Own, Values, Places,
       Program, Jump
<1>2. WholeInv /\ [IrqNext]_irqVars => WholeInv'
  <2> SUFFICES ASSUME WholeInv, [IrqNext]_irqVars PROVE WholeInv'
    OBVIOUS
  <2> USE PlacesAndWords DEF Program, Places, Jump, Dispatch, Acknowledge
  <2>1. CASE ProgramStep
    BY <2>1 DEF ProgramStep, StoreDone, WholeInv, Typed, InProgram, InHandler, Own, frame
  <2>2. ASSUME NEW k \in Kinds, Raise(k) PROVE WholeInv'
    BY <2>2 DEF Raise, WholeInv, Typed, InProgram, InHandler, Own, frame
  <2>3. ASSUME NEW k \in Kinds, Interrupt(k) PROVE WholeInv'
    <3>1. /\ tp' = place /\ place' = Dispatch /\ sp' = sp - FrameSize /\ busy' = TRUE
          /\ overtaken' = (overtaken \/ place # Program) /\ UNCHANGED <<regs, early>>
          /\ interrupts' = interrupts /\ raised' \subseteq raised /\ interrupts # 0
          /\ stack' = SavedAt(sp - FrameSize)
      BY <2>3 DEF Interrupt, WholeInv, Typed
    <3>2. stack' \in [Words -> Values]
      BY <3>1 DEF SavedAt, WholeInv, Typed
    <3>3. Typed'
      BY <3>1, <3>2 DEF WholeInv, Typed, FrameSize
    <3>4. CASE place = Program
      <4>1. InProgram /\ ~overtaken
        BY <3>4 DEF WholeInv, InHandler
      <4>2. /\ \A r \in Args : stack'[r - 1 - FrameSize] = "own"
            /\ stack'[-1] = "own"
        BY <2>3, <4>1, FrameIsSaved DEF WholeInv
      <4>3. InHandler'
        <5>1. place' = 1 /\ tp' = Program /\ sp' = -FrameSize
          BY <3>1, <3>4, <4>1 DEF InProgram, FrameSize
        <5>2. 1 <= Release /\ 1 <= LoadRa /\ \A r \in Args : 1 <= Load(r)
          BY DEF Release, LoadRa, Load, Args
        <5>3. QED
          BY <4>2, <5>1, <5>2 DEF InHandler
      <4>4. QED
        BY <3>1, <3>3, <3>4, <4>1, <4>3 DEF WholeInv
    <3>5. CASE place # Program
      <4>1. overtaken'
        BY <3>5, <2>3, Zenon DEF Interrupt
      <4>2. place' # Program /\ tp' # Program
        BY <3>1, <3>5
      <4>3. QED
        BY <3>3, <4>1, <4>2 DEF WholeInv
    <3>6. QED
      BY <3>4, <3>5
  <2>4. CASE CallHandler
    <3>1. /\ place = Dispatch /\ place' = Acknowledge /\ UNCHANGED <<tp, sp, stack, overtaken>>
          /\ regs' \in [Registers -> Values] /\ UNCHANGED <<busy, early, interrupts, raised>>
      BY <2>4 DEF CallHandler, device, WholeInv, Typed, Values
    <3>2. Typed'
      BY <3>1 DEF WholeInv, Typed
    <3>3. QED
      BY <3>1, <3>2 DEF WholeInv, InProgram, InHandler, Load, Release, LoadRa,
         ReleaseRa, Args
  <2>5. CASE AcknowledgeIrq
    <3>1. /\ place = Acknowledge /\ place' = Load(1) /\ UNCHANGED <<tp, frame, overtaken>>
          /\ busy' \in BOOLEAN /\ early' \in BOOLEAN /\ UNCHANGED <<interrupts, raised>>
      BY <2>5 DEF AcknowledgeIrq, WholeInv, Typed
    <3>2. Typed'
      BY <3>1 DEF WholeInv, Typed, Load, frame
    <3>3. QED
      BY <3>1, <3>2 DEF WholeInv, InProgram, InHandler, Load, Release, LoadRa,
         ReleaseRa, Args, frame
  <2>6. CASE ReturnStep
    BY <2>6, ReturnKeeps
  <2>7. CASE UNCHANGED irqVars
    BY <2>7 DEF irqVars, device, frame, WholeInv, Typed, InProgram, InHandler, Own
  <2>8. QED
    BY <2>1, <2>2, <2>3, <2>4, <2>5, <2>6, <2>7 DEF IrqNext, TakeInterrupt, HandlerStep
<1>3. WholeInv => ReturnsWhole
  BY DEF WholeInv, Typed, ReturnsWhole, InProgram, InHandler, Own
<1>4. QED
  BY <1>1, <1>2, <1>3, PTL DEF IrqSpec

\* The device waits only for an acknowledgement that is still to come.
LEMMA WaitInvHolds == IrqSpec => []WaitInv
<1> USE PlacesAndWords DEF Program, Places, Jump, Dispatch, Acknowledge, Load
<1>1. IrqInit => WaitInv
  <2>1. IrqInit => /\ place = Program /\ tp = Program
                /\ busy \in BOOLEAN /\ early \in BOOLEAN /\ ~busy
    BY DEF IrqInit
  <2>2. Program \in Places \ {Dispatch, Acknowledge}
    OBVIOUS
  <2>3. QED
    BY <2>1, <2>2 DEF WaitInv
<1>2. WaitInv /\ [IrqNext]_irqVars => WaitInv'
  <2> SUFFICES ASSUME WaitInv, [IrqNext]_irqVars PROVE WaitInv'
    OBVIOUS
  <2>1. CASE ProgramStep
    BY <2>1 DEF ProgramStep, WaitInv
  <2>2. ASSUME NEW k \in Kinds, Raise(k) PROVE WaitInv'
    BY <2>2 DEF Raise, WaitInv
  <2>3. ASSUME NEW k \in Kinds, Interrupt(k) PROVE WaitInv'
    BY <2>3 DEF Interrupt, WaitInv
  <2>4. CASE CallHandler
    BY <2>4 DEF CallHandler, device, WaitInv
  <2>5. CASE AcknowledgeIrq
    BY <2>5 DEF AcknowledgeIrq, WaitInv
  <2>6. CASE ReturnStep
    <3>1. /\ UNCHANGED <<busy, early, tp>>
          /\ \/ place \in 3 .. (ArgRegisters + 5) /\ place' = place + 1
             \/ place' = tp /\ place = Jump
      BY <2>6 DEF ReturnStep, Reload, Pop, Args, Release, LoadRa, ReleaseRa, device
    <3>2. QED
      BY <3>1 DEF WaitInv
  <2>7. CASE UNCHANGED irqVars
    BY <2>7 DEF irqVars, device, WaitInv
  <2>8. QED
    BY <2>1, <2>2, <2>3, <2>4, <2>5, <2>6, <2>7 DEF IrqNext, TakeInterrupt, HandlerStep
<1>3. QED
  BY <1>1, <1>2, PTL DEF IrqSpec

(***************************************************************************)
(* DeviceReleased holds in every execution: only an interrupt before the   *)
(* addresses are updated leaves the device waiting.                        *)
(***************************************************************************)
THEOREM DeviceIsReleased == IrqSpec => []DeviceReleased
<1>1. WaitInv => DeviceReleased
  BY DEF WaitInv, DeviceReleased, Dispatch, Acknowledge
<1>2. QED
  BY <1>1, WaitInvHolds, PTL

-------------------------------------------------------------------------------
(***************************************************************************)
(* What makes a program's order of set-up and tear-down a good one: the    *)
(* addresses come before the handlers, and wherever a handler that uses    *)
(* the screen is the last one assigned to an interrupt, the screen is      *)
(* there.                                                                  *)
(***************************************************************************)
Codes == {"none", "arrows", "serial", "blink", "frame", "picture"}

AssignsTo(sc, j, k) == sc[j].op = "assign" /\ sc[j].to = k

LastBefore(sc, p, k, j) ==
  /\ j \in 1 .. (p - 1) /\ AssignsTo(sc, j, k)
  /\ \A i \in (j + 1) .. (p - 1) : ~AssignsTo(sc, i, k)

ScreenThere(sc, p) ==
  \E i \in 1 .. (p - 1) : /\ sc[i].op = "screen" /\ sc[i].what = "new"
                         /\ \A j \in (i + 1) .. (p - 1) : sc[j].op # "screen"

Orderly(sc) ==
  /\ Len(sc) \in Nat /\ Len(sc) > 2
  /\ sc[1].op = "enable" /\ sc[2].op = "addresses"
  /\ \A j \in 1 .. Len(sc) :
       /\ sc[j].op \in {"assign", "screen", "addresses", "enable"}
       /\ sc[j].op = "assign" => sc[j].to \in Kinds /\ sc[j].what \in Codes
  /\ \A p \in 1 .. (Len(sc) + 1), k \in Kinds : \A j \in 1 .. (p - 1) :
       LastBefore(sc, p, k, j) /\ sc[j].what \in UsesScreen => ScreenThere(sc, p)

(***************************************************************************)
(* The inductive invariant: a handler the program is not at work on holds  *)
(* in all its parts what the last assignment to it says, and the one it is *)
(* at work on holds that in the parts already stored.                      *)
(***************************************************************************)
Assigning(k) == at <= Len(script) /\ AssignsTo(script, at, k) /\ done # {}

LastCode(sc, p, k, code) ==
  code # "none" => \E j \in 1 .. (p - 1) : LastBefore(sc, p, k, j) /\ sc[j].what = code

ProgramInv ==
  /\ at \in 1 .. (Len(script) + 1)
  /\ at <= Len(script) => done \in SUBSET Stores /\ done # Stores
  /\ at > Len(script) => done = {}
  /\ at <= Len(script) /\ Current.op = "addresses" => done \subseteq addresses
  /\ at > 2 => "irq_vector" \in addresses
  /\ ScreenThere(script, at) => live

HandlersInv ==
  /\ handlers \in [Kinds -> [Parts -> Codes]]
  /\ \A k \in Kinds :
       IF Assigning(k) THEN \A part \in done : handlers[k][part] = Current.what
       ELSE \E code \in Codes : /\ LastCode(script, at, k, code)
                               /\ \A part \in Parts : handlers[k][part] = code

CallInv ==
  /\ place = Dispatch => kind \in Kinds
  /\ Orderly(script) /\ ProgramInv /\ HandlersInv
  /\ CallsAreGood /\ broken \in BOOLEAN

\* Each of the scripts is orderly.
LEMMA ProgramsAreOrderly == ASSUME NEW sc \in Mains PROVE Orderly(sc)
<1> USE DEF Kinds, Codes, AssignsTo, UsesScreen
<1>1. CASE sc = <<SetupIrqEnabled>> \o (SetupCharacterMode \o << Assign("TIMER", "frame") >>)
  <2>1. /\ Len(sc) = 7 /\ sc[1] = SetupIrqEnabled /\ sc[2] = UpdateOffsets
        /\ sc[3] = Screen("new") /\ sc[4] = Assign("KEYBOARD", "arrows")
        /\ sc[5] = Assign("UART_RX", "serial") /\ sc[6] = Assign("TIMER", "blink")
        /\ sc[7] = Assign("TIMER", "frame")
    BY <1>1 DEF SetupCharacterMode
  <2>2. /\ \A j \in 1 .. 7 : sc[j].op \in {"assign", "screen", "addresses", "enable"}
        /\ \A j \in 1 .. 7 : sc[j].op = "assign" => sc[j].to \in Kinds /\ sc[j].what \in Codes
        /\ \A j \in 1 .. 7 : sc[j].op = "assign" => j >= 4
        /\ \A j \in 1 .. 7 : sc[j].op = "screen" => j = 3
        /\ sc[1].op = "enable" /\ sc[2].op = "addresses"
        /\ sc[3].op = "screen" /\ sc[3].what = "new"
    BY <2>1 DEF SetupIrqEnabled, UpdateOffsets, Screen, Assign, Op
  <2>3. ASSUME NEW p \in 1 .. 8, p >= 4 PROVE ScreenThere(sc, p)
    <3>1. 3 \in 1 .. (p - 1) /\ \A j \in (3 + 1) .. (p - 1) : sc[j].op # "screen"
      BY <2>2, <2>3
    <3>2. QED
      BY <2>2, <3>1 DEF ScreenThere
  <2>4. ASSUME NEW p \in 1 .. 8, NEW k \in Kinds, NEW j \in 1 .. (p - 1),
               LastBefore(sc, p, k, j)
        PROVE  p >= 4
    <3>1. j \in 1 .. 7 /\ sc[j].op = "assign"
      BY <2>4 DEF LastBefore
    <3>2. QED
      BY <2>2, <3>1
  <2>5. QED
    BY <2>1, <2>2, <2>3, <2>4 DEF Orderly
<1>2. CASE sc = <<SetupIrqEnabled>> \o (SetupBitmapMode \o << Assign("UART_RX", "serial"), Assign("TIMER", "picture") >>)
  <2>1. /\ Len(sc) = 5 /\ sc[1] = SetupIrqEnabled /\ sc[2] = UpdateOffsets
        /\ sc[3] = Assign("UART_RX", "serial") /\ sc[4] = Assign("UART_RX", "serial")
        /\ sc[5] = Assign("TIMER", "picture")
    BY <1>2 DEF SetupBitmapMode
  <2>2. /\ \A j \in 1 .. 5 : sc[j].op \in {"assign", "screen", "addresses", "enable"}
        /\ \A j \in 1 .. 5 : sc[j].op = "assign" => sc[j].to \in Kinds /\ sc[j].what \in Codes
        /\ \A j \in 1 .. 5 : sc[j].op = "assign" => sc[j].what \notin UsesScreen
        /\ sc[1].op = "enable" /\ sc[2].op = "addresses"
    BY <2>1 DEF SetupIrqEnabled, UpdateOffsets, Screen, Assign, Op
  <2>3. ASSUME NEW p \in 1 .. 6, NEW k \in Kinds, NEW j \in 1 .. (p - 1),
               LastBefore(sc, p, k, j)
        PROVE  sc[j].what \notin UsesScreen
    <3>1. j \in 1 .. 5 /\ sc[j].op = "assign"
      BY <2>3 DEF LastBefore
    <3>2. QED
      BY <2>2, <3>1
  <2>4. QED
    BY <2>1, <2>2, <2>3 DEF Orderly
<1>3. CASE sc = <<SetupIrqEnabled>> \o (SetupCharacterMode \o DisableCharacterMode \o SetupBitmapMode)
  <2>1. /\ Len(sc) = 11 /\ sc[1] = SetupIrqEnabled /\ sc[2] = UpdateOffsets
        /\ sc[3] = Screen("new") /\ sc[4] = Assign("KEYBOARD", "arrows")
        /\ sc[5] = Assign("UART_RX", "serial") /\ sc[6] = Assign("TIMER", "blink")
        /\ sc[7] = Assign("TIMER", "none") /\ sc[8] = Assign("KEYBOARD", "none")
        /\ sc[9] = Screen("deleted") /\ sc[10] = UpdateOffsets
        /\ sc[11] = Assign("UART_RX", "serial")
    BY <1>3 DEF SetupCharacterMode, DisableCharacterMode, SetupBitmapMode
  <2>2. /\ \A j \in 1 .. 11 : sc[j].op \in {"assign", "screen", "addresses", "enable"}
        /\ \A j \in 1 .. 11 : sc[j].op = "assign" => sc[j].to \in Kinds /\ sc[j].what \in Codes
        /\ \A j \in 1 .. 11 : sc[j].op = "assign" /\ sc[j].what \in UsesScreen => j = 4 \/ j = 6
        /\ \A j \in 1 .. 11 : sc[j].op = "screen" => j = 3 \/ j = 9
        /\ sc[1].op = "enable" /\ sc[2].op = "addresses"
        /\ sc[3].op = "screen" /\ sc[3].what = "new"
    BY <2>1 DEF SetupIrqEnabled, UpdateOffsets, Screen, Assign, Op
  <2>3. /\ AssignsTo(sc, 4, "KEYBOARD") /\ AssignsTo(sc, 8, "KEYBOARD")
        /\ AssignsTo(sc, 6, "TIMER") /\ AssignsTo(sc, 7, "TIMER")
    BY <2>1 DEF Assign, Op
  <2>4. ASSUME NEW p \in 1 .. 9, p >= 4 PROVE ScreenThere(sc, p)
    <3>1. 3 \in 1 .. (p - 1) /\ \A j \in (3 + 1) .. (p - 1) : sc[j].op # "screen"
      BY <2>2, <2>4
    <3>2. QED
      BY <2>2, <3>1 DEF ScreenThere
  <2>5. ASSUME NEW p \in 1 .. 12, NEW k \in Kinds, NEW j \in 1 .. (p - 1),
               LastBefore(sc, p, k, j), sc[j].what \in UsesScreen
        PROVE  p \in 4 .. 9
    <3>0. j \in 1 .. 11 /\ sc[j].op = "assign"
      BY <2>5 DEF LastBefore
    <3>1. j = 4 \/ j = 6
      BY <2>2, <2>5, <3>0
    <3>2. CASE j = 4
      BY <2>3, <2>5, <3>2 DEF LastBefore
    <3>3. CASE j = 6
      BY <2>3, <2>5, <3>3 DEF LastBefore
    <3>4. QED
      BY <3>1, <3>2, <3>3
  <2>6. QED
    BY <2>1, <2>2, <2>4, <2>5 DEF Orderly
<1>4. QED
  BY <1>1, <1>2, <1>3 DEF Mains

\* One statement further, the last assignment is the same or that statement.
LEMMA OneFurther ==
  ASSUME NEW sc, NEW p \in Nat \ {0}
  PROVE  /\ \A k, code : LastCode(sc, p, k, code) /\ ~AssignsTo(sc, p, k)
              => LastCode(sc, p + 1, k, code)
         /\ \A k : AssignsTo(sc, p, k) => LastCode(sc, p + 1, k, sc[p].what)
         /\ ScreenThere(sc, p + 1) => IF sc[p].op = "screen" THEN sc[p].what = "new"
                                      ELSE ScreenThere(sc, p)
<1>1. ASSUME NEW k, NEW code, LastCode(sc, p, k, code), ~AssignsTo(sc, p, k)
      PROVE  LastCode(sc, p + 1, k, code)
  <2>1. ASSUME NEW j \in 1 .. (p - 1), LastBefore(sc, p, k, j)
        PROVE  j \in 1 .. (p + 1 - 1) /\ LastBefore(sc, p + 1, k, j)
    BY <1>1, <2>1 DEF LastBefore
  <2>2. QED
    BY <1>1, <2>1 DEF LastCode
<1>2. ASSUME NEW k, AssignsTo(sc, p, k) PROVE LastCode(sc, p + 1, k, sc[p].what)
  <2>1. p \in 1 .. (p + 1 - 1) /\ LastBefore(sc, p + 1, k, p)
    BY <1>2 DEF LastBefore
  <2>2. QED
    BY <2>1 DEF LastCode
<1>3. ASSUME ScreenThere(sc, p + 1)
      PROVE  IF sc[p].op = "screen" THEN sc[p].what = "new" ELSE ScreenThere(sc, p)
  <2>1. PICK i \in 1 .. p : /\ sc[i].op = "screen" /\ sc[i].what = "new"
                            /\ \A j \in (i + 1) .. p : sc[j].op # "screen"
    BY <1>3 DEF ScreenThere
  <2>2. CASE i = p
    BY <2>1, <2>2
  <2>3. CASE i # p
    <3>1. i \in 1 .. (p - 1) /\ \A j \in (i + 1) .. (p - 1) : sc[j].op # "screen"
      BY <2>1, <2>3
    <3>2. sc[p].op # "screen"
      BY <2>1, <2>3
    <3>3. QED
      BY <2>1, <3>1, <3>2 DEF ScreenThere
  <2>4. QED
    BY <2>2, <2>3
<1>4. QED
  BY <1>1, <1>2, <1>3

\* A store of the program keeps what the invariant says of the program.
LEMMA ProgramKeeps ==
  ASSUME Orderly(script), ProgramInv, HandlersInv, ProgramStep
  PROVE  ProgramInv' /\ HandlersInv'
<1>1. PICK s \in Stores \ done :
        /\ StoreDone(s) /\ script' = script /\ at <= Len(script)
        /\ IF done \cup {s} = Stores THEN at' = at + 1 /\ done' = {}
           ELSE at' = at /\ done' = done \cup {s}
  BY DEF ProgramStep
<1>2. /\ at \in 1 .. Len(script) /\ Len(script) \in Nat /\ at \in Nat \ {0}
      /\ Current.op \in {"assign", "screen", "addresses", "enable"}
      /\ Current.op = "assign" => Current.to \in Kinds /\ Current.what \in Codes
      /\ at = 1 => Current.op = "enable"
      /\ at = 2 => Current.op = "addresses"
  BY <1>1 DEF Orderly, ProgramInv, Current
<1>3. at <= Len(script) => Stores # {}
  BY DEF Stores, Parts
<1>4. (at <= Len(script) => Stores # {})'
  BY DEF Stores, Parts
<1>5. done \in SUBSET Stores
  BY <1>1 DEF ProgramInv
<1>6. \A k \in Kinds : AssignsTo(script, at, k) <=> Current.op = "assign" /\ Current.to = k
  BY DEF AssignsTo, Current
<1>7. ProgramInv'
  <2>1. /\ "irq_vector" \in addresses => "irq_vector" \in addresses'
        /\ Current.op = "addresses" => addresses' = addresses \cup {s}
        /\ live' = IF Current.op = "screen" THEN Current.what = "new" ELSE live
    BY <1>1 DEF StoreDone
  <2>2. CASE done \cup {s} = Stores
    <3>1. at' = at + 1 /\ done' = {} /\ script' = script
      BY <1>1, <2>2
    <3>2. at + 1 > 2 => "irq_vector" \in addresses'
      <4>1. CASE at = 2
        <5>1. Stores = {"irq_vector", "irq_handle"}
          BY <1>2, <4>1 DEF Stores
        <5>2. done \subseteq addresses
          BY <1>1, <1>2, <4>1 DEF ProgramInv
        <5>3. QED
          BY <1>2, <2>1, <2>2, <4>1, <5>1, <5>2
      <4>2. CASE at > 2
        BY <2>1, <4>2 DEF ProgramInv
      <4>3. QED
        BY <1>2, <4>1, <4>2
    <3>3. ScreenThere(script, at + 1) => live'
      BY <1>2, <2>1, OneFurther DEF ProgramInv, Current
    <3>4. QED
      BY <1>2, <1>4, <3>1, <3>2, <3>3 DEF ProgramInv
  <2>3. CASE done \cup {s} # Stores
    <3>1. at' = at /\ done' = done \cup {s} /\ script' = script
      BY <1>1, <2>3
    <3>2. Stores' = Stores /\ Current' = Current
      BY <3>1 DEF Stores, Current
    <3>3. Current.op # "screen"
      BY <1>1, <1>5, <2>3 DEF Stores
    <3>4. QED
      BY <1>1, <1>2, <1>5, <2>1, <2>3, <3>1, <3>2, <3>3 DEF ProgramInv
  <2>4. QED
    BY <2>2, <2>3
<1>8. HandlersInv'
  <2>1. CASE Current.op # "assign"
    <3>1. handlers' = handlers
      BY <1>1, <2>1 DEF StoreDone
    <3>2. \A k \in Kinds : ~Assigning(k) /\ ~Assigning(k)'
      <4>1. \A k \in Kinds : ~AssignsTo(script, at, k)
        BY <1>6, <2>1
      <4>2. QED
        BY <1>1, <4>1 DEF Assigning
    <3>3. ASSUME NEW k \in Kinds, NEW code \in Codes, LastCode(script, at, k, code)
          PROVE  LastCode(script', at', k, code)
      <4>1. ~AssignsTo(script, at, k)
        BY <1>6, <2>1
      <4>2. QED
        BY <1>1, <1>2, <3>3, <4>1, OneFurther
    <3>4. QED
      BY <3>1, <3>2, <3>3 DEF HandlersInv
  <2>2. CASE Current.op = "assign"
    <3>0. PICK k0 \in Kinds, c0 \in Codes : k0 = Current.to /\ c0 = Current.what
      BY <1>2, <2>2
    <3>1. Stores = Parts /\ s \in Parts
      BY <1>1, <1>2, <2>2 DEF Stores
    <3>2. handlers' = [handlers EXCEPT ![k0][s] = c0]
      BY <1>1, <2>2, <3>0 DEF StoreDone
    <3>3. \A k \in Kinds : AssignsTo(script, at, k) <=> k = k0
      BY <1>6, <2>2, <3>0
    <3>4. \A part \in done : handlers[k0][part] = c0
      <4>1. CASE done = {}
        BY <4>1
      <4>2. CASE done # {}
        BY <1>1, <3>0, <3>3, <4>2 DEF Assigning, HandlersInv
      <4>3. QED
        BY <4>1, <4>2
    <3>5. handlers' \in [Kinds -> [Parts -> Codes]]
      BY <3>1, <3>2 DEF HandlersInv
    <3>6. \A part \in done \cup {s} : handlers'[k0][part] = c0
      BY <1>5, <3>1, <3>2, <3>4 DEF HandlersInv
    <3>7. \A k \in Kinds : k # k0 => handlers'[k] = handlers[k]
      BY <3>1, <3>2 DEF HandlersInv
    <3>8. ASSUME NEW k \in Kinds, k # k0
          PROVE  /\ ~Assigning(k)'
                 /\ \E code \in Codes : /\ LastCode(script', at', k, code)
                                        /\ \A part \in Parts : handlers'[k][part] = code
      <4>1. ~AssignsTo(script, at, k)
        BY <3>3, <3>8
      <4>2. PICK code \in Codes : /\ LastCode(script, at, k, code)
                                    /\ \A part \in Parts : handlers[k][part] = code
        BY <4>1 DEF HandlersInv, Assigning
      <4>3. LastCode(script', at', k, code)
        BY <1>1, <1>2, <4>1, <4>2, OneFurther
      <4>4. ~Assigning(k)'
        BY <1>1, <4>1 DEF Assigning
      <4>5. QED
        BY <3>7, <3>8, <4>2, <4>3, <4>4
    <3>9. CASE done \cup {s} = Stores
      <4>1. at' = at + 1 /\ done' = {} /\ script' = script
        BY <1>1, <3>9
      <4>2. ~Assigning(k0)'
        BY <4>1 DEF Assigning
      <4>3. LastCode(script', at', k0, c0)
        <5>1. script[at].what = c0
          BY <3>0 DEF Current
        <5>2. QED
          BY <1>2, <3>1, <3>3, <4>1, <5>1, OneFurther
      <4>4. QED
        BY <3>1, <3>5, <3>6, <3>8, <3>9, <4>2, <4>3 DEF HandlersInv
    <3>10. CASE done \cup {s} # Stores
      <4>1. at' = at /\ done' = done \cup {s} /\ script' = script
        BY <1>1, <3>10
      <4>2. Assigning(k0)'
        <5>1. AssignsTo(script', at', k0) /\ at' <= Len(script') /\ done' # {}
          BY <1>1, <3>1, <3>3, <4>1
        <5>2. QED
          BY <5>1 DEF Assigning
      <4>3. Current'.what = c0
        BY <3>0, <4>1 DEF Current
      <4>4. QED
        BY <3>5, <3>6, <3>8, <4>1, <4>2, <4>3 DEF HandlersInv
    <3>11. QED
      BY <3>9, <3>10
  <2>3. QED
    BY <2>1, <2>2
<1>9. QED
  BY <1>7, <1>8

\* A handler the program is not at work on can be called.
LEMMA WholeIsCallable ==
  ASSUME Orderly(script), ProgramInv, HandlersInv,
         NEW k \in Kinds, ~Assigning(k), handlers[k].manager # "none"
  PROVE  Callable(handlers[k]) /\ "irq_vector" \in addresses
<1>1. PICK code \in Codes : /\ LastCode(script, at, k, code)
                            /\ \A part \in Parts : handlers[k][part] = code
  BY DEF HandlersInv
<1>2. handlers[k].manager = code /\ handlers[k].invoker = code /\ handlers[k].captured = code
  BY <1>1 DEF Parts
<1>3. PICK j \in 1 .. (at - 1) : LastBefore(script, at, k, j) /\ script[j].what = code
  BY <1>1, <1>2 DEF LastCode
<1>4. at \in 1 .. (Len(script) + 1) /\ Len(script) \in Nat
  BY DEF ProgramInv, Orderly
<1>5. code \in UsesScreen => live
  BY <1>3, <1>4 DEF Orderly, ProgramInv
<1>6. at > 2
  <2>1. j # 1 /\ j # 2
    BY <1>3 DEF LastBefore, AssignsTo, Orderly
  <2>2. QED
    BY <1>3, <1>4, <2>1
<1>7. QED
  BY <1>2, <1>5, <1>6 DEF Callable, ProgramInv

(***************************************************************************)
(* CallsAreGood holds in every execution: what an interrupt calls is       *)
(* complete, has its captured data and a screen if it uses one, unless the *)
(* interrupt comes in the middle of the assignment to its own handler.     *)
(***************************************************************************)
THEOREM CallsAreSound == IrqSpec => []CallsAreGood
<1>1. IrqInit => CallInv
  <2> SUFFICES ASSUME IrqInit PROVE CallInv
    OBVIOUS
  <2>1. Orderly(script)
    BY ProgramsAreOrderly DEF IrqInit
  <2>2. /\ at = 1 /\ done = {} /\ handlers = [k \in Kinds |-> Empty] /\ addresses = {}
        /\ broken = FALSE /\ place # Dispatch
    BY DEF IrqInit, Program, Dispatch
  <2>3. ProgramInv
    <3>1. ~ScreenThere(script, 1)
      BY DEF ScreenThere
    <3>2. Current.op = "enable" => Stores # {}
      BY DEF Stores
    <3>3. Current.op = "enable"
      BY <2>1, <2>2 DEF Orderly, Current
    <3>4. QED
      BY <2>1, <2>2, <3>1, <3>2, <3>3 DEF ProgramInv, Orderly
  <2>4. HandlersInv
    BY <2>2 DEF HandlersInv, Assigning, LastCode, Empty, Codes, Kinds, Parts
  <2>5. QED
    BY <2>1, <2>2, <2>3, <2>4 DEF CallInv, CallsAreGood
<1>2. WaitInv /\ CallInv /\ [IrqNext]_irqVars => CallInv'
  <2> SUFFICES ASSUME WaitInv, CallInv, [IrqNext]_irqVars PROVE CallInv'
    OBVIOUS
  <2> USE DEF CallInv
  <2>1. CASE ProgramStep
    <3>1. ProgramInv' /\ HandlersInv'
      BY <2>1, ProgramKeeps
    <3>2. UNCHANGED <<script, place, kind, broken>> /\ ~broken
      BY <2>1 DEF ProgramStep, Running
    <3>3. QED
      BY <3>1, <3>2 DEF CallsAreGood
  <2>2. ASSUME UNCHANGED programVars, place' = Dispatch => kind' \in Kinds,
               broken' \in BOOLEAN, CallsAreGood'
        PROVE  CallInv'
    <3>1. UNCHANGED <<script, at, done, addresses, handlers, live>>
      BY <2>2 DEF programVars
    <3>2. ProgramInv' /\ Orderly(script')
      BY <3>1 DEF ProgramInv, Stores, Current
    <3>3. HandlersInv'
      BY <3>1 DEF HandlersInv, Assigning, Current
    <3>4. QED
      BY <2>2, <3>2, <3>3
  <2>3. ASSUME NEW k \in Kinds, Raise(k) PROVE CallInv'
    BY <2>2, <2>3 DEF Raise, CallsAreGood, Running
  <2>4. ASSUME NEW k \in Kinds, Interrupt(k) PROVE CallInv'
    BY <2>2, <2>4 DEF Interrupt, CallsAreGood, Running
  <2>5. CASE CallHandler
    <3>1. PICK k \in IF "irq_vector" \in addresses THEN {kind} ELSE Kinds :
            broken' = (handlers[k].manager # "none" /\ ~Callable(handlers[k]))
      BY <2>5 DEF CallHandler
    <3>2. UNCHANGED <<programVars, kind>> /\ place' # Dispatch /\ kind \in Kinds /\ k \in Kinds
      BY <2>5, <3>1 DEF CallHandler, device, Dispatch, Acknowledge
    <3>3. UNCHANGED <<script, at, done>>
      BY <3>2 DEF programVars
    <3>4. ASSUME broken' PROVE Current.op = "assign" /\ Current.to = kind /\ done # {}
      <4>1. Assigning(k)
        BY <3>1, <3>2, <3>4, WholeIsCallable
      <4>2. done # {} /\ Current.op = "assign" /\ Current.to = k
        BY <4>1 DEF Assigning, AssignsTo, Current
      <4>3. at > 2
        <5>1. at # 1 /\ at # 2
          BY <4>1 DEF Assigning, AssignsTo, Orderly
        <5>2. QED
          BY <5>1 DEF ProgramInv, Orderly
      <4>4. k = kind
        BY <3>1, <4>3 DEF ProgramInv
      <4>5. QED
        BY <4>2, <4>4
    <3>5. CallsAreGood'
      BY <3>2, <3>3, <3>4 DEF CallsAreGood, Current
    <3>6. QED
      BY <2>2, <3>1, <3>2, <3>5
  <2>6. CASE AcknowledgeIrq
    BY <2>2, <2>6 DEF AcknowledgeIrq, CallsAreGood, Running, Load, Dispatch
  <2>7. CASE ReturnStep
    <3>1. place' # Dispatch /\ UNCHANGED <<programVars, broken>> /\ ~broken
      BY <2>7, PlacesAndWords DEF ReturnStep, Running, Reload, Pop, Args, Load, Release,
         LoadRa, ReleaseRa, Jump, WaitInv, Dispatch, Acknowledge, Places
    <3>2. QED
      BY <2>2, <3>1 DEF CallsAreGood
  <2>8. CASE UNCHANGED irqVars
    <3>1. UNCHANGED <<place, kind, script, at, done, broken>> /\ UNCHANGED programVars
      BY <2>8 DEF irqVars, device, programVars
    <3>2. QED
      BY <2>2, <3>1 DEF CallsAreGood, Current
  <2>9. QED
    BY <2>1, <2>3, <2>4, <2>5, <2>6, <2>7, <2>8 DEF IrqNext, TakeInterrupt, HandlerStep
<1>3. CallInv => CallsAreGood
  BY DEF CallInv
<1>4. QED
  BY <1>1, <1>2, <1>3, WaitInvHolds, PTL DEF IrqSpec

-------------------------------------------------------------------------------
\* A sequence without its last element.
LEMMA ButLast ==
  ASSUME NEW S, NEW q \in Seq(S), q # <<>>
  PROVE  /\ Len(q) - 1 \in Nat
         /\ SubSeq(q, 1, Len(q) - 1) \in Seq(S)
         /\ Len(SubSeq(q, 1, Len(q) - 1)) = Len(q) - 1
         /\ \A k \in 1 .. (Len(q) - 1) : SubSeq(q, 1, Len(q) - 1)[k] = q[k]
<1>1. Len(q) \in Nat \ {0} /\ \A k \in 1 .. (Len(q) - 1) : q[k] \in S
  BY EmptySeq, ElementOfSeq
<1> DEFINE n == Len(q) - 1
<1>2. n \in Nat
  BY <1>1
<1>3. \A k \in 1 .. n : q[k] \in S
  BY <1>1
<1> HIDE DEF n
<1>4. /\ SubSeq(q, 1, n) \in Seq(S)
      /\ Len(SubSeq(q, 1, n)) = IF 1 <= n THEN n - 1 + 1 ELSE 0
      /\ \A k \in 1 .. (n - 1 + 1) : SubSeq(q, 1, n)[k] = q[1 + k - 1]
  BY <1>2, <1>3, SubSeqProperties
<1>5. /\ Len(SubSeq(q, 1, n)) = n
      /\ \A k \in 1 .. n : SubSeq(q, 1, n)[k] = q[k]
  BY <1>2, <1>4
<1>6. QED
  BY <1>2, <1>4, <1>5 DEF n

\* An index below the length is not changed by the conversion to a uint32_t,
\* and -1 is taken outside of the array.
LEMMA Wraps ==
  /\ \A i \in 0 .. Size : i % Word = i
  /\ (0 - 1) % Word \in Nat /\ (0 - 1) % Word >= Size
<1>1. ASSUME NEW w \in Nat, NEW n \in Nat \ {0}, w > n
      PROVE  /\ \A i \in 0 .. n : i % w = i
             /\ (0 - 1) % w \in Nat /\ (0 - 1) % w >= n
  <2>1. (0 - 1) % w = w - 1
    BY <1>1
  <2>2. QED
    BY <1>1, <2>1
<1>2. QED
  BY <1>1, BufferAssumption

(***************************************************************************)
(* The inductive invariant.  The array always holds a '\0'; a store of     *)
(* start_input that is done stays done until the next key; and from the    *)
(* last of them on the buffer is the image of the line.                    *)
(***************************************************************************)
HoldsNul(b) == \E k \in Slots : b.input[k] = Nul

IsImage(b, typed) ==
  /\ b.idx = Len(typed)
  /\ \A k \in 0 .. (b.idx - 1) : b.input[k] = typed[k + 1]
  /\ b.input[b.idx] = Nul

Started ==
  /\ line = <<>>
  /\ "current_idx" \notin pending => buf.idx = 0
  /\ "input" \notin pending => buf.input[0] = Nul

LineInv ==
  /\ TypeOK
  /\ HoldsNul(buf)
  /\ pc = "start" <=> pending # {}
  /\ ~raced => (pc = "start" => Started) /\ (pc = "wait" => IsImage(buf, line))

-------------------------------------------------------------------------------
\* What the characters have to be for the switch of add to be one of four.
LEMMA KeysApart ==
  /\ Size \in Nat \ {0} /\ Nul \notin Printable
  /\ Backspace \notin {Newline, Return} \cup Printable
  /\ \A c \in {Newline, Return} : c \notin Printable
  BY BufferAssumption

\* The fields of the buffer after the switch of add, for each kind of key.
LEMMA SwitchFields ==
  ASSUME NEW b \in Buffers, NEW c \in Keys
  PROVE  /\ c = Backspace => Switch(b, c) = [b EXCEPT !.idx = (b.idx - 1) % Word]
         /\ c \in {Newline, Return} => Switch(b, c) = [b EXCEPT !.reading = FALSE]
         /\ c \in Printable =>
              Switch(b, c) = [reading |-> b.reading, idx |-> b.idx + 1,
                              input |-> [b.input EXCEPT ![b.idx] = c]]
         /\ c \notin {Backspace, Newline, Return} \cup Printable => Switch(b, c) = b
<1>1. CASE c = Backspace
  BY <1>1, KeysApart DEF Switch
<1>2. CASE c \in {Newline, Return}
  BY <1>2, KeysApart DEF Switch
<1>3. CASE c \in Printable
  <2>1. Switch(b, c) = [b EXCEPT !.input[b.idx] = c, !.idx = @ + 1]
    BY <1>3, KeysApart DEF Switch
  <2>2. QED
    BY <1>3, <2>1, KeysApart DEF Buffers
<1>4. CASE c \notin {Backspace, Newline, Return} \cup Printable
  BY <1>4 DEF Switch
<1>5. QED
  BY <1>1, <1>2, <1>3, <1>4

\* The end of add, field by field.
LEMMA TerminateFields ==
  ASSUME NEW s \in [reading : BOOLEAN, idx : Nat, input : [Slots -> Printable \cup {Nul}]]
  PROVE  LET i == IF s.idx >= Size THEN 0 ELSE s.idx
         IN  /\ i \in Slots
             /\ Terminate(s) = [reading |-> s.reading, idx |-> i,
                                input |-> [s.input EXCEPT ![i] = Nul]]
<1> DEFINE i == IF s.idx >= Size THEN 0 ELSE s.idx
<1>1. i \in Slots
  BY KeysApart DEF Slots
<1>2. Terminate(s) = [s EXCEPT !.idx = i, !.input[i] = Nul]
  BY DEF Terminate
<1> HIDE DEF i
<1>3. Terminate(s) = [reading |-> s.reading, idx |-> i, input |-> [s.input EXCEPT ![i] = Nul]]
  BY <1>2
<1>4. QED
  BY <1>1, <1>3 DEF i

\* The switch may take the index out of the array, but changes no type.
LEMMA SwitchType ==
  ASSUME NEW b \in Buffers, NEW c \in Keys
  PROVE  Switch(b, c) \in [reading : BOOLEAN, idx : Nat,
                          input : [Slots -> Printable \cup {Nul}]]
<1>1. b.idx \in Nat /\ b.idx + 1 \in Nat /\ (b.idx - 1) % Word \in Nat
  BY KeysApart, Wraps DEF Buffers, Slots
<1>2. CASE c = Backspace
  <2>1. Switch(b, c) = [b EXCEPT !.idx = (b.idx - 1) % Word]
    BY <1>2, SwitchFields
  <2>2. QED
    BY <1>1, <2>1 DEF Buffers
<1>3. CASE c \in {Newline, Return}
  <2>1. Switch(b, c) = [b EXCEPT !.reading = FALSE]
    BY <1>3, SwitchFields
  <2>2. Switch(b, c) = [reading |-> FALSE, idx |-> b.idx, input |-> b.input]
    BY <2>1 DEF Buffers
  <2>3. QED
    BY <1>1, <2>2 DEF Buffers
<1>4. CASE c \in Printable
  BY <1>1, <1>4, SwitchFields DEF Buffers
<1>5. CASE c \notin {Backspace, Newline, Return} \cup Printable
  BY <1>1, <1>5, SwitchFields DEF Buffers
<1>6. QED
  BY <1>2, <1>3, <1>4, <1>5

\* A key makes a buffer of a buffer, with a '\0' where the index points.
LEMMA AddType ==
  ASSUME NEW b \in Buffers, NEW c \in Keys
  PROVE  /\ Add(b, c) \in Buffers
         /\ b.reading => Add(b, c).input[Add(b, c).idx] = Nul
<1>1. CASE ~b.reading
  BY <1>1 DEF Add
<1>2. CASE b.reading
  <2> DEFINE s == Switch(b, c)
             i == IF s.idx >= Size THEN 0 ELSE s.idx
  <2>1. s \in [reading : BOOLEAN, idx : Nat, input : [Slots -> Printable \cup {Nul}]]
    BY SwitchType
  <2>2. Add(b, c) = Terminate(s)
    BY <1>2 DEF Add
  <2> HIDE DEF s
  <2>3. /\ i \in Slots
        /\ Add(b, c) = [reading |-> s.reading, idx |-> i, input |-> [s.input EXCEPT ![i] = Nul]]
    BY <2>1, <2>2, TerminateFields
  <2> HIDE DEF i
  <2>4. QED
    BY <2>1, <2>3 DEF Buffers
<1>3. QED
  BY <1>1, <1>2

\* Whatever the key, the line stays a line.
LEMMA EditType ==
  ASSUME NEW typed \in Seq(Printable), NEW c \in Keys
  PROVE  Edit(typed, c) \in Seq(Printable)
<1>1. CASE c = Backspace
  BY <1>1, ButLast, KeysApart DEF Edit
<1>2. CASE c \in Printable
  BY <1>2, KeysApart DEF Edit
<1>3. CASE c \notin Printable /\ c # Backspace
  BY <1>3 DEF Edit
<1>4. QED
  BY <1>1, <1>2, <1>3

\* While the program reads, a key does to the array what Edit does to the line.
LEMMA AddEdits ==
  ASSUME NEW b \in Buffers, NEW c \in Keys, NEW typed \in Seq(Printable),
         b.reading, IsImage(b, typed)
  PROVE  Edit(typed, c) \in Seq(Printable) /\ IsImage(Add(b, c), Edit(typed, c))
<1> DEFINE s == Switch(b, c)
           i == IF s.idx >= Size THEN 0 ELSE s.idx
<1>0. s \in [reading : BOOLEAN, idx : Nat, input : [Slots -> Printable \cup {Nul}]]
  BY SwitchType
<1>1. /\ i \in Slots /\ Add(b, c).idx = i
      /\ Add(b, c).input = [s.input EXCEPT ![i] = Nul]
  <2>1. Add(b, c) = Terminate(s)
    BY DEF Add
  <2> HIDE DEF s
  <2>2. QED
    BY <1>0, <2>1, TerminateFields
<1>2. b.idx \in Slots /\ b.idx = Len(typed) /\ b.input \in [Slots -> Printable \cup {Nul}]
  BY DEF Buffers, IsImage
<1>3. \A k \in 0 .. (b.idx - 1) : b.input[k] = typed[k + 1]
  BY DEF IsImage
<1>4. CASE c = Backspace
  <2>1. s.idx = (b.idx - 1) % Word /\ s.input = b.input
    BY <1>4, SwitchFields DEF Buffers
  <2> HIDE DEF s
  <2>2. CASE typed = <<>>
    <3>1. Edit(typed, c) = <<>> /\ b.idx = 0
      BY <1>2, <1>4, <2>2, KeysApart DEF Edit
    <3>2. i = 0
      BY <2>1, <3>1, Wraps
    <3>3. QED
      BY <1>1, <1>2, <2>1, <3>1, <3>2 DEF IsImage
  <2>3. CASE typed # <<>>
    <3>1. Edit(typed, c) = SubSeq(typed, 1, Len(typed) - 1)
      BY <1>4, <2>3, KeysApart DEF Edit
    <3>2. b.idx \in 1 .. (Size - 1)
      BY <1>2, <2>3 DEF Slots
    <3>3. i = b.idx - 1
      BY <2>1, <3>2, Wraps, KeysApart
    <3> HIDE DEF i
    <3> DEFINE shorter == SubSeq(typed, 1, Len(typed) - 1)
    <3>4. /\ shorter \in Seq(Printable) /\ Len(shorter) = b.idx - 1
          /\ \A k \in 1 .. (b.idx - 1) : shorter[k] = typed[k]
      BY <1>2, <2>3, ButLast
    <3> HIDE DEF shorter
    <3>5. /\ Add(b, c).idx = b.idx - 1
          /\ Add(b, c).input = [b.input EXCEPT ![b.idx - 1] = Nul]
      BY <1>1, <2>1, <3>3
    <3>6. IsImage(Add(b, c), shorter)
      BY <1>2, <1>3, <3>2, <3>4, <3>5, KeysApart DEF IsImage, Slots
    <3>7. QED
      BY <3>1, <3>4, <3>6 DEF shorter
  <2>4. QED
    BY <2>2, <2>3
<1>5. CASE c \in Printable
  <2>1. s.idx = b.idx + 1 /\ s.input = [b.input EXCEPT ![b.idx] = c]
    BY <1>5, SwitchFields DEF Buffers
  <2> HIDE DEF s
  <2>2. CASE b.idx + 1 = Size
    <3>1. Edit(typed, c) = <<>>
      BY <1>2, <1>5, <2>2, KeysApart DEF Edit
    <3>2. i = 0
      BY <2>1, <2>2, KeysApart
    <3>3. QED
      BY <1>1, <1>2, <2>1, <3>1, <3>2 DEF IsImage
  <2>3. CASE b.idx + 1 # Size
    <3>1. Edit(typed, c) = Append(typed, c)
      BY <1>2, <1>5, <2>3, KeysApart DEF Edit
    <3>2. i = b.idx + 1
      BY <1>2, <2>1, <2>3, KeysApart DEF Slots
    <3> HIDE DEF i
    <3>3. QED
      BY <1>1, <1>2, <1>3, <1>5, <2>1, <3>1, <3>2, KeysApart DEF IsImage, Slots
  <2>4. QED
    BY <2>2, <2>3
<1>6. CASE c \notin Printable /\ c # Backspace
  <2>1. Edit(typed, c) = typed
    BY <1>6 DEF Edit
  <2>2. s.idx = b.idx /\ s.input = b.input
    BY <1>6, SwitchFields DEF Buffers
  <2> HIDE DEF s
  <2>3. i = b.idx
    BY <1>2, <2>2, KeysApart DEF Slots
  <2> HIDE DEF i
  <2>4. QED
    BY <1>1, <1>2, <1>3, <2>1, <2>2, <2>3, KeysApart DEF IsImage, Slots
<1>7. QED
  BY <1>4, <1>5, <1>6

\* The characters before the first '\0' are printable.
LEMMA CStringType ==
  ASSUME NEW b \in Buffers, HoldsNul(b)
  PROVE  /\ \E k \in Slots : b.input[k] = Nul /\ \A j \in 0 .. (k - 1) : b.input[j] # Nul
         /\ CString(b) \in Seq(Printable)
<1> DEFINE End(k) == b.input[k] = Nul /\ \A j \in 0 .. (k - 1) : b.input[j] # Nul
           n == CHOOSE k \in Slots : End(k)
<1>1. Slots \subseteq Nat /\ \A k \in Slots : 0 .. k \subseteq Slots
  BY KeysApart DEF Slots
<1>2. \E k \in Slots : End(k)
  <2> DEFINE S == {k \in Slots : b.input[k] = Nul}
  <2>1. PICK m \in S : \A k \in S : m <= k
    <3>1. S \in SUBSET Nat /\ S # {}
      BY <1>1 DEF HoldsNul
    <3> HIDE DEF S
    <3>2. QED
      BY <3>1, LeastNumber
  <2>2. End(m)
    BY <1>1, <2>1
  <2>3. QED
    BY <2>2
<1>3. n \in Slots /\ End(n)
  BY <1>2, Zenon
<1>4. CString(b) = [k \in 1 .. n |-> b.input[k - 1]]
  BY DEF CString
<1> HIDE DEF n
<1>5. \A k \in 1 .. n : b.input[k - 1] \in Printable
  BY <1>1, <1>3 DEF Buffers
<1>6. n \in Nat
  BY <1>1, <1>3
<1> DEFINE s == [k \in 1 .. n |-> b.input[k - 1]]
<1>7. s \in [1 .. n -> Printable]
  BY <1>5
<1> HIDE DEF s
<1>8. s \in Seq(Printable)
  BY <1>6, <1>7, SeqDef
<1>9. \E k \in Slots : b.input[k] = Nul /\ \A j \in 0 .. (k - 1) : b.input[j] # Nul
  BY <1>2
<1> QED
  BY <1>4, <1>8, <1>9 DEF s

\* The string in an image is the line.
LEMMA ImageString ==
  ASSUME NEW b \in Buffers, NEW typed \in Seq(Printable), IsImage(b, typed)
  PROVE  CString(b) = typed
<1> DEFINE End(k) == b.input[k] = Nul /\ \A j \in 0 .. (k - 1) : b.input[j] # Nul
           n == CHOOSE k \in Slots : End(k)
<1>1. Slots \subseteq Nat /\ b.idx \in Slots
  BY KeysApart DEF Slots, Buffers
<1>2. End(b.idx)
  BY <1>1, KeysApart DEF IsImage
<1>3. n \in Slots /\ End(n)
  BY <1>1, <1>2, Zenon
<1>4. CString(b) = [k \in 1 .. n |-> b.input[k - 1]]
  BY DEF CString
<1> HIDE DEF n
<1>5. n = Len(typed)
  BY <1>1, <1>2, <1>3 DEF IsImage
<1>6. \A k \in 1 .. n : b.input[k - 1] = typed[k]
  BY <1>5 DEF IsImage
<1>7. QED
  BY <1>4, <1>5, <1>6

\* The invariant is inductive.
LEMMA LineInvHolds == Spec => []LineInv
<1>1. Init => LineInv
  <2>1. NewBuffer \in Buffers /\ HoldsNul(NewBuffer)
    BY KeysApart DEF NewBuffer, Buffers, HoldsNul, Slots
  <2>2. <<>> \in Seq(Printable)
    BY EmptySeq
  <2>3. QED
    BY <2>1, <2>2 DEF Init, LineInv, TypeOK, HoldsNul
<1>2. LineInv /\ [Next]_vars => LineInv'
  <2> SUFFICES ASSUME LineInv, [Next]_vars PROVE LineInv'
    OBVIOUS
  <2> USE DEF LineInv
  <2>1. CASE CallInput
    <3>1. /\ UNCHANGED <<buf, result>> /\ line' = <<>> /\ raced' = FALSE
          /\ pc' = "start" /\ pending' = Fields
      BY <2>1 DEF CallInput
    <3>2. TypeOK' /\ Started'
      BY <3>1, EmptySeq DEF TypeOK, Started, Fields
    <3>3. pending' # {}
      BY <3>1 DEF Fields
    <3>4. QED
      BY <3>1, <3>2, <3>3 DEF HoldsNul
  <2>2. ASSUME NEW field \in Fields, StartInput(field) PROVE LineInv'
    <3>1. Slots \subseteq Nat /\ 0 \in Slots
      BY KeysApart DEF Slots
    <3>2. /\ buf' \in Buffers
          /\ field = "current_idx" => buf'.idx = 0 /\ buf'.input = buf.input
          /\ field = "input" => buf'.input = [buf.input EXCEPT ![0] = Nul] /\ buf'.idx = buf.idx
          /\ field = "read_input" => buf'.input = buf.input /\ buf'.idx = buf.idx
      <4>1. CASE field = "read_input"
        BY <2>2, <4>1 DEF StartInput, Stored, TypeOK, Buffers
      <4>2. CASE field = "current_idx"
        BY <2>2, <3>1, <4>2 DEF StartInput, Stored, TypeOK, Buffers
      <4>3. CASE field = "input"
        BY <2>2, <3>1, <4>3 DEF StartInput, Stored, TypeOK, Buffers
      <4>4. QED
        BY <4>1, <4>2, <4>3 DEF Fields
    <3>3. HoldsNul(buf')
      BY <3>1, <3>2 DEF HoldsNul, TypeOK, Buffers, Fields
    <3>4. TypeOK'
      BY <2>2, <3>2 DEF StartInput, TypeOK
    <3>5. /\ pc = "start" /\ UNCHANGED <<line, raced>>
          /\ pending' = pending \ {field} /\ pc' = IF pending' = {} THEN "wait" ELSE pc
      BY <2>2 DEF StartInput
    <3>6. ~raced => Started'
      BY <3>1, <3>2, <3>5 DEF Started, TypeOK, Buffers, Fields
    <3>7. Started' /\ pending' = {} => IsImage(buf', line')
      BY <3>1, <3>2 DEF Started, IsImage
    <3>8. QED
      BY <3>3, <3>4, <3>5, <3>6, <3>7
  <2>3. CASE ReturnLine
    <3>1. result' \in Seq(Printable)
      BY <2>3, CStringType DEF ReturnLine, TypeOK
    <3>2. QED
      BY <2>3, <3>1 DEF ReturnLine, TypeOK
  <2>4. ASSUME NEW c \in Keys, Key(c) PROVE LineInv'
    <3>1. /\ buf' = Add(buf, c) /\ line' = IF buf.reading THEN Edit(line, c) ELSE line
          /\ raced' = (raced \/ (buf.reading /\ pending # {}))
          /\ UNCHANGED <<pc, pending, result>>
      BY <2>4 DEF Key
    <3>2. buf' \in Buffers /\ HoldsNul(buf')
      BY <3>1, AddType DEF HoldsNul, Add, TypeOK, Buffers
    <3>3. line' \in Seq(Printable)
      BY <3>1, EditType DEF TypeOK
    <3>4. raced' \in BOOLEAN
      BY <3>1 DEF TypeOK, Buffers
    <3>5. CASE ~buf.reading
      <4>1. buf' = buf /\ line' = line /\ (raced' <=> raced)
        BY <3>1, <3>5 DEF Add
      <4>2. QED
        BY <3>1, <3>2, <3>3, <3>4, <4>1 DEF TypeOK, Started, IsImage
    <3>6. CASE buf.reading
      <4>1. ~raced' => ~raced /\ pending = {}
        BY <3>1, <3>6
      <4>2. pc = "wait" /\ ~raced => IsImage(buf', line')
        BY <3>1, <3>6, AddEdits DEF TypeOK
      <4>3. QED
        BY <3>1, <3>2, <3>3, <3>4, <4>1, <4>2 DEF TypeOK
    <3>7. QED
      BY <3>5, <3>6, Zenon
  <2>5. CASE UNCHANGED vars
    <3>1. /\ buf' = buf /\ pc' = pc /\ pending' = pending
          /\ result' = result /\ line' = line /\ (raced' <=> raced)
      BY <2>5 DEF vars
    <3>2. TypeOK' /\ HoldsNul(buf')
      BY <3>1 DEF TypeOK
    <3>3. (Started <=> Started') /\ (IsImage(buf, line) <=> IsImage(buf', line'))
      BY <3>1 DEF Started
    <3>4. QED
      BY <3>1, <3>2, <3>3, Zenon
  <2>6. QED
    BY <2>1, <2>2, <2>3, <2>4, <2>5 DEF Next
<1>3. QED
  BY <1>1, <1>2, PTL DEF Spec

-------------------------------------------------------------------------------
(***************************************************************************)
(* TypeOK holds in every execution: no key takes the index out of the      *)
(* array for longer than the handler runs.                                 *)
(***************************************************************************)
THEOREM LineInputTyped == Spec => []TypeOK
<1>1. LineInv => TypeOK
  BY DEF LineInv
<1>2. QED
  BY <1>1, LineInvHolds, PTL

(***************************************************************************)
(* Terminated holds in every execution: get_input() hands out a string     *)
(* with an end, also in the middle of start_input.                         *)
(***************************************************************************)
THEOREM StringHasEnd == Spec => []Terminated
<1>1. LineInv => Terminated
  BY CStringType DEF LineInv, TypeOK, Terminated
<1>2. QED
  BY <1>1, LineInvHolds, PTL

(***************************************************************************)
(* BufferHoldsLine holds in every execution: from the end of start_input   *)
(* to the return of the call the array is the line that was typed.         *)
(***************************************************************************)
THEOREM BufferIsImage == Spec => []BufferHoldsLine
<1>1. LineInv => BufferHoldsLine
  BY DEF LineInv, BufferHoldsLine, IsImage
<1>2. QED
  BY <1>1, LineInvHolds, PTL

(***************************************************************************)
(* LineDelivered: every call returns the line that was typed, unless a key *)
(* came before start_input was finished.                                   *)
(***************************************************************************)
THEOREM LineIsDelivered == Spec => LineDelivered
<1>1. LineInv /\ [Next]_vars => [CallReturns /\ ~raced => result' = line]_vars
  <2> SUFFICES ASSUME LineInv, Next, CallReturns, ~raced
               PROVE  result' = line
    BY DEF vars
  <2>1. ReturnLine
    BY DEF Next, CallReturns, CallInput, StartInput, Key
  <2>2. IsImage(buf, line) /\ result' = CString(buf)
    BY <2>1 DEF LineInv, CallReturns, ReturnLine
  <2>3. QED
    BY <2>2, ImageString DEF LineInv, TypeOK
<1>2. QED
  BY <1>1, LineInvHolds, PTL DEF Spec, LineDelivered

-------------------------------------------------------------------------------
\* f[i] is the first i sequences of q, put together.
JoinsUp(f, q) ==
  \A i \in DOMAIN q : f[i] = IF i = 1 THEN q[1] ELSE f[i - 1] \o q[i]

\* The recursion in FlattenSeq is well-founded, so it is an equation.
LEMMA FlattenSolves ==
  ASSUME NEW S, NEW n \in Nat \ {0}, NEW q \in [1 .. n -> Seq(S)]
  PROVE  \E f \in [1 .. n -> Seq(S)] : JoinsUp(f, q) /\ FlattenSeq(q) = f[n]
<1> DEFINE D == 1 .. n
           T == Seq(S)
           Body(g) == [i \in D |-> IF i = 1 THEN q[i] ELSE g[i - 1] \o q[i]]
           B == [g \in [D -> T] |-> Body(g)]
           m == [i \in D |-> i]
           f == CHOOSE g : g = Body(g)
<1>1. Len(q) = n
  BY FunctionIsSeq
<1>2. FlattenSeq(q) = f[n]
  BY <1>1, Zenon DEF FlattenSeq
<1>3. \A i \in D : i # 1 => i - 1 \in D
  OBVIOUS
<1>4. m \in [D -> Nat]
  OBVIOUS
<1>5. B \in [[D -> T] -> [D -> T]]
  <2>1. ASSUME NEW g \in [D -> T] PROVE Body(g) \in [D -> T]
    <3>1. ASSUME NEW i \in D
          PROVE  (IF i = 1 THEN q[i] ELSE g[i - 1] \o q[i]) \in T
      <4>1. q[i] \in T
        OBVIOUS
      <4>2. CASE i # 1
        <5>1. g[i - 1] \in T
          BY <1>3, <4>2
        <5>2. QED
          BY <4>1, <4>2, <5>1, ConcatProperties
      <4>3. QED
        BY <4>1, <4>2
    <3>2. QED
      BY <3>1
  <2>2. QED
    BY <2>1
<1>6. ASSUME NEW g \in [D -> T], NEW h \in [D -> T], NEW i \in D,
             \A j \in D : m[j] < m[i] => g[j] = h[j]
      PROVE  B[g][i] = B[h][i]
  <2>1. i # 1 => g[i - 1] = h[i - 1]
    BY <1>3, <1>6
  <2>2. QED
    BY <2>1
<1>7. T # {}
  BY EmptySeq
<1>8. \E g \in [D -> T] : g = B[g]
  <2>1. Recursion(B, D, T, m)
    <3>1. LooksDown(B, D, T, m)
      BY <1>6 DEF LooksDown
    <3> HIDE DEF D, T, B, m
    <3>2. QED
      BY <1>4, <1>5, <1>7, <3>1, Zenon DEF Recursion
  <2>2. Solvable(B, D, T)
    <3> HIDE DEF D, T, B, m
    <3>1. QED
      BY <2>1, RecursionHasSolution
  <2>3. QED
    BY <2>2, Zenon DEF Solvable
<1>9. f = Body(f)
  <2>1. \E g : g = Body(g)
    BY <1>8
  <2> HIDE DEF Body
  <2>2. QED
    BY <2>1, Zenon
<1>10. \A i \in D : f[i] = IF i = 1 THEN q[1] ELSE f[i - 1] \o q[i]
  <2> HIDE DEF f
  <2>1. QED
    BY <1>9
<1>11. {i \in D : f[i] \in T} = D
  <2> DEFINE R == {i \in D : f[i] \in T}
  <2>1. ASSUME NEW i \in D, \A j \in D : m[j] < m[i] => j \in R
        PROVE  i \in R
    <3> HIDE DEF f
    <3>1. q[i] \in T /\ q[1] \in T
      OBVIOUS
    <3>2. CASE i = 1
      BY <1>10, <3>1, <3>2
    <3>3. CASE i # 1
      <4>1. f[i - 1] \in T
        BY <1>3, <2>1, <3>3
      <4>2. f[i - 1] \o q[i] \in T
        BY <3>1, <4>1, ConcatProperties
      <4>3. QED
        BY <1>10, <3>3, <4>2
    <3>4. QED
      BY <3>2, <3>3
  <2>2. Progressive(R, D, m)
    BY <2>1 DEF Progressive
  <2>3. R \in SUBSET D
    OBVIOUS
  <2>4. R = D
    <3> HIDE DEF R, m, D
    <3>1. QED
      BY <1>4, <2>2, <2>3, MeasureInduction
  <2>5. QED
    BY <2>4
<1>12. f \in [D -> T]
  <2>1. f = [i \in D |-> f[i]]
    <3>1. DOMAIN f = D
      BY <1>9, Zenon
    <3> HIDE DEF f
    <3>2. QED
      BY <1>9
  <2> HIDE DEF f
  <2>2. QED
    BY <1>11, <2>1
<1>13. JoinsUp(f, q)
  <2> HIDE DEF f
  <2>1. QED
    BY <1>10 DEF JoinsUp
<1>14. QED
  <2> HIDE DEF f
  <2>1. QED
    BY <1>2, <1>12, <1>13

\* The first k sequences of t, put together.
Joined(t, k) == FlattenSeq([i \in 1 .. k |-> t[i]])

LEMMA JoinedStep ==
  ASSUME NEW S, NEW n \in Nat, NEW t \in [1 .. n -> Seq(S)]
  PROVE  /\ Joined(t, 0) = <<>>
         /\ \A k \in 1 .. n : Joined(t, k) = Joined(t, k - 1) \o t[k]
         /\ \A k \in 0 .. n : Joined(t, k) \in Seq(S)
<1> DEFINE P(k) == [i \in 1 .. k |-> t[i]]
<1>1. ASSUME NEW k \in 0 .. n PROVE P(k) \in [1 .. k -> Seq(S)]
  OBVIOUS
<1>2. Joined(t, 0) = <<>>
  <2>1. P(0) \in Seq(Seq(S)) /\ Len(P(0)) = 0
    <3> HIDE DEF P
    <3>1. QED
      BY <1>1, FunctionIsSeq
  <2>2. P(0) = <<>>
    <3> HIDE DEF P
    <3>1. QED
      BY <2>1, EmptySeq
  <2>3. Joined(t, 0) = P(0)
    BY <2>1, Zenon DEF Joined, FlattenSeq
  <2>4. QED
    BY <2>2, <2>3
<1>3. ASSUME NEW k \in 1 .. n PROVE Joined(t, k) = Joined(t, k - 1) \o t[k]
  <2>1. PICK f \in [1 .. k -> Seq(S)] :
          JoinsUp(f, P(k)) /\ FlattenSeq(P(k)) = f[k]
    <3>1. k \in Nat \ {0} /\ P(k) \in [1 .. k -> Seq(S)]
      OBVIOUS
    <3> HIDE DEF P
    <3>2. QED
      BY <3>1, FlattenSolves
  <2>2. /\ \A i \in 1 .. k : f[i] = IF i = 1 THEN t[1] ELSE f[i - 1] \o t[i]
        /\ Joined(t, k) = f[k]
    BY <2>1 DEF Joined, JoinsUp
  <2>3. CASE k = 1
    <3>1. Joined(t, 1) = t[1] /\ t[1] \in Seq(S)
      BY <2>2, <2>3
    <3>2. QED
      BY <1>2, <2>3, <3>1, ConcatEmptySeq
  <2>4. CASE k # 1
    <3> DEFINE j == k - 1
    <3>1. j \in Nat \ {0} /\ j \in 0 .. n
      BY <2>4
    <3>2. PICK g \in [1 .. j -> Seq(S)] :
            JoinsUp(g, P(j)) /\ FlattenSeq(P(j)) = g[j]
      <4>1. P(j) \in [1 .. j -> Seq(S)]
        OBVIOUS
      <4> HIDE DEF P, j
      <4>2. QED
        BY <3>1, <4>1, FlattenSolves
    <3>3. /\ \A i \in 1 .. j : g[i] = IF i = 1 THEN t[1] ELSE g[i - 1] \o t[i]
          /\ Joined(t, j) = g[j]
      BY <3>2 DEF Joined, JoinsUp
    <3> DEFINE m == [i \in 1 .. j |-> i]
               R == {i \in 1 .. j : f[i] = g[i]}
    <3>4. Progressive(R, 1 .. j, m)
      <4>1. ASSUME NEW i \in 1 .. j, \A h \in 1 .. j : m[h] < m[i] => h \in R
            PROVE  f[i] = g[i]
        <5>1. i \in 1 .. k
          OBVIOUS
        <5>2. CASE i = 1
          BY <2>2, <3>3, <5>1, <5>2
        <5>3. CASE i # 1
          <6>1. i - 1 \in 1 .. j /\ m[i - 1] < m[i]
            BY <5>3
          <6>2. f[i - 1] = g[i - 1]
            BY <4>1, <6>1
          <6>3. QED
            BY <2>2, <3>3, <5>1, <5>3, <6>2
        <5>4. QED
          BY <5>2, <5>3
      <4>2. QED
        BY <4>1 DEF Progressive
    <3>5. R = 1 .. j
      <4> DEFINE D == 1 .. j
      <4>1. m \in [D -> Nat] /\ R \in SUBSET D
        OBVIOUS
      <4>2. Progressive(R, D, m)
        BY <3>4
      <4>3. R = D
        <5> HIDE DEF m, R, D
        <5>1. QED
          BY <4>1, <4>2, MeasureInduction
      <4>4. QED
        BY <4>3
    <3>6. f[j] = g[j]
      <4>1. j \in R
        <5>1. j \in 1 .. j
          BY <3>1
        <5> HIDE DEF R, j
        <5>2. QED
          BY <3>5, <5>1
      <4>2. QED
        BY <4>1
    <3>7. f[k] = f[j] \o t[k]
      <4>1. k \in 1 .. k
        OBVIOUS
      <4>2. QED
        BY <2>2, <2>4, <4>1
    <3>8. QED
      BY <2>2, <3>3, <3>6, <3>7
  <2>5. QED
    BY <2>3, <2>4
<1>4. ASSUME NEW k \in 0 .. n PROVE Joined(t, k) \in Seq(S)
  <2>1. CASE k = 0
    BY <1>2, <2>1, EmptySeq
  <2>2. CASE k # 0
    <3>1. k \in Nat \ {0}
      BY <2>2
    <3>2. PICK f \in [1 .. k -> Seq(S)] : FlattenSeq(P(k)) = f[k]
      <4>1. P(k) \in [1 .. k -> Seq(S)]
        OBVIOUS
      <4> HIDE DEF P
      <4>2. QED
        BY <3>1, <4>1, FlattenSolves
    <3>3. QED
      BY <3>1, <3>2 DEF Joined
  <2>3. QED
    BY <2>1, <2>2
<1>5. QED
  BY <1>2, <1>3, <1>4

-------------------------------------------------------------------------------
\* The texts of a program, and what the first k calls of it print.
Texts(p) == [i \in 1 .. Len(p) |-> p[i].text]
Before(p, k) == Joined(Texts(p), k)

\* A character of a call is found in the whole at its place behind what the
\* calls before it print.
LEMMA PlacesInStream ==
  ASSUME NEW p \in Programs
  PROVE  /\ Len(p) \in Nat
         /\ \A k \in 0 .. Len(p) : Before(p, k) \in Seq(Chars)
         /\ Before(p, 0) = <<>>
         /\ \A k \in 1 .. Len(p) :
              /\ p[k].text \in Seq(Chars) /\ p[k].style \in Styles
              /\ Len(Before(p, k)) = Len(Before(p, k - 1)) + Len(p[k].text)
              /\ Len(Before(p, k)) <= Len(Before(p, Len(p)))
              /\ \A j \in 1 .. Len(p[k].text) :
                   Before(p, Len(p))[Len(Before(p, k - 1)) + j] = p[k].text[j]
<1> DEFINE n == Len(p)
           L(k) == Len(Before(p, k))
           D == 0 .. n
           m == [k \in D |-> n - k]
           Prefix(k) == /\ L(k) <= L(n)
                        /\ \A j \in 1 .. L(k) : Before(p, n)[j] = Before(p, k)[j]
           R == {k \in D : Prefix(k)}
<1>1. n \in Nat
  BY UartAssumption, LenProperties
<1>2. \A k \in 1 .. n : p[k] \in [text : Seq(Chars), style : Styles]
  BY UartAssumption, ElementOfSeq
<1>3. \A k \in 1 .. n : p[k].text \in Seq(Chars) /\ p[k].style \in Styles
  BY <1>2
<1>4. Texts(p) \in [1 .. n -> Seq(Chars)]
  BY <1>3 DEF Texts
<1>5. /\ Before(p, 0) = <<>>
      /\ \A k \in 1 .. n : Before(p, k) = Before(p, k - 1) \o Texts(p)[k]
      /\ \A k \in D : Before(p, k) \in Seq(Chars)
  <2> HIDE DEF n
  <2>1. QED
    BY <1>1, <1>4, JoinedStep DEF Before
<1>6. \A k \in 1 .. n : Before(p, k) = Before(p, k - 1) \o p[k].text
  BY <1>5 DEF Texts
<1>7. ASSUME NEW k \in 1 .. n
      PROVE  /\ k - 1 \in D /\ k \in D
             /\ L(k) \in Nat /\ L(k - 1) \in Nat /\ Len(p[k].text) \in Nat
             /\ L(k) = L(k - 1) + Len(p[k].text)
             /\ \A i \in 1 .. L(k) : Before(p, k)[i] =
                  IF i <= L(k - 1) THEN Before(p, k - 1)[i] ELSE p[k].text[i - L(k - 1)]
  <2>1. k - 1 \in D /\ k \in D
    BY <1>1
  <2>2. Before(p, k) \in Seq(Chars) /\ Before(p, k - 1) \in Seq(Chars)
    BY <1>5, <2>1
  <2>3. p[k].text \in Seq(Chars)
    BY <1>3
  <2>4. Before(p, k) = Before(p, k - 1) \o p[k].text
    BY <1>6
  <2>5. L(k) \in Nat /\ L(k - 1) \in Nat /\ Len(p[k].text) \in Nat
    BY <2>2, <2>3, LenProperties
  <2>6. /\ Len(Before(p, k - 1) \o p[k].text) = L(k - 1) + Len(p[k].text)
        /\ \A i \in 1 .. L(k - 1) + Len(p[k].text) : (Before(p, k - 1) \o p[k].text)[i] =
             IF i <= L(k - 1) THEN Before(p, k - 1)[i] ELSE p[k].text[i - L(k - 1)]
    BY <2>2, <2>3, ConcatProperties
  <2>7. QED
    BY <2>1, <2>4, <2>5, <2>6
<1>8. \A k \in D : L(k) \in Nat
  BY <1>5, LenProperties
<1>9. Progressive(R, D, m)
  <2>1. ASSUME NEW k \in D, \A h \in D : m[h] < m[k] => h \in R
        PROVE  Prefix(k)
    <3>1. CASE k = n
      BY <1>8, <3>1
    <3>2. CASE k # n
      <4> DEFINE h == k + 1
      <4>1. h \in 1 .. n /\ h \in D /\ h - 1 = k /\ m[h] < m[k]
        BY <1>1, <3>2
      <4>2. Prefix(h)
        BY <2>1, <4>1
      <4>3. /\ L(h) \in Nat /\ L(k) \in Nat /\ L(k) <= L(h)
            /\ \A i \in 1 .. L(h) : i <= L(k) => Before(p, h)[i] = Before(p, k)[i]
        <5>1. /\ L(h) \in Nat /\ L(h - 1) \in Nat /\ Len(p[h].text) \in Nat
              /\ L(h) = L(h - 1) + Len(p[h].text)
              /\ \A i \in 1 .. L(h) : Before(p, h)[i] =
                   IF i <= L(h - 1) THEN Before(p, h - 1)[i] ELSE p[h].text[i - L(h - 1)]
          <6> HIDE DEF h, L
          <6>1. QED
            BY <1>7, <4>1
        <5>2. L(h - 1) = L(k) /\ Before(p, h - 1) = Before(p, k)
          BY <4>1
        <5> HIDE DEF h, L
        <5>3. QED
          BY <5>1, <5>2
      <4>4. \A i \in 1 .. L(k) : i \in 1 .. L(h)
        BY <4>3
      <4>5. \A i \in 1 .. L(k) : Before(p, n)[i] = Before(p, k)[i]
        BY <4>2, <4>3, <4>4
      <4>6. L(n) \in Nat
        BY <1>1, <1>8
      <4>7. QED
        BY <4>2, <4>3, <4>5, <4>6
    <3>3. QED
      BY <3>1, <3>2
  <2>2. QED
    BY <2>1 DEF Progressive
<1>10. R = D
  <2>1. R \in SUBSET D /\ m \in [D -> Nat]
    BY <1>1
  <2> HIDE DEF R, D, m
  <2>2. QED
    BY <1>9, <2>1, MeasureInduction
<1>11. \A k \in D : Prefix(k)
  BY <1>10
<1>12. ASSUME NEW k \in 1 .. n, NEW j \in 1 .. Len(p[k].text)
       PROVE  Before(p, n)[L(k - 1) + j] = p[k].text[j]
  <2> DEFINE i == L(k - 1) + j
  <2>1. i \in 1 .. L(k) /\ ~ (i <= L(k - 1)) /\ i - L(k - 1) = j
    <3>1. /\ L(k) \in Nat /\ L(k - 1) \in Nat /\ Len(p[k].text) \in Nat
          /\ L(k) = L(k - 1) + Len(p[k].text)
      BY <1>7
    <3> HIDE DEF L
    <3>2. QED
      BY <3>1
  <2>2. Before(p, k)[i] = p[k].text[j]
    <3> HIDE DEF i
    <3>1. QED
      BY <1>7, <2>1
  <2>3. Before(p, n)[i] = Before(p, k)[i]
    <3> HIDE DEF i
    <3>1. QED
      BY <1>7, <1>11, <2>1
  <2>4. QED
    BY <2>2, <2>3
<1>13. \A k \in 1 .. n : L(k) = L(k - 1) + Len(p[k].text) /\ L(k) <= L(n)
  BY <1>7, <1>11
<1>14. QED
  BY <1>1, <1>3, <1>5, <1>12, <1>13

(***************************************************************************)
(* The inductive invariant.  A character is in uart_tx from the step that  *)
(* stores it to the one that signals it.  In the builds that wait, nothing *)
(* is signalled while the device is busy, and what the device will find in *)
(* uart_tx is the character meant or the next one.                         *)
(***************************************************************************)
UartTyped ==
  /\ program \in Programs /\ ready \in {0, 1} /\ out \in Seq(Chars)
  /\ stage \in {"store", "test", "signal", "stuck"}
  /\ call \in 1 .. (Len(program) + 1) /\ idx \in Nat \ {0}
  /\ ~Done => idx <= Len(Text) + 1
  /\ Done => idx = 1
  /\ stage # "store" => ~Done /\ idx <= Len(Text) /\ tx = Text[idx]
  /\ ready = 1 => tx \in Chars

ThisOrNext(k, c) == c = Stream[k] \/ (k < Len(Stream) /\ c = Stream[k + 1])

InStep ==
  /\ Len(out) + ready = Signalled
  /\ stage = "signal" => ready = 0
  /\ ready = 1 => ThisOrNext(Len(out) + 1, tx)
  /\ \A k \in 1 .. Len(out) : ThisOrNext(k, out[k])

UartInv == UartTyped /\ (Waits => InStep)

-------------------------------------------------------------------------------
\* Where the program is in the text as a whole.
LEMMA Position ==
  ASSUME UartTyped
  PROVE  /\ Len(program) \in Nat /\ call \in Nat
         /\ Stream \in Seq(Chars) /\ Len(Stream) \in Nat
         /\ Signalled \in Nat
         /\ ~Done => /\ call \in 1 .. Len(program)
                     /\ Text \in Seq(Chars) /\ Len(Text) \in Nat
                     /\ Style \in Styles
         /\ ~Done /\ idx <= Len(Text) =>
              Signalled < Len(Stream) /\ Stream[Signalled + 1] = Text[idx]
         /\ Done => Signalled = Len(Stream)
         /\ EndCall => Signalled' = Signalled
<1> DEFINE n == Len(program)
           p == program
<1>1. p \in Programs /\ call \in 1 .. (n + 1) /\ idx \in Nat \ {0}
  BY DEF UartTyped
<1>2. /\ n \in Nat
      /\ \A k \in 0 .. n : Before(p, k) \in Seq(Chars)
      /\ Before(p, 0) = <<>>
      /\ \A k \in 1 .. n :
           /\ p[k].text \in Seq(Chars) /\ p[k].style \in Styles
           /\ Len(Before(p, k)) = Len(Before(p, k - 1)) + Len(p[k].text)
           /\ Len(Before(p, k)) <= Len(Before(p, n))
           /\ \A j \in 1 .. Len(p[k].text) :
                Before(p, n)[Len(Before(p, k - 1)) + j] = p[k].text[j]
  BY <1>1, PlacesInStream
<1>3. \A k \in 0 .. n : FlattenSeq([i \in 1 .. k |-> p[i].text]) = Before(p, k)
  <2>1. ASSUME NEW k \in 0 .. n
        PROVE  [i \in 1 .. k |-> p[i].text] = [i \in 1 .. k |-> Texts(p)[i]]
    BY <1>2 DEF Texts
  <2>2. QED
    BY <2>1 DEF Before, Joined
<1>4. Stream = Before(p, n) /\ Stream \in Seq(Chars)
  BY <1>2, <1>3 DEF Stream
<1>5. call - 1 \in 0 .. n /\ Signalled = Len(Before(p, call - 1)) + idx - 1
  <2>1. call - 1 \in 0 .. n
    BY <1>1, <1>2
  <2>2. QED
    BY <1>3, <2>1 DEF Signalled
<1>6. \A k \in 0 .. n : Len(Before(p, k)) \in Nat
  BY <1>2, LenProperties
<1>7. Len(Stream) \in Nat /\ Signalled \in Nat /\ Len(Before(p, call - 1)) \in Nat
  BY <1>1, <1>2, <1>4, <1>5, <1>6
<1>8. ASSUME ~Done
      PROVE  /\ call \in 1 .. n /\ Text \in Seq(Chars) /\ Len(Text) \in Nat
             /\ Style \in Styles
             /\ Len(Before(p, call)) = Len(Before(p, call - 1)) + Len(Text)
             /\ Len(Before(p, call)) <= Len(Stream)
  <2>1. call \in 1 .. n
    BY <1>1, <1>2, <1>8 DEF Done
  <2>2. QED
    BY <1>2, <1>4, <2>1, LenProperties DEF Text, Style
<1>9. ASSUME ~Done, idx <= Len(Text)
      PROVE  Signalled < Len(Stream) /\ Stream[Signalled + 1] = Text[idx]
  <2>1. call \in 1 .. n /\ idx \in 1 .. Len(Text)
    BY <1>1, <1>8, <1>9
  <2>2. Before(p, n)[Len(Before(p, call - 1)) + idx] = Text[idx]
    BY <1>2, <2>1 DEF Text
  <2>3. Signalled + 1 = Len(Before(p, call - 1)) + idx
    BY <1>1, <1>5, <1>7
  <2>4. Signalled < Len(Stream)
    <3>1. Len(Before(p, call)) \in Nat
      BY <1>6, <2>1
    <3>2. QED
      BY <1>5, <1>7, <1>8, <1>9, <2>1, <3>1
  <2>5. QED
    BY <1>4, <2>2, <2>3, <2>4
<1>10. ASSUME Done PROVE Signalled = Len(Stream)
  <2>1. call = n + 1 /\ idx = 1
    BY <1>1, <1>2, <1>10 DEF Done, UartTyped
  <2>2. call - 1 = n
    BY <1>2, <2>1
  <2>3. QED
    BY <1>4, <1>5, <1>7, <2>1, <2>2
<1>11. ASSUME EndCall PROVE Signalled' = Signalled
  <2>1. ~Done /\ idx > Len(Text) /\ call' = call + 1 /\ idx' = 1 /\ program' = program
    BY <1>11 DEF EndCall
  <2>2. idx = Len(Text) + 1
    BY <1>1, <1>8, <2>1 DEF UartTyped
  <2>3. call' - 1 = call /\ call \in 0 .. n
    BY <1>8, <2>1
  <2>4. Signalled' = Len(FlattenSeq([i \in 1 .. (call' - 1) |-> p[i].text])) + idx' - 1
    BY <2>1 DEF Signalled
  <2>5. Signalled' = Len(Before(p, call)) + 1 - 1
    BY <1>3, <2>1, <2>3, <2>4
  <2>6. QED
    BY <1>5, <1>7, <1>8, <2>1, <2>2, <2>5
<1>12. QED
  BY <1>1, <1>2, <1>4, <1>7, <1>8, <1>9, <1>10, <1>11

-------------------------------------------------------------------------------
LEMMA UartTypedStep ==
  ASSUME UartTyped, UartNext
  PROVE  UartTyped'
<1>1. /\ Len(program) \in Nat /\ call \in Nat
      /\ ~Done => /\ call \in 1 .. Len(program)
                  /\ Text \in Seq(Chars) /\ Len(Text) \in Nat
  BY Position
<1>2. CASE EndCall
  <2>1. /\ call' = call + 1 /\ idx' = 1 /\ call \in 1 .. Len(program)
        /\ UNCHANGED <<tx, ready, program, stage, build, out>> /\ stage = "store"
    BY <1>1, <1>2 DEF EndCall
  <2>2. call' \in 1 .. (Len(program) + 1)
    BY <1>1, <2>1
  <2>3. ~Done' => Len(Text)' \in Nat
    <3>1. ASSUME ~Done' PROVE program[call'].text \in Seq(Chars)
      <4>1. call' \in 1 .. Len(program)
        BY <1>1, <2>1, <3>1 DEF Done
      <4>2. QED
        BY <4>1, PlacesInStream DEF UartTyped
    <3>2. QED
      BY <2>1, <3>1, LenProperties DEF Text
  <2>4. QED
    BY <2>1, <2>2, <2>3 DEF UartTyped
<1>3. CASE Store
  BY <1>1, <1>3, ElementOfSeq DEF Store, UartTyped, Done, Text
<1>4. CASE Test
  BY <1>1, <1>4 DEF Test, UartTyped, Done, Text
<1>5. CASE Wait
  BY <1>1, <1>5 DEF Wait, UartTyped, Done, Text
<1>6. CASE Signal
  <2>1. Text[idx] \in Chars
    BY <1>1, <1>6, ElementOfSeq DEF Signal, UartTyped
  <2>2. QED
    BY <1>1, <1>6, <2>1 DEF Signal, UartTyped, Done, Text
<1>7. CASE Device
  <2>1. out' \in Seq(Chars)
    BY <1>7 DEF Device, UartTyped
  <2>2. QED
    BY <1>7, <2>1 DEF Device, UartTyped, Done, Text
<1>8. QED
  BY <1>2, <1>3, <1>4, <1>5, <1>6, <1>7 DEF UartNext, Cpu

\* The stream and what has been signalled do not change but by a signal.
LEMMA InStepStep ==
  ASSUME UartTyped, Waits, InStep, UartNext
  PROVE  InStep'
<1> DEFINE n == Len(out)
<1>1. /\ Signalled \in Nat /\ Len(Stream) \in Nat
      /\ ~Done /\ idx <= Len(Text) =>
           Signalled < Len(Stream) /\ Stream[Signalled + 1] = Text[idx]
      /\ ~Done => Style \in Styles /\ call \in 1 .. Len(program)
      /\ EndCall => Signalled' = Signalled
  BY Position
<1>2. n \in Nat /\ ready \in {0, 1} /\ idx \in Nat
  BY LenProperties DEF UartTyped
<1>3. Stream' = Stream
  BY DEF UartNext, Cpu, EndCall, Store, Test, Wait, Signal, Device, Stream
<1>4. \A k, c : ThisOrNext(k, c) => ThisOrNext(k, c)'
  BY <1>3 DEF ThisOrNext
<1>5. CASE EndCall
  BY <1>1, <1>3, <1>5 DEF EndCall, InStep, ThisOrNext
<1>6. CASE Store
  <2>1. Signalled' = Signalled
    BY <1>6 DEF Store, Signalled
  <2>2. tx' = Stream[Signalled + 1] /\ Signalled < Len(Stream)
    BY <1>1, <1>6 DEF Store
  <2>3. ready = 1 => ThisOrNext(n + 1, tx')
    BY <1>1, <1>2, <2>2 DEF ThisOrNext, InStep
  <2>4. QED
    BY <1>3, <1>6, <2>1, <2>3 DEF Store, InStep, ThisOrNext
<1>7. CASE Test
  <2>1. Signalled' = Signalled
    BY <1>7 DEF Test, Signalled
  <2>2. QED
    BY <1>2, <1>3, <1>7, <2>1 DEF Test, InStep, ThisOrNext
<1>8. CASE Wait
  <2>1. Signalled' = Signalled
    BY <1>8 DEF Wait, Signalled
  <2>2. build = "polls"
    <3>1. ~Done /\ Style = "string"
      BY <1>8 DEF Wait, UartTyped
    <3>2. QED
      BY <1>1, <3>1 DEF Waits, Style
  <2>3. QED
    BY <1>2, <1>3, <1>8, <2>1, <2>2 DEF Wait, InStep, ThisOrNext
<1>9. CASE Signal
  <2>1. Signalled' = Signalled + 1
    BY <1>1, <1>2, <1>9 DEF Signal, Signalled
  <2>2. ready = 0 /\ n = Signalled
    BY <1>2, <1>9 DEF Signal, InStep
  <2>3. tx = Stream[n + 1]
    BY <1>1, <1>9, <2>2 DEF Signal, UartTyped
  <2>4. QED
    BY <1>2, <1>3, <1>9, <2>1, <2>2, <2>3 DEF Signal, InStep, ThisOrNext
<1>10. CASE Device
  <2>1. Signalled' = Signalled
    BY <1>10 DEF Device, Signalled
  <2>2. /\ Len(out') = n + 1 /\ out'[n + 1] = tx
        /\ \A k \in 1 .. n : out'[k] = out[k]
    BY <1>10 DEF Device, UartTyped
  <2>3. ASSUME NEW k \in 1 .. Len(out') PROVE ThisOrNext(k, out'[k])
    <3>1. CASE k = n + 1
      BY <1>10, <2>2, <3>1 DEF Device, InStep
    <3>2. CASE k # n + 1
      BY <1>2, <2>2, <3>2 DEF InStep
    <3>3. QED
      BY <3>1, <3>2
  <2>4. QED
    BY <1>2, <1>3, <1>10, <2>1, <2>2, <2>3 DEF Device, InStep, ThisOrNext
<1>11. QED
  BY <1>5, <1>6, <1>7, <1>8, <1>9, <1>10 DEF UartNext, Cpu

LEMMA UartInvHolds == UartSpec => []UartInv
<1>1. UartInit => UartInv
  <2> SUFFICES ASSUME UartInit PROVE UartInv
    OBVIOUS
  <2>1. Len(program) \in Nat /\ \A k \in 1 .. Len(program) : program[k].text \in Seq(Chars)
    BY PlacesInStream DEF UartInit
  <2>2. ~Done => Text \in Seq(Chars) /\ Len(Text) \in Nat
    BY <2>1, LenProperties DEF UartInit, Done, Text
  <2>3. UartTyped
    BY <2>1, <2>2, EmptySeq DEF UartInit, UartTyped, Done
  <2>4. Signalled = 0
    <3>1. Signalled = Len(FlattenSeq([i \in 1 .. 0 |-> Texts(program)[i]])) + 1 - 1
      <4>1. [i \in 1 .. (call - 1) |-> program[i].text]
              = [i \in 1 .. 0 |-> Texts(program)[i]]
        BY DEF UartInit
      <4>2. QED
        BY <4>1 DEF UartInit, Signalled
    <3>2. Before(program, 0) = <<>>
      BY PlacesInStream DEF UartInit
    <3>3. QED
      BY <3>1, <3>2, EmptySeq DEF Before, Joined
  <2>5. InStep
    BY <2>4, EmptySeq DEF UartInit, InStep
  <2>6. QED
    BY <2>3, <2>5 DEF UartInv
<1>2. UartInv /\ [UartNext]_uartVars => UartInv'
  <2>1. ASSUME UartInv, UartNext PROVE UartInv'
    <3>1. Waits' => Waits
      BY <2>1 DEF UartNext, Cpu, EndCall, Store, Test, Wait, Signal, Device, Waits
    <3>2. QED
      BY <2>1, <3>1, UartTypedStep, InStepStep DEF UartInv
  <2>2. ASSUME UartInv, UNCHANGED uartVars PROVE UartInv'
    BY <2>2 DEF UartInv, UartTyped, InStep, ThisOrNext, Waits, Stream, Signalled,
                Done, Text, uartVars
  <2>3. QED
    BY <2>1, <2>2
<1>3. QED
  BY <1>1, <1>2, PTL DEF UartSpec

(***************************************************************************)
(* NoSignalLost, for every program and every build that waits: print_uart  *)
(* never signals a character while the device still has one.               *)
(***************************************************************************)
THEOREM SignalsAreTaken == UartSpec => []NoSignalLost
<1>1. UartInv => NoSignalLost
  BY DEF UartInv, InStep, NoSignalLost
<1>2. QED
  BY <1>1, UartInvHolds, PTL

(***************************************************************************)
(* SentIsThisOrNext: the k-th character that the device sends is the k-th  *)
(* of the text or the one behind it, for every text.                       *)
(***************************************************************************)
THEOREM SentIsNear == UartSpec => []SentIsThisOrNext
<1>1. UartInv => SentIsThisOrNext
  BY DEF UartInv, InStep, SentIsThisOrNext, ThisOrNext
<1>2. QED
  BY <1>1, UartInvHolds, PTL

(***************************************************************************)
(* What EverythingIsSent says of the end: when the calls are over and the  *)
(* device is idle, it has sent as many characters as were to be printed,   *)
(* and the last one is right.  (That this comes about is left to TLC.)     *)
(***************************************************************************)
THEOREM NothingIsMissing == UartSpec => [](Waits /\ Done /\ ready = 0 => AllSent)
<1>1. ASSUME UartInv, Waits, Done, ready = 0 PROVE AllSent
  <2>1. Len(out) = Signalled /\ \A k \in 1 .. Len(out) : ThisOrNext(k, out[k])
    BY <1>1, LenProperties DEF UartInv, UartTyped, InStep
  <2>2. Signalled = Len(Stream) /\ Len(Stream) \in Nat
    BY <1>1, Position DEF UartInv
  <2>3. ASSUME out # <<>> PROVE Last(out) = Last(Stream)
    <3>1. Len(out) \in 1 .. Len(out)
      BY <1>1, <2>3, EmptySeq DEF UartInv, UartTyped
    <3>2. out[Len(out)] = Stream[Len(out)]
      BY <2>1, <2>2, <3>1 DEF ThisOrNext
    <3>3. QED
      BY <2>1, <2>2, <3>2 DEF Last
  <2>4. QED
    BY <1>1, <2>1, <2>2, <2>3 DEF AllSent
<1>2. UartInv => (Waits /\ Done /\ ready = 0 => AllSent)
  BY <1>1
<1>3. QED
  BY <1>2, UartInvHolds, PTL

===============================================================================
