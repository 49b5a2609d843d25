--------------------------------- MODULE Heap ---------------------------------
(***************************************************************************)
(* The heap of lib/sys/syscalls.cpp: the program break and _sbrk, which    *)
(* newlib's malloc calls to get more memory, to ask where the break is (an *)
(* increment of 0) or to hand back the end of what it got last (a negative *)
(* increment).  Its callers take every result but -1 for the start of as   *)
(* many bytes as they asked for.  Addresses are numbers; __heap_start and  *)
(* __heap_end come from linker.lds.                                        *)
(***************************************************************************)
EXTENDS Integers, Sequences

CONSTANTS
  HeapStart,    \* __heap_start
  HeapEnd,      \* __heap_end
  MaxRequest,   \* the largest increment a caller asks for
  MaxCalls      \* bound: number of blocks asked for

ASSUME HeapAssumption ==
  /\ HeapStart \in Nat /\ HeapEnd \in Nat /\ HeapStart <= HeapEnd
  /\ MaxRequest \in Nat /\ MaxCalls \in Nat

VARIABLES
  brk,        \* the program break
  blocks,     \* history: what the callers hold, in the order of the calls
  exhausted,  \* history: the test of some call failed
  reopened    \* history: a negative increment came after that

heapVars == <<brk, blocks, exhausted, reopened>>

Block(base, size) == [base |-> base, size |-> size]

HeapInit ==
  /\ brk = HeapStart
  /\ blocks = <<>>
  /\ exhausted = FALSE
  /\ reopened = FALSE

\* The test of the request, behind the early return for an empty heap (which
\* leaves the break at the end, where it is then).
Fits(incr) == HeapStart # HeapEnd /\ brk + incr < HeapEnd

\* A variant with a mistake in it: a request that does not fit leaves the break.
NewBreakStays(incr) == IF Fits(incr) THEN brk + incr + incr ELSE brk

\* A variant with a mistake in it: a break past the end stays where it is.
NewBreakUnclipped(incr) == IF Fits(incr) THEN brk + incr + incr ELSE brk + incr

\* The test advances the break and so does the branch it selects; when the
\* test fails the break is set to the end of the heap, wherever it was.
NewBreak(incr) == IF Fits(incr) THEN brk + incr + incr ELSE HeapEnd

\* A variant with a mistake in it: the break is read after it has moved.
ResultAfter(incr) == IF HeapStart = HeapEnd THEN 0 ELSE NewBreak(incr)

\* What _sbrk returns, whether or not the request fits.
Result(incr) == IF HeapStart = HeapEnd THEN 0 ELSE brk

MoveBreak(incr) ==
  /\ brk' = NewBreak(incr)
  /\ exhausted' = (exhausted \/ ~Fits(incr))
  /\ reopened' = (reopened \/ (exhausted /\ incr < 0))

Sbrk(incr) ==
  /\ Len(blocks) < MaxCalls
  /\ MoveBreak(incr)
  /\ blocks' = Append(blocks, Block(Result(incr), incr))

\* _sbrk(-extra): only bytes of the last block are handed back.
Trim(extra) ==
  LET n == Len(blocks)
  IN  /\ n > 0
      /\ extra <= blocks[n].size
      /\ MoveBreak(-extra)
      /\ blocks' = [blocks EXCEPT ![n].size = @ - extra]

HeapNext ==
  \/ \E incr \in 0 .. MaxRequest : Sbrk(incr)
  \/ \E extra \in 1 .. MaxRequest : Trim(extra)

HeapSpec == HeapInit /\ [][HeapNext]_heapVars

-------------------------------------------------------------------------------
(***************************************************************************)
(* Type invariant.  The break can pass the end of the heap, but by less    *)
(* than one request, and can fall below its start by at most two.          *)
(***************************************************************************)
Addresses == (HeapStart - 2 * MaxRequest) .. (HeapEnd + MaxRequest)

HeapTypeOK ==
  /\ brk \in Addresses
  /\ blocks \in Seq([base : Addresses \cup {0}, size : 0 .. MaxRequest])
  /\ exhausted \in BOOLEAN
  /\ reopened \in BOOLEAN

InHeap(b) == HeapStart <= b.base /\ b.base + b.size <= HeapEnd

Disjoint(b, c) == b.base + b.size <= c.base \/ c.base + c.size <= b.base

(***************************************************************************)
(* As long as no call of _sbrk failed its test, its callers can rely on    *)
(* what they got: every block lies in the heap and below the break and no  *)
(* two overlap, although the break moves by twice what they ask.  (After   *)
(* that a block can reach past the end: a call that finds no room returns  *)
(* the old break all the same, and not -1.)                                *)
(***************************************************************************)
SafeUntilExhausted ==
  ~exhausted =>
    \A i \in 1 .. Len(blocks) :
      /\ InHeap(blocks[i])
      /\ blocks[i].base + blocks[i].size <= brk
      /\ \A j \in 1 .. (i - 1) : Disjoint(blocks[i], blocks[j])

(***************************************************************************)
(* Even when requests that do not fit are granted all the same, no byte    *)
(* inside the heap is held twice: what two blocks have in common lies      *)
(* behind the end, where such a request leaves the break.  The exception   *)
(* is a negative increment after that: it moves the break back from the    *)
(* end by twice its size, into blocks given out before.  (An empty heap    *)
(* has no blocks: each call returns NULL.)                                 *)
(***************************************************************************)
HeapGivenOnce ==
  HeapStart # HeapEnd /\ ~reopened =>
    \A i \in 1 .. Len(blocks) : \A j \in 1 .. (i - 1) :
      Disjoint(blocks[i], blocks[j]) \/ HeapEnd <= blocks[i].base

===============================================================================
