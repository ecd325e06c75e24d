------------------------------- MODULE Heap ---------------------------------
(***************************************************************************)
(* The heap of Xinu (src/Xinu/system: meminit.c, getmem.c, getstk.c,       *)
(* freemem.c): one list of free blocks in order of address, from whose low *)
(* end getmem takes storage and from whose high end getstk takes stacks.   *)
(* A freed block is merged with the free blocks that touch it.  Nothing in *)
(* a block says who owns it: the caller repeats its size when it frees it. *)
(*                                                                         *)
(* Every routine runs with interrupts disabled and never blocks, so each   *)
(* is one action.  Addresses and sizes are in bytes.                       *)
(***************************************************************************)
EXTENDS Integers, Sequences, FiniteSets, SequencesExt, FiniteSetsExt

CONSTANTS
  MinHeap, MaxHeap,  \* minheap and maxheap
  Request            \* the sizes that callers ask for, in bytes

ASSUME HeapSizes ==
  /\ MinHeap \in Nat \ {0} /\ MaxHeap \in Nat /\ MinHeap < MaxHeap
  /\ MinHeap % 8 = 0 /\ MaxHeap % 8 = 0
  /\ Request \subseteq Nat

VARIABLES
  memlist,   \* the free blocks, in the order of the mnext links from memlist
  mlength,   \* memlist.mlength: the free bytes
  live,      \* the blocks that callers own: what was asked for and the address returned
  denied     \* history: the bytes wanted by the last request if it failed, else 0

heapVars == <<memlist, mlength, live, denied>>

Block(a, n) == [addr |-> a, len |-> n]
EndOf(b) == b.addr + b.len

\* roundmb: the next multiple of the size of a memblk.
RoundMb(n) == ((n + 7) \div 8) * 8

(***************************************************************************)
(* A caller's record of a block: the routine it came from, the size it     *)
(* asked for and the pointer it got (getstk returns the highest word).     *)
(***************************************************************************)
Owned(kind, n, p) == [kind |-> kind, bytes |-> n, ptr |-> p]
\* freestk computes the start of the block from the pointer to its last word.
StartOf(r) == IF r.kind = "stk" THEN r.ptr - RoundMb(r.bytes) + 4 ELSE r.ptr
OwnedBlock(r) == Block(StartOf(r), RoundMb(r.bytes))

HeapInit ==
  /\ memlist = <<Block(MinHeap, MaxHeap - MinHeap)>>
  /\ mlength = MaxHeap - MinHeap
  /\ live = {} /\ denied = 0
-----------------------------------------------------------------------------
\* The free blocks that are large enough.
Fits(m, n) == {i \in DOMAIN m : m[i].len >= n}

\* Mutant: a block is split even when nothing is left of it.
TakeLowAlways(m, i, n) == [m EXCEPT ![i] = Block(m[i].addr + n, m[i].len - n)]

\* Block i of the list gives up n bytes at its low end, or all it has.
TakeLow(m, i, n) ==
  IF m[i].len = n THEN RemoveAt(m, i)
  ELSE [m EXCEPT ![i] = Block(m[i].addr + n, m[i].len - n)]

\* Block i of the list gives up n bytes at its high end, or all it has.
TakeHigh(m, i, n) ==
  IF m[i].len = n THEN RemoveAt(m, i)
  ELSE [m EXCEPT ![i] = Block(m[i].addr, m[i].len - n)]

Deny(n) == denied' = RoundMb(n) /\ UNCHANGED <<memlist, mlength, live>>

\* getmem: the first block that is large enough, cut at its low end.
Getmem(n) ==
  LET want == RoundMb(n)
      fits == Fits(memlist, want)
  IN /\ n > 0
     /\ \/ /\ fits = {}
           /\ Deny(n)
        \/ /\ fits # {}
           /\ memlist' = TakeLow(memlist, Min(fits), want)
           /\ mlength' = mlength - want
           /\ live' = live \cup {Owned("mem", n, memlist[Min(fits)].addr)}
           /\ denied' = 0

\* getstk: the last block that is large enough, cut at its high end.
Getstk(n) ==
  LET want == RoundMb(n)
      fits == Fits(memlist, want)
  IN /\ n > 0
     /\ \/ /\ fits = {}
           /\ Deny(n)
        \/ /\ fits # {}
           /\ memlist' = TakeHigh(memlist, Max(fits), want)
           /\ mlength' = mlength - want
           /\ live' = live \cup {Owned("stk", n, EndOf(memlist[Max(fits)]) - 4)}
           /\ denied' = 0
-----------------------------------------------------------------------------
\* How many free blocks the search of freemem passes: those before the first
\* that does not lie below the address.
Passed(m, a) ==
  LET stop == {i \in DOMAIN m : m[i].addr >= a}
  IN IF stop = {} THEN Len(m) ELSE Min(stop) - 1

\* Mutant: only the neighbour below is looked at.
OverlapsBelow(m, a, n) ==
  LET k == Passed(m, a) IN k > 0 /\ a < EndOf(m[k])

\* The tests of freemem against the two neighbours of the place it found.
Overlaps(m, a, n) ==
  LET k == Passed(m, a)
  IN \/ k > 0 /\ a < EndOf(m[k])
     \/ k < Len(m) /\ a + n > m[k + 1].addr

\* Mutant: a block is not merged with the block after it.
NoMerge(m, k) == m

\* Merge block k of the list with the block after it, if they touch.
MergeNext(m, k) ==
  IF k < Len(m) /\ EndOf(m[k]) = m[k + 1].addr
  THEN RemoveAt([m EXCEPT ![k] = Block(m[k].addr, m[k].len + m[k + 1].len)], k + 1)
  ELSE m

\* The list with the block linked in after block k, or added to it.
LinkAfter(m, k, a, n) ==
  IF k > 0 /\ EndOf(m[k]) = a
  THEN MergeNext([m EXCEPT ![k] = Block(m[k].addr, m[k].len + n)], k)
  ELSE MergeNext(InsertAt(m, k + 1, Block(a, n)), k + 1)

\* What the tests of freemem accept, before any list is walked.
InRange(a, n) == n > 0 /\ a >= MinHeap /\ a <= MaxHeap

\* freemem: the list and the count of free bytes afterwards.
FreeList(m, a, n) == LinkAfter(m, Passed(m, a), a, RoundMb(n))
Freed(a, n) ==
  IF InRange(a, n) /\ ~Overlaps(memlist, a, RoundMb(n))
  THEN memlist' = FreeList(memlist, a, n) /\ mlength' = mlength + RoundMb(n)
  ELSE UNCHANGED <<memlist, mlength>>

\* A caller gives back a block that it owns (freemem, freestk).
Freemem(r) ==
  /\ Freed(StartOf(r), r.bytes)
  /\ live' = live \ {r} /\ denied' = 0

\* A caller frees again what it no longer owns, all or part of which is free.
FreememStale(a, n) ==
  /\ \E i \in DOMAIN memlist : memlist[i].addr < a + RoundMb(n) /\ a < EndOf(memlist[i])
  /\ Freed(a, n)
  /\ denied' = 0 /\ UNCHANGED live

\* The calls of the program; owned are the blocks that are its to free.
HeapCalls(owned) ==
  \/ \E n \in Request : Getmem(n) \/ Getstk(n)
  \/ \E r \in owned : Freemem(r)
  \/ \E a \in {8 * i : i \in MinHeap \div 8 .. MaxHeap \div 8 - 1}, n \in Request :
       FreememStale(a, n)

HeapNext == HeapCalls(live)

HeapSpec == HeapInit /\ [][HeapNext]_heapVars
-----------------------------------------------------------------------------
FreeBytes(i) == memlist[i].addr .. EndOf(memlist[i]) - 1
OwnedBytes(r) == StartOf(r) .. StartOf(r) + RoundMb(r.bytes) - 1

\* The values of the variables.
HeapTypeOK ==
  /\ memlist \in Seq([addr : MinHeap .. MaxHeap - 8, len : 8 .. MaxHeap - MinHeap])
  /\ mlength \in 0 .. MaxHeap - MinHeap
  /\ \A r \in live : r.kind \in {"mem", "stk"} /\ r.bytes \in Nat \ {0} /\ r.ptr \in Nat
  /\ denied \in Nat

\* The free blocks are in order of address and no two of them touch, whatever
\* the order in which blocks were allocated and freed (freemem.c: "Either
\* coalesce with previous block or add to free list").
FreeListOrdered ==
  \A i, j \in DOMAIN memlist : i < j => EndOf(memlist[i]) < memlist[j].addr

\* No byte is free and owned, or owned twice: also not after a block has been
\* freed a second time, since freemem refuses what overlaps free memory.
NoSharedBytes ==
  /\ \A r \in live, i \in DOMAIN memlist :
       EndOf(OwnedBlock(r)) <= memlist[i].addr \/ EndOf(memlist[i]) <= StartOf(r)
  /\ \A r, s \in live :
       r # s => EndOf(OwnedBlock(r)) <= StartOf(s) \/ EndOf(OwnedBlock(s)) <= StartOf(r)

\* The heap is sound: the free list is in order, and freed blocks are merged in
\* it, and nothing is given to two owners.
HeapSound == FreeListOrdered /\ NoSharedBytes

\* No byte of the heap is lost: what nobody owns is in the free list, and
\* memlist.mlength is the number of bytes there.
NoLostBytes ==
  /\ \A a \in MinHeap .. MaxHeap - 1 :
       \/ \E i \in DOMAIN memlist : memlist[i].addr <= a /\ a < EndOf(memlist[i])
       \/ \E r \in live : StartOf(r) <= a /\ a < EndOf(OwnedBlock(r))
  /\ mlength = Cardinality(UNION {FreeBytes(i) : i \in DOMAIN memlist})

\* The heap is an arena of cells of eight bytes: in particular getmem and getstk
\* fail only if there is no room, which is true only if free blocks are merged.
FreeCells == {a \div 8 : a \in UNION {FreeBytes(i) : i \in DOMAIN memlist}}
HeapArena == INSTANCE Arena WITH
  Cell <- MinHeap \div 8 .. MaxHeap \div 8 - 1,
  free <- FreeCells,
  refused <- denied \div 8
HeapIsArena == HeapArena!Spec
=============================================================================
