--------------------------- MODULE MemoryTheorems ---------------------------
(***************************************************************************)
(* The heap stays sound for every size of the heap, of the requests and of *)
(* the buffer pools: the free list is ordered and merged, no byte is free  *)
(* and owned or owned twice, and none is lost; and the heap is the arena   *)
(* of cells that a storage allocator promises.                             *)
(*                                                                         *)
(* Buffers and semaphores of the pools agree, for every number of pools,   *)
(* buffers and processes, whoever is killed while waiting or just woken;   *)
(* every buffer stays in its own pool or in the hands of one process; and  *)
(* the variables of the heap and the pools keep their types.               *)
(***************************************************************************)
EXTENDS BufferPools, SequenceLemmas, FiniteSetTheorems

FreeBlock == [addr : Int, len : Nat \ {0}]
OwnedRecord == [kind : {"mem", "stk"}, bytes : Nat \ {0}, ptr : Int]

Ordered(m) == \A i, j \in DOMAIN m : i < j => EndOf(m[i]) < m[j].addr

\* The n bytes from a are apart from the blocks of list m.
Clear(m, a, n) == \A i \in DOMAIN m : a + n <= m[i].addr \/ EndOf(m[i]) <= a

Disjoint(r, s) ==
  \/ StartOf(r) + RoundMb(r.bytes) <= StartOf(s)
  \/ StartOf(s) + RoundMb(s.bytes) <= StartOf(r)

\* List m and the set of owned blocks L fit together.
Fit(m, L) ==
  /\ m \in Seq(FreeBlock) /\ Ordered(m)
  /\ L \subseteq OwnedRecord
  /\ \A r \in L : Clear(m, StartOf(r), RoundMb(r.bytes))
  /\ \A r, s \in L : r # s => Disjoint(r, s)

\* The first inductive invariant, about the order of the list.
HeapInv == Fit(memlist, live)
-----------------------------------------------------------------------------
LEMMA RoundMbType ==
  ASSUME NEW n \in Nat \ {0}
  PROVE  RoundMb(n) \in Nat \ {0} /\ RoundMb(n) >= n
BY DEF RoundMb

LEMMA ListFacts ==
  ASSUME NEW m \in Seq(FreeBlock)
  PROVE  /\ Len(m) \in Nat /\ DOMAIN m = 1..Len(m)
         /\ \A i \in DOMAIN m :
              /\ m[i] \in FreeBlock /\ m[i].addr \in Int /\ m[i].len \in Nat \ {0}
              /\ EndOf(m[i]) = m[i].addr + m[i].len /\ EndOf(m[i]) \in Int
<1>1. Len(m) \in Nat /\ DOMAIN m = 1..Len(m)
  BY LenProperties
<1>2. \A i \in DOMAIN m : m[i] \in FreeBlock
  BY <1>1, ElementOfSeq
<1>3. \A b \in FreeBlock : /\ b.addr \in Int /\ b.len \in Nat \ {0}
                           /\ EndOf(b) = b.addr + b.len /\ EndOf(b) \in Int
  BY DEF FreeBlock, EndOf
<1>4. QED
  BY <1>1, <1>2, <1>3

LEMMA BlockFacts ==
  ASSUME NEW a \in Int, NEW n \in Nat \ {0}
  PROVE  /\ Block(a, n) \in FreeBlock /\ Block(a, n).addr = a
         /\ Block(a, n).len = n /\ EndOf(Block(a, n)) = a + n
BY DEF Block, FreeBlock, EndOf

\* A block is added to the list.
LEMMA InsertFacts ==
  ASSUME NEW m \in Seq(FreeBlock), NEW c \in 1..Len(m)+1, NEW b \in FreeBlock,
         NEW x, x = InsertAt(m, c, b)
  PROVE  /\ x \in Seq(FreeBlock) /\ Len(x) = Len(m) + 1
         /\ \A j \in 1..Len(m)+1 :
              x[j] = IF j < c THEN m[j] ELSE IF j = c THEN b ELSE m[j-1]
<1>1. InsertAt(m, c, b) \in Seq(FreeBlock) /\ Inserted(InsertAt(m, c, b), m, c, b)
  BY InsertAtInserts, Zenon
<1> QED BY <1>1 DEF Inserted

\* A block of the list is replaced by another.
LEMMA ReplaceFacts ==
  ASSUME NEW m \in Seq(FreeBlock), NEW i \in DOMAIN m, NEW b \in FreeBlock
  PROVE  /\ [m EXCEPT ![i] = b] \in Seq(FreeBlock)
         /\ DOMAIN [m EXCEPT ![i] = b] = DOMAIN m
         /\ Len([m EXCEPT ![i] = b]) = Len(m)
         /\ \A j \in DOMAIN m : [m EXCEPT ![i] = b][j] = IF j = i THEN b ELSE m[j]
<1>1. i \in 1..Len(m)
  BY LenProperties
<1>2. QED
  BY <1>1, ExceptSeq, LenProperties

-----------------------------------------------------------------------------
\* The blocks of w are parts of different blocks of m in the same order, block j
\* of block f[j].
PartsBy(w, m, f) ==
  /\ f \in [DOMAIN w -> DOMAIN m]
  /\ \A j, k \in DOMAIN w : j < k => f[j] < f[k]
  /\ \A j \in DOMAIN w : m[f[j]].addr <= w[j].addr /\ EndOf(w[j]) <= EndOf(m[f[j]])

\* The parts in w of block i are apart from the n bytes from a.
Spares(w, f, i, a, n) ==
  \A j \in DOMAIN w : f[j] = i => a + n <= w[j].addr \/ EndOf(w[j]) <= a

\* Such a list is ordered, is clear of the bytes taken from one block and of all
\* that m was clear of.
LEMMA PartsOfList ==
  ASSUME NEW m \in Seq(FreeBlock), Ordered(m), NEW w \in Seq(FreeBlock),
         NEW f, PartsBy(w, m, f),
         NEW i \in DOMAIN m, NEW a \in Int, NEW n \in Nat,
         m[i].addr <= a, a + n <= EndOf(m[i]), Spares(w, f, i, a, n)
  PROVE  /\ Ordered(w) /\ Clear(w, a, n)
         /\ \A b \in Int, k \in Nat : Clear(m, b, k) => Clear(w, b, k)
<1>0. /\ f \in [DOMAIN w -> DOMAIN m]
      /\ \A j, k \in DOMAIN w : j < k => f[j] < f[k]
      /\ \A j \in DOMAIN w : m[f[j]].addr <= w[j].addr /\ EndOf(w[j]) <= EndOf(m[f[j]])
      /\ \A j \in DOMAIN w : f[j] = i => a + n <= w[j].addr \/ EndOf(w[j]) <= a
  BY DEF PartsBy, Spares
<1>1. /\ DOMAIN m = 1..Len(m) /\ Len(m) \in Nat
      /\ \A j \in DOMAIN m : m[j].addr \in Int /\ EndOf(m[j]) \in Int
      /\ \A j \in DOMAIN w : w[j].addr \in Int /\ EndOf(w[j]) \in Int
      /\ \A j \in DOMAIN w : f[j] \in DOMAIN m
  BY <1>0, ListFacts
<1>2. Ordered(w)
  <2>1. SUFFICES ASSUME NEW j \in DOMAIN w, NEW k \in DOMAIN w, j < k
                 PROVE  EndOf(w[j]) < w[k].addr
    BY DEF Ordered
  <2>2. EndOf(m[f[j]]) < m[f[k]].addr
    <3>1. f[j] \in DOMAIN m /\ f[k] \in DOMAIN m /\ f[j] < f[k]
      BY <1>0, <1>1, <2>1
    <3>2. QED
      BY <3>1 DEF Ordered
  <2>3. EndOf(w[j]) <= EndOf(m[f[j]]) /\ m[f[k]].addr <= w[k].addr
    BY <1>0
  <2>4. PICK p \in Int, q \in Int, r \in Int, s \in Int :
          p = EndOf(w[j]) /\ q = EndOf(m[f[j]]) /\ r = m[f[k]].addr /\ s = w[k].addr
    BY <1>1
  <2>5. p <= q /\ q < r /\ r <= s
    BY <2>2, <2>3, <2>4
  <2>6. p < s
    BY <2>5
  <2>7. QED
    BY <2>4, <2>6
<1>3. Clear(w, a, n)
  <2>1. SUFFICES ASSUME NEW j \in DOMAIN w
                 PROVE  a + n <= w[j].addr \/ EndOf(w[j]) <= a
    BY DEF Clear
  <2>2. m[f[j]].addr <= w[j].addr /\ EndOf(w[j]) <= EndOf(m[f[j]])
    BY <1>0
  <2>3. CASE f[j] = i
    BY <1>0, <2>3
  <2>4. CASE f[j] < i
    <3>1. EndOf(m[f[j]]) < m[i].addr
      BY <1>1, <2>4 DEF Ordered
    <3>2. QED
      BY <1>1, <2>2, <3>1
  <2>5. CASE f[j] > i
    <3>1. EndOf(m[i]) < m[f[j]].addr
      BY <1>1, <2>5 DEF Ordered
    <3>2. QED
      BY <1>1, <2>2, <3>1
  <2>6. f[j] \in Int /\ i \in Int
    BY <1>1
  <2>7. QED
    BY <2>3, <2>4, <2>5, <2>6
<1>4. ASSUME NEW b \in Int, NEW k \in Nat, Clear(m, b, k) PROVE Clear(w, b, k)
  <2>1. SUFFICES ASSUME NEW j \in DOMAIN w
                 PROVE  b + k <= w[j].addr \/ EndOf(w[j]) <= b
    BY DEF Clear
  <2>2. m[f[j]].addr <= w[j].addr /\ EndOf(w[j]) <= EndOf(m[f[j]])
    BY <1>0
  <2>3. b + k <= m[f[j]].addr \/ EndOf(m[f[j]]) <= b
    BY <1>1, <1>4 DEF Clear
  <2>4. PICK p \in Int, q \in Int, r \in Int, s \in Int :
          p = m[f[j]].addr /\ q = w[j].addr /\ r = EndOf(w[j]) /\ s = EndOf(m[f[j]])
    BY <1>1
  <2>5. p <= q /\ r <= s /\ (b + k <= p \/ s <= b)
    BY <2>2, <2>3, <2>4
  <2>6. b + k <= q \/ r <= b
    BY <2>5
  <2>7. QED
    BY <2>4, <2>6
<1>5. QED
  BY <1>2, <1>3, <1>4

\* What getmem and getstk leave of the list when a block fits exactly.
LEMMA BlockRemoved ==
  ASSUME NEW m \in Seq(FreeBlock), Ordered(m), NEW i \in DOMAIN m,
         NEW w, w = RemoveAt(m, i)
  PROVE  /\ w \in Seq(FreeBlock) /\ Ordered(w) /\ Clear(w, m[i].addr, m[i].len)
         /\ \A b \in Int, k \in Nat : Clear(m, b, k) => Clear(w, b, k)
<1>1. /\ Len(m) \in Nat /\ DOMAIN m = 1..Len(m)
      /\ m[i].addr \in Int /\ m[i].len \in Nat /\ EndOf(m[i]) = m[i].addr + m[i].len
      /\ \A j \in DOMAIN m : m[j].addr \in Int /\ EndOf(m[j]) \in Int
  BY ListFacts
<1>2. /\ w \in Seq(FreeBlock) /\ Len(w) = Len(m) - 1
      /\ \A j \in 1..Len(m)-1 : w[j] = IF j < i THEN m[j] ELSE m[j+1]
  <2>1. w \in Seq(FreeBlock) /\ Removed(w, m, i)
    BY <1>1, RemoveAtRemoves, Zenon
  <2>2. QED
    BY <2>1 DEF Removed
<1>3. DOMAIN w = 1..Len(m)-1
  BY <1>2, LenProperties
<1> DEFINE f == [j \in DOMAIN w |-> IF j < i THEN j ELSE j+1]
<1>4. /\ f \in [DOMAIN w -> DOMAIN m]
      /\ \A j \in DOMAIN w : f[j] # i
      /\ \A j, k \in DOMAIN w : j < k => f[j] < f[k]
  BY <1>1, <1>3
<1>5. \A j \in DOMAIN w : w[j] = m[f[j]]
  BY <1>1, <1>2, <1>3
<1> HIDE DEF f
<1>6. \A j \in DOMAIN w : m[f[j]].addr <= w[j].addr /\ EndOf(w[j]) <= EndOf(m[f[j]])
  <2>1. SUFFICES ASSUME NEW j \in DOMAIN w
                 PROVE  m[f[j]].addr <= w[j].addr /\ EndOf(w[j]) <= EndOf(m[f[j]])
    OBVIOUS
  <2>2. f[j] \in DOMAIN m /\ w[j] = m[f[j]]
    BY <1>4, <1>5
  <2>3. QED
    BY <1>1, <2>2
<1>7. m[i].addr <= m[i].addr /\ m[i].addr + m[i].len <= EndOf(m[i])
  BY <1>1
<1>8. PartsBy(w, m, f) /\ Spares(w, f, i, m[i].addr, m[i].len)
  BY <1>4, <1>6 DEF PartsBy, Spares
<1>9. QED
  BY <1>1, <1>2, <1>7, <1>8, PartsOfList

\* What they leave when a block is split.
LEMMA BlockShrunk ==
  ASSUME NEW m \in Seq(FreeBlock), Ordered(m), NEW i \in DOMAIN m,
         NEW b \in FreeBlock, NEW w, w = [m EXCEPT ![i] = b],
         m[i].addr <= b.addr, EndOf(b) <= EndOf(m[i]),
         NEW a \in Int, NEW n \in Nat, m[i].addr <= a, a + n <= EndOf(m[i]),
         a + n <= b.addr \/ EndOf(b) <= a
  PROVE  /\ w \in Seq(FreeBlock) /\ Ordered(w) /\ Clear(w, a, n)
         /\ \A c \in Int, k \in Nat : Clear(m, c, k) => Clear(w, c, k)
<1>1. /\ w \in Seq(FreeBlock) /\ DOMAIN w = DOMAIN m
      /\ \A j \in DOMAIN m : w[j] = IF j = i THEN b ELSE m[j]
  BY ReplaceFacts
<1>2. \A j \in DOMAIN m : m[j].addr \in Int /\ EndOf(m[j]) \in Int
  BY ListFacts
<1> DEFINE f == [j \in DOMAIN w |-> j]
<1>3. /\ f \in [DOMAIN w -> DOMAIN m]
      /\ \A j \in DOMAIN w : f[j] = j
  BY <1>1
<1> HIDE DEF f
<1>4. \A j, k \in DOMAIN w : j < k => f[j] < f[k]
  BY <1>3
<1>5. \A j \in DOMAIN w : m[f[j]].addr <= w[j].addr /\ EndOf(w[j]) <= EndOf(m[f[j]])
  <2>1. SUFFICES ASSUME NEW j \in DOMAIN w
                 PROVE  m[j].addr <= w[j].addr /\ EndOf(w[j]) <= EndOf(m[j])
    BY <1>3
  <2>2. CASE j = i
    BY <1>1, <2>2
  <2>3. CASE j # i
    BY <1>1, <1>2, <2>3
  <2>4. QED
    BY <2>2, <2>3
<1>6. \A j \in DOMAIN w : f[j] = i => a + n <= w[j].addr \/ EndOf(w[j]) <= a
  BY <1>1, <1>3
<1>7. PartsBy(w, m, f) /\ Spares(w, f, i, a, n)
  BY <1>3, <1>4, <1>5, <1>6 DEF PartsBy, Spares
<1>8. QED
  BY <1>1, <1>7, PartsOfList

\* getmem takes its storage from the low end of a free block.
LEMMA LowEndTaken ==
  ASSUME NEW m \in Seq(FreeBlock), Ordered(m), NEW i \in DOMAIN m,
         NEW n \in Nat \ {0}, m[i].len >= n, NEW w, w = TakeLow(m, i, n)
  PROVE  /\ w \in Seq(FreeBlock) /\ Ordered(w) /\ Clear(w, m[i].addr, n)
         /\ \A c \in Int, k \in Nat : Clear(m, c, k) => Clear(w, c, k)
<1>1. m[i].addr \in Int /\ m[i].len \in Nat /\ EndOf(m[i]) = m[i].addr + m[i].len
  BY ListFacts
<1>2. CASE m[i].len = n
  <2>1. w = RemoveAt(m, i)
    BY <1>2 DEF TakeLow
  <2>2. QED
    BY <1>2, <2>1, BlockRemoved
<1>3. CASE m[i].len # n
  <2> DEFINE b == Block(m[i].addr + n, m[i].len - n)
  <2>1. w = [m EXCEPT ![i] = b]
    BY <1>3 DEF TakeLow
  <2>2. m[i].addr + n \in Int /\ m[i].len - n \in Nat \ {0}
    BY <1>1, <1>3
  <2>3. b \in FreeBlock /\ b.addr = m[i].addr + n /\ EndOf(b) = (m[i].addr + n) + (m[i].len - n)
    BY <2>2, BlockFacts
  <2> HIDE DEF b
  <2>4. /\ m[i].addr <= b.addr /\ EndOf(b) <= EndOf(m[i])
        /\ m[i].addr <= m[i].addr /\ m[i].addr + n <= EndOf(m[i])
        /\ m[i].addr + n <= b.addr
    BY <1>1, <2>3
  <2>5. QED
    BY <1>1, <2>1, <2>3, <2>4, BlockShrunk
<1>4. QED
  BY <1>2, <1>3

\* getstk takes its storage from the high end of a free block.
LEMMA HighEndTaken ==
  ASSUME NEW m \in Seq(FreeBlock), Ordered(m), NEW i \in DOMAIN m,
         NEW n \in Nat \ {0}, m[i].len >= n, NEW w, w = TakeHigh(m, i, n)
  PROVE  /\ w \in Seq(FreeBlock) /\ Ordered(w) /\ Clear(w, EndOf(m[i]) - n, n)
         /\ \A c \in Int, k \in Nat : Clear(m, c, k) => Clear(w, c, k)
<1>1. m[i].addr \in Int /\ m[i].len \in Nat /\ EndOf(m[i]) = m[i].addr + m[i].len
  BY ListFacts
<1>2. CASE m[i].len = n
  <2>1. w = RemoveAt(m, i) /\ EndOf(m[i]) - n = m[i].addr
    BY <1>1, <1>2 DEF TakeHigh
  <2>2. QED
    BY <1>2, <2>1, BlockRemoved
<1>3. CASE m[i].len # n
  <2> DEFINE b == Block(m[i].addr, m[i].len - n)
             a == EndOf(m[i]) - n
  <2>1. m[i].len - n \in Nat \ {0}
    BY <1>1, <1>3
  <2>2. w = [m EXCEPT ![i] = b]
    BY <1>3 DEF TakeHigh
  <2>3. b \in FreeBlock /\ b.addr = m[i].addr /\ EndOf(b) = m[i].addr + (m[i].len - n)
    BY <1>1, <2>1, BlockFacts
  <2> HIDE DEF b
  <2>4. /\ a \in Int
        /\ m[i].addr <= b.addr /\ EndOf(b) <= EndOf(m[i])
        /\ m[i].addr <= a /\ a + n <= EndOf(m[i])
        /\ EndOf(b) <= a
    BY <1>1, <2>1, <2>3, SMTT(30)
  <2> HIDE DEF a
  <2>5. Ordered(w) /\ w \in Seq(FreeBlock) /\ Clear(w, a, n)
        /\ \A c \in Int, k \in Nat : Clear(m, c, k) => Clear(w, c, k)
    BY <2>2, <2>3, <2>4, BlockShrunk
  <2>6. QED
    BY <2>5 DEF a
<1>4. QED
  BY <1>2, <1>3

\* What is taken from a free block is apart from everything the list was clear of.
LEMMA TakenApart ==
  ASSUME NEW m \in Seq(FreeBlock), NEW i \in DOMAIN m,
         NEW a \in Int, NEW n \in Nat, m[i].addr <= a, a + n <= EndOf(m[i]),
         NEW b \in Int, NEW k \in Nat, Clear(m, b, k)
  PROVE  a + n <= b \/ b + k <= a
<1>1. m[i].addr \in Int /\ EndOf(m[i]) \in Int
  BY ListFacts
<1>2. b + k <= m[i].addr \/ EndOf(m[i]) <= b
  BY DEF Clear
<1>3. QED
  BY <1>1, <1>2

\* The start and the length of an owned block are numbers.
LEMMA OwnedFacts ==
  ASSUME NEW r \in OwnedRecord
  PROVE  /\ StartOf(r) \in Int /\ RoundMb(r.bytes) \in Nat \ {0}
         /\ r.bytes \in Nat \ {0}
<1>1. r.bytes \in Nat \ {0} /\ r.ptr \in Int
  BY DEF OwnedRecord
<1>2. RoundMb(r.bytes) \in Nat \ {0}
  BY <1>1, RoundMbType
<1>3. QED
  BY <1>1, <1>2 DEF StartOf

\* Storage taken from a free block gets an owner.
LEMMA NewOwner ==
  ASSUME NEW m, NEW L, Fit(m, L), NEW i \in DOMAIN m, NEW r \in OwnedRecord,
         m[i].addr <= StartOf(r), StartOf(r) + RoundMb(r.bytes) <= EndOf(m[i]),
         NEW w \in Seq(FreeBlock), Ordered(w), Clear(w, StartOf(r), RoundMb(r.bytes)),
         \A c \in Int, k \in Nat : Clear(m, c, k) => Clear(w, c, k)
  PROVE  Fit(w, L \cup {r})
<1>1. /\ m \in Seq(FreeBlock) /\ Ordered(m) /\ L \subseteq OwnedRecord
      /\ \A s \in L : Clear(m, StartOf(s), RoundMb(s.bytes))
      /\ \A s, t \in L : s # t => Disjoint(s, t)
  BY DEF Fit
<1>2. \A s \in L \cup {r} : StartOf(s) \in Int /\ RoundMb(s.bytes) \in Nat
  BY <1>1, OwnedFacts
<1>3. \A s \in L : Clear(w, StartOf(s), RoundMb(s.bytes))
  BY <1>1, <1>2
<1>4. \A s \in L : Disjoint(r, s) /\ Disjoint(s, r)
  <2>1. SUFFICES ASSUME NEW s \in L PROVE Disjoint(r, s) /\ Disjoint(s, r)
    OBVIOUS
  <2>2. \/ StartOf(r) + RoundMb(r.bytes) <= StartOf(s)
        \/ StartOf(s) + RoundMb(s.bytes) <= StartOf(r)
    <3>1. /\ StartOf(s) \in Int /\ RoundMb(s.bytes) \in Nat
          /\ StartOf(r) \in Int /\ RoundMb(r.bytes) \in Nat
          /\ Clear(m, StartOf(s), RoundMb(s.bytes))
      BY <1>1, <1>2
    <3>2. QED
      BY <1>1, <3>1, TakenApart
  <2>3. QED
    BY <2>2 DEF Disjoint
<1>5. \A s, t \in L \cup {r} : s # t => Disjoint(s, t)
  BY <1>1, <1>4
<1>6. QED
  BY <1>1, <1>3, <1>5 DEF Fit
-----------------------------------------------------------------------------
\* The free blocks that the search of freemem passes lie below the address, and
\* the others do not.
LEMMA PassedSplits ==
  ASSUME NEW m \in Seq(FreeBlock), Ordered(m), NEW a \in Int, NEW k, k = Passed(m, a)
  PROVE  /\ k \in 0 .. Len(m)
         /\ \A j \in DOMAIN m : IF j <= k THEN m[j].addr < a ELSE m[j].addr >= a
<1>1. /\ Len(m) \in Nat /\ DOMAIN m = 1..Len(m)
      /\ \A j \in DOMAIN m : /\ m[j].addr \in Int /\ m[j].len \in Nat \ {0}
                             /\ EndOf(m[j]) = m[j].addr + m[j].len
  BY ListFacts
<1> DEFINE stop == {j \in DOMAIN m : m[j].addr >= a}
<1>2. CASE stop = {}
  <2>1. k = Len(m)
    BY <1>2 DEF Passed
  <2>2. \A j \in DOMAIN m : j <= k /\ m[j].addr < a
    BY <1>1, <1>2, <2>1
  <2>3. QED
    BY <1>1, <2>1, <2>2
<1>3. CASE stop # {}
  <2>1. k = Min(stop) - 1
    BY <1>3 DEF Passed
  <2>2. stop \in SUBSET Nat
    BY <1>1
  <2>3. Min(stop) \in stop /\ \A j \in stop : Min(stop) <= j
    <3> HIDE DEF stop
    <3>1. QED
      BY <1>3, <2>2, MinOfNats
  <2>4. PICK s \in DOMAIN m : /\ s = Min(stop) /\ m[s].addr >= a
                              /\ \A j \in DOMAIN m : m[j].addr >= a => s <= j
    BY <2>3
  <2>5. k = s - 1 /\ s \in 1..Len(m)
    BY <1>1, <2>1, <2>4
  <2>6. ASSUME NEW j \in DOMAIN m
        PROVE  IF j <= k THEN m[j].addr < a ELSE m[j].addr >= a
    <3>0. m[j].addr \in Int /\ j \in 1..Len(m)
      BY <1>1
    <3>1. CASE j <= k
      <4>1. ~(s <= j)
        BY <2>5, <3>0, <3>1
      <4>2. ~(m[j].addr >= a)
        BY <2>4, <4>1
      <4>3. m[j].addr < a
        BY <3>0, <4>2
      <4>4. QED
        BY <3>1, <4>3
    <3>2. CASE ~(j <= k)
      <4>1. j = s \/ s < j
        BY <1>1, <2>5, <3>2
      <4>2. s < j => EndOf(m[s]) < m[j].addr
        BY DEF Ordered
      <4>3. m[j].addr >= a
        BY <1>1, <2>4, <4>1, <4>2
      <4>4. QED
        BY <3>2, <4>3
    <3>3. QED
      BY <3>1, <3>2
  <2>7. k \in 0 .. Len(m)
    BY <1>1, <2>5
  <2>8. QED
    BY <2>6, <2>7
<1>4. QED
  BY <1>2, <1>3

\* Bytes that overlap a free block are refused by the tests of freemem.
LEMMA StaleRefused ==
  ASSUME NEW m \in Seq(FreeBlock), Ordered(m), NEW a \in Int, NEW n \in Nat,
         NEW i \in DOMAIN m, m[i].addr < a + n, a < EndOf(m[i])
  PROVE  Overlaps(m, a, n)
<1> DEFINE k == Passed(m, a)
<1>1. /\ Len(m) \in Nat /\ DOMAIN m = 1..Len(m)
      /\ \A j \in DOMAIN m : /\ m[j].addr \in Int /\ m[j].len \in Nat \ {0}
                             /\ EndOf(m[j]) = m[j].addr + m[j].len
  BY ListFacts
<1>2. /\ k \in 0 .. Len(m)
      /\ \A j \in DOMAIN m : IF j <= k THEN m[j].addr < a ELSE m[j].addr >= a
  BY PassedSplits
<1>3. Overlaps(m, a, n) <=> \/ k > 0 /\ a < EndOf(m[k])
                            \/ k < Len(m) /\ a + n > m[k + 1].addr
  BY DEF Overlaps
<1> HIDE DEF k
<1>4. CASE i <= k
  <2>1. k > 0 /\ k \in DOMAIN m
    BY <1>1, <1>2, <1>4
  <2>2. i = k \/ EndOf(m[i]) < m[k].addr
    <3>1. i = k \/ i < k
      BY <1>1, <1>2, <1>4
    <3>2. QED
      BY <2>1, <3>1 DEF Ordered
  <2>3. a < EndOf(m[k])
    <3>1. CASE i = k
      BY <3>1
    <3>2. CASE EndOf(m[i]) < m[k].addr
      <4>1. PICK b \in Int, l \in Nat, x \in Int :
              b = m[k].addr /\ l = m[k].len /\ x = EndOf(m[i]) /\ EndOf(m[k]) = b + l
        BY <1>1, <2>1
      <4>2. a < x /\ x < b
        BY <3>2, <4>1
      <4>3. a < b + l
        BY <4>1, <4>2
      <4>4. QED
        BY <4>1, <4>3
    <3>3. QED
      BY <2>2, <3>1, <3>2
  <2>4. QED
    BY <1>3, <2>1, <2>3
<1>5. CASE ~(i <= k)
  <2>1. k < Len(m) /\ k + 1 \in DOMAIN m
    BY <1>1, <1>2, <1>5
  <2>2. i = k + 1 \/ EndOf(m[k + 1]) < m[i].addr
    <3>1. i = k + 1 \/ k + 1 < i
      BY <1>1, <1>2, <1>5
    <3>2. QED
      BY <2>1, <3>1 DEF Ordered
  <2>3. m[k + 1].addr < a + n
    BY <1>1, <2>1, <2>2
  <2>4. QED
    BY <1>1, <1>3, <2>1, <2>3
<1>6. QED
  BY <1>4, <1>5

\* Bytes that the list is clear of are not refused.
LEMMA ClearAccepted ==
  ASSUME NEW m \in Seq(FreeBlock), Ordered(m), NEW a \in Int, NEW n \in Nat \ {0},
         Clear(m, a, n)
  PROVE  ~Overlaps(m, a, n)
<1> DEFINE k == Passed(m, a)
<1>1. /\ Len(m) \in Nat /\ DOMAIN m = 1..Len(m)
      /\ \A j \in DOMAIN m : /\ m[j].addr \in Int /\ m[j].len \in Nat \ {0}
                             /\ EndOf(m[j]) = m[j].addr + m[j].len
  BY ListFacts
<1>2. /\ k \in 0 .. Len(m)
      /\ \A j \in DOMAIN m : IF j <= k THEN m[j].addr < a ELSE m[j].addr >= a
  BY PassedSplits
<1>3. Overlaps(m, a, n) <=> \/ k > 0 /\ a < EndOf(m[k])
                            \/ k < Len(m) /\ a + n > m[k + 1].addr
  BY DEF Overlaps
<1> HIDE DEF k
<1>4. \A j \in DOMAIN m : a + n <= m[j].addr \/ EndOf(m[j]) <= a
  BY DEF Clear
<1>5. k > 0 => ~(a < EndOf(m[k]))
  <2>1. SUFFICES ASSUME k > 0 PROVE ~(a < EndOf(m[k]))
    OBVIOUS
  <2>2. k \in DOMAIN m /\ m[k].addr < a
    BY <1>1, <1>2, <2>1
  <2>3. QED
    BY <1>1, <1>4, <2>2
<1>6. k < Len(m) => ~(a + n > m[k + 1].addr)
  <2>1. SUFFICES ASSUME k < Len(m) PROVE ~(a + n > m[k + 1].addr)
    OBVIOUS
  <2>2. k + 1 \in DOMAIN m /\ m[k + 1].addr >= a
    BY <1>1, <1>2, <2>1
  <2>3. QED
    BY <1>1, <1>4, <2>2
<1>7. QED
  BY <1>3, <1>5, <1>6
-----------------------------------------------------------------------------
\* A list in order in which only block c and the one after it may touch.
OrderedBut(m, c) ==
  \A i, j \in DOMAIN m :
    i < j => IF i = c /\ j = c + 1 THEN EndOf(m[i]) <= m[j].addr ELSE EndOf(m[i]) < m[j].addr

\* Merging that block with the next, if they touch, puts the list in order, and
\* frees no byte.
LEMMA MergeOrders ==
  ASSUME NEW m \in Seq(FreeBlock), NEW c \in DOMAIN m, OrderedBut(m, c),
         NEW w, w = MergeNext(m, c)
  PROVE  /\ w \in Seq(FreeBlock) /\ Ordered(w)
         /\ \A b \in Int, l \in Nat \ {0} : Clear(m, b, l) => Clear(w, b, l)
<1>1. /\ Len(m) \in Nat /\ DOMAIN m = 1..Len(m)
      /\ \A j \in DOMAIN m : /\ m[j].addr \in Int /\ m[j].len \in Nat \ {0}
                             /\ EndOf(m[j]) = m[j].addr + m[j].len
  BY ListFacts
<1>2. CASE ~(c < Len(m) /\ EndOf(m[c]) = m[c + 1].addr)
  <2>1. w = m
    BY <1>2 DEF MergeNext
  <2>2. ASSUME NEW i \in DOMAIN m, NEW j \in DOMAIN m, i < j
        PROVE  EndOf(m[i]) < m[j].addr
    <3>1. CASE i = c /\ j = c + 1
      <4>1. EndOf(m[i]) <= m[j].addr
        BY <2>2, <3>1 DEF OrderedBut
      <4>2. EndOf(m[i]) # m[j].addr
        BY <1>1, <1>2, <3>1
      <4>3. EndOf(m[i]) \in Int /\ m[j].addr \in Int
        BY ListFacts
      <4>4. QED
        BY <4>1, <4>2, <4>3
    <3>2. CASE ~(i = c /\ j = c + 1)
      BY <2>2, <3>2 DEF OrderedBut
    <3>3. QED
      BY <3>1, <3>2
  <2>3. Ordered(m)
    BY <2>2 DEF Ordered
  <2>4. QED
    BY <2>1, <2>3
<1>3. CASE c < Len(m) /\ EndOf(m[c]) = m[c + 1].addr
  <2> DEFINE both == Block(m[c].addr, m[c].len + m[c + 1].len)
             x == [m EXCEPT ![c] = both]
  <2>1. c + 1 \in DOMAIN m
    BY <1>1, <1>3
  <2>2. /\ both \in FreeBlock /\ both.addr = m[c].addr
        /\ EndOf(both) = EndOf(m[c + 1])
    <3>1. m[c].addr \in Int /\ m[c].len + m[c + 1].len \in Nat \ {0}
      BY <1>1, <2>1
    <3>2. both \in FreeBlock /\ both.addr = m[c].addr
          /\ EndOf(both) = m[c].addr + (m[c].len + m[c + 1].len)
      BY <3>1, BlockFacts
    <3>3. m[c].addr + (m[c].len + m[c + 1].len) = EndOf(m[c + 1])
      BY <1>1, <1>3, <2>1
    <3>4. QED
      BY <3>2, <3>3
  <2> HIDE DEF both
  <2>3. /\ x \in Seq(FreeBlock) /\ Len(x) = Len(m)
        /\ \A j \in DOMAIN m : x[j] = IF j = c THEN both ELSE m[j]
    BY <2>2, ReplaceFacts
  <2>4. w = RemoveAt(x, c + 1)
    BY <1>3 DEF MergeNext, both
  <2> HIDE DEF x
  <2>5. /\ w \in Seq(FreeBlock) /\ Len(w) = Len(m) - 1
        /\ \A j \in 1..Len(m)-1 : w[j] = IF j < c + 1 THEN x[j] ELSE x[j + 1]
    <3>1. c + 1 \in 1..Len(x)
      BY <1>1, <2>1, <2>3
    <3>2. /\ w \in Seq(FreeBlock) /\ Len(w) = Len(x) - 1
          /\ \A j \in 1..Len(x)-1 : w[j] = IF j < c + 1 THEN x[j] ELSE x[j + 1]
      <4>1. w \in Seq(FreeBlock) /\ Removed(w, x, c + 1)
        BY <2>3, <2>4, <3>1, RemoveAtRemoves, Zenon
      <4>2. QED
        BY <4>1 DEF Removed
    <3>3. QED
      BY <2>3, <3>2
  <2>6. DOMAIN w = 1..Len(m)-1
    BY <2>5, LenProperties
  <2>7. \A j \in DOMAIN w :
          w[j] = IF j = c THEN both ELSE IF j < c THEN m[j] ELSE m[j + 1]
    <3>1. SUFFICES ASSUME NEW j \in DOMAIN w
                   PROVE  w[j] = IF j = c THEN both ELSE IF j < c THEN m[j] ELSE m[j + 1]
      OBVIOUS
    <3>2. j \in DOMAIN m /\ j + 1 \in DOMAIN m /\ c \in Int
      BY <1>1, <2>6
    <3>0. w[j] = IF j < c + 1 THEN x[j] ELSE x[j + 1]
      BY <2>5, <2>6
    <3>3. CASE j < c + 1
      <4>1. j = c \/ j < c
        BY <2>6, <3>2, <3>3
      <4>2. w[j] = IF j = c THEN both ELSE m[j]
        BY <2>3, <3>0, <3>2, <3>3
      <4> QED BY <4>1, <4>2
    <3>4. CASE ~(j < c + 1)
      <4>1. j # c /\ ~(j < c) /\ j + 1 # c
        BY <2>6, <3>2, <3>4
      <4>2. w[j] = m[j + 1]
        BY <2>3, <3>0, <3>2, <3>4, <4>1
      <4> QED BY <4>1, <4>2
    <3>5. QED
      BY <3>3, <3>4
  <2>8. Ordered(w)
    <3>1. SUFFICES ASSUME NEW i \in DOMAIN w, NEW j \in DOMAIN w, i < j
                   PROVE  EndOf(w[i]) < w[j].addr
      BY DEF Ordered
    <3>2. /\ i \in DOMAIN m /\ i + 1 \in DOMAIN m /\ i \in Int
          /\ j \in DOMAIN m /\ j + 1 \in DOMAIN m /\ j \in Int /\ c \in Int
      BY <1>1, <2>6
    <3>3. \A p, q \in DOMAIN m : p < q /\ ~(p = c /\ q = c + 1) => EndOf(m[p]) < m[q].addr
      BY DEF OrderedBut
    <3>4. CASE j <= c
      <4>1. w[i] = m[i] /\ w[j].addr = m[j].addr
        BY <2>2, <2>7, <3>1, <3>2, <3>4
      <4>2. EndOf(m[i]) < m[j].addr
        BY <3>1, <3>2, <3>3, <3>4
      <4>3. QED
        BY <4>1, <4>2
    <3>5. CASE i >= c
      <4>1. EndOf(w[i]) = EndOf(m[i + 1]) /\ w[j] = m[j + 1]
        BY <2>2, <2>7, <3>1, <3>2, <3>5
      <4>2. i + 1 < j + 1 /\ i + 1 # c
        BY <3>1, <3>2, <3>5
      <4>3. EndOf(m[i + 1]) < m[j + 1].addr
        BY <3>2, <3>3, <4>2
      <4>4. QED
        BY <4>1, <4>3
    <3>6. CASE i < c /\ c < j
      <4>1. w[i] = m[i] /\ w[j] = m[j + 1]
        BY <2>7, <3>2, <3>6
      <4>2. EndOf(m[i]) < m[j + 1].addr
        BY <3>1, <3>2, <3>3, <3>6
      <4>3. QED
        BY <4>1, <4>2
    <3>7. QED
      BY <3>2, <3>4, <3>5, <3>6
  <2>9. ASSUME NEW b \in Int, NEW l \in Nat \ {0}, Clear(m, b, l) PROVE Clear(w, b, l)
    <3>1. SUFFICES ASSUME NEW j \in DOMAIN w
                   PROVE  b + l <= w[j].addr \/ EndOf(w[j]) <= b
      BY DEF Clear
    <3>2. j \in DOMAIN m /\ j + 1 \in DOMAIN m /\ c \in DOMAIN m
      BY <1>1, <2>6
    <3>3. \A i \in DOMAIN m : b + l <= m[i].addr \/ EndOf(m[i]) <= b
      BY <2>9 DEF Clear
    <3>4. CASE j = c
      <4>1. w[j].addr = m[c].addr /\ EndOf(w[j]) = EndOf(m[c + 1])
        BY <2>2, <2>7, <3>4
      <4>2. b + l <= m[c].addr \/ EndOf(m[c]) <= b
        BY <3>3
      <4>3. b + l <= EndOf(m[c]) \/ EndOf(m[c + 1]) <= b
        BY <1>3, <2>1, <3>3
      <4>4. QED
        BY <1>1, <4>1, <4>2, <4>3
    <3>5. CASE j # c
      BY <2>7, <3>2, <3>3, <3>5
    <3>6. QED
      BY <3>4, <3>5
  <2>10. QED
    BY <2>5, <2>8, <2>9
<1>4. QED
  BY <1>2, <1>3

\* freemem: a block that its tests accept leaves the list in order, and only its
\* bytes become free.
LEMMA FreedBlockLinked ==
  ASSUME NEW m \in Seq(FreeBlock), Ordered(m), NEW a \in Int, NEW n \in Nat \ {0},
         ~Overlaps(m, a, n), NEW w, w = LinkAfter(m, Passed(m, a), a, n)
  PROVE  /\ w \in Seq(FreeBlock) /\ Ordered(w)
         /\ \A b \in Int, l \in Nat \ {0} :
              Clear(m, b, l) /\ (a + n <= b \/ b + l <= a) => Clear(w, b, l)
<1> DEFINE k == Passed(m, a)
<1>1. /\ Len(m) \in Nat /\ DOMAIN m = 1..Len(m)
      /\ \A j \in DOMAIN m : /\ m[j].addr \in Int /\ m[j].len \in Nat \ {0}
                             /\ EndOf(m[j]) = m[j].addr + m[j].len
  BY ListFacts
<1>2. /\ k \in 0 .. Len(m)
      /\ \A j \in DOMAIN m : IF j <= k THEN m[j].addr < a ELSE m[j].addr >= a
  BY PassedSplits
<1>3. /\ k > 0 => ~(a < EndOf(m[k]))
      /\ k < Len(m) => ~(a + n > m[k + 1].addr)
  BY DEF Overlaps
<1>4. w = LinkAfter(m, k, a, n)
  OBVIOUS
<1> HIDE DEF k
<1>5. ASSUME NEW i \in DOMAIN m, i <= k PROVE EndOf(m[i]) <= a /\ (i < k => EndOf(m[i]) < a)
  <2>1. k > 0 /\ k \in DOMAIN m
    BY <1>1, <1>2, <1>5
  <2>2. EndOf(m[k]) <= a
    BY <1>1, <1>3, <2>1
  <2>3. i = k \/ EndOf(m[i]) < m[k].addr
    <3>1. i = k \/ i < k
      BY <1>1, <1>2, <1>5
    <3>2. QED
      BY <2>1, <3>1 DEF Ordered
  <2>4. PICK p \in Int, q \in Int, r \in Int, l \in Nat \ {0} :
          p = EndOf(m[i]) /\ q = m[k].addr /\ l = m[k].len /\ r = EndOf(m[k])
    BY <1>1, <2>1
  <2>5. r = q + l
    BY <1>1, <2>1, <2>4
  <2>6. CASE i = k
    BY <2>2, <2>4, <2>6
  <2>7. CASE p < q
    <3>0. r <= a
      BY <2>2, <2>4
    <3>1. p < a
      BY <3>0, <2>5, <2>7
    <3>2. QED
      BY <2>4, <3>1
  <2>8. QED
    BY <2>3, <2>4, <2>6, <2>7
<1>6. ASSUME NEW i \in DOMAIN m, i > k
      PROVE  a + n <= m[i].addr /\ (i > k + 1 => a + n < m[i].addr)
  <2>1. k < Len(m) /\ k + 1 \in DOMAIN m
    BY <1>1, <1>2, <1>6
  <2>2. a + n <= m[k + 1].addr
    BY <1>1, <1>3, <2>1
  <2>3. i = k + 1 \/ EndOf(m[k + 1]) < m[i].addr
    <3>1. i = k + 1 \/ k + 1 < i
      BY <1>1, <1>2, <1>6
    <3>2. QED
      BY <2>1, <3>1 DEF Ordered
  <2>4. PICK p \in Int, q \in Int, r \in Int, l \in Nat \ {0} :
          p = m[i].addr /\ q = m[k + 1].addr /\ l = m[k + 1].len /\ r = EndOf(m[k + 1])
    BY <1>1, <2>1
  <2>5. r = q + l
    BY <1>1, <2>1, <2>4
  <2>6. CASE i = k + 1
    BY <2>2, <2>6
  <2>7. CASE r < p
    <3>0. a + n <= q
      BY <2>2, <2>4
    <3>1. a + n < p
      BY <3>0, <2>5, <2>7
    <3>2. QED
      BY <2>4, <3>1
  <2>8. QED
    BY <2>3, <2>4, <2>6, <2>7
<1>7. \A i, j \in DOMAIN m : i < j => EndOf(m[i]) < m[j].addr
  BY DEF Ordered
<1>8. CASE k > 0 /\ EndOf(m[k]) = a
  <2> DEFINE grown == Block(m[k].addr, m[k].len + n)
             x == [m EXCEPT ![k] = grown]
  <2>1. k \in DOMAIN m
    BY <1>1, <1>2, <1>8
  <2>2. grown \in FreeBlock /\ grown.addr = m[k].addr /\ EndOf(grown) = a + n
    <3>1. m[k].addr \in Int /\ m[k].len + n \in Nat \ {0}
          /\ m[k].addr + (m[k].len + n) = a + n
      BY <1>1, <1>8, <2>1
    <3>2. grown \in FreeBlock /\ grown.addr = m[k].addr
          /\ EndOf(grown) = m[k].addr + (m[k].len + n)
      BY <3>1, BlockFacts
    <3>3. QED
      BY <3>1, <3>2
  <2>3. w = MergeNext(x, k)
    BY <1>4, <1>8 DEF LinkAfter
  <2> HIDE DEF grown
  <2>4. /\ x \in Seq(FreeBlock) /\ DOMAIN x = DOMAIN m
        /\ \A j \in DOMAIN m : x[j] = IF j = k THEN grown ELSE m[j]
    BY <2>1, <2>2, ReplaceFacts
  <2> HIDE DEF x
  <2>5. OrderedBut(x, k)
    <3>1. SUFFICES ASSUME NEW i \in DOMAIN m, NEW j \in DOMAIN m, i < j
                   PROVE  IF i = k /\ j = k + 1 THEN EndOf(x[i]) <= x[j].addr
                          ELSE EndOf(x[i]) < x[j].addr
      BY <2>4 DEF OrderedBut
    <3>2. x[j].addr = m[j].addr
      BY <2>2, <2>4
    <3>3. CASE i = k
      <4>1. EndOf(x[i]) = a + n
        BY <2>2, <2>4, <3>3
      <4>2. j > k /\ (j = k + 1 \/ j > k + 1)
        BY <1>1, <2>1, <3>1, <3>3
      <4>3. QED
        BY <1>1, <1>6, <3>2, <3>3, <4>1, <4>2
    <3>4. CASE i # k
      BY <1>7, <2>4, <3>1, <3>2, <3>4
    <3>5. QED
      BY <3>3, <3>4
  <2>6. ASSUME NEW b \in Int, NEW l \in Nat \ {0}, Clear(m, b, l), a + n <= b \/ b + l <= a
        PROVE  Clear(x, b, l)
    <3>1. SUFFICES ASSUME NEW j \in DOMAIN m
                   PROVE  b + l <= x[j].addr \/ EndOf(x[j]) <= b
      BY <2>4 DEF Clear
    <3>2. b + l <= m[j].addr \/ EndOf(m[j]) <= b
      BY <2>6 DEF Clear
    <3>3. CASE j = k
      <4>1. x[j].addr = m[k].addr /\ EndOf(x[j]) = a + n
        BY <2>2, <2>4, <3>3
      <4>2. b + l <= m[k].addr \/ a <= b
        BY <1>8, <3>2, <3>3
      <4>3. QED
        BY <1>1, <2>1, <2>6, <4>1, <4>2
    <3>4. CASE j # k
      BY <2>4, <3>2, <3>4
    <3>5. QED
      BY <3>3, <3>4
  <2>7. /\ w \in Seq(FreeBlock) /\ Ordered(w)
        /\ \A b \in Int, l \in Nat \ {0} : Clear(x, b, l) => Clear(w, b, l)
    BY <2>1, <2>3, <2>4, <2>5, MergeOrders
  <2>8. QED
    BY <2>6, <2>7
<1>9. CASE ~(k > 0 /\ EndOf(m[k]) = a)
  <2> DEFINE new == Block(a, n)
             c == k + 1
             x == InsertAt(m, c, new)
  <2>1. w = MergeNext(x, c)
    BY <1>4, <1>9 DEF LinkAfter
  <2>2. new \in FreeBlock /\ new.addr = a /\ EndOf(new) = a + n
    BY BlockFacts
  <2>3. c \in 1..Len(m)+1 /\ c = k + 1 /\ k \in Int
    BY <1>1, <1>2
  <2>4. /\ x \in Seq(FreeBlock) /\ Len(x) = Len(m) + 1
        /\ \A j \in 1..Len(m)+1 :
             x[j] = IF j < c THEN m[j] ELSE IF j = c THEN new ELSE m[j-1]
    <3>1. x = InsertAt(m, c, new)
      OBVIOUS
    <3> HIDE DEF x, new, c
    <3>2. x \in Seq(FreeBlock) /\ Inserted(x, m, c, new)
      BY <2>2, <2>3, <3>1, InsertAtInserts, Zenon
    <3>3. QED
      BY <3>2 DEF Inserted
  <2> HIDE DEF x, new, c
  <2>5. DOMAIN x = 1..Len(m)+1
    BY <2>4, LenProperties
  <2>6. \A j \in DOMAIN x :
          \/ j < c /\ j \in DOMAIN m /\ j <= k /\ x[j] = m[j]
          \/ j = c /\ x[j] = new
          \/ j > c /\ j - 1 \in DOMAIN m /\ j - 1 > k /\ x[j] = m[j - 1]
    BY <1>1, <2>3, <2>4, <2>5
  <2>7. \A i \in DOMAIN m : i <= k => EndOf(m[i]) < a
    <3>1. SUFFICES ASSUME NEW i \in DOMAIN m, i <= k PROVE EndOf(m[i]) < a
      OBVIOUS
    <3>2. CASE i = k
      <4>1. EndOf(m[i]) <= a /\ EndOf(m[i]) # a
        BY <1>1, <1>5, <1>9, <3>2
      <4>2. EndOf(m[i]) \in Int
        BY ListFacts
      <4>3. QED
        BY <4>1, <4>2
    <3>3. CASE i # k
      BY <1>1, <1>2, <1>5, <3>1, <3>3
    <3>4. QED
      BY <3>2, <3>3
  <2>8. OrderedBut(x, c)
    <3>1. SUFFICES ASSUME NEW i \in DOMAIN x, NEW j \in DOMAIN x, i < j
                   PROVE  IF i = c /\ j = c + 1 THEN EndOf(x[i]) <= x[j].addr
                          ELSE EndOf(x[i]) < x[j].addr
      BY DEF OrderedBut
    <3>2. i \in Int /\ j \in Int /\ c \in Int
      BY <2>3, <2>5
    <3>3. CASE j < c
      BY <1>7, <2>6, <3>1, <3>2, <3>3
    <3>4. CASE j = c
      BY <2>2, <2>6, <2>7, <3>1, <3>2, <3>4
    <3>5. CASE j > c /\ i < c
      <4>1. x[i] = m[i] /\ x[j] = m[j - 1] /\ i \in DOMAIN m /\ j - 1 \in DOMAIN m /\ i < j - 1
        BY <2>6, <3>2, <3>5
      <4>2. QED
        BY <1>7, <3>2, <3>5, <4>1
    <3>6. CASE i = c
      <4>1. EndOf(x[i]) = a + n /\ x[j] = m[j - 1] /\ j - 1 \in DOMAIN m /\ j - 1 > k
        BY <2>2, <2>6, <3>1, <3>2, <3>6
      <4>2. a + n <= m[j - 1].addr /\ (j - 1 > k + 1 => a + n < m[j - 1].addr)
        BY <1>6, <4>1
      <4>3. j # c + 1 => j - 1 > k + 1
        BY <2>3, <3>1, <3>2, <3>6
      <4>4. QED
        BY <3>6, <4>1, <4>2, <4>3
    <3>7. CASE i > c
      <4>1. /\ x[i] = m[i - 1] /\ x[j] = m[j - 1] /\ i - 1 \in DOMAIN m /\ j - 1 \in DOMAIN m
            /\ i - 1 < j - 1
        BY <2>6, <3>1, <3>2, <3>7
      <4>2. QED
        BY <1>7, <3>2, <3>7, <4>1
    <3>8. QED
      BY <3>2, <3>3, <3>4, <3>5, <3>6, <3>7
  <2>9. ASSUME NEW b \in Int, NEW l \in Nat \ {0}, Clear(m, b, l), a + n <= b \/ b + l <= a
        PROVE  Clear(x, b, l)
    <3>1. SUFFICES ASSUME NEW j \in DOMAIN x
                   PROVE  b + l <= x[j].addr \/ EndOf(x[j]) <= b
      BY DEF Clear
    <3>2. \A i \in DOMAIN m : b + l <= m[i].addr \/ EndOf(m[i]) <= b
      BY <2>9 DEF Clear
    <3>3. QED
      BY <2>2, <2>6, <2>9, <3>2
  <2>10. c \in DOMAIN x
    BY <2>3, <2>5
  <2>11. /\ w \in Seq(FreeBlock) /\ Ordered(w)
         /\ \A b \in Int, l \in Nat \ {0} : Clear(x, b, l) => Clear(w, b, l)
    BY <2>1, <2>4, <2>8, <2>10, MergeOrders
  <2>12. QED
    BY <2>9, <2>11
<1>10. QED
  BY <1>8, <1>9
-----------------------------------------------------------------------------
\* The first and the last block of the list that fit are in the list, and fit.
LEMMA FitsFound ==
  ASSUME NEW m \in Seq(FreeBlock), NEW n \in Nat, Fits(m, n) # {}
  PROVE  /\ Min(Fits(m, n)) \in DOMAIN m /\ m[Min(Fits(m, n))].len >= n
         /\ Max(Fits(m, n)) \in DOMAIN m /\ m[Max(Fits(m, n))].len >= n
<1> DEFINE S == Fits(m, n)
<1>1. Len(m) \in Nat /\ DOMAIN m = 1..Len(m)
  BY LenProperties
<1>2. S \in SUBSET Nat /\ S \in SUBSET (0..Len(m)) /\ S # {}
  BY <1>1 DEF Fits
<1>3. \A i \in S : i \in DOMAIN m /\ m[i].len >= n
  BY DEF Fits
<1> HIDE DEF S
<1>4. Min(S) \in S
  BY <1>2, MinOfNats
<1>5. Max(S) \in S
  BY <1>1, <1>2, MaxOfNats
<1>6. QED
  BY <1>3, <1>4, <1>5 DEF S

\* getmem: the storage gets an owner.
LEMMA StorageGiven ==
  ASSUME NEW m, NEW L, Fit(m, L), NEW n \in Nat \ {0},
         NEW i \in DOMAIN m, m[i].len >= RoundMb(n)
  PROVE  Fit(TakeLow(m, i, RoundMb(n)), L \cup {Owned("mem", n, m[i].addr)})
<1> DEFINE r == Owned("mem", n, m[i].addr)
           k == RoundMb(n)
           w == TakeLow(m, i, k)
<1>1. m \in Seq(FreeBlock) /\ Ordered(m)
  BY DEF Fit
<1>2. m[i].addr \in Int /\ m[i].len \in Nat /\ EndOf(m[i]) = m[i].addr + m[i].len
  BY <1>1, ListFacts
<1>3. k \in Nat \ {0}
  BY RoundMbType
<1>4. /\ w \in Seq(FreeBlock) /\ Ordered(w) /\ Clear(w, m[i].addr, k)
      /\ \A c \in Int, l \in Nat : Clear(m, c, l) => Clear(w, c, l)
  BY <1>1, <1>3, LowEndTaken
<1>5. r \in OwnedRecord /\ StartOf(r) = m[i].addr /\ RoundMb(r.bytes) = k
  BY <1>2 DEF Owned, OwnedRecord, StartOf
<1> HIDE DEF r, k, w
<1>6. m[i].addr <= StartOf(r) /\ StartOf(r) + RoundMb(r.bytes) <= EndOf(m[i])
  BY <1>2, <1>3, <1>5 DEF k
<1>7. Clear(w, StartOf(r), RoundMb(r.bytes))
  BY <1>4, <1>5
<1>8. Fit(w, L \cup {r})
  BY <1>4, <1>5, <1>6, <1>7, NewOwner
<1>9. QED
  BY <1>8 DEF w, k, r

\* getstk: the stack gets an owner, who knows the address of its last word.
LEMMA StackGiven ==
  ASSUME NEW m, NEW L, Fit(m, L), NEW n \in Nat \ {0},
         NEW i \in DOMAIN m, m[i].len >= RoundMb(n)
  PROVE  Fit(TakeHigh(m, i, RoundMb(n)), L \cup {Owned("stk", n, EndOf(m[i]) - 4)})
<1> DEFINE r == Owned("stk", n, EndOf(m[i]) - 4)
           k == RoundMb(n)
           w == TakeHigh(m, i, k)
<1>1. m \in Seq(FreeBlock) /\ Ordered(m)
  BY DEF Fit
<1>2. /\ m[i].addr \in Int /\ m[i].len \in Nat /\ EndOf(m[i]) = m[i].addr + m[i].len
      /\ EndOf(m[i]) \in Int
  BY <1>1, ListFacts
<1>3. k \in Nat \ {0}
  BY RoundMbType
<1>4. /\ w \in Seq(FreeBlock) /\ Ordered(w) /\ Clear(w, EndOf(m[i]) - k, k)
      /\ \A c \in Int, l \in Nat : Clear(m, c, l) => Clear(w, c, l)
  BY <1>1, <1>3, HighEndTaken
<1>5. r \in OwnedRecord /\ StartOf(r) = EndOf(m[i]) - k /\ RoundMb(r.bytes) = k
  <2>1. /\ r.kind = "stk" /\ r.bytes = n /\ r.ptr = EndOf(m[i]) - 4
        /\ r \in OwnedRecord
    BY <1>2 DEF Owned, OwnedRecord
  <2>2. StartOf(r) = (EndOf(m[i]) - 4) - k + 4
    BY <2>1 DEF StartOf
  <2>3. QED
    BY <1>2, <1>3, <2>1, <2>2
<1> HIDE DEF r, k, w
<1>6. m[i].addr <= StartOf(r) /\ StartOf(r) + RoundMb(r.bytes) <= EndOf(m[i])
  BY <1>2, <1>3, <1>5 DEF k
<1>7. Clear(w, StartOf(r), RoundMb(r.bytes))
  BY <1>4, <1>5
<1>8. Fit(w, L \cup {r})
  BY <1>4, <1>5, <1>6, <1>7, NewOwner
<1>9. QED
  BY <1>8 DEF w, k, r

\* freemem: storage that its owner gives back.
LEMMA StorageFreed ==
  ASSUME NEW m, NEW L, Fit(m, L), NEW r \in L
  PROVE  /\ Fit(m, L \ {r})
         /\ ~Overlaps(m, StartOf(r), RoundMb(r.bytes)) =>
              Fit(FreeList(m, StartOf(r), r.bytes), L \ {r})
<1> DEFINE a == StartOf(r)
           k == RoundMb(r.bytes)
           w == LinkAfter(m, Passed(m, a), a, k)
<1>1. /\ m \in Seq(FreeBlock) /\ Ordered(m) /\ L \subseteq OwnedRecord
      /\ \A s \in L : Clear(m, StartOf(s), RoundMb(s.bytes))
      /\ \A s, t \in L : s # t => Disjoint(s, t)
  BY DEF Fit
<1>2. \A s \in L : StartOf(s) \in Int /\ RoundMb(s.bytes) \in Nat \ {0}
  BY <1>1, OwnedFacts
<1>3. Fit(m, L \ {r})
  BY <1>1 DEF Fit
<1>4. ASSUME ~Overlaps(m, a, k) PROVE Fit(w, L \ {r})
  <2>1. a \in Int /\ k \in Nat \ {0}
    BY <1>2
  <2>2. \A s \in L \ {r} : a + k <= StartOf(s) \/ StartOf(s) + RoundMb(s.bytes) <= a
    BY <1>1 DEF Disjoint
  <2>3. w = LinkAfter(m, Passed(m, a), a, k)
    OBVIOUS
  <2> HIDE DEF a, k, w
  <2>4. /\ w \in Seq(FreeBlock) /\ Ordered(w)
        /\ \A b \in Int, l \in Nat \ {0} :
             Clear(m, b, l) /\ (a + k <= b \/ b + l <= a) => Clear(w, b, l)
    BY <1>1, <1>4, <2>1, <2>3, FreedBlockLinked
  <2>5. \A s \in L \ {r} : Clear(w, StartOf(s), RoundMb(s.bytes))
    BY <1>1, <1>2, <2>2, <2>4
  <2>6. QED
    BY <1>1, <2>4, <2>5 DEF Fit
<1>5. FreeList(m, StartOf(r), r.bytes) = w
  BY DEF FreeList
<1>6. QED
  BY <1>3, <1>4, <1>5

\* mkbufpool without a semaphore: the storage that it got is freed again.
LEMMA StorageUndone ==
  ASSUME NEW m, NEW L, Fit(m, L), NEW n \in Nat \ {0},
         NEW i \in DOMAIN m, m[i].len >= RoundMb(n)
  PROVE  Fit(FreeList(TakeLow(m, i, RoundMb(n)), m[i].addr, n), L)
<1> DEFINE r == Owned("mem", n, m[i].addr)
           k == RoundMb(n)
           w == TakeLow(m, i, k)
<1>1. m \in Seq(FreeBlock) /\ Ordered(m)
  BY DEF Fit
<1>2. m[i].addr \in Int /\ m[i].len \in Nat /\ EndOf(m[i]) = m[i].addr + m[i].len
  BY <1>1, ListFacts
<1>3. k \in Nat \ {0}
  BY RoundMbType
<1>4. Fit(w, L \cup {r})
  BY StorageGiven
<1>5. r \in L \cup {r} /\ StartOf(r) = m[i].addr /\ r.bytes = n
  BY DEF Owned, StartOf
<1>6. ~Overlaps(w, m[i].addr, k)
  <2>1. w \in Seq(FreeBlock) /\ Ordered(w) /\ Clear(w, m[i].addr, k)
    BY <1>1, <1>3, LowEndTaken
  <2> HIDE DEF w, k
  <2>2. QED
    BY <1>2, <1>3, <2>1, ClearAccepted
<1>7. Fit(FreeList(w, m[i].addr, n), (L \cup {r}) \ {r})
  <2> HIDE DEF w, r
  <2>1. ~Overlaps(w, StartOf(r), RoundMb(r.bytes)) =>
          Fit(FreeList(w, StartOf(r), r.bytes), (L \cup {r}) \ {r})
    BY <1>4, <1>5, StorageFreed
  <2>2. QED
    BY <1>5, <1>6, <2>1
<1>8. r \notin L
  <2>1. SUFFICES ASSUME r \in L PROVE FALSE
    OBVIOUS
  <2>2. Clear(m, m[i].addr, k)
    BY <1>5, <2>1 DEF Fit
  <2>3. m[i].addr + k <= m[i].addr \/ EndOf(m[i]) <= m[i].addr
    BY <2>2 DEF Clear
  <2> HIDE DEF k
  <2>4. m[i].len \in Nat \ {0}
    BY <1>1, ListFacts
  <2>5. QED
    BY <1>2, <1>3, <2>3, <2>4
<1>9. (L \cup {r}) \ {r} = L
  BY <1>8
<1>10. QED
  BY <1>7, <1>9
-----------------------------------------------------------------------------
\* The heap starts as one free block.
LEMMA HeapInvStarts == HeapInit => HeapInv
<1> SUFFICES ASSUME HeapInit PROVE HeapInv
  OBVIOUS
<1>1. MinHeap \in Int /\ MaxHeap - MinHeap \in Nat \ {0}
  BY HeapSizes
<1> DEFINE b == Block(MinHeap, MaxHeap - MinHeap)
<1>2. b \in FreeBlock
  BY <1>1, BlockFacts
<1>3. memlist = <<b>> /\ live = {}
  BY DEF HeapInit
<1> HIDE DEF b
<1>4. memlist \in Seq(FreeBlock) /\ DOMAIN memlist = {1}
  BY <1>2, <1>3
<1>5. Ordered(memlist)
  BY <1>4 DEF Ordered
<1>6. QED
  BY <1>3, <1>4, <1>5 DEF HeapInv, Fit

\* getmem keeps the invariant.
LEMMA GetmemKeeps ==
  ASSUME HeapInv, NEW n \in Nat, Getmem(n)
  PROVE  HeapInv'
<1> DEFINE fits == Fits(memlist, RoundMb(n))
<1>1. n \in Nat \ {0} /\ RoundMb(n) \in Nat
  <2>1. n > 0
    BY DEF Getmem
  <2>2. QED
    BY <2>1, RoundMbType
<1>2. Fit(memlist, live) /\ memlist \in Seq(FreeBlock)
  BY DEF HeapInv, Fit
<1>3. CASE fits = {}
  <2>1. memlist' = memlist /\ live' = live
    BY <1>3 DEF Getmem, Deny
  <2>2. QED
    BY <1>2, <2>1 DEF HeapInv
<1>4. CASE fits # {}
  <2> DEFINE i == Min(fits)
  <2>1. /\ memlist' = TakeLow(memlist, i, RoundMb(n))
        /\ live' = live \cup {Owned("mem", n, memlist[i].addr)}
    BY <1>4 DEF Getmem
  <2>2. i \in DOMAIN memlist /\ memlist[i].len >= RoundMb(n)
    BY <1>1, <1>2, <1>4, FitsFound
  <2> HIDE DEF i
  <2>3. Fit(memlist', live')
    BY <1>1, <1>2, <2>1, <2>2, StorageGiven
  <2>4. QED
    BY <2>3 DEF HeapInv
<1>5. QED
  BY <1>3, <1>4

\* getstk keeps the invariant.
LEMMA GetstkKeeps ==
  ASSUME HeapInv, NEW n \in Nat, Getstk(n)
  PROVE  HeapInv'
<1> DEFINE fits == Fits(memlist, RoundMb(n))
<1>1. n \in Nat \ {0} /\ RoundMb(n) \in Nat
  <2>1. n > 0
    BY DEF Getstk
  <2>2. QED
    BY <2>1, RoundMbType
<1>2. Fit(memlist, live) /\ memlist \in Seq(FreeBlock)
  BY DEF HeapInv, Fit
<1>3. CASE fits = {}
  <2>1. memlist' = memlist /\ live' = live
    BY <1>3 DEF Getstk, Deny
  <2>2. QED
    BY <1>2, <2>1 DEF HeapInv
<1>4. CASE fits # {}
  <2> DEFINE i == Max(fits)
  <2>1. /\ memlist' = TakeHigh(memlist, i, RoundMb(n))
        /\ live' = live \cup {Owned("stk", n, EndOf(memlist[i]) - 4)}
    BY <1>4 DEF Getstk
  <2>2. i \in DOMAIN memlist /\ memlist[i].len >= RoundMb(n)
    BY <1>1, <1>2, <1>4, FitsFound
  <2> HIDE DEF i
  <2>3. Fit(memlist', live')
    BY <1>1, <1>2, <2>1, <2>2, StackGiven
  <2>4. QED
    BY <2>3 DEF HeapInv
<1>5. QED
  BY <1>3, <1>4

\* freemem and freestk, called by the owner, keep the invariant.
LEMMA FreememKeeps ==
  ASSUME HeapInv, NEW r \in live, Freemem(r)
  PROVE  HeapInv'
<1>1. Fit(memlist, live)
  BY DEF HeapInv
<1>2. live' = live \ {r}
  BY DEF Freemem
<1>3. \/ memlist' = memlist
      \/ /\ ~Overlaps(memlist, StartOf(r), RoundMb(r.bytes))
         /\ memlist' = FreeList(memlist, StartOf(r), r.bytes)
  BY DEF Freemem, Freed
<1>4. Fit(memlist', live')
  BY <1>1, <1>2, <1>3, StorageFreed
<1>5. QED
  BY <1>4 DEF HeapInv

\* freemem refuses what is already free, whoever calls it.
LEMMA FreememStaleKeeps ==
  ASSUME HeapInv, NEW a \in Int, NEW n \in Nat, FreememStale(a, n)
  PROVE  HeapInv'
<1>1. Fit(memlist, live) /\ memlist \in Seq(FreeBlock) /\ Ordered(memlist)
  BY DEF HeapInv, Fit
<1>2. PICK i \in DOMAIN memlist :
        memlist[i].addr < a + RoundMb(n) /\ a < EndOf(memlist[i])
  BY DEF FreememStale
<1>3. RoundMb(n) \in Nat
  BY DEF RoundMb
<1>4. Overlaps(memlist, a, RoundMb(n))
  BY <1>1, <1>2, <1>3, StaleRefused
<1>5. memlist' = memlist /\ live' = live
  BY <1>4 DEF FreememStale, Freed
<1>6. QED
  BY <1>1, <1>5 DEF HeapInv

\* A pool takes a positive number of bytes.
LEMMA PoolBytesPositive ==
  ASSUME NEW b \in Nat \ {0}, NEW k \in Nat \ {0}
  PROVE  PoolBytes(b, k) \in Nat \ {0}
<1>1. Stride(b) \in Nat \ {0}
  BY DEF Stride, RoundWord, BPID
<1>2. \A x, y \in Nat \ {0} : x * y \in Nat \ {0}
  OBVIOUS
<1>3. QED
  BY <1>1, <1>2 DEF PoolBytes

\* mkbufpool keeps the invariant, with or without a semaphore.
LEMMA MkbufpoolKeeps ==
  ASSUME HeapInv, NEW b \in Nat \ {0}, NEW k \in Nat \ {0}, Mkbufpool(b, k)
  PROVE  HeapInv'
<1> DEFINE n == PoolBytes(b, k)
           fits == Fits(memlist, RoundMb(n))
<1>1. n \in Nat \ {0}
  BY PoolBytesPositive
<1>2. /\ RoundMb(n) \in Nat
      /\ Fit(memlist, live) /\ memlist \in Seq(FreeBlock)
  BY <1>1, RoundMbType DEF HeapInv, Fit
<1>3. \/ Deny(n)
      \/ fits # {} /\ UndoGetmem(n)
      \/ Getmem(n)
  BY DEF Mkbufpool
<1> HIDE DEF n
<1>4. CASE Deny(n)
  <2>1. memlist' = memlist /\ live' = live
    BY <1>4 DEF Deny
  <2>2. QED
    BY <1>2, <2>1 DEF HeapInv
<1>5. CASE fits # {} /\ UndoGetmem(n)
  <2> DEFINE i == Min(fits)
  <2>1. /\ memlist' = FreeList(TakeLow(memlist, i, RoundMb(n)), memlist[i].addr, n)
        /\ live' = live
    BY <1>5 DEF UndoGetmem
  <2>2. i \in DOMAIN memlist /\ memlist[i].len >= RoundMb(n)
    BY <1>2, <1>5, FitsFound
  <2> HIDE DEF i
  <2>3. Fit(memlist', live')
    BY <1>1, <1>2, <2>1, <2>2, StorageUndone
  <2>4. QED
    BY <2>3 DEF HeapInv
<1>6. CASE Getmem(n)
  BY <1>1, <1>6, GetmemKeeps
<1>7. QED
  BY <1>3, <1>4, <1>5, <1>6

\* The invariant says that the heap is sound.
LEMMA HeapInvSound == HeapInv => HeapSound
<1> SUFFICES ASSUME HeapInv PROVE HeapSound
  OBVIOUS
<1>1. /\ Ordered(memlist) /\ live \subseteq OwnedRecord
      /\ \A r \in live : Clear(memlist, StartOf(r), RoundMb(r.bytes))
      /\ \A r, s \in live : r # s => Disjoint(r, s)
  BY DEF HeapInv, Fit
<1>2. \A r \in live : EndOf(OwnedBlock(r)) = StartOf(r) + RoundMb(r.bytes)
  BY DEF OwnedBlock, Block, EndOf
<1>3. FreeListOrdered
  BY <1>1 DEF FreeListOrdered, Ordered
<1>4. NoSharedBytes
  BY <1>1, <1>2 DEF NoSharedBytes, Clear, Disjoint
<1>5. QED
  BY <1>3, <1>4 DEF HeapSound

\* Every step of the heap and the pools keeps the invariant.
LEMMA HeapInvKept == HeapInv /\ [PoolsNext]_<<heapVars, poolVars>> => HeapInv'
<1> SUFFICES ASSUME HeapInv, [PoolsNext]_<<heapVars, poolVars>> PROVE HeapInv'
  OBVIOUS
<1> DEFINE owned == live \ {poolmem[i] : i \in Created}
<1>1. CASE HeapCalls(owned)
  <2>1. ASSUME NEW n \in Request, Getmem(n) \/ Getstk(n) PROVE HeapInv'
    BY <2>1, HeapSizes, GetmemKeeps, GetstkKeeps
  <2>2. ASSUME NEW r \in owned, Freemem(r) PROVE HeapInv'
    BY <2>2, FreememKeeps
  <2>3. ASSUME NEW a \in {8 * i : i \in MinHeap \div 8 .. MaxHeap \div 8 - 1},
               NEW n \in Request, FreememStale(a, n)
        PROVE  HeapInv'
    <3>1. a \in Int /\ n \in Nat
      BY HeapSizes
    <3>2. QED
      BY <2>3, <3>1, FreememStaleKeeps
  <2>4. QED
    BY <1>1, <2>1, <2>2, <2>3 DEF HeapCalls
<1>2. ASSUME NEW a \in PoolArgs, Mkbufpool(a[1], a[2]) PROVE HeapInv'
  <2>1. a[1] \in Nat \ {0} /\ a[2] \in Nat \ {0}
    BY PoolSizes
  <2>2. QED
    BY <1>2, <2>1, MkbufpoolKeeps
<1>3. CASE UNCHANGED heapVars
  <2>1. memlist' = memlist /\ live' = live
    BY <1>3 DEF heapVars
  <2>2. QED
    BY <2>1 DEF HeapInv
<1>4. \/ HeapCalls(owned)
      \/ \E a \in PoolArgs : Mkbufpool(a[1], a[2])
      \/ UNCHANGED heapVars
  BY DEF PoolsNext, Getbuf, GetbufWoken, KillUser, Freebuf
<1>5. QED
  BY <1>1, <1>2, <1>3, <1>4

\* The heap is sound after every sequence of calls of getmem, getstk, freemem,
\* freestk and the buffer pools, for every size of the heap, of the requests and
\* of the pools: freed blocks are merged and the list stays in order, and no byte
\* is free and owned or owned twice, also when storage is freed a second time.
THEOREM HeapStaysSound == PoolsSpec => []HeapSound
<1>1. PoolsInit => HeapInv
  BY HeapInvStarts DEF PoolsInit
<1>2. HeapInv /\ [PoolsNext]_<<heapVars, poolVars>> => HeapInv'
  BY HeapInvKept
<1>3. HeapInv => HeapSound
  BY HeapInvSound
<1>4. QED
  BY <1>1, <1>2, <1>3, PTL DEF PoolsSpec
-----------------------------------------------------------------------------
\* The bytes of a block and of the blocks of a list, and those of owned blocks.
BytesOf(b) == b.addr .. EndOf(b) - 1
BytesIn(m) == UNION {BytesOf(m[i]) : i \in DOMAIN m}
BytesOwned(L) == UNION {OwnedBytes(r) : r \in L}

LEMMA BytesMember ==
  ASSUME NEW m \in Seq(FreeBlock)
  PROVE  \A x : x \in BytesIn(m) <=>
                  x \in Int /\ \E i \in DOMAIN m : m[i].addr <= x /\ x < EndOf(m[i])
<1>1. \A i \in DOMAIN m : m[i].addr \in Int /\ EndOf(m[i]) \in Int
  BY ListFacts
<1>2. \A i \in DOMAIN m : \A x :
        x \in BytesOf(m[i]) <=> x \in Int /\ m[i].addr <= x /\ x < EndOf(m[i])
  BY <1>1 DEF BytesOf
<1>3. \A x : x \in BytesIn(m) <=> \E i \in DOMAIN m : x \in BytesOf(m[i])
  BY DEF BytesIn
<1>4. QED
  BY <1>2, <1>3

\* What is in a run of bytes, and in a block.
LEMMA RunMember ==
  ASSUME NEW a \in Int, NEW n \in Nat
  PROVE  \A x : x \in a .. a + n - 1 <=> x \in Int /\ a <= x /\ x < a + n
OBVIOUS

LEMMA BlockMember ==
  ASSUME NEW b \in FreeBlock
  PROVE  \A x : x \in BytesOf(b) <=> x \in Int /\ b.addr <= x /\ x < EndOf(b)
<1>1. b.addr \in Int /\ EndOf(b) \in Int
  BY DEF FreeBlock, EndOf
<1>2. QED
  BY <1>1 DEF BytesOf

\* The bytes of a list from which a block has been taken, in which one has been
\* replaced, or to which one has been added.
LEMMA BytesRemoved ==
  ASSUME NEW m \in Seq(FreeBlock), NEW i \in DOMAIN m
  PROVE  BytesIn(RemoveAt(m, i)) \cup BytesOf(m[i]) = BytesIn(m)
<1> DEFINE w == RemoveAt(m, i)
<1>1. Len(m) \in Nat /\ DOMAIN m = 1..Len(m)
  BY ListFacts
<1>2. /\ w \in Seq(FreeBlock) /\ Len(w) = Len(m) - 1
      /\ \A j \in 1..Len(m)-1 : w[j] = IF j < i THEN m[j] ELSE m[j+1]
  <2>1. w \in Seq(FreeBlock) /\ Removed(w, m, i)
    BY <1>1, RemoveAtRemoves, Zenon
  <2>2. QED
    BY <2>1 DEF Removed
<1>3. DOMAIN w = 1..Len(m)-1
  BY <1>2, LenProperties
<1> HIDE DEF w
<1>4. ASSUME NEW j \in DOMAIN w PROVE \E k \in DOMAIN m : w[j] = m[k]
  <2>1. j \in DOMAIN m /\ j + 1 \in DOMAIN m
    BY <1>1, <1>3
  <2>2. w[j] = m[j] \/ w[j] = m[j + 1]
    BY <1>2, <1>3
  <2>3. QED
    BY <2>1, <2>2
<1>5. ASSUME NEW k \in DOMAIN m, k # i PROVE \E j \in DOMAIN w : w[j] = m[k]
  <2>1. CASE k < i
    BY <1>1, <1>2, <1>3, <2>1
  <2>2. CASE ~(k < i)
    <3>1. k - 1 \in DOMAIN w /\ ~(k - 1 < i) /\ (k - 1) + 1 = k
      BY <1>1, <1>3, <1>5, <2>2
    <3>2. QED
      BY <1>2, <1>3, <3>1
  <2>3. QED
    BY <2>1, <2>2
<1>6. BytesIn(w) \subseteq BytesIn(m)
  BY <1>4 DEF BytesIn
<1>7. BytesOf(m[i]) \subseteq BytesIn(m)
  BY DEF BytesIn
<1>8. BytesIn(m) \subseteq BytesIn(w) \cup BytesOf(m[i])
  BY <1>5 DEF BytesIn
<1>9. QED
  BY <1>6, <1>7, <1>8 DEF w

LEMMA BytesReplaced ==
  ASSUME NEW m \in Seq(FreeBlock), NEW i \in DOMAIN m, NEW b \in FreeBlock
  PROVE  /\ BytesIn([m EXCEPT ![i] = b]) \cup BytesOf(m[i]) = BytesIn(m) \cup BytesOf(b)
         /\ BytesOf(b) \subseteq BytesIn([m EXCEPT ![i] = b])
<1> DEFINE w == [m EXCEPT ![i] = b]
<1>1. /\ DOMAIN w = DOMAIN m
      /\ \A j \in DOMAIN m : w[j] = IF j = i THEN b ELSE m[j]
  BY ReplaceFacts
<1> HIDE DEF w
<1>2. BytesIn(w) \subseteq BytesIn(m) \cup BytesOf(b)
  BY <1>1 DEF BytesIn
<1>3. BytesIn(m) \subseteq BytesIn(w) \cup BytesOf(m[i])
  BY <1>1 DEF BytesIn
<1>4. BytesOf(b) \subseteq BytesIn(w) /\ BytesOf(m[i]) \subseteq BytesIn(m)
  BY <1>1 DEF BytesIn
<1>5. QED
  BY <1>2, <1>3, <1>4 DEF w

LEMMA BytesInserted ==
  ASSUME NEW m \in Seq(FreeBlock), NEW c \in 1..Len(m)+1, NEW b \in FreeBlock
  PROVE  BytesIn(InsertAt(m, c, b)) = BytesIn(m) \cup BytesOf(b)
<1> DEFINE w == InsertAt(m, c, b)
<1>1. Len(m) \in Nat /\ DOMAIN m = 1..Len(m)
  BY ListFacts
<1>0. w = InsertAt(m, c, b)
  OBVIOUS
<1> HIDE DEF w
<1>2. /\ w \in Seq(FreeBlock) /\ Len(w) = Len(m) + 1
      /\ \A j \in 1..Len(m)+1 : w[j] = IF j < c THEN m[j] ELSE IF j = c THEN b ELSE m[j-1]
  <2>1. w \in Seq(FreeBlock) /\ Inserted(w, m, c, b)
    BY <1>0, InsertAtInserts, Zenon
  <2>2. QED
    BY <2>1 DEF Inserted
<1>3. DOMAIN w = 1..Len(m)+1
  BY <1>2, LenProperties
<1>4. ASSUME NEW j \in DOMAIN w PROVE w[j] = b \/ \E k \in DOMAIN m : w[j] = m[k]
  <2>1. CASE j < c
    BY <1>1, <1>2, <1>3, <2>1
  <2>2. CASE j = c
    BY <1>2, <1>3, <2>2
  <2>3. CASE ~(j < c) /\ j # c
    <3>1. j - 1 \in DOMAIN m
      BY <1>1, <1>3, <2>3
    <3>2. QED
      BY <1>2, <1>3, <2>3, <3>1
  <2>4. QED
    BY <2>1, <2>2, <2>3
<1>5. ASSUME NEW k \in DOMAIN m PROVE \E j \in DOMAIN w : w[j] = m[k]
  <2>1. CASE k < c
    <3>1. k \in DOMAIN w
      BY <1>1, <1>3
    <3>2. QED
      BY <1>2, <1>3, <2>1, <3>1
  <2>2. CASE ~(k < c)
    <3>1. k + 1 \in DOMAIN w /\ ~(k + 1 < c) /\ k + 1 # c /\ (k + 1) - 1 = k
      BY <1>1, <1>3, <2>2
    <3>2. QED
      BY <1>2, <1>3, <3>1
  <2>3. QED
    BY <2>1, <2>2
<1>6. \E j \in DOMAIN w : w[j] = b
  BY <1>1, <1>2, <1>3
<1>7. BytesIn(w) \subseteq BytesIn(m) \cup BytesOf(b)
  BY <1>4 DEF BytesIn
<1>8. BytesIn(m) \subseteq BytesIn(w)
  BY <1>5 DEF BytesIn
<1>9. BytesOf(b) \subseteq BytesIn(w)
  BY <1>6 DEF BytesIn
<1>10. QED
  BY <1>7, <1>8, <1>9 DEF w

\* A list that is clear of a run of bytes has none of them.
LEMMA ClearBytes ==
  ASSUME NEW m \in Seq(FreeBlock), NEW a \in Int, NEW n \in Nat, Clear(m, a, n)
  PROVE  BytesIn(m) \cap (a .. a + n - 1) = {}
<1>1. \A i \in DOMAIN m : m[i].addr \in Int /\ EndOf(m[i]) \in Int
  BY ListFacts
<1>2. \A i \in DOMAIN m : a + n <= m[i].addr \/ EndOf(m[i]) <= a
  BY DEF Clear
<1>3. SUFFICES ASSUME NEW x \in Int, a <= x, x <= a + n - 1, NEW i \in DOMAIN m,
                      m[i].addr <= x, x < EndOf(m[i])
               PROVE  FALSE
  BY BytesMember
<1>4. QED
  BY <1>1, <1>2, <1>3

\* A block of n bytes.
LEMMA BlockBytes ==
  ASSUME NEW a \in Int, NEW n \in Nat \ {0}
  PROVE  BytesOf(Block(a, n)) = a .. a + n - 1
<1>1. Block(a, n).addr = a /\ EndOf(Block(a, n)) = a + n
  BY BlockFacts
<1>2. QED
  BY <1>1 DEF BytesOf

\* getmem takes its bytes from the list, and no others.
LEMMA LowBytes ==
  ASSUME NEW m \in Seq(FreeBlock), Ordered(m), NEW i \in DOMAIN m,
         NEW n \in Nat \ {0}, m[i].len >= n
  PROVE  /\ m[i].addr .. m[i].addr + n - 1 \subseteq BytesIn(m)
         /\ BytesIn(TakeLow(m, i, n)) = BytesIn(m) \ (m[i].addr .. m[i].addr + n - 1)
<1> DEFINE w == TakeLow(m, i, n)
           a == m[i].addr
           run == a .. a + n - 1
<1>1. a \in Int /\ m[i].len \in Nat /\ EndOf(m[i]) = a + m[i].len
  BY ListFacts
<1>2. w \in Seq(FreeBlock) /\ Clear(w, a, n)
  BY LowEndTaken
<1> HIDE DEF w
<1>3. BytesIn(w) \cap run = {}
  BY <1>1, <1>2, ClearBytes
<1>4. run \subseteq BytesOf(m[i]) /\ BytesOf(m[i]) \subseteq BytesIn(m)
  <2>1. run \subseteq BytesOf(m[i])
    BY <1>1 DEF BytesOf
  <2>2. QED
    BY <2>1 DEF BytesIn
<1>5. BytesIn(w) \cup run = BytesIn(m)
  <2>1. CASE m[i].len = n
    <3>1. w = RemoveAt(m, i)
      BY <2>1 DEF TakeLow, w
    <3>2. BytesOf(m[i]) = run
      BY <1>1, <2>1 DEF BytesOf
    <3>3. QED
      BY <3>1, <3>2, BytesRemoved
  <2>2. CASE m[i].len # n
    <3> DEFINE b == Block(a + n, m[i].len - n)
    <3>1. w = [m EXCEPT ![i] = b]
      BY <2>2 DEF TakeLow, w
    <3>2. a + n \in Int /\ m[i].len - n \in Nat \ {0}
      BY <1>1, <2>2
    <3>3. b \in FreeBlock /\ b.addr = a + n /\ EndOf(b) = (a + n) + (m[i].len - n)
      BY <3>2, BlockFacts
    <3> HIDE DEF b
    <3>4. BytesOf(m[i]) = run \cup BytesOf(b)
      <4>1. \A x : x \in BytesOf(m[i]) <=> x \in Int /\ a <= x /\ x < EndOf(m[i])
        BY ListFacts, BlockMember
      <4>2. \A x : x \in BytesOf(b) <=> x \in Int /\ b.addr <= x /\ x < EndOf(b)
        BY <3>3, BlockMember
      <4>3. \A x : x \in run <=> x \in Int /\ a <= x /\ x < a + n
        BY <1>1, RunMember
      <4>4. PICK z \in Int, y \in Int, k \in Nat :
              y = a + n /\ z = EndOf(m[i]) /\ k = m[i].len /\ z = a + k
        BY <1>1
      <4>a. n <= k
        BY <4>4
      <4>b. EndOf(b) = y + (k - n) /\ b.addr = y
        BY <3>3, <4>4
      <4>c. y + (k - n) = z /\ y <= z /\ a <= y
        BY <1>1, <4>4, <4>a
      <4>5. b.addr = y /\ EndOf(b) = z /\ y <= z /\ a <= y
        BY <4>b, <4>c
      <4> HIDE DEF run
      <4>6. ASSUME NEW x PROVE x \in BytesOf(m[i]) <=> x \in run \/ x \in BytesOf(b)
        <5>1. /\ x \in BytesOf(m[i]) <=> x \in Int /\ a <= x /\ x < z
              /\ x \in BytesOf(b) <=> x \in Int /\ y <= x /\ x < z
              /\ x \in run <=> x \in Int /\ a <= x /\ x < y
          BY <4>1, <4>2, <4>3, <4>4, <4>5
        <5>2. CASE x \in Int
          BY <1>1, <4>4, <4>5, <5>1, <5>2
        <5>3. CASE x \notin Int
          BY <5>1, <5>3
        <5>4. QED
          BY <5>2, <5>3
      <4>7. QED
        BY <4>6
    <3>5. /\ BytesIn(w) \cup BytesOf(m[i]) = BytesIn(m) \cup BytesOf(b)
          /\ BytesOf(b) \subseteq BytesIn(w)
      BY <3>1, <3>3, BytesReplaced
    <3>6. QED
      BY <1>4, <3>4, <3>5
  <2>3. QED
    BY <2>1, <2>2
<1>6. QED
  BY <1>3, <1>4, <1>5 DEF w

\* getstk takes its bytes from the list, and no others.
LEMMA HighBytes ==
  ASSUME NEW m \in Seq(FreeBlock), Ordered(m), NEW i \in DOMAIN m,
         NEW n \in Nat \ {0}, m[i].len >= n, NEW a, a = EndOf(m[i]) - n
  PROVE  /\ a .. a + n - 1 \subseteq BytesIn(m)
         /\ BytesIn(TakeHigh(m, i, n)) = BytesIn(m) \ (a .. a + n - 1)
<1> DEFINE w == TakeHigh(m, i, n)
           run == a .. a + n - 1
<1>1. /\ m[i].addr \in Int /\ m[i].len \in Nat /\ EndOf(m[i]) = m[i].addr + m[i].len
      /\ a \in Int /\ a + n = EndOf(m[i])
  BY ListFacts
<1>2. w \in Seq(FreeBlock) /\ Clear(w, a, n)
  BY HighEndTaken
<1> HIDE DEF w
<1>3. BytesIn(w) \cap run = {}
  BY <1>1, <1>2, ClearBytes
<1>4. run \subseteq BytesOf(m[i]) /\ BytesOf(m[i]) \subseteq BytesIn(m)
  <2>1. run \subseteq BytesOf(m[i])
    <3>1. PICK k \in Nat, d \in Int : k = m[i].len /\ d = m[i].addr /\ EndOf(m[i]) = d + k
      BY <1>1
    <3>2. d <= a /\ a + n = d + k /\ a \in Int
      BY <1>1, <3>1
    <3>a. \A x : x \in run <=> x \in Int /\ a <= x /\ x < d + k
      BY <3>2, RunMember
    <3>3. ASSUME NEW x \in run PROVE x \in Int /\ d <= x /\ x < d + k
      <4> HIDE DEF run
      <4>1. x \in Int /\ a <= x /\ x < d + k
        BY <3>a
      <4>2. d <= x
        BY <3>2, <4>1
      <4>3. QED
        BY <4>1, <4>2
    <3>4. \A x : x \in BytesOf(m[i]) <=> x \in Int /\ d <= x /\ x < d + k
      <4>1. m[i] \in FreeBlock
        BY ListFacts
      <4>2. \A x : x \in BytesOf(m[i]) <=> x \in Int /\ m[i].addr <= x /\ x < EndOf(m[i])
        BY <4>1, BlockMember
      <4>3. QED
        BY <3>1, <4>2
    <3> HIDE DEF run
    <3>5. QED
      BY <3>3, <3>4
  <2>2. QED
    BY <2>1 DEF BytesIn
<1>5. BytesIn(w) \cup run = BytesIn(m)
  <2>1. CASE m[i].len = n
    <3>1. w = RemoveAt(m, i)
      BY <2>1 DEF TakeHigh, w
    <3>2. BytesOf(m[i]) = run
      BY <1>1, <2>1 DEF BytesOf
    <3>3. QED
      BY <3>1, <3>2, BytesRemoved
  <2>2. CASE m[i].len # n
    <3> DEFINE b == Block(m[i].addr, m[i].len - n)
    <3>1. w = [m EXCEPT ![i] = b]
      BY <2>2 DEF TakeHigh, w
    <3>2. m[i].len - n \in Nat \ {0}
      BY <1>1, <2>2
    <3>3. b \in FreeBlock /\ b.addr = m[i].addr /\ EndOf(b) = m[i].addr + (m[i].len - n)
      BY <1>1, <3>2, BlockFacts
    <3> HIDE DEF b
    <3>4. BytesOf(m[i]) = run \cup BytesOf(b)
      <4>1. \A x : x \in BytesOf(m[i]) <=> x \in Int /\ m[i].addr <= x /\ x < EndOf(m[i])
        BY ListFacts, BlockMember
      <4>2. \A x : x \in BytesOf(b) <=> x \in Int /\ b.addr <= x /\ x < EndOf(b)
        BY <3>3, BlockMember
      <4>3. \A x : x \in run <=> x \in Int /\ a <= x /\ x < a + n
        BY <1>1, RunMember
      <4>4. b.addr = m[i].addr /\ EndOf(b) = a /\ m[i].addr <= a
        BY <1>1, <3>2, <3>3
      <4> HIDE DEF run
      <4>5. QED
        BY <1>1, <4>1, <4>2, <4>3, <4>4
    <3>5. /\ BytesIn(w) \cup BytesOf(m[i]) = BytesIn(m) \cup BytesOf(b)
          /\ BytesOf(b) \subseteq BytesIn(w)
      BY <3>1, <3>3, BytesReplaced
    <3>6. QED
      BY <1>4, <3>4, <3>5
  <2>3. QED
    BY <2>1, <2>2
<1>6. QED
  BY <1>3, <1>4, <1>5 DEF w

\* Merging two blocks of the list changes none of its bytes.
LEMMA MergeBytes ==
  ASSUME NEW m \in Seq(FreeBlock), NEW c \in DOMAIN m
  PROVE  BytesIn(MergeNext(m, c)) = BytesIn(m)
<1>1. /\ Len(m) \in Nat /\ DOMAIN m = 1..Len(m)
      /\ \A j \in DOMAIN m : /\ m[j].addr \in Int /\ m[j].len \in Nat \ {0}
                             /\ EndOf(m[j]) = m[j].addr + m[j].len
  BY ListFacts
<1>2. CASE ~(c < Len(m) /\ EndOf(m[c]) = m[c + 1].addr)
  BY <1>2 DEF MergeNext
<1>3. CASE c < Len(m) /\ EndOf(m[c]) = m[c + 1].addr
  <2> DEFINE n == m[c].len + m[c + 1].len
             both == Block(m[c].addr, n)
             x == [m EXCEPT ![c] = both]
             w == RemoveAt(x, c + 1)
  <2>1. MergeNext(m, c) = w
    BY <1>3 DEF MergeNext
  <2>2. c + 1 \in DOMAIN m /\ c \in Int
    BY <1>1, <1>3
  <2>3. n \in Nat \ {0} /\ m[c].addr \in Int
    BY <1>1, <2>2
  <2>4. both \in FreeBlock /\ both.addr = m[c].addr /\ EndOf(both) = m[c].addr + n
    BY <2>3, BlockFacts
  <2>5. BytesOf(both) = BytesOf(m[c]) \cup BytesOf(m[c + 1])
    <3>1. \A y : y \in BytesOf(m[c]) <=> y \in Int /\ m[c].addr <= y /\ y < EndOf(m[c])
      BY ListFacts, BlockMember
    <3>2. \A y : y \in BytesOf(m[c + 1]) <=>
                    y \in Int /\ m[c + 1].addr <= y /\ y < EndOf(m[c + 1])
      BY <2>2, ListFacts, BlockMember
    <3>3. \A y : y \in BytesOf(both) <=> y \in Int /\ both.addr <= y /\ y < EndOf(both)
      BY <2>4, BlockMember
    <3>4. /\ EndOf(both) = EndOf(m[c + 1]) /\ EndOf(m[c + 1]) \in Int
          /\ m[c].addr <= EndOf(m[c]) /\ EndOf(m[c]) <= EndOf(m[c + 1])
          /\ EndOf(m[c]) \in Int /\ m[c].addr \in Int
      BY <1>1, <1>3, <2>2, <2>4
    <3> HIDE DEF both
    <3>5. QED
      BY <1>3, <2>4, <3>1, <3>2, <3>3, <3>4
  <2> HIDE DEF n, both
  <2>6. /\ x \in Seq(FreeBlock) /\ DOMAIN x = DOMAIN m
        /\ x[c] = both /\ x[c + 1] = m[c + 1]
    <3>1. c + 1 # c
      BY <2>2
    <3>2. QED
      BY <2>2, <2>4, <3>1, ReplaceFacts
  <2>7. BytesIn(x) \cup BytesOf(m[c]) = BytesIn(m) \cup BytesOf(both)
    BY <2>4, BytesReplaced
  <2>8. BytesOf(both) \subseteq BytesIn(x)
    BY <2>4, BytesReplaced
  <2> HIDE DEF x
  <2>9. BytesIn(w) \cup BytesOf(m[c + 1]) = BytesIn(x)
    <3>1. BytesIn(w) \cup BytesOf(x[c + 1]) = BytesIn(x)
      BY <2>2, <2>6, BytesRemoved
    <3>2. QED
      BY <2>6, <3>1
  <2>10. BytesOf(both) \subseteq BytesIn(w)
    <3>1. /\ Len(x) \in Nat /\ DOMAIN x = 1..Len(x)
      BY <2>6, ListFacts
    <3>2. /\ w \in Seq(FreeBlock) /\ Len(w) = Len(x) - 1
          /\ \A j \in 1..Len(x)-1 : w[j] = IF j < c + 1 THEN x[j] ELSE x[j+1]
      <4>1. w \in Seq(FreeBlock) /\ Removed(w, x, c + 1)
        BY <2>2, <2>6, <3>1, RemoveAtRemoves, Zenon
      <4>2. QED
        BY <4>1 DEF Removed
    <3>3. c \in 1..Len(x)-1 /\ c < c + 1
      BY <2>2, <2>6, <3>1
    <3>4. c \in DOMAIN w /\ w[c] = both
      BY <2>6, <3>2, <3>3, LenProperties
    <3> HIDE DEF w
    <3>5. QED
      BY <3>4 DEF BytesIn
  <2>11. BytesOf(m[c]) \subseteq BytesIn(m) /\ BytesOf(m[c + 1]) \subseteq BytesIn(m)
    BY <2>2 DEF BytesIn
  <2> HIDE DEF w
  <2>12. BytesIn(w) = BytesIn(m)
    BY <2>5, <2>7, <2>8, <2>9, <2>10, <2>11
  <2>13. QED
    BY <2>1, <2>12
<1>4. QED
  BY <1>2, <1>3

\* freemem adds the bytes of the freed block to the list, and no others.
LEMMA LinkBytes ==
  ASSUME NEW m \in Seq(FreeBlock), NEW k \in 0 .. Len(m), NEW a \in Int, NEW n \in Nat \ {0}
  PROVE  BytesIn(LinkAfter(m, k, a, n)) = BytesIn(m) \cup (a .. a + n - 1)
<1>1. /\ Len(m) \in Nat /\ DOMAIN m = 1..Len(m)
      /\ \A j \in DOMAIN m : /\ m[j].addr \in Int /\ m[j].len \in Nat \ {0}
                             /\ EndOf(m[j]) = m[j].addr + m[j].len
  BY ListFacts
<1>2. CASE k > 0 /\ EndOf(m[k]) = a
  <2> DEFINE b == Block(m[k].addr, m[k].len + n)
             x == [m EXCEPT ![k] = b]
  <2>1. k \in DOMAIN m
    BY <1>1, <1>2
  <2>2. m[k].len + n \in Nat \ {0} /\ m[k].addr \in Int
    BY <1>1, <2>1
  <2>3. b \in FreeBlock /\ b.addr = m[k].addr /\ EndOf(b) = m[k].addr + (m[k].len + n)
    BY <2>2, BlockFacts
  <2>4. BytesOf(b) = BytesOf(m[k]) \cup (a .. a + n - 1)
    <3>1. \A y : y \in BytesOf(m[k]) <=> y \in Int /\ m[k].addr <= y /\ y < a
      BY <1>2, <2>1, ListFacts, BlockMember
    <3>2. \A y : y \in BytesOf(b) <=> y \in Int /\ b.addr <= y /\ y < EndOf(b)
      BY <2>3, BlockMember
    <3>3. \A y : y \in a .. a + n - 1 <=> y \in Int /\ a <= y /\ y < a + n
      BY RunMember
    <3>4. EndOf(b) = a + n /\ b.addr = m[k].addr /\ m[k].addr <= a /\ m[k].addr \in Int
      <4>1. m[k].addr \in Int /\ m[k].len \in Nat /\ a = m[k].addr + m[k].len
        BY <1>1, <1>2, <2>1
      <4>2. m[k].addr + (m[k].len + n) = a + n /\ m[k].addr <= a
        BY <4>1
      <4>3. QED
        BY <2>3, <4>1, <4>2
    <3> HIDE DEF b
    <3> DEFINE run == a .. a + n - 1
    <3> HIDE DEF run
    <3>5. \A y : y \in run <=> y \in Int /\ a <= y /\ y < a + n
      BY <3>3 DEF run
    <3>6. BytesOf(b) = BytesOf(m[k]) \cup run
      BY <3>1, <3>2, <3>4, <3>5
    <3>7. QED
      BY <3>6 DEF run
  <2> HIDE DEF b
  <2>5. x \in Seq(FreeBlock) /\ k \in DOMAIN x
    BY <2>1, <2>3, ReplaceFacts
  <2>6. /\ BytesIn(x) \cup BytesOf(m[k]) = BytesIn(m) \cup BytesOf(b)
        /\ BytesOf(b) \subseteq BytesIn(x)
    BY <2>1, <2>3, BytesReplaced
  <2>7. BytesOf(m[k]) \subseteq BytesIn(m)
    BY <2>1 DEF BytesIn
  <2>8. LinkAfter(m, k, a, n) = MergeNext(x, k)
    BY <1>2 DEF LinkAfter, b
  <2> HIDE DEF x
  <2>9. BytesIn(MergeNext(x, k)) = BytesIn(x)
    BY <2>5, MergeBytes
  <2>10. QED
    BY <2>4, <2>6, <2>7, <2>8, <2>9
<1>3. CASE ~(k > 0 /\ EndOf(m[k]) = a)
  <2> DEFINE b == Block(a, n)
             c == k + 1
             x == InsertAt(m, c, b)
  <2>1. b \in FreeBlock /\ BytesOf(b) = a .. a + n - 1
    BY BlockFacts, BlockBytes
  <2>2. c \in 1 .. Len(m) + 1
    BY <1>1
  <2>3. LinkAfter(m, k, a, n) = MergeNext(x, c)
    BY <1>3 DEF LinkAfter
  <2> HIDE DEF b, c
  <2>4. BytesIn(x) = BytesIn(m) \cup BytesOf(b)
    BY <2>1, <2>2, BytesInserted
  <2>5. x = InsertAt(m, c, b)
    OBVIOUS
  <2> HIDE DEF x
  <2>6. x \in Seq(FreeBlock) /\ Len(x) = Len(m) + 1
    BY <2>1, <2>2, <2>5, InsertFacts
  <2>7. c \in DOMAIN x
    BY <2>2, <2>6, LenProperties
  <2>8. BytesIn(MergeNext(x, c)) = BytesIn(x)
    BY <2>6, <2>7, MergeBytes
  <2>9. QED
    BY <2>1, <2>3, <2>4, <2>8
<1>4. QED
  BY <1>2, <1>3
-----------------------------------------------------------------------------
\* The owned blocks start at whole cells, and with the free blocks they are the heap.
Whole(m, L) ==
  /\ \A r \in L : StartOf(r) % 8 = 0
  /\ BytesIn(m) \cup BytesOwned(L) = MinHeap .. MaxHeap - 1

\* The second inductive invariant, about every byte of the heap.
ArenaInv ==
  /\ HeapInv
  /\ Whole(memlist, live)
  /\ mlength = Cardinality(BytesIn(memlist))
  /\ denied \in Nat

LEMMA RoundMbCells ==
  ASSUME NEW n \in Nat
  PROVE  RoundMb(n) \in Nat /\ RoundMb(n) % 8 = 0
BY DEF RoundMb

\* Bytes of one cell are both in a run of whole cells, or both outside.
LEMMA CellMates ==
  ASSUME NEW a \in Int, a % 8 = 0, NEW n \in Int, n % 8 = 0,
         NEW x \in Int, NEW y \in Int, x \div 8 = y \div 8, a <= x, x < a + n
  PROVE  a <= y /\ y < a + n
<1>1. a = 8 * (a \div 8) /\ n = 8 * (n \div 8) /\ a \div 8 \in Int /\ n \div 8 \in Int
  OBVIOUS
<1>2. 8 * (x \div 8) <= x /\ x < 8 * (x \div 8) + 8 /\ x \div 8 \in Int
  OBVIOUS
<1>3. 8 * (y \div 8) <= y /\ y < 8 * (y \div 8) + 8
  OBVIOUS
<1>4. QED
  BY <1>1, <1>2, <1>3

LEMMA OwnedMember ==
  ASSUME NEW r \in OwnedRecord
  PROVE  \A x : x \in OwnedBytes(r) <=>
                  x \in Int /\ StartOf(r) <= x /\ x < StartOf(r) + RoundMb(r.bytes)
<1>1. StartOf(r) \in Int /\ RoundMb(r.bytes) \in Nat
  BY OwnedFacts
<1>2. OwnedBytes(r) = StartOf(r) .. StartOf(r) + RoundMb(r.bytes) - 1
  BY DEF OwnedBytes
<1>3. QED
  BY <1>1, <1>2, RunMember

\* A free byte is not owned.
LEMMA FreeNotOwned ==
  ASSUME NEW m, NEW L, Fit(m, L), NEW r \in L
  PROVE  BytesIn(m) \cap OwnedBytes(r) = {}
<1>1. m \in Seq(FreeBlock) /\ r \in OwnedRecord /\ Clear(m, StartOf(r), RoundMb(r.bytes))
  BY DEF Fit
<1>2. StartOf(r) \in Int /\ RoundMb(r.bytes) \in Nat
  BY <1>1, OwnedFacts
<1>3. OwnedBytes(r) = StartOf(r) .. StartOf(r) + RoundMb(r.bytes) - 1
  BY DEF OwnedBytes
<1>4. QED
  BY <1>1, <1>2, <1>3, ClearBytes

\* Cells are free or owned as a whole.
LEMMA WholeCells ==
  ASSUME NEW m, NEW L, Fit(m, L), Whole(m, L), NEW x \in BytesIn(m), NEW y \in Int,
         y \div 8 = x \div 8
  PROVE  x \in Int /\ y \in BytesIn(m)
<1>1. /\ m \in Seq(FreeBlock) /\ L \subseteq OwnedRecord
      /\ \A r \in L : StartOf(r) % 8 = 0
      /\ BytesIn(m) \cup BytesOwned(L) = MinHeap .. MaxHeap - 1
  BY DEF Fit, Whole
<1>2. /\ MinHeap \in Int /\ MinHeap % 8 = 0 /\ MaxHeap - MinHeap \in Int
      /\ (MaxHeap - MinHeap) % 8 = 0
  BY HeapSizes
<1>3. x \in MinHeap .. MaxHeap - 1
  BY <1>1
<1>4. x \in Int /\ MinHeap <= x /\ x < MinHeap + (MaxHeap - MinHeap)
  BY <1>3, HeapSizes
<1>5. MinHeap <= y /\ y < MinHeap + (MaxHeap - MinHeap)
  BY <1>2, <1>4, CellMates
<1>6. y \in MinHeap .. MaxHeap - 1
  BY <1>5, HeapSizes
<1>7. ASSUME NEW r \in L, y \in OwnedBytes(r) PROVE FALSE
  <2>1. /\ r \in OwnedRecord /\ StartOf(r) \in Int /\ StartOf(r) % 8 = 0
        /\ RoundMb(r.bytes) \in Int /\ RoundMb(r.bytes) % 8 = 0
    <3>1. r \in OwnedRecord /\ StartOf(r) % 8 = 0
      BY <1>1
    <3>2. StartOf(r) \in Int /\ RoundMb(r.bytes) \in Int /\ r.bytes \in Nat
      BY <3>1, OwnedFacts
    <3>3. QED
      BY <3>1, <3>2, RoundMbCells
  <2>2. StartOf(r) <= y /\ y < StartOf(r) + RoundMb(r.bytes)
    BY <1>7, <2>1, OwnedMember
  <2>3. StartOf(r) <= x /\ x < StartOf(r) + RoundMb(r.bytes)
    BY <1>4, <2>1, <2>2, CellMates
  <2>4. x \in OwnedBytes(r)
    BY <1>4, <2>1, <2>3, OwnedMember
  <2>5. QED
    BY <2>4, FreeNotOwned
<1>8. y \notin BytesOwned(L)
  BY <1>7 DEF BytesOwned
<1>9. QED
  BY <1>1, <1>4, <1>6, <1>8

\* So free blocks are runs of whole cells inside the heap.
LEMMA BlocksAreCells ==
  ASSUME NEW m, NEW L, Fit(m, L), Whole(m, L), NEW i \in DOMAIN m
  PROVE  /\ m[i].addr % 8 = 0 /\ EndOf(m[i]) % 8 = 0
         /\ MinHeap <= m[i].addr /\ EndOf(m[i]) <= MaxHeap
<1>1. /\ m \in Seq(FreeBlock) /\ Ordered(m)
      /\ BytesIn(m) \subseteq MinHeap .. MaxHeap - 1
  BY DEF Fit, Whole
<1>2. /\ Len(m) \in Nat /\ DOMAIN m = 1..Len(m)
      /\ \A j \in DOMAIN m :
           /\ m[j].addr \in Int /\ EndOf(m[j]) \in Int /\ m[j].addr < EndOf(m[j])
  BY <1>1, ListFacts
<1>3. \A x : x \in BytesIn(m) <=>
               x \in Int /\ \E j \in DOMAIN m : m[j].addr <= x /\ x < EndOf(m[j])
  BY <1>1, BytesMember
<1> DEFINE a == m[i].addr
           e == EndOf(m[i])
<1>4. a \in Int /\ e \in Int /\ a < e
  BY <1>2
<1>5. a \in BytesIn(m) /\ e - 1 \in BytesIn(m)
  BY <1>3, <1>4
<1>6. ASSUME NEW j \in DOMAIN m, j # i PROVE e < m[j].addr \/ EndOf(m[j]) < a
  <2>1. i < j \/ j < i
    BY <1>2, <1>6
  <2>2. QED
    BY <1>1, <2>1 DEF Ordered
<1>7. a - 1 \notin BytesIn(m)
  <2>1. ASSUME NEW j \in DOMAIN m, m[j].addr <= a - 1, a - 1 < EndOf(m[j]) PROVE FALSE
    <3>1. CASE j = i
      BY <1>4, <2>1, <3>1
    <3>2. CASE j # i
      <4>1. m[j].addr \in Int /\ EndOf(m[j]) \in Int
        BY <1>2
      <4>2. e < m[j].addr \/ EndOf(m[j]) < a
        BY <1>6, <3>2
      <4> HIDE DEF a, e
      <4>3. QED
        BY <1>4, <2>1, <4>1, <4>2
    <3>3. QED
      BY <3>1, <3>2
  <2>2. QED
    BY <1>3, <2>1
<1>8. e \notin BytesIn(m)
  <2>1. ASSUME NEW j \in DOMAIN m, m[j].addr <= e, e < EndOf(m[j]) PROVE FALSE
    <3>1. CASE j = i
      BY <1>4, <2>1, <3>1
    <3>2. CASE j # i
      <4>1. m[j].addr \in Int /\ EndOf(m[j]) \in Int
        BY <1>2
      <4>2. e < m[j].addr \/ EndOf(m[j]) < a
        BY <1>6, <3>2
      <4> HIDE DEF a, e
      <4>3. QED
        BY <1>4, <2>1, <4>1, <4>2
    <3>3. QED
      BY <3>1, <3>2
  <2>2. QED
    BY <1>3, <2>1
<1> HIDE DEF a, e
<1>9. a % 8 = 0
  <2>1. SUFFICES ASSUME a % 8 # 0 PROVE FALSE
    OBVIOUS
  <2>2. a - 1 \in Int /\ (a - 1) \div 8 = a \div 8
    BY <1>4, <2>1
  <2>3. QED
    BY <1>5, <1>7, <2>2, WholeCells
<1>10. e % 8 = 0
  <2>1. SUFFICES ASSUME e % 8 # 0 PROVE FALSE
    OBVIOUS
  <2>2. e \in Int /\ e \div 8 = (e - 1) \div 8
    BY <1>4, <2>1
  <2>3. QED
    BY <1>5, <1>8, <2>2, WholeCells
<1>11. MinHeap <= a /\ e <= MaxHeap
  <2>1. a \in MinHeap .. MaxHeap - 1 /\ e - 1 \in MinHeap .. MaxHeap - 1
    BY <1>1, <1>5
  <2>2. QED
    BY <1>4, <2>1, HeapSizes
<1>12. QED
  BY <1>9, <1>10, <1>11 DEF a, e
-----------------------------------------------------------------------------
\* What a step does with the bytes of the heap: some free bytes get an owner, an
\* owner gives bytes back, a request is refused, or nothing changes hands.
Takes(r) ==
  /\ StartOf(r) % 8 = 0 /\ OwnedBytes(r) \subseteq BytesIn(memlist)
  /\ BytesIn(memlist') = BytesIn(memlist) \ OwnedBytes(r)
  /\ mlength' = mlength - RoundMb(r.bytes)
  /\ live' = live \cup {r} /\ denied' = 0

Gives(r) ==
  /\ BytesIn(memlist') = BytesIn(memlist) \cup OwnedBytes(r)
  /\ mlength' = mlength + RoundMb(r.bytes)
  /\ live' = live \ {r} /\ denied' = 0

Refuses(n) ==
  /\ Fits(memlist, RoundMb(n)) = {} /\ denied' = RoundMb(n)
  /\ BytesIn(memlist') = BytesIn(memlist) /\ mlength' = mlength /\ live' = live

Settles ==
  /\ BytesIn(memlist') = BytesIn(memlist) /\ mlength' = mlength /\ live' = live
  /\ denied' = 0

HeapMoves ==
  \/ \E r \in OwnedRecord : Takes(r)
  \/ \E r \in live : Gives(r)
  \/ \E n \in Nat \ {0} : Refuses(n)
  \/ Settles
  \/ UNCHANGED heapVars

LEMMA DenyMoves ==
  ASSUME NEW n \in Nat \ {0}, Fits(memlist, RoundMb(n)) = {}, Deny(n)
  PROVE  HeapMoves
<1>1. Refuses(n)
  BY DEF Refuses, Deny
<1>2. QED
  BY <1>1 DEF HeapMoves

LEMMA GetmemMoves ==
  ASSUME ArenaInv, NEW n \in Nat, Getmem(n)
  PROVE  HeapMoves
<1> DEFINE k == RoundMb(n)
           fits == Fits(memlist, k)
           i == Min(fits)
           r == Owned("mem", n, memlist[i].addr)
<1>1. n \in Nat \ {0}
  BY DEF Getmem
<1>2. k \in Nat \ {0}
  BY <1>1, RoundMbType
<1>3. /\ Fit(memlist, live) /\ Whole(memlist, live)
      /\ memlist \in Seq(FreeBlock) /\ Ordered(memlist)
  BY DEF ArenaInv, HeapInv, Fit
<1>4. CASE fits = {}
  <2>1. Deny(n)
    BY <1>4 DEF Getmem
  <2>2. QED
    BY <1>1, <1>4, <2>1, DenyMoves
<1>5. CASE fits # {}
  <2>1. /\ memlist' = TakeLow(memlist, i, k) /\ mlength' = mlength - k
        /\ live' = live \cup {r} /\ denied' = 0
    BY <1>5 DEF Getmem
  <2>2. i \in DOMAIN memlist /\ memlist[i].len >= k
    BY <1>2, <1>3, <1>5, FitsFound
  <2> HIDE DEF i, k, fits
  <2>3. memlist[i].addr \in Int /\ memlist[i].addr % 8 = 0
    BY <1>3, <2>2, ListFacts, BlocksAreCells
  <2>4. r \in OwnedRecord /\ StartOf(r) = memlist[i].addr /\ r.bytes = n
    BY <1>1, <2>3 DEF Owned, OwnedRecord, StartOf
  <2>5. OwnedBytes(r) = memlist[i].addr .. memlist[i].addr + k - 1
    BY <2>4 DEF OwnedBytes, k
  <2>6. /\ OwnedBytes(r) \subseteq BytesIn(memlist)
        /\ BytesIn(memlist') = BytesIn(memlist) \ OwnedBytes(r)
    <3>1. /\ memlist[i].addr .. memlist[i].addr + k - 1 \subseteq BytesIn(memlist)
          /\ BytesIn(TakeLow(memlist, i, k))
               = BytesIn(memlist) \ (memlist[i].addr .. memlist[i].addr + k - 1)
      BY <1>2, <1>3, <2>2, LowBytes
    <3>2. QED
      BY <2>1, <2>5, <3>1
  <2>7. mlength' = mlength - RoundMb(r.bytes)
    BY <2>1, <2>4 DEF k
  <2> HIDE DEF r
  <2>8. Takes(r)
    BY <2>1, <2>3, <2>4, <2>6, <2>7 DEF Takes
  <2>9. QED
    BY <2>4, <2>8 DEF HeapMoves
<1>6. QED
  BY <1>4, <1>5

LEMMA GetstkMoves ==
  ASSUME ArenaInv, NEW n \in Nat, Getstk(n)
  PROVE  HeapMoves
<1> DEFINE k == RoundMb(n)
           fits == Fits(memlist, k)
           i == Max(fits)
           e == EndOf(memlist[i])
           r == Owned("stk", n, e - 4)
<1>1. n \in Nat \ {0}
  BY DEF Getstk
<1>2. k \in Nat \ {0} /\ k % 8 = 0
  BY <1>1, RoundMbType, RoundMbCells
<1>3. /\ Fit(memlist, live) /\ Whole(memlist, live)
      /\ memlist \in Seq(FreeBlock) /\ Ordered(memlist)
  BY DEF ArenaInv, HeapInv, Fit
<1>4. CASE fits = {}
  <2>1. Deny(n)
    BY <1>4 DEF Getstk
  <2>2. QED
    BY <1>1, <1>4, <2>1, DenyMoves
<1>5. CASE fits # {}
  <2>1. /\ memlist' = TakeHigh(memlist, i, k) /\ mlength' = mlength - k
        /\ live' = live \cup {r} /\ denied' = 0
    BY <1>5 DEF Getstk
  <2>2. i \in DOMAIN memlist /\ memlist[i].len >= k
    BY <1>2, <1>3, <1>5, FitsFound
  <2> HIDE DEF i, fits
  <2>3. e \in Int /\ e % 8 = 0
    BY <1>3, <2>2, ListFacts, BlocksAreCells
  <2> HIDE DEF e
  <2>4. r \in OwnedRecord /\ r.kind = "stk" /\ r.ptr = e - 4 /\ r.bytes = n
    BY <1>1, <2>3 DEF Owned, OwnedRecord
  <2>5. StartOf(r) = e - k
    <3>1. StartOf(r) = (e - 4) - k + 4
      BY <2>4 DEF StartOf
    <3> HIDE DEF k, r
    <3>2. QED
      BY <1>2, <2>3, <3>1
  <2>6. mlength' = mlength - RoundMb(r.bytes)
    BY <2>1, <2>4
  <2>7. OwnedBytes(r) = e - k .. e - k + k - 1
    BY <2>4, <2>5 DEF OwnedBytes
  <2> HIDE DEF k, r
  <2>8. e - k \in Int /\ (e - k) % 8 = 0
    BY <1>2, <2>3
  <2>9. /\ OwnedBytes(r) \subseteq BytesIn(memlist)
        /\ BytesIn(memlist') = BytesIn(memlist) \ OwnedBytes(r)
    BY <1>2, <1>3, <2>1, <2>2, <2>7, HighBytes DEF e
  <2>10. Takes(r)
    BY <2>1, <2>5, <2>6, <2>8, <2>9 DEF Takes
  <2>11. QED
    BY <2>4, <2>10 DEF HeapMoves
<1>6. QED
  BY <1>4, <1>5

\* An owned block lies in the heap, and freemem accepts it.
LEMMA OwnedAccepted ==
  ASSUME ArenaInv, NEW r \in live
  PROVE  /\ InRange(StartOf(r), r.bytes)
         /\ ~Overlaps(memlist, StartOf(r), RoundMb(r.bytes))
         /\ r \in OwnedRecord /\ OwnedBytes(r) \subseteq MinHeap .. MaxHeap - 1
<1>1. /\ Fit(memlist, live) /\ memlist \in Seq(FreeBlock) /\ Ordered(memlist)
      /\ r \in OwnedRecord /\ Clear(memlist, StartOf(r), RoundMb(r.bytes))
      /\ BytesIn(memlist) \cup BytesOwned(live) = MinHeap .. MaxHeap - 1
  BY DEF ArenaInv, HeapInv, Fit, Whole
<1>2. /\ StartOf(r) \in Int /\ RoundMb(r.bytes) \in Nat \ {0} /\ r.bytes \in Nat \ {0}
  BY <1>1, OwnedFacts
<1>3. ~Overlaps(memlist, StartOf(r), RoundMb(r.bytes))
  BY <1>1, <1>2, ClearAccepted
<1>4. OwnedBytes(r) \subseteq MinHeap .. MaxHeap - 1
  BY <1>1 DEF BytesOwned
<1>5. StartOf(r) \in OwnedBytes(r)
  BY <1>1, <1>2, OwnedMember
<1>6. InRange(StartOf(r), r.bytes)
  BY <1>2, <1>4, <1>5, HeapSizes DEF InRange
<1>7. QED
  BY <1>1, <1>3, <1>4, <1>6

LEMMA FreememMoves ==
  ASSUME ArenaInv, NEW r \in live, Freemem(r)
  PROVE  HeapMoves
<1> DEFINE a == StartOf(r)
           k == RoundMb(r.bytes)
<1>1. memlist \in Seq(FreeBlock) /\ Ordered(memlist)
  BY DEF ArenaInv, HeapInv, Fit
<1>2. InRange(a, r.bytes) /\ ~Overlaps(memlist, a, k) /\ r \in OwnedRecord
  BY OwnedAccepted
<1>3. /\ memlist' = LinkAfter(memlist, Passed(memlist, a), a, k) /\ mlength' = mlength + k
      /\ live' = live \ {r} /\ denied' = 0
  BY <1>2 DEF Freemem, Freed, FreeList
<1>4. a \in Int /\ k \in Nat \ {0}
  BY <1>2, OwnedFacts
<1>5. OwnedBytes(r) = a .. a + k - 1
  BY DEF OwnedBytes
<1> HIDE DEF a, k
<1>6. Passed(memlist, a) \in 0 .. Len(memlist)
  BY <1>1, <1>4, PassedSplits
<1>7. BytesIn(memlist') = BytesIn(memlist) \cup OwnedBytes(r)
  BY <1>1, <1>3, <1>4, <1>5, <1>6, LinkBytes
<1>8. Gives(r)
  BY <1>3, <1>7 DEF Gives, k
<1>9. QED
  BY <1>8 DEF HeapMoves

LEMMA FreememStaleMoves ==
  ASSUME ArenaInv, NEW a \in Int, NEW n \in Nat, FreememStale(a, n)
  PROVE  HeapMoves
<1>1. memlist \in Seq(FreeBlock) /\ Ordered(memlist)
  BY DEF ArenaInv, HeapInv, Fit
<1>2. PICK i \in DOMAIN memlist :
        memlist[i].addr < a + RoundMb(n) /\ a < EndOf(memlist[i])
  BY DEF FreememStale
<1>3. RoundMb(n) \in Nat
  BY RoundMbCells
<1>4. Overlaps(memlist, a, RoundMb(n))
  BY <1>1, <1>2, <1>3, StaleRefused
<1>5. memlist' = memlist /\ mlength' = mlength /\ live' = live /\ denied' = 0
  BY <1>4 DEF FreememStale, Freed
<1>6. Settles
  BY <1>5 DEF Settles
<1>7. QED
  BY <1>6 DEF HeapMoves

\* mkbufpool without a semaphore gives back what it has just got.
LEMMA UndoGetmemMoves ==
  ASSUME ArenaInv, NEW n \in Nat \ {0}, Fits(memlist, RoundMb(n)) # {}, UndoGetmem(n)
  PROVE  HeapMoves
<1> DEFINE k == RoundMb(n)
           i == Min(Fits(memlist, k))
           a == memlist[i].addr
           w == TakeLow(memlist, i, k)
<1>1. memlist \in Seq(FreeBlock) /\ Ordered(memlist)
  BY DEF ArenaInv, HeapInv, Fit
<1>2. k \in Nat \ {0}
  BY RoundMbType
<1>3. i \in DOMAIN memlist /\ memlist[i].len >= k
  BY <1>1, <1>2, FitsFound
<1>4. /\ memlist' = LinkAfter(w, Passed(w, a), a, k)
      /\ mlength' = mlength /\ live' = live /\ denied' = 0
  BY DEF UndoGetmem, FreeList
<1> HIDE DEF k, i
<1>5. a \in Int
  BY <1>1, <1>3, ListFacts
<1>6. w \in Seq(FreeBlock) /\ Ordered(w)
  BY <1>1, <1>2, <1>3, LowEndTaken
<1>7. /\ a .. a + k - 1 \subseteq BytesIn(memlist)
      /\ BytesIn(w) = BytesIn(memlist) \ (a .. a + k - 1)
  BY <1>1, <1>2, <1>3, LowBytes
<1> HIDE DEF a, w
<1>8. Passed(w, a) \in 0 .. Len(w)
  BY <1>5, <1>6, PassedSplits
<1>9. BytesIn(memlist') = BytesIn(w) \cup (a .. a + k - 1)
  BY <1>2, <1>4, <1>5, <1>6, <1>8, LinkBytes
<1>10. Settles
  BY <1>4, <1>7, <1>9 DEF Settles
<1>11. QED
  BY <1>10 DEF HeapMoves

LEMMA MkbufpoolMoves ==
  ASSUME ArenaInv, NEW b \in Nat \ {0}, NEW k \in Nat \ {0}, Mkbufpool(b, k)
  PROVE  HeapMoves
<1> DEFINE n == PoolBytes(b, k)
<1>1. n \in Nat \ {0}
  BY PoolBytesPositive
<1>2. \/ Fits(memlist, RoundMb(n)) = {} /\ Deny(n)
      \/ Fits(memlist, RoundMb(n)) # {} /\ UndoGetmem(n)
      \/ Getmem(n)
  BY DEF Mkbufpool
<1> HIDE DEF n
<1>3. QED
  BY <1>1, <1>2, DenyMoves, UndoGetmemMoves, GetmemMoves

LEMMA EveryStepMoves == ArenaInv /\ [PoolsNext]_<<heapVars, poolVars>> => HeapMoves
<1> SUFFICES ASSUME ArenaInv, [PoolsNext]_<<heapVars, poolVars>> PROVE HeapMoves
  OBVIOUS
<1> DEFINE owned == live \ {poolmem[i] : i \in Created}
<1>1. CASE HeapCalls(owned)
  <2>1. ASSUME NEW n \in Request, Getmem(n) \/ Getstk(n) PROVE HeapMoves
    BY <2>1, HeapSizes, GetmemMoves, GetstkMoves
  <2>2. ASSUME NEW r \in owned, Freemem(r) PROVE HeapMoves
    BY <2>2, FreememMoves
  <2>3. ASSUME NEW a \in {8 * i : i \in MinHeap \div 8 .. MaxHeap \div 8 - 1},
               NEW n \in Request, FreememStale(a, n)
        PROVE  HeapMoves
    <3>1. a \in Int /\ n \in Nat
      BY HeapSizes
    <3>2. QED
      BY <2>3, <3>1, FreememStaleMoves
  <2>4. QED
    BY <1>1, <2>1, <2>2, <2>3 DEF HeapCalls
<1>2. ASSUME NEW a \in PoolArgs, Mkbufpool(a[1], a[2]) PROVE HeapMoves
  <2>1. a[1] \in Nat \ {0} /\ a[2] \in Nat \ {0}
    BY PoolSizes
  <2>2. QED
    BY <1>2, <2>1, MkbufpoolMoves
<1>3. CASE UNCHANGED heapVars
  BY <1>3 DEF HeapMoves
<1>4. \/ HeapCalls(owned)
      \/ \E a \in PoolArgs : Mkbufpool(a[1], a[2])
      \/ UNCHANGED heapVars
  BY DEF PoolsNext, Getbuf, GetbufWoken, KillUser, Freebuf
<1>5. QED
  BY <1>1, <1>2, <1>3, <1>4
-----------------------------------------------------------------------------
\* Runs of bytes can be counted.
LEMMA BytesCounted ==
  ASSUME NEW m, NEW L, Fit(m, L), Whole(m, L)
  PROVE  IsFiniteSet(BytesIn(m)) /\ Cardinality(BytesIn(m)) \in Nat
<1>1. BytesIn(m) \in SUBSET (MinHeap .. MaxHeap - 1)
  BY DEF Whole
<1>2. IsFiniteSet(MinHeap .. MaxHeap - 1)
  BY HeapSizes, FS_Interval
<1>3. IsFiniteSet(BytesIn(m))
  BY <1>1, <1>2, FS_Subset
<1>4. QED
  BY <1>3, FS_CardinalityType

LEMMA OwnedCounted ==
  ASSUME NEW r \in OwnedRecord
  PROVE  IsFiniteSet(OwnedBytes(r)) /\ Cardinality(OwnedBytes(r)) = RoundMb(r.bytes)
<1> DEFINE a == StartOf(r)
           k == RoundMb(r.bytes)
<1>1. a \in Int /\ k \in Nat \ {0}
  BY OwnedFacts
<1>2. OwnedBytes(r) = a .. a + k - 1
  BY DEF OwnedBytes
<1> HIDE DEF a, k
<1>3. a + k - 1 \in Int /\ ~(a > a + k - 1) /\ (a + k - 1) - a + 1 = k
  BY <1>1
<1>4. IsFiniteSet(a .. a + k - 1) /\ Cardinality(a .. a + k - 1) = k
  BY <1>1, <1>3, FS_Interval
<1>5. QED
  BY <1>2, <1>4 DEF k

LEMMA ArenaInvStarts == HeapInit => ArenaInv
<1> SUFFICES ASSUME HeapInit PROVE ArenaInv
  OBVIOUS
<1>1. MinHeap \in Int /\ MaxHeap - MinHeap \in Nat \ {0} /\ MaxHeap \in Int
  BY HeapSizes
<1> DEFINE b == Block(MinHeap, MaxHeap - MinHeap)
<1>2. memlist = <<b>> /\ live = {} /\ mlength = MaxHeap - MinHeap /\ denied = 0
  BY DEF HeapInit
<1>3. b \in FreeBlock /\ b.addr = MinHeap /\ EndOf(b) = MinHeap + (MaxHeap - MinHeap)
  BY <1>1, BlockFacts
<1>4. EndOf(b) = MaxHeap
  BY <1>1, <1>3
<1>5. BytesOf(b) = MinHeap .. MaxHeap - 1
  BY <1>3, <1>4 DEF BytesOf
<1> HIDE DEF b
<1>6. DOMAIN memlist = {1} /\ memlist[1] = b
  BY <1>2, <1>3
<1>7. BytesIn(memlist) = MinHeap .. MaxHeap - 1
  BY <1>5, <1>6 DEF BytesIn
<1>8. Whole(memlist, live)
  BY <1>2, <1>7 DEF Whole, BytesOwned
<1>9. mlength = Cardinality(BytesIn(memlist))
  <2>1. MaxHeap - 1 \in Int /\ ~(MinHeap > MaxHeap - 1) /\ (MaxHeap - 1) - MinHeap + 1 = MaxHeap - MinHeap
    BY <1>1
  <2>2. Cardinality(MinHeap .. MaxHeap - 1) = MaxHeap - MinHeap
    BY <1>1, <2>1, FS_Interval
  <2>3. QED
    BY <1>2, <1>7, <2>2
<1>10. QED
  BY <1>2, <1>8, <1>9, HeapInvStarts DEF ArenaInv

LEMMA TakesKeeps ==
  ASSUME ArenaInv, HeapInv', NEW r \in OwnedRecord, Takes(r)
  PROVE  ArenaInv'
<1>1. /\ Fit(memlist, live) /\ Whole(memlist, live)
      /\ mlength = Cardinality(BytesIn(memlist))
  BY DEF ArenaInv, HeapInv
<1>2. /\ StartOf(r) % 8 = 0 /\ OwnedBytes(r) \subseteq BytesIn(memlist)
      /\ BytesIn(memlist') = BytesIn(memlist) \ OwnedBytes(r)
      /\ mlength' = mlength - RoundMb(r.bytes) /\ live' = live \cup {r} /\ denied' = 0
  BY DEF Takes
<1>3. Whole(memlist', live')
  <2>1. BytesOwned(live') = BytesOwned(live) \cup OwnedBytes(r)
    BY <1>2 DEF BytesOwned
  <2>2. BytesIn(memlist') \cup BytesOwned(live') = BytesIn(memlist) \cup BytesOwned(live)
    BY <1>2, <2>1
  <2>3. QED
    BY <1>1, <1>2, <2>2 DEF Whole
<1>4. mlength' = Cardinality(BytesIn(memlist'))
  <2>1. /\ IsFiniteSet(BytesIn(memlist)) /\ Cardinality(BytesIn(memlist)) \in Nat
        /\ Cardinality(OwnedBytes(r)) = RoundMb(r.bytes)
    BY <1>1, BytesCounted, OwnedCounted
  <2>2. BytesIn(memlist) \cap OwnedBytes(r) = OwnedBytes(r)
    BY <1>2
  <2>3. Cardinality(BytesIn(memlist) \ OwnedBytes(r))
          = Cardinality(BytesIn(memlist)) - Cardinality(BytesIn(memlist) \cap OwnedBytes(r))
    BY <2>1, FS_Difference
  <2>4. QED
    BY <1>1, <1>2, <2>1, <2>2, <2>3
<1>5. QED
  BY <1>2, <1>3, <1>4 DEF ArenaInv

LEMMA GivesKeeps ==
  ASSUME ArenaInv, HeapInv', NEW r \in live, Gives(r)
  PROVE  ArenaInv'
<1>1. /\ Fit(memlist, live) /\ Whole(memlist, live) /\ r \in OwnedRecord
      /\ mlength = Cardinality(BytesIn(memlist))
  BY DEF ArenaInv, HeapInv, Fit
<1>2. /\ BytesIn(memlist') = BytesIn(memlist) \cup OwnedBytes(r)
      /\ mlength' = mlength + RoundMb(r.bytes) /\ live' = live \ {r} /\ denied' = 0
  BY DEF Gives
<1>3. Whole(memlist', live')
  <2>1. BytesOwned(live) = BytesOwned(live') \cup OwnedBytes(r)
    BY <1>2 DEF BytesOwned
  <2>2. BytesIn(memlist') \cup BytesOwned(live') = BytesIn(memlist) \cup BytesOwned(live)
    BY <1>2, <2>1
  <2>3. QED
    BY <1>1, <1>2, <2>2 DEF Whole
<1>4. mlength' = Cardinality(BytesIn(memlist'))
  <2>1. /\ IsFiniteSet(BytesIn(memlist)) /\ Cardinality(BytesIn(memlist)) \in Nat
        /\ IsFiniteSet(OwnedBytes(r)) /\ Cardinality(OwnedBytes(r)) = RoundMb(r.bytes)
        /\ RoundMb(r.bytes) \in Nat
    BY <1>1, BytesCounted, OwnedCounted, OwnedFacts
  <2>2. Cardinality(BytesIn(memlist) \cap OwnedBytes(r)) = 0
    BY <1>1, FreeNotOwned, FS_EmptySet
  <2>3. Cardinality(BytesIn(memlist) \cup OwnedBytes(r))
          = Cardinality(BytesIn(memlist)) + Cardinality(OwnedBytes(r))
            - Cardinality(BytesIn(memlist) \cap OwnedBytes(r))
    BY <2>1, FS_Union
  <2>4. QED
    BY <1>1, <1>2, <2>1, <2>2, <2>3
<1>5. QED
  BY <1>2, <1>3, <1>4 DEF ArenaInv

LEMMA ArenaInvKept == ArenaInv /\ [PoolsNext]_<<heapVars, poolVars>> => ArenaInv'
<1> SUFFICES ASSUME ArenaInv, [PoolsNext]_<<heapVars, poolVars>> PROVE ArenaInv'
  OBVIOUS
<1>1. HeapInv'
  BY HeapInvKept DEF ArenaInv
<1>2. HeapMoves
  BY EveryStepMoves
<1>3. ASSUME BytesIn(memlist') = BytesIn(memlist), mlength' = mlength, live' = live,
             denied' \in Nat
      PROVE  ArenaInv'
  BY <1>1, <1>3 DEF ArenaInv, Whole
<1>4. ASSUME NEW n \in Nat \ {0}, Refuses(n) PROVE ArenaInv'
  <2>1. denied' \in Nat
    BY <1>4, RoundMbCells DEF Refuses
  <2>2. QED
    BY <1>3, <1>4, <2>1 DEF Refuses
<1>5. CASE Settles
  BY <1>3, <1>5 DEF Settles
<1>6. CASE UNCHANGED heapVars
  <2>1. memlist' = memlist /\ mlength' = mlength /\ live' = live /\ denied' = denied
    BY <1>6 DEF heapVars
  <2>2. QED
    BY <1>3, <2>1 DEF ArenaInv
<1>7. QED
  BY <1>1, <1>2, <1>4, <1>5, <1>6, TakesKeeps, GivesKeeps DEF HeapMoves

LEMMA ArenaInvCovers == ArenaInv => NoLostBytes
<1> SUFFICES ASSUME ArenaInv PROVE NoLostBytes
  OBVIOUS
<1>1. /\ memlist \in Seq(FreeBlock) /\ live \subseteq OwnedRecord
      /\ BytesIn(memlist) \cup BytesOwned(live) = MinHeap .. MaxHeap - 1
      /\ mlength = Cardinality(BytesIn(memlist))
  BY DEF ArenaInv, HeapInv, Fit, Whole
<1>2. mlength = Cardinality(UNION {FreeBytes(i) : i \in DOMAIN memlist})
  BY <1>1 DEF BytesIn, BytesOf, FreeBytes
<1>3. ASSUME NEW a \in MinHeap .. MaxHeap - 1, a \in BytesIn(memlist)
      PROVE  \E i \in DOMAIN memlist : memlist[i].addr <= a /\ a < EndOf(memlist[i])
  BY <1>1, <1>3, BytesMember
<1>4. ASSUME NEW a \in MinHeap .. MaxHeap - 1, NEW r \in live, a \in OwnedBytes(r)
      PROVE  StartOf(r) <= a /\ a < EndOf(OwnedBlock(r))
  <2>1. StartOf(r) <= a /\ a < StartOf(r) + RoundMb(r.bytes)
    BY <1>1, <1>4, OwnedMember
  <2>2. EndOf(OwnedBlock(r)) = StartOf(r) + RoundMb(r.bytes)
    BY DEF OwnedBlock, Block, EndOf
  <2>3. QED
    BY <2>1, <2>2
<1>5. QED
  BY <1>1, <1>2, <1>3, <1>4 DEF NoLostBytes, BytesOwned

\* No byte is ever lost, for every size of the heap, of the requests and of the
\* pools: freemem (freemem.c) links what it is given into the list, merged with the
\* free blocks that touch it, and memlist.mlength counts the free bytes.
THEOREM NoByteIsLost == PoolsSpec => []NoLostBytes
<1>1. PoolsInit => ArenaInv
  BY ArenaInvStarts DEF PoolsInit
<1>2. ArenaInv /\ [PoolsNext]_<<heapVars, poolVars>> => ArenaInv'
  BY ArenaInvKept
<1>3. ArenaInv => NoLostBytes
  BY ArenaInvCovers
<1>4. QED
  BY <1>1, <1>2, <1>3, PTL DEF PoolsSpec
-----------------------------------------------------------------------------
\* The cells of a set of bytes, and the sets made of whole cells.
CellsOf(S) == {x \div 8 : x \in S}
Cellular(S) == S \subseteq Int /\ \A x \in S, y \in Int : y \div 8 = x \div 8 => y \in S

LEMMA CellsMember ==
  ASSUME NEW S, Cellular(S)
  PROVE  /\ CellsOf(S) \subseteq Int
         /\ \A c \in Int : c \in CellsOf(S) <=> 8 * c \in S
         /\ \A x \in Int : x \in S <=> x \div 8 \in CellsOf(S)
<1>1. S \subseteq Int /\ \A x \in S, y \in Int : y \div 8 = x \div 8 => y \in S
  BY DEF Cellular
<1>2. \A x \in Int : x \div 8 \in Int
  OBVIOUS
<1>3. CellsOf(S) \subseteq Int
  BY <1>1, <1>2 DEF CellsOf
<1>4. ASSUME NEW x \in Int PROVE x \in S <=> x \div 8 \in CellsOf(S)
  <2>1. ASSUME NEW y \in S, x \div 8 = y \div 8 PROVE x \in S
    BY <1>1, <1>4, <2>1
  <2>2. QED
    BY <2>1 DEF CellsOf
<1>5. ASSUME NEW c \in Int PROVE c \in CellsOf(S) <=> 8 * c \in S
  <2>1. 8 * c \in Int /\ (8 * c) \div 8 = c
    OBVIOUS
  <2>2. 8 * c \in S <=> (8 * c) \div 8 \in CellsOf(S)
    BY <1>4, <2>1
  <2>3. QED
    BY <2>1, <2>2
<1>6. QED
  BY <1>3, <1>4, <1>5

\* A run that starts at a cell and is some cells long.
LEMMA CellsOfRun ==
  ASSUME NEW a \in Int, a % 8 = 0, NEW n \in Int, n % 8 = 0
  PROVE  /\ Cellular(a .. a + n - 1)
         /\ CellsOf(a .. a + n - 1) = a \div 8 .. a \div 8 + n \div 8 - 1
<1> DEFINE run == a .. a + n - 1
<1>1. \A x : x \in run <=> x \in Int /\ a <= x /\ x < a + n
  OBVIOUS
<1> HIDE DEF run
<1>2. Cellular(run)
  <2>1. SUFFICES ASSUME NEW x \in Int, a <= x, x < a + n, NEW y \in Int, y \div 8 = x \div 8
                 PROVE  a <= y /\ y < a + n
    BY <1>1 DEF Cellular
  <2>2. x \div 8 = y \div 8
    BY <2>1
  <2>3. QED
    BY <2>1, <2>2, CellMates
<1>3. a = 8 * (a \div 8) /\ n = 8 * (n \div 8) /\ a \div 8 \in Int /\ n \div 8 \in Int
  OBVIOUS
<1>4. ASSUME NEW c \in Int
      PROVE  c \in CellsOf(run) <=> a \div 8 <= c /\ c < a \div 8 + n \div 8
  <2>1. c \in CellsOf(run) <=> a <= 8 * c /\ 8 * c < a + n
    <3>1. c \in CellsOf(run) <=> 8 * c \in run
      BY <1>2, CellsMember
    <3>2. QED
      BY <1>1, <3>1
  <2>2. QED
    BY <1>3, <2>1
<1>5. \A c : c \in a \div 8 .. a \div 8 + n \div 8 - 1 <=>
               c \in Int /\ a \div 8 <= c /\ c < a \div 8 + n \div 8
  BY <1>3
<1>6. CellsOf(run) \subseteq Int
  BY <1>2, CellsMember
<1>7. CellsOf(run) = a \div 8 .. a \div 8 + n \div 8 - 1
  BY <1>4, <1>5, <1>6
<1>8. QED
  BY <1>2, <1>7 DEF run

\* Cells taken away, and cells added.
LEMMA CellsCut ==
  ASSUME NEW S, Cellular(S), NEW R, Cellular(R)
  PROVE  CellsOf(S \ R) = CellsOf(S) \ CellsOf(R)
<1>1. S \subseteq Int
  BY DEF Cellular
<1>2. \A x \in Int : x \in R <=> x \div 8 \in CellsOf(R)
  BY CellsMember
<1>3. CellsOf(S \ R) \subseteq CellsOf(S) \ CellsOf(R)
  <2>1. SUFFICES ASSUME NEW x \in S, x \notin R
                 PROVE  x \div 8 \in CellsOf(S) \ CellsOf(R)
    BY DEF CellsOf
  <2>2. x \div 8 \notin CellsOf(R)
    BY <1>1, <1>2, <2>1
  <2>3. QED
    BY <2>2 DEF CellsOf
<1>4. CellsOf(S) \ CellsOf(R) \subseteq CellsOf(S \ R)
  <2>1. SUFFICES ASSUME NEW x \in S, x \div 8 \notin CellsOf(R)
                 PROVE  x \div 8 \in CellsOf(S \ R)
    BY DEF CellsOf
  <2>2. x \notin R
    BY <1>1, <1>2, <2>1
  <2>3. QED
    BY <2>2 DEF CellsOf
<1>5. QED
  BY <1>3, <1>4

LEMMA CellsJoin ==
  ASSUME NEW S, NEW R
  PROVE  CellsOf(S \cup R) = CellsOf(S) \cup CellsOf(R)
BY DEF CellsOf

\* The free bytes are cells, and so are those of an owner.
LEMMA FreeCellular ==
  ASSUME NEW m, NEW L, Fit(m, L), Whole(m, L)
  PROVE  Cellular(BytesIn(m))
<1>1. BytesIn(m) \subseteq Int
  <2>1. BytesIn(m) \subseteq MinHeap .. MaxHeap - 1
    BY DEF Whole
  <2>2. QED
    BY <2>1, HeapSizes
<1>2. \A x \in BytesIn(m), y \in Int : y \div 8 = x \div 8 => y \in BytesIn(m)
  BY WholeCells
<1>3. QED
  BY <1>1, <1>2 DEF Cellular

LEMMA OwnedCells ==
  ASSUME NEW r \in OwnedRecord, StartOf(r) % 8 = 0,
         NEW c, c = StartOf(r) \div 8, NEW d, d = c + RoundMb(r.bytes) \div 8 - 1
  PROVE  /\ Cellular(OwnedBytes(r)) /\ CellsOf(OwnedBytes(r)) = c .. d
         /\ c \in Int /\ d \in Int /\ c <= d
<1> DEFINE a == StartOf(r)
           k == RoundMb(r.bytes)
<1>1. a \in Int /\ a % 8 = 0 /\ k \in Nat \ {0}
  BY OwnedFacts
<1>2. k % 8 = 0
  <2>1. r.bytes \in Nat
    BY DEF OwnedRecord
  <2>2. QED
    BY <2>1, RoundMbCells
<1>3. OwnedBytes(r) = a .. a + k - 1
  BY DEF OwnedBytes
<1>4. c = a \div 8 /\ d = a \div 8 + k \div 8 - 1
  OBVIOUS
<1> HIDE DEF a, k
<1>5. Cellular(a .. a + k - 1) /\ CellsOf(a .. a + k - 1) = a \div 8 .. a \div 8 + k \div 8 - 1
  <2>1. a \in Int /\ k \in Int
    BY <1>1
  <2>2. QED
    BY <1>1, <1>2, <2>1, CellsOfRun, Zenon
<1>6. a \div 8 \in Int /\ k \div 8 \in Int /\ k \div 8 >= 1
  BY <1>1, <1>2
<1>7. QED
  BY <1>3, <1>4, <1>5, <1>6

\* If no block is large enough then there is no room: free cells next to each
\* other are in one block, since touching blocks are merged.
LEMMA NoFitNoRoom ==
  ASSUME NEW m, NEW L, Fit(m, L), Whole(m, L), NEW q \in Nat, Fits(m, 8 * q) = {},
         NEW c \in CellsOf(BytesIn(m)), c .. c + q - 1 \subseteq CellsOf(BytesIn(m))
  PROVE  FALSE
<1>1. m \in Seq(FreeBlock) /\ Ordered(m)
  BY DEF Fit
<1>2. Cellular(BytesIn(m))
  BY FreeCellular
<1>3. c \in Int /\ 8 * c \in BytesIn(m)
  BY <1>2, CellsMember
<1>4. /\ \A i \in DOMAIN m : /\ m[i].addr \in Int /\ EndOf(m[i]) \in Int
                             /\ m[i].len \in Nat /\ EndOf(m[i]) = m[i].addr + m[i].len
      /\ DOMAIN m \subseteq Int
  BY <1>1, ListFacts
<1>5. PICK i \in DOMAIN m : m[i].addr <= 8 * c /\ 8 * c < EndOf(m[i])
  BY <1>1, <1>3, BytesMember
<1> DEFINE e == EndOf(m[i])
<1>6. e \in Int /\ 8 * c < e /\ e < 8 * c + 8 * q
  <2>1. ~(m[i].len >= 8 * q)
    BY DEF Fits
  <2>2. QED
    BY <1>3, <1>4, <1>5, <2>1
<1>7. ASSUME NEW j \in DOMAIN m, m[j].addr <= e, e < EndOf(m[j]) PROVE FALSE
  <2>1. CASE j = i
    BY <1>6, <1>7, <2>1
  <2>2. CASE i < j
    <3>1. e < m[j].addr
      BY <1>1, <2>2 DEF Ordered
    <3>2. QED
      BY <1>4, <1>7, <3>1
  <2>3. CASE j < i
    <3>1. EndOf(m[j]) < m[i].addr
      BY <1>1, <2>3 DEF Ordered
    <3>2. m[i].addr <= 8 * c
      BY <1>5
    <3> HIDE DEF e
    <3>3. QED
      BY <1>3, <1>4, <1>6, <1>7, <3>1, <3>2
  <2>4. QED
    BY <1>4, <2>1, <2>2, <2>3
<1> HIDE DEF e
<1>8. e \notin BytesIn(m)
  BY <1>1, <1>7, BytesMember
<1>9. e \div 8 \in c .. c + q - 1
  BY <1>3, <1>6
<1>10. e \in BytesIn(m)
  BY <1>2, <1>6, <1>9, CellsMember
<1>11. QED
  BY <1>8, <1>10
-----------------------------------------------------------------------------
LEMMA FreeCellsAre ==
  /\ FreeCells = CellsOf(BytesIn(memlist))
  /\ FreeCells' = CellsOf(BytesIn(memlist'))
BY DEF FreeCells, FreeBytes, CellsOf, BytesIn, BytesOf

\* The heap before the first call is the arena with every cell free.
LEMMA ArenaStarts == HeapInit => HeapArena!Init
<1> SUFFICES ASSUME HeapInit PROVE HeapArena!Init
  OBVIOUS
<1>1. BytesIn(memlist) = MinHeap .. MaxHeap - 1
  <2>1. Whole(memlist, live) /\ live = {}
    BY ArenaInvStarts DEF ArenaInv, HeapInit
  <2>2. QED
    BY <2>1 DEF Whole, BytesOwned
<1>2. /\ MinHeap \in Int /\ MinHeap % 8 = 0 /\ MaxHeap - MinHeap \in Int
      /\ (MaxHeap - MinHeap) % 8 = 0 /\ MinHeap + (MaxHeap - MinHeap) - 1 = MaxHeap - 1
      /\ MinHeap \div 8 + (MaxHeap - MinHeap) \div 8 = MaxHeap \div 8
  BY HeapSizes
<1>3. CellsOf(MinHeap .. MinHeap + (MaxHeap - MinHeap) - 1)
        = MinHeap \div 8 .. MinHeap \div 8 + (MaxHeap - MinHeap) \div 8 - 1
  BY <1>2, CellsOfRun
<1>4. FreeCells = MinHeap \div 8 .. MaxHeap \div 8 - 1
  BY <1>1, <1>2, <1>3, FreeCellsAre
<1>5. denied \div 8 = 0
  BY DEF HeapInit
<1>6. QED
  BY <1>4, <1>5 DEF HeapArena!Init

LEMMA TakesAllocates ==
  ASSUME ArenaInv, NEW r \in OwnedRecord, Takes(r)
  PROVE  HeapArena!Allocate
<1> DEFINE c == StartOf(r) \div 8
           d == c + RoundMb(r.bytes) \div 8 - 1
<1>1. /\ StartOf(r) % 8 = 0 /\ OwnedBytes(r) \subseteq BytesIn(memlist)
      /\ BytesIn(memlist') = BytesIn(memlist) \ OwnedBytes(r) /\ denied' = 0
  BY DEF Takes
<1>2. /\ Cellular(OwnedBytes(r)) /\ CellsOf(OwnedBytes(r)) = c .. d
      /\ c \in Int /\ d \in Int /\ c <= d
  BY <1>1, OwnedCells
<1>3. Cellular(BytesIn(memlist))
  BY FreeCellular DEF ArenaInv, HeapInv
<1> HIDE DEF c, d
<1>4. FreeCells' = FreeCells \ (c .. d)
  BY <1>1, <1>2, <1>3, CellsCut, FreeCellsAre
<1>5. c .. d \subseteq FreeCells
  <2>1. CellsOf(OwnedBytes(r)) \subseteq CellsOf(BytesIn(memlist))
    BY <1>1 DEF CellsOf
  <2>2. QED
    BY <1>2, <2>1, FreeCellsAre
<1>6. c \in FreeCells /\ d \in FreeCells
  BY <1>2, <1>5
<1>7. (denied \div 8)' = 0
  BY <1>1
<1>8. QED
  BY <1>2, <1>4, <1>5, <1>6, <1>7 DEF HeapArena!Allocate

LEMMA GivesReleases ==
  ASSUME ArenaInv, NEW r \in live, Gives(r)
  PROVE  HeapArena!Release
<1> DEFINE c == StartOf(r) \div 8
           d == c + RoundMb(r.bytes) \div 8 - 1
           Cell == MinHeap \div 8 .. MaxHeap \div 8 - 1
<1>1. /\ Fit(memlist, live) /\ Whole(memlist, live)
      /\ BytesIn(memlist') = BytesIn(memlist) \cup OwnedBytes(r) /\ denied' = 0
  BY DEF Gives, ArenaInv, HeapInv
<1>2. /\ r \in OwnedRecord /\ StartOf(r) % 8 = 0
      /\ OwnedBytes(r) \subseteq MinHeap .. MaxHeap - 1
  BY <1>1, OwnedAccepted DEF Whole
<1>3. /\ Cellular(OwnedBytes(r)) /\ CellsOf(OwnedBytes(r)) = c .. d
      /\ c \in Int /\ d \in Int /\ c <= d
  BY <1>2, OwnedCells
<1>4. Cellular(BytesIn(memlist))
  BY <1>1, FreeCellular
<1> HIDE DEF c, d
<1>5. FreeCells' = FreeCells \cup (c .. d)
  BY <1>1, <1>3, CellsJoin, FreeCellsAre
<1>6. c .. d \subseteq Cell
  <2>1. SUFFICES ASSUME NEW x \in OwnedBytes(r) PROVE x \div 8 \in Cell
    BY <1>3 DEF CellsOf
  <2>2. x \in MinHeap .. MaxHeap - 1
    BY <1>2
  <2>3. x \in Int /\ MinHeap <= x /\ x < MaxHeap
    BY <2>2, HeapSizes
  <2>4. /\ MinHeap \in Int /\ MinHeap % 8 = 0 /\ MaxHeap \in Int /\ MaxHeap % 8 = 0
    BY HeapSizes
  <2>5. QED
    BY <2>3, <2>4
<1>7. (c .. d) \cap FreeCells = {}
  <2>1. BytesIn(memlist) \cap OwnedBytes(r) = {}
    BY <1>1, FreeNotOwned
  <2>2. ASSUME NEW x \in OwnedBytes(r), x \div 8 \in FreeCells PROVE FALSE
    <3>1. x \in Int
      BY <1>3 DEF Cellular
    <3>2. x \in BytesIn(memlist)
      BY <1>4, <2>2, <3>1, CellsMember, FreeCellsAre
    <3>3. QED
      BY <2>1, <2>2, <3>2
  <2>3. QED
    BY <1>3, <2>2 DEF CellsOf
<1>8. c .. d \subseteq Cell \ FreeCells
  BY <1>6, <1>7
<1>9. c \in Cell /\ d \in Cell
  BY <1>3, <1>6
<1>10. (denied \div 8)' = 0
  BY <1>1
<1>11. QED
  BY <1>3, <1>5, <1>8, <1>9, <1>10 DEF HeapArena!Release

LEMMA RefusalIsRefusal ==
  ASSUME ArenaInv, NEW n \in Nat \ {0}, Refuses(n)
  PROVE  HeapArena!Refuse
<1> DEFINE q == RoundMb(n) \div 8
<1>1. /\ Fit(memlist, live) /\ Whole(memlist, live)
      /\ Fits(memlist, RoundMb(n)) = {} /\ denied' = RoundMb(n)
      /\ BytesIn(memlist') = BytesIn(memlist)
  BY DEF Refuses, ArenaInv, HeapInv
<1>2. q \in Nat \ {0} /\ RoundMb(n) = 8 * q
  BY DEF RoundMb
<1> HIDE DEF q
<1>3. FreeCells' = FreeCells
  BY <1>1, FreeCellsAre
<1>4. denied' \div 8 = q
  BY <1>1 DEF q
<1>5. \A c \in FreeCells : ~(c .. c + q - 1 \subseteq FreeCells)
  BY <1>1, <1>2, NoFitNoRoom, FreeCellsAre
<1>6. QED
  BY <1>2, <1>3, <1>4, <1>5 DEF HeapArena!Refuse, HeapArena!HasRoom

\* Each step of the heap is a step of the arena, or none.
LEMMA ArenaFollows ==
  ArenaInv /\ [PoolsNext]_<<heapVars, poolVars>>
    => [HeapArena!Next]_<<FreeCells, denied \div 8>>
<1> SUFFICES ASSUME ArenaInv, [PoolsNext]_<<heapVars, poolVars>>
             PROVE  [HeapArena!Next]_<<FreeCells, denied \div 8>>
  OBVIOUS
<1>1. HeapMoves
  BY EveryStepMoves
<1>2. ASSUME NEW r \in OwnedRecord, Takes(r) PROVE HeapArena!Next
  BY <1>2, TakesAllocates DEF HeapArena!Next
<1>3. ASSUME NEW r \in live, Gives(r) PROVE HeapArena!Next
  BY <1>3, GivesReleases DEF HeapArena!Next
<1>4. ASSUME NEW n \in Nat \ {0}, Refuses(n) PROVE HeapArena!Next
  BY <1>4, RefusalIsRefusal DEF HeapArena!Next
<1>5. CASE Settles
  <2>1. FreeCells' = FreeCells /\ (denied \div 8)' = 0
    BY <1>5, FreeCellsAre DEF Settles
  <2>2. QED
    BY <2>1 DEF HeapArena!Next, HeapArena!Forget
<1>6. CASE UNCHANGED heapVars
  <2>1. memlist' = memlist /\ denied' = denied
    BY <1>6 DEF heapVars
  <2>2. FreeCells' = FreeCells /\ (denied \div 8)' = denied \div 8
    BY <2>1, FreeCellsAre
  <2>3. QED
    BY <2>2
<1>7. QED
  BY <1>1, <1>2, <1>3, <1>4, <1>5, <1>6 DEF HeapMoves

\* The heap is an arena of cells, for every size of the heap, of the requests and
\* of the pools: first fit from the low end (getmem.c), last fit from the high end
\* (getstk.c) and merging with both neighbours (freemem.c) give cells only to one
\* owner, take them only from their owner, and refuse a request only if no run of
\* free cells is long enough for it.
THEOREM HeapImplementsArena == PoolsSpec => HeapIsArena
<1>1. PoolsInit => ArenaInv /\ HeapArena!Init
  BY ArenaInvStarts, ArenaStarts DEF PoolsInit
<1>2. ArenaInv /\ [PoolsNext]_<<heapVars, poolVars>> => ArenaInv'
  BY ArenaInvKept
<1>3. ArenaInv /\ [PoolsNext]_<<heapVars, poolVars>>
        => [HeapArena!Next]_<<FreeCells, denied \div 8>>
  BY ArenaFollows
<1>4. QED
  BY <1>1, <1>2, <1>3, PTL DEF PoolsSpec, HeapIsArena, HeapArena!Spec
-----------------------------------------------------------------------------
\* A sequence is one over any set that has its elements.
LEMMA SequenceOver ==
  ASSUME NEW S, NEW T, NEW s \in Seq(S), \A i \in DOMAIN s : s[i] \in T
  PROVE  s \in Seq(T)
<1>1. Len(s) \in Nat /\ DOMAIN s = 1..Len(s) /\ s = [i \in 1..Len(s) |-> s[i]]
  BY LenProperties
<1>2. s \in [1..Len(s) -> T]
  BY <1>1
<1>3. QED
  BY <1>1, <1>2, SeqDef

\* The bytes of an owner lie in the heap, and so does the pointer to them.
LEMMA OwnedInside ==
  ASSUME ArenaInv, NEW r \in live
  PROVE  /\ MinHeap <= StartOf(r) /\ EndOf(OwnedBlock(r)) <= MaxHeap
         /\ r.ptr \in Nat /\ r.kind \in {"mem", "stk"} /\ r.bytes \in Nat \ {0}
<1> DEFINE a == StartOf(r)
           k == RoundMb(r.bytes)
<1>1. r \in OwnedRecord /\ OwnedBytes(r) \subseteq MinHeap .. MaxHeap - 1
  BY OwnedAccepted
<1>2. /\ a \in Int /\ k \in Nat \ {0} /\ r.bytes \in Nat \ {0} /\ r.ptr \in Int
      /\ r.kind \in {"mem", "stk"}
  BY <1>1, OwnedFacts DEF OwnedRecord
<1>3. k >= 8
  BY <1>2 DEF RoundMb
<1>4. OwnedBytes(r) = a .. a + k - 1 /\ EndOf(OwnedBlock(r)) = a + k
  BY DEF OwnedBytes, OwnedBlock, EndOf, Block
<1>5. a = IF r.kind = "stk" THEN r.ptr - k + 4 ELSE r.ptr
  BY DEF StartOf
<1> HIDE DEF a, k
<1>6. MinHeap <= a /\ a + k <= MaxHeap
  <2>1. a \in a .. a + k - 1 /\ a + k - 1 \in a .. a + k - 1
    BY <1>2
  <2>2. a \in MinHeap .. MaxHeap - 1 /\ a + k - 1 \in MinHeap .. MaxHeap - 1
    BY <1>1, <1>4, <2>1
  <2>3. QED
    BY <1>2, <2>2, HeapSizes
<1>7. r.ptr \in Nat
  <2>1. CASE r.kind = "stk"
    BY <1>2, <1>3, <1>5, <1>6, <2>1, HeapSizes
  <2>2. CASE r.kind # "stk"
    BY <1>2, <1>5, <1>6, <2>2, HeapSizes
  <2>3. QED
    BY <2>1, <2>2
<1>8. QED
  BY <1>2, <1>4, <1>6, <1>7 DEF a

LEMMA ArenaInvTyped == ArenaInv => HeapTypeOK
<1> SUFFICES ASSUME ArenaInv PROVE HeapTypeOK
  OBVIOUS
<1> DEFINE Typed == [addr : MinHeap .. MaxHeap - 8, len : 8 .. MaxHeap - MinHeap]
<1>1. /\ Fit(memlist, live) /\ Whole(memlist, live) /\ memlist \in Seq(FreeBlock)
      /\ mlength = Cardinality(BytesIn(memlist)) /\ denied \in Nat
  BY DEF ArenaInv, HeapInv, Fit
<1>2. ASSUME NEW i \in DOMAIN memlist PROVE memlist[i] \in Typed
  <2> DEFINE b == memlist[i]
  <2>1. /\ b \in FreeBlock /\ b.addr \in Int /\ b.len \in Nat \ {0}
        /\ EndOf(b) = b.addr + b.len
    BY <1>1, ListFacts
  <2>2. /\ b.addr % 8 = 0 /\ EndOf(b) % 8 = 0
        /\ MinHeap <= b.addr /\ EndOf(b) <= MaxHeap
    BY <1>1, BlocksAreCells
  <2> HIDE DEF b
  <2>3. /\ b.addr \in MinHeap .. MaxHeap - 8 /\ b.len \in 8 .. MaxHeap - MinHeap
    <3>1. b.len >= 8
      BY <2>1, <2>2
    <3>2. QED
      BY <2>1, <2>2, <3>1, HeapSizes
  <2>4. b \in Typed
    BY <2>1, <2>3 DEF FreeBlock
  <2>5. QED
    BY <2>4 DEF b
<1>3. memlist \in Seq(Typed)
  BY <1>1, <1>2, SequenceOver
<1>4. mlength \in 0 .. MaxHeap - MinHeap
  <2>1. BytesIn(memlist) \in SUBSET (MinHeap .. MaxHeap - 1)
    BY <1>1 DEF Whole
  <2>2. MaxHeap - 1 \in Int /\ MinHeap \in Int /\ ~(MinHeap > MaxHeap - 1)
        /\ (MaxHeap - 1) - MinHeap + 1 = MaxHeap - MinHeap
    BY HeapSizes
  <2>3. /\ IsFiniteSet(MinHeap .. MaxHeap - 1)
        /\ Cardinality(MinHeap .. MaxHeap - 1) = MaxHeap - MinHeap
    BY <2>2, FS_Interval
  <2>4. Cardinality(BytesIn(memlist)) <= Cardinality(MinHeap .. MaxHeap - 1)
    BY <2>1, <2>3, FS_Subset
  <2>5. Cardinality(BytesIn(memlist)) \in Nat
    BY <1>1, BytesCounted
  <2>6. QED
    BY <1>1, <2>2, <2>3, <2>4, <2>5, HeapSizes
<1>5. \A r \in live : r.kind \in {"mem", "stk"} /\ r.bytes \in Nat \ {0} /\ r.ptr \in Nat
  BY OwnedInside
<1>6. QED
  BY <1>1, <1>3, <1>4, <1>5 DEF HeapTypeOK
-----------------------------------------------------------------------------
\* The buffer pools.

PoolTypes ==
  /\ nbpools \in 0 .. NBPOOLS
  /\ bufs \in [Pool -> Seq(Int)]
  /\ permits \in [Pool -> Nat]
  /\ waiters \in [Pool -> Seq(User)]
  /\ gets \in [User -> Pool \cup {NoPool}]
  /\ wasted \in [Pool -> Nat]
  /\ dead \subseteq User
  /\ held \subseteq [user : User, addr : Int, pool : Pool]

\* A process waits at most once, alive, and for the pool that it has asked for.
WaitersInside ==
  \A i \in Pool :
    /\ IsInjective(waiters[i])
    /\ \A u \in Range(waiters[i]) : gets[u] = i /\ u \notin dead

\* Nobody uses an entry of buftab before mkbufpool has filled it.
UnusedEntries ==
  \A i \in Pool : i >= nbpools =>
    /\ bufs[i] = <<>> /\ permits[i] = 0 /\ waiters[i] = <<>> /\ wasted[i] = 0
    /\ \A u \in User : gets[u] # i
    /\ \A b \in held : b.pool # i

\* The processes that have been promised a buffer of pool i and have not run.
Promised(i) == {u \in User \ dead : gets[u] = i /\ u \notin Range(waiters[i])}

PromisesCovered ==
  \A i \in Pool : Len(bufs[i]) = permits[i] + Cardinality(Promised(i)) + wasted[i]

\* The first inductive invariant, about how many buffers there are.
PoolInv ==
  /\ HeapInv
  /\ PoolTypes /\ WaitersInside /\ UnusedEntries /\ PromisesCovered
-----------------------------------------------------------------------------
\* Sets of processes can be counted.
LEMMA CountUsers ==
  ASSUME NEW S \in SUBSET User
  PROVE  /\ Cardinality(S) \in Nat
         /\ \A u \in User \ S : Cardinality(S \cup {u}) = Cardinality(S) + 1
         /\ \A u \in S : Cardinality(S \ {u}) = Cardinality(S) - 1 /\ Cardinality(S) > 0
<1>1. IsFiniteSet(S)
  BY PoolSizes, FS_Subset
<1>2. Cardinality(S) \in Nat
  BY <1>1, FS_CardinalityType
<1>3. \A u \in User \ S : Cardinality(S \cup {u}) = Cardinality(S) + 1
  BY <1>1, FS_AddElement
<1>4. \A u \in S : Cardinality(S \ {u}) = Cardinality(S) - 1
  BY <1>1, FS_RemoveElement
<1>5. ASSUME NEW u \in S PROVE Cardinality(S) > 0
  <2>1. Cardinality(S) # 0
    BY <1>1, FS_EmptySet
  <2>2. QED
    BY <1>2, <2>1
<1>6. QED
  BY <1>2, <1>3, <1>4, <1>5

\* Entries of buftab are numbers, and NoPool is none of them.
LEMMA PoolNumbers ==
  /\ NBPOOLS \in Nat /\ NoPool \notin Pool
  /\ \A i : i \in Pool <=> i \in Nat /\ i < NBPOOLS
BY PoolSizes DEF Pool, NoPool

\* A process that is in no call waits nowhere and is promised nothing.
LEMMA IdleWaitsNowhere ==
  ASSUME PoolInv, NEW u \in User, gets[u] = NoPool
  PROVE  \A i \in Pool : u \notin Range(waiters[i]) /\ u \notin Promised(i)
BY PoolNumbers DEF PoolInv, WaitersInside, Promised

\* The pools start unused.
LEMMA PoolInvStarts == PoolsInit => PoolInv
<1> SUFFICES ASSUME PoolsInit PROVE PoolInv
  OBVIOUS
<1>1. HeapInv
  BY HeapInvStarts DEF PoolsInit
<1>2. /\ nbpools = 0 /\ bufs = [i \in Pool |-> <<>>]
      /\ permits = [i \in Pool |-> 0] /\ waiters = [i \in Pool |-> <<>>]
      /\ gets = [u \in User |-> NoPool] /\ held = {}
      /\ wasted = [i \in Pool |-> 0] /\ dead = {}
  BY DEF PoolsInit, PoolSemaphores!Init
<1>3. PoolTypes
  <2>1. <<>> \in Seq(Int) /\ <<>> \in Seq(User)
    BY EmptySeq
  <2>2. QED
    BY <1>2, <2>1, PoolNumbers DEF PoolTypes
<1>4. WaitersInside
  BY <1>2 DEF WaitersInside, IsInjective, Range
<1>5. UnusedEntries
  BY <1>2, PoolNumbers DEF UnusedEntries
<1>6. PromisesCovered
  <2>1. SUFFICES ASSUME NEW i \in Pool
                 PROVE  Len(bufs[i]) = permits[i] + Cardinality(Promised(i)) + wasted[i]
    BY DEF PromisesCovered
  <2>2. Promised(i) = {}
    BY <1>2, PoolNumbers DEF Promised
  <2>3. Cardinality(Promised(i)) = 0
    BY <2>2, FS_EmptySet
  <2>4. Len(bufs[i]) = 0 /\ permits[i] = 0 /\ wasted[i] = 0
    BY <1>2, EmptySeq
  <2>5. QED
    BY <2>3, <2>4
<1>7. QED
  BY <1>1, <1>3, <1>4, <1>5, <1>6 DEF PoolInv
-----------------------------------------------------------------------------
\* The buffers of a new pool: as many as asked for.
LEMMA CarveFacts ==
  ASSUME NEW a \in Int, NEW b \in Nat \ {0}, NEW k \in Nat \ {0}
  PROVE  Carve(a, b, k) \in Seq(Int) /\ Len(Carve(a, b, k)) = k
<1>1. Stride(b) \in Int
  BY DEF Stride, RoundWord, BPID
<1>2. \A x, y \in Int : x * y \in Int
  OBVIOUS
<1>3. \A j \in 1..k : a + (j - 1) * Stride(b) \in Int
  BY <1>1, <1>2
<1>4. Carve(a, b, k) \in [1..k -> Int]
  BY <1>3 DEF Carve
<1>5. Carve(a, b, k) \in Seq(Int)
  BY <1>4, SeqDef
<1>6. DOMAIN Carve(a, b, k) = 1..k
  BY <1>4
<1>7. QED
  BY <1>5, <1>6, LenProperties

\* mkbufpool: the semaphore of a new pool counts its buffers.
LEMMA MkbufpoolPromises ==
  ASSUME PoolInv, HeapInv', NEW b \in Nat \ {0}, NEW k \in Nat \ {0}, Mkbufpool(b, k),
         ~(UNCHANGED poolVars)
  PROVE  PoolInv'
<1> DEFINE n == PoolBytes(b, k)
           fits == Fits(memlist, RoundMb(n))
           a == memlist[Min(fits)].addr
           p == nbpools
<1>0. /\ PoolTypes /\ WaitersInside /\ UnusedEntries /\ PromisesCovered
      /\ memlist \in Seq(FreeBlock)
  BY DEF PoolInv, HeapInv, Fit
<1>1. /\ p \in Pool /\ p \in Nat /\ fits # {}
      /\ nbpools' = nbpools + 1
      /\ bufs' = [bufs EXCEPT ![p] = Carve(a, b, k)]
      /\ waiters[p] = <<>> /\ waiters' = waiters
      /\ permits' = [permits EXCEPT ![p] = k]
      /\ gets' = gets /\ held' = held /\ wasted' = wasted /\ dead' = dead
  <2>1. /\ nbpools < NBPOOLS /\ fits # {}
        /\ nbpools' = nbpools + 1
        /\ bufs' = [bufs EXCEPT ![nbpools] = Carve(a, b, k)]
        /\ PoolSemaphores!Grant(nbpools, k)
        /\ UNCHANGED userVars
    BY DEF Mkbufpool
  <2> HIDE DEF n, fits, a
  <2>2. nbpools \in Pool /\ nbpools \in Nat
    BY <1>0, <2>1, PoolNumbers DEF PoolTypes
  <2>3. /\ waiters[p] = <<>> /\ waiters' = waiters
        /\ permits' = [permits EXCEPT ![p] = k]
    BY <2>1 DEF PoolSemaphores!Grant
  <2>4. gets' = gets /\ held' = held /\ wasted' = wasted /\ dead' = dead
    BY <2>1 DEF userVars
  <2>5. QED
    BY <2>1, <2>2, <2>3, <2>4
<1>2. Carve(a, b, k) \in Seq(Int) /\ Len(Carve(a, b, k)) = k
  <2>1. RoundMb(n) \in Nat
    BY PoolBytesPositive, RoundMbType
  <2>2. Min(fits) \in DOMAIN memlist
    BY <1>0, <1>1, <2>1, FitsFound
  <2>3. a \in Int
    BY <1>0, <2>2, ListFacts
  <2> HIDE DEF a
  <2>4. QED
    BY <2>3, CarveFacts
<1> HIDE DEF n, fits, a
<1>3. PoolTypes'
  <2>1. bufs' \in [Pool -> Seq(Int)] /\ permits' \in [Pool -> Nat]
    BY <1>0, <1>1, <1>2 DEF PoolTypes
  <2>2. nbpools' \in 0 .. NBPOOLS
    BY <1>1, PoolNumbers
  <2>3. QED
    BY <1>0, <1>1, <2>1, <2>2 DEF PoolTypes
<1>4. WaitersInside'
  BY <1>0, <1>1 DEF WaitersInside
<1>5. UnusedEntries'
  <2>1. SUFFICES ASSUME NEW i \in Pool, i >= nbpools + 1
                 PROVE  /\ bufs'[i] = <<>> /\ permits'[i] = 0 /\ waiters[i] = <<>>
                        /\ wasted[i] = 0 /\ \A u \in User : gets[u] # i
                        /\ \A c \in held : c.pool # i
    BY <1>1 DEF UnusedEntries
  <2>2. i >= nbpools /\ i # p
    BY <1>1, <2>1, PoolNumbers
  <2>3. bufs'[i] = bufs[i] /\ permits'[i] = permits[i]
    BY <1>0, <1>1, <2>2 DEF PoolTypes
  <2>4. QED
    BY <1>0, <2>2, <2>3 DEF UnusedEntries
<1>6. PromisesCovered'
  <2>1. SUFFICES ASSUME NEW i \in Pool
                 PROVE  Len(bufs'[i]) = permits'[i] + Cardinality(Promised(i)') + wasted'[i]
    BY DEF PromisesCovered
  <2>2. Promised(i)' = Promised(i)
    BY <1>1 DEF Promised
  <2>3. CASE i # p
    <3>1. bufs'[i] = bufs[i] /\ permits'[i] = permits[i] /\ wasted'[i] = wasted[i]
      BY <1>0, <1>1, <2>3 DEF PoolTypes
    <3>2. QED
      BY <1>0, <2>2, <3>1 DEF PromisesCovered
  <2>4. CASE i = p
    <3>1. Len(bufs'[i]) = k /\ permits'[i] = k
      BY <1>0, <1>1, <1>2, <2>4 DEF PoolTypes
    <3>2. i >= nbpools
      BY <1>1, <2>4
    <3>3. wasted'[i] = 0 /\ Promised(i) = {}
      BY <1>0, <1>1, <3>2 DEF UnusedEntries, Promised
    <3>4. Cardinality(Promised(i)') = 0
      BY <2>2, <3>3, FS_EmptySet
    <3>5. QED
      BY <3>1, <3>3, <3>4
  <2>5. QED
    BY <2>3, <2>4
<1>7. QED
  BY <1>3, <1>4, <1>5, <1>6 DEF PoolInv

\* A buffer is unlinked: the list of the pool is shorter by one.
LEMMA UnlinkFacts ==
  ASSUME PoolTypes, NEW u \in User, NEW i \in Pool, Len(bufs[i]) > 0, Unlink(u, i)
  PROVE  /\ bufs' \in [Pool -> Seq(Int)] /\ gets' \in [User -> Pool \cup {NoPool}]
         /\ Len(bufs'[i]) = Len(bufs[i]) - 1
         /\ \A j \in Pool \ {i} : bufs'[j] = bufs[j]
         /\ gets'[u] = NoPool /\ \A v \in User \ {u} : gets'[v] = gets[v]
         /\ held' \subseteq [user : User, addr : Int, pool : Pool]
         /\ \A c \in held' : c \in held \/ c.pool = i
<1>1. /\ bufs \in [Pool -> Seq(Int)] /\ gets \in [User -> Pool \cup {NoPool}]
      /\ held \subseteq [user : User, addr : Int, pool : Pool]
      /\ bufs[i] \in Seq(Int)
  BY DEF PoolTypes
<1>2. bufs[i] # <<>>
  BY EmptySeq
<1>3. /\ Head(bufs[i]) \in Int /\ Tail(bufs[i]) \in Seq(Int)
      /\ Len(Tail(bufs[i])) = Len(bufs[i]) - 1
  BY <1>1, <1>2, HeadTailProperties
<1>4. /\ bufs' = [bufs EXCEPT ![i] = Tail(bufs[i])]
      /\ held' = held \cup {[user |-> u, addr |-> Head(bufs[i]) + BPID, pool |-> i]}
      /\ gets' = [gets EXCEPT ![u] = NoPool]
  BY DEF Unlink
<1>5. Head(bufs[i]) + BPID \in Int
  BY <1>3 DEF BPID
<1>6. [user |-> u, addr |-> Head(bufs[i]) + BPID, pool |-> i] \in [user : User, addr : Int, pool : Pool]
  BY <1>5
<1>7. /\ held' \subseteq [user : User, addr : Int, pool : Pool]
      /\ \A c \in held' : c \in held \/ c.pool = i
  BY <1>1, <1>4, <1>6
<1>8. QED
  BY <1>1, <1>3, <1>4, <1>7

\* getbuf: a permit stands for a buffer in the list; without one the caller waits.
LEMMA GetbufPromises ==
  ASSUME PoolInv, NEW u \in User, NEW i \in Pool, Getbuf(u, i)
  PROVE  PoolInv'
<1>0. PoolTypes /\ WaitersInside /\ UnusedEntries /\ PromisesCovered
  BY DEF PoolInv
<1>1. /\ u \notin dead /\ gets[u] = NoPool /\ i < nbpools
      /\ PoolSemaphores!Acquire(i, u)
      /\ IF u \in Range(waiters'[i])
         THEN gets' = [gets EXCEPT ![u] = i] /\ UNCHANGED <<bufs, held>>
         ELSE Unlink(u, i)
      /\ nbpools' = nbpools /\ wasted' = wasted /\ dead' = dead
      /\ UNCHANGED heapVars
  BY DEF Getbuf, Idle, tabVars
<1>2. \A j \in Pool : u \notin Range(waiters[j]) /\ u \notin Promised(j)
  BY <1>1, IdleWaitsNowhere
<1>3. HeapInv'
  BY <1>1 DEF PoolInv, HeapInv, heapVars
<1>4. Cardinality(Promised(i)) \in Nat
  BY CountUsers DEF Promised
<1>5. CASE permits[i] > 0 /\ permits' = [permits EXCEPT ![i] = @ - 1] /\ waiters' = waiters
  <2>1. Unlink(u, i)
    BY <1>1, <1>2, <1>5
  <2>2. Len(bufs[i]) > 0
    <3>1. permits[i] \in Nat /\ wasted[i] \in Nat
      BY <1>0 DEF PoolTypes
    <3>2. QED
      BY <1>0, <1>4, <1>5, <3>1 DEF PromisesCovered
  <2>3. /\ bufs' \in [Pool -> Seq(Int)] /\ gets' \in [User -> Pool \cup {NoPool}]
        /\ Len(bufs'[i]) = Len(bufs[i]) - 1
        /\ \A j \in Pool \ {i} : bufs'[j] = bufs[j]
        /\ gets'[u] = NoPool /\ \A v \in User \ {u} : gets'[v] = gets[v]
        /\ held' \subseteq [user : User, addr : Int, pool : Pool]
        /\ \A c \in held' : c \in held \/ c.pool = i
    BY <1>0, <2>1, <2>2, UnlinkFacts
  <2>4. \A v \in User : gets'[v] = gets[v]
    BY <1>1, <2>3
  <2>5. /\ permits' \in [Pool -> Nat] /\ permits'[i] = permits[i] - 1
        /\ \A j \in Pool \ {i} : permits'[j] = permits[j]
    BY <1>0, <1>5 DEF PoolTypes
  <2>6. PoolTypes'
    BY <1>0, <1>1, <1>5, <2>3, <2>5, PoolNumbers DEF PoolTypes
  <2>7. WaitersInside'
    <3>1. \A j \in Pool : \A v \in Range(waiters[j]) : v \in User
      BY <1>0, LenProperties DEF PoolTypes, Range
    <3>2. QED
      BY <1>0, <1>1, <1>5, <2>4, <3>1 DEF WaitersInside
  <2>8. UnusedEntries'
    <3>1. nbpools \in Nat
      BY <1>0 DEF PoolTypes
    <3>2. \A j \in Pool : j >= nbpools => j # i
      BY <1>1, <3>1, PoolNumbers
    <3>3. ASSUME NEW j \in Pool, j >= nbpools'
          PROVE  /\ bufs'[j] = <<>> /\ permits'[j] = 0 /\ waiters'[j] = <<>> /\ wasted'[j] = 0
                 /\ \A v \in User : gets'[v] # j
                 /\ \A b \in held' : b.pool # j
      <4>1. j >= nbpools /\ j # i
        BY <1>1, <1>5, <3>2, <3>3
      <4>2. /\ bufs[j] = <<>> /\ permits[j] = 0 /\ waiters[j] = <<>> /\ wasted[j] = 0
            /\ \A v \in User : gets[v] # j
            /\ \A b \in held : b.pool # j
        BY <1>0, <4>1 DEF UnusedEntries
      <4>3. bufs'[j] = <<>> /\ permits'[j] = 0 /\ waiters'[j] = <<>> /\ wasted'[j] = 0
        BY <1>1, <1>5, <2>3, <2>5, <4>1, <4>2
      <4>4. \A v \in User : gets'[v] # j
        BY <2>4, <4>2
      <4>5. \A b \in held' : b.pool # j
        BY <2>3, <4>1, <4>2
      <4>6. QED
        BY <4>3, <4>4, <4>5
    <3>4. QED
      BY <3>3 DEF UnusedEntries
  <2>9. PromisesCovered'
    <3>1. \A j \in Pool : Promised(j)' = Promised(j)
      BY <1>1, <1>5, <2>4 DEF Promised
    <3>2. SUFFICES ASSUME NEW j \in Pool
                   PROVE  Len(bufs'[j]) = permits'[j] + Cardinality(Promised(j)) + wasted'[j]
      BY <3>1 DEF PromisesCovered
    <3>3. Len(bufs[j]) = permits[j] + Cardinality(Promised(j)) + wasted[j]
      BY <1>0 DEF PromisesCovered
    <3>4. permits[j] \in Nat /\ wasted[j] \in Nat
      BY <1>0 DEF PoolTypes
    <3>5. CASE j = i
      BY <1>1, <1>4, <2>3, <2>5, <3>3, <3>4, <3>5, SMTT(30)
    <3>6. CASE j # i
      BY <1>1, <2>3, <2>5, <3>3, <3>6
    <3>7. QED
      BY <3>5, <3>6
  <2>10. QED
    BY <1>3, <2>6, <2>7, <2>8, <2>9 DEF PoolInv
<1>6. CASE waiters' = [waiters EXCEPT ![i] = Append(@, u)] /\ permits' = permits
  <2>1. /\ Append(waiters[i], u) \in Seq(User)
        /\ IsInjective(Append(waiters[i], u))
        /\ Range(Append(waiters[i], u)) = Range(waiters[i]) \cup {u}
    <3>1. waiters[i] \in Seq(User) /\ IsInjective(waiters[i])
      BY <1>0 DEF PoolTypes, WaitersInside
    <3>2. QED
      BY <1>2, <3>1, AppendRange
  <2>2. /\ waiters' \in [Pool -> Seq(User)]
        /\ waiters'[i] = Append(waiters[i], u)
        /\ \A j \in Pool \ {i} : waiters'[j] = waiters[j]
    BY <1>0, <1>6, <2>1 DEF PoolTypes
  <2>3. gets' = [gets EXCEPT ![u] = i] /\ bufs' = bufs /\ held' = held
    BY <1>1, <2>1, <2>2
  <2>4. /\ gets' \in [User -> Pool \cup {NoPool}]
        /\ gets'[u] = i /\ \A v \in User \ {u} : gets'[v] = gets[v]
    BY <1>0, <2>3 DEF PoolTypes
  <2>5. PoolTypes'
    BY <1>0, <1>1, <1>6, <2>2, <2>3, <2>4 DEF PoolTypes
  <2>6. WaitersInside'
    <3>1. SUFFICES ASSUME NEW j \in Pool
                   PROVE  /\ IsInjective(waiters'[j])
                          /\ \A v \in Range(waiters'[j]) : gets'[v] = j /\ v \notin dead
      BY <1>1 DEF WaitersInside
    <3>2. /\ IsInjective(waiters[j])
          /\ \A v \in Range(waiters[j]) : gets[v] = j /\ v \notin dead
      BY <1>0 DEF WaitersInside
    <3>3. \A v \in Range(waiters[j]) : v \in User \ {u}
      BY <1>0, <1>2, LenProperties DEF PoolTypes, Range
    <3>4. \A v \in Range(waiters[j]) : gets'[v] = j /\ v \notin dead
      BY <2>4, <3>2, <3>3
    <3>5. CASE j = i
      <4>1. waiters'[j] = Append(waiters[j], u)
        BY <2>2, <3>5
      <4>2. Range(waiters'[j]) = Range(waiters[j]) \cup {u} /\ IsInjective(waiters'[j])
        BY <2>1, <3>5, <4>1
      <4>3. QED
        BY <1>1, <2>4, <3>4, <3>5, <4>2
    <3>6. CASE j # i
      <4>1. waiters'[j] = waiters[j]
        BY <2>2, <3>6
      <4>2. QED
        BY <3>2, <3>4, <4>1
    <3>7. QED
      BY <3>5, <3>6
  <2>7. UnusedEntries'
    <3>1. nbpools \in Nat
      BY <1>0 DEF PoolTypes
    <3>2. \A j \in Pool : j >= nbpools => j # i
      BY <1>1, <3>1, PoolNumbers
    <3>3. QED
      BY <1>0, <1>1, <1>6, <2>2, <2>3, <2>4, <3>2 DEF UnusedEntries
  <2>8. PromisesCovered'
    <3>1. ASSUME NEW j \in Pool PROVE Promised(j)' = Promised(j)
      <4>1. \A v \in User \ {u} : v \in Range(waiters'[j]) <=> v \in Range(waiters[j])
        BY <2>1, <2>2
      <4>2. j = i => u \in Range(waiters'[j])
        BY <2>1, <2>2
      <4>3. ASSUME NEW v \in User \ {u} PROVE v \in Promised(j)' <=> v \in Promised(j)
        BY <1>1, <2>4, <4>1 DEF Promised
      <4>4. u \notin Promised(j)' /\ u \notin Promised(j)
        BY <1>2, <2>4, <4>2 DEF Promised
      <4>5. Promised(j)' \subseteq User /\ Promised(j) \subseteq User
        BY DEF Promised
      <4>6. QED
        BY <4>3, <4>4, <4>5
    <3>2. QED
      BY <1>0, <1>1, <1>6, <2>3, <3>1 DEF PromisesCovered
  <2>9. QED
    BY <1>3, <2>5, <2>6, <2>7, <2>8 DEF PoolInv
<1>7. QED
  BY <1>1, <1>5, <1>6 DEF PoolSemaphores!Acquire

\* getbuf after its wait: the buffer that was promised is there, and is taken.
LEMMA GetbufWokenPromises ==
  ASSUME PoolInv, NEW u \in User, GetbufWoken(u)
  PROVE  PoolInv'
<1> DEFINE i == gets[u]
<1>0. PoolTypes /\ WaitersInside /\ UnusedEntries /\ PromisesCovered
  BY DEF PoolInv
<1>1. /\ u \notin dead /\ gets[u] # NoPool /\ ~Waiting(u) /\ Unlink(u, i)
      /\ nbpools' = nbpools /\ wasted' = wasted /\ dead' = dead
      /\ permits' = permits /\ waiters' = waiters /\ UNCHANGED heapVars
  BY DEF GetbufWoken, tabVars
<1>2. i \in Pool /\ \A j \in Pool : u \notin Range(waiters[j])
  BY <1>0, <1>1 DEF PoolTypes, Waiting
<1>3. u \in Promised(i)
  BY <1>1, <1>2 DEF Promised
<1>4. HeapInv'
  BY <1>1 DEF PoolInv, HeapInv, heapVars
<1> HIDE DEF i
<1>5. /\ Cardinality(Promised(i)) \in Nat /\ Cardinality(Promised(i)) > 0
      /\ Cardinality(Promised(i) \ {u}) = Cardinality(Promised(i)) - 1
  <2>1. Promised(i) \in SUBSET User
    BY DEF Promised
  <2>2. QED
    BY <1>3, <2>1, CountUsers
<1>6. permits[i] \in Nat /\ wasted[i] \in Nat
  BY <1>0, <1>2 DEF PoolTypes
<1>7. Len(bufs[i]) > 0
  BY <1>0, <1>2, <1>5, <1>6 DEF PromisesCovered
<1>8. /\ bufs' \in [Pool -> Seq(Int)] /\ gets' \in [User -> Pool \cup {NoPool}]
      /\ Len(bufs'[i]) = Len(bufs[i]) - 1
      /\ \A j \in Pool \ {i} : bufs'[j] = bufs[j]
      /\ gets'[u] = NoPool /\ \A v \in User \ {u} : gets'[v] = gets[v]
      /\ held' \subseteq [user : User, addr : Int, pool : Pool]
      /\ \A c \in held' : c \in held \/ c.pool = i
  BY <1>0, <1>1, <1>2, <1>7, UnlinkFacts
<1>9. PoolTypes'
  BY <1>0, <1>1, <1>8 DEF PoolTypes
<1>10. WaitersInside'
  <2>1. \A j \in Pool : \A v \in Range(waiters[j]) : v \in User \ {u}
    BY <1>0, <1>2, LenProperties DEF PoolTypes, Range
  <2>2. ASSUME NEW j \in Pool
        PROVE  IsInjective(waiters'[j]) /\ \A v \in Range(waiters'[j]) : gets'[v] = j /\ v \notin dead'
    <3>1. waiters'[j] = waiters[j] /\ dead' = dead
      BY <1>1
    <3>2. IsInjective(waiters[j]) /\ \A v \in Range(waiters[j]) : gets[v] = j /\ v \notin dead
      BY <1>0 DEF WaitersInside
    <3>3. \A v \in Range(waiters[j]) : gets'[v] = gets[v]
      BY <1>8, <2>1
    <3>4. QED
      BY <3>1, <3>2, <3>3
  <2>3. QED
    BY <2>2 DEF WaitersInside
<1>11. UnusedEntries'
  <2>1. \A j \in Pool : j >= nbpools => j # i
    BY <1>0 DEF UnusedEntries, i
  <2>2. \A j \in Pool : gets'[u] # j
    BY <1>8, PoolNumbers
  <2>3. ASSUME NEW j \in Pool, j >= nbpools'
        PROVE  /\ bufs'[j] = <<>> /\ permits'[j] = 0 /\ waiters'[j] = <<>> /\ wasted'[j] = 0
               /\ \A v \in User : gets'[v] # j
               /\ \A b \in held' : b.pool # j
    <3>1. j >= nbpools /\ j # i
      BY <1>1, <2>1, <2>3
    <3>2. /\ bufs[j] = <<>> /\ permits[j] = 0 /\ waiters[j] = <<>> /\ wasted[j] = 0
          /\ \A v \in User : gets[v] # j
          /\ \A b \in held : b.pool # j
      BY <1>0, <3>1 DEF UnusedEntries
    <3>3. bufs'[j] = <<>> /\ permits'[j] = 0 /\ waiters'[j] = <<>> /\ wasted'[j] = 0
      BY <1>1, <1>8, <3>1, <3>2
    <3>4. \A v \in User : gets'[v] # j
      BY <1>8, <2>2, <3>2
    <3>5. \A b \in held' : b.pool # j
      BY <1>8, <3>1, <3>2
    <3>6. QED
      BY <3>3, <3>4, <3>5
  <2>4. QED
    BY <2>3 DEF UnusedEntries
<1>12. PromisesCovered'
  <2>1. ASSUME NEW j \in Pool
        PROVE  Promised(j)' = IF j = i THEN Promised(j) \ {u} ELSE Promised(j)
    <3>1. ASSUME NEW v \in User \ {u} PROVE v \in Promised(j)' <=> v \in Promised(j)
      BY <1>1, <1>8 DEF Promised
    <3>2. u \notin Promised(j)'
      BY <1>8, PoolNumbers DEF Promised
    <3>3. j # i => u \notin Promised(j)
      BY DEF Promised, i
    <3>4. Promised(j)' \subseteq User /\ Promised(j) \subseteq User
      BY <1>1 DEF Promised
    <3>5. QED
      BY <3>1, <3>2, <3>3, <3>4
  <2>2. SUFFICES ASSUME NEW j \in Pool
                 PROVE  Len(bufs'[j]) = permits'[j] + Cardinality(Promised(j)') + wasted'[j]
    BY DEF PromisesCovered
  <2>3. Len(bufs[j]) = permits[j] + Cardinality(Promised(j)) + wasted[j]
    BY <1>0 DEF PromisesCovered
  <2>4. CASE j = i
    <3>1. Cardinality(Promised(j)') = Cardinality(Promised(i)) - 1
      BY <1>5, <2>1, <2>4
    <3>2. QED
      BY <1>1, <1>5, <1>6, <1>8, <2>3, <2>4, <3>1
  <2>5. CASE j # i
    BY <1>1, <1>8, <2>1, <2>3, <2>5
  <2>6. QED
    BY <2>4, <2>5
<1>13. QED
  BY <1>4, <1>9, <1>10, <1>11, <1>12 DEF PoolInv

\* freebuf: the buffer goes to whoever has waited longest, or is counted.
LEMMA FreebufPromises ==
  ASSUME PoolInv, NEW b \in held, Freebuf(b)
  PROVE  PoolInv'
<1> DEFINE i == b.pool
<1>0. PoolTypes /\ WaitersInside /\ UnusedEntries /\ PromisesCovered
  BY DEF PoolInv
<1>1. /\ bufs' = [bufs EXCEPT ![i] = <<b.addr - BPID>> \o @]
      /\ held' = held \ {b} /\ PoolSemaphores!Release(i)
      /\ nbpools' = nbpools /\ gets' = gets /\ wasted' = wasted /\ dead' = dead
      /\ UNCHANGED heapVars
  BY DEF Freebuf, tabVars
<1>2. b.addr \in Int /\ i \in Pool
  BY <1>0 DEF PoolTypes
<1>3. HeapInv'
  BY <1>1 DEF PoolInv, HeapInv, heapVars
<1> HIDE DEF i
<1>4. /\ bufs' \in [Pool -> Seq(Int)] /\ Len(bufs'[i]) = Len(bufs[i]) + 1
      /\ \A j \in Pool \ {i} : bufs'[j] = bufs[j]
  <2>1. <<b.addr - BPID>> \in Seq(Int) /\ Len(<<b.addr - BPID>>) = 1
    BY <1>2 DEF BPID
  <2>2. bufs[i] \in Seq(Int) /\ Len(bufs[i]) \in Nat
    BY <1>0, <1>2, LenProperties DEF PoolTypes
  <2>3. /\ <<b.addr - BPID>> \o bufs[i] \in Seq(Int)
        /\ Len(<<b.addr - BPID>> \o bufs[i]) = 1 + Len(bufs[i])
    BY <2>1, <2>2, ConcatProperties
  <2>4. /\ bufs' \in [Pool -> Seq(Int)] /\ bufs'[i] = <<b.addr - BPID>> \o bufs[i]
        /\ \A j \in Pool \ {i} : bufs'[j] = bufs[j]
    BY <1>0, <1>1, <1>2, <2>3 DEF PoolTypes
  <2>5. QED
    BY <2>2, <2>3, <2>4
<1>5. held' \subseteq [user : User, addr : Int, pool : Pool] /\ held' \subseteq held
  BY <1>0, <1>1 DEF PoolTypes
<1>6. \A j \in Pool : j >= nbpools => j # i
  BY <1>0 DEF UnusedEntries, i
<1>7. \A j \in Pool : Promised(j) \in SUBSET User /\ Cardinality(Promised(j)) \in Nat
  BY CountUsers DEF Promised
<1>8. permits[i] \in Nat /\ wasted[i] \in Nat
  BY <1>0, <1>2 DEF PoolTypes
<1>9. \A j \in Pool : Len(bufs[j]) = permits[j] + Cardinality(Promised(j)) + wasted[j]
  BY <1>0 DEF PromisesCovered
<1>10. CASE /\ waiters[i] # <<>> /\ waiters' = [waiters EXCEPT ![i] = Tail(@)]
            /\ permits' = permits
  <2> DEFINE h == Head(waiters[i])
  <2>1. /\ Tail(waiters[i]) \in Seq(User) /\ IsInjective(Tail(waiters[i]))
        /\ Range(Tail(waiters[i])) = Range(waiters[i]) \ {h}
        /\ h \in User /\ h \in Range(waiters[i])
    <3>1. waiters[i] \in Seq(User) /\ IsInjective(waiters[i])
      BY <1>0, <1>2 DEF PoolTypes, WaitersInside
    <3>2. QED
      BY <1>10, <3>1, TailRange
  <2>2. /\ waiters' \in [Pool -> Seq(User)] /\ waiters'[i] = Tail(waiters[i])
        /\ \A j \in Pool \ {i} : waiters'[j] = waiters[j]
    BY <1>0, <1>2, <1>10, <2>1 DEF PoolTypes
  <2>3. gets[h] = i /\ h \notin dead
    BY <1>0, <1>2, <2>1 DEF WaitersInside
  <2> HIDE DEF h
  <2>4. PoolTypes'
    BY <1>0, <1>1, <1>4, <1>5, <1>10, <2>2 DEF PoolTypes
  <2>5. WaitersInside'
    <3>1. ASSUME NEW j \in Pool
          PROVE  IsInjective(waiters'[j]) /\ Range(waiters'[j]) \subseteq Range(waiters[j])
      BY <1>0, <2>1, <2>2 DEF WaitersInside
    <3>2. QED
      BY <1>0, <1>1, <3>1 DEF WaitersInside
  <2>6. UnusedEntries'
    BY <1>0, <1>1, <1>4, <1>5, <1>6, <1>10, <2>2 DEF UnusedEntries
  <2>7. ASSUME NEW j \in Pool
        PROVE  Promised(j)' = IF j = i THEN Promised(j) \cup {h} ELSE Promised(j)
    <3>1. CASE j = i
      <4>1. Range(waiters'[j]) = Range(waiters[j]) \ {h}
        BY <2>1, <2>2, <3>1
      <4>2. QED
        BY <1>1, <2>1, <2>3, <3>1, <4>1 DEF Promised
    <3>2. CASE j # i
      <4>1. waiters'[j] = waiters[j]
        BY <2>2, <3>2
      <4>2. QED
        BY <1>1, <3>2, <4>1 DEF Promised
    <3>3. QED
      BY <3>1, <3>2
  <2>8. Cardinality(Promised(i) \cup {h}) = Cardinality(Promised(i)) + 1
    <3>1. h \in User \ Promised(i)
      BY <2>1 DEF Promised
    <3>2. QED
      BY <1>2, <1>7, <3>1, CountUsers
  <2>9. PromisesCovered'
    <3>1. SUFFICES ASSUME NEW j \in Pool
                   PROVE  Len(bufs'[j]) = permits'[j] + Cardinality(Promised(j)') + wasted'[j]
      BY DEF PromisesCovered
    <3>2. CASE j = i
      <4>1. Cardinality(Promised(j)') = Cardinality(Promised(i)) + 1
        BY <2>7, <2>8, <3>2
      <4>2. Len(bufs[i]) = permits[i] + Cardinality(Promised(i)) + wasted[i]
        BY <1>2, <1>9
      <4>3. Cardinality(Promised(i)) \in Nat
        BY <1>2, <1>7
      <4>4. /\ Len(bufs'[j]) = Len(bufs[i]) + 1 /\ permits'[j] = permits[i]
            /\ wasted'[j] = wasted[i]
        BY <1>1, <1>4, <1>10, <3>2
      <4>5. PICK x \in Int, y \in Int, z \in Int :
              x = permits[i] /\ y = Cardinality(Promised(i)) /\ z = wasted[i]
        BY <1>8, <4>3
      <4>6. Len(bufs'[j]) = x + y + z + 1
        BY <4>2, <4>4, <4>5
      <4>7. permits'[j] = x /\ Cardinality(Promised(j)') = y + 1 /\ wasted'[j] = z
        BY <4>1, <4>4, <4>5
      <4>8. x + y + z + 1 = x + (y + 1) + z
        OBVIOUS
      <4>9. QED
        BY <4>6, <4>7, <4>8
    <3>3. CASE j # i
      BY <1>1, <1>4, <1>9, <1>10, <2>7, <3>3
    <3>4. QED
      BY <3>2, <3>3
  <2>10. QED
    BY <1>3, <2>4, <2>5, <2>6, <2>9 DEF PoolInv
<1>11. CASE waiters' = waiters /\ permits' = [permits EXCEPT ![i] = @ + 1]
  <2>1. /\ permits' \in [Pool -> Nat] /\ permits'[i] = permits[i] + 1
        /\ \A j \in Pool \ {i} : permits'[j] = permits[j]
    BY <1>0, <1>2, <1>11 DEF PoolTypes
  <2>2. PoolTypes'
    BY <1>0, <1>1, <1>4, <1>5, <1>11, <2>1 DEF PoolTypes
  <2>3. WaitersInside'
    BY <1>0, <1>1, <1>11 DEF WaitersInside
  <2>4. UnusedEntries'
    BY <1>0, <1>1, <1>4, <1>5, <1>6, <1>11, <2>1 DEF UnusedEntries
  <2>5. PromisesCovered'
    <3>1. \A j \in Pool : Promised(j)' = Promised(j)
      BY <1>1, <1>11 DEF Promised
    <3>2. SUFFICES ASSUME NEW j \in Pool
                   PROVE  Len(bufs'[j]) = permits'[j] + Cardinality(Promised(j)) + wasted'[j]
      BY <3>1 DEF PromisesCovered
    <3>3. CASE j = i
      <4>1. Len(bufs[i]) = permits[i] + Cardinality(Promised(i)) + wasted[i]
        BY <1>2, <1>9
      <4>2. Cardinality(Promised(i)) \in Nat
        BY <1>2, <1>7
      <4>3. /\ Len(bufs'[j]) = Len(bufs[i]) + 1 /\ permits'[j] = permits[i] + 1
            /\ wasted'[j] = wasted[i]
        BY <1>1, <1>4, <2>1, <3>3
      <4>4. QED
        BY <1>8, <3>3, <4>1, <4>2, <4>3
    <3>4. CASE j # i
      BY <1>1, <1>4, <1>9, <2>1, <3>4
    <3>5. QED
      BY <3>3, <3>4
  <2>6. QED
    BY <1>3, <2>2, <2>3, <2>4, <2>5 DEF PoolInv
<1>12. QED
  BY <1>1, <1>10, <1>11 DEF PoolSemaphores!Release

\* kill: a waiting process leaves the queue, one that was promised a buffer takes
\* the promise with it.
LEMMA KillUserPromises ==
  ASSUME PoolInv, NEW u \in User, KillUser(u)
  PROVE  PoolInv'
<1> DEFINE i == gets[u]
<1>0. PoolTypes /\ WaitersInside /\ UnusedEntries /\ PromisesCovered
  BY DEF PoolInv
<1>1. /\ u \notin dead /\ dead' = dead \cup {u}
      /\ nbpools' = nbpools /\ bufs' = bufs /\ gets' = gets /\ held' = held
      /\ UNCHANGED heapVars
  BY DEF KillUser, tabVars
<1>2. HeapInv'
  BY <1>1 DEF PoolInv, HeapInv, heapVars
<1>3. \A j \in Pool : Promised(j) \in SUBSET User /\ Cardinality(Promised(j)) \in Nat
  BY CountUsers DEF Promised
<1>4. \A j \in Pool : Len(bufs[j]) = permits[j] + Cardinality(Promised(j)) + wasted[j]
  BY <1>0 DEF PromisesCovered
<1>5. dead' \subseteq User
  BY <1>0, <1>1 DEF PoolTypes
<1>6. CASE Waiting(u)
  <2>1. i \in Pool /\ u \in Range(waiters[i])
    BY <1>0, <1>6 DEF Waiting, WaitersInside
  <2>2. PICK k \in DOMAIN waiters[i] :
          /\ waiters[i][k] = u /\ PoolSemaphores!Withdraw(i, k)
    BY <1>6 DEF KillUser
  <2>3. wasted' = wasted
    BY <1>6 DEF KillUser
  <2> HIDE DEF i
  <2>4. waiters' = [waiters EXCEPT ![i] = RemoveAt(waiters[i], k)] /\ permits' = permits
    BY <2>2 DEF PoolSemaphores!Withdraw, PoolSemaphores!RemoveAt, RemoveAt
  <2>5. /\ RemoveAt(waiters[i], k) \in Seq(User) /\ IsInjective(RemoveAt(waiters[i], k))
        /\ Range(RemoveAt(waiters[i], k)) = Range(waiters[i]) \ {u}
    <3>1. waiters[i] \in Seq(User) /\ IsInjective(waiters[i])
      BY <1>0, <2>1 DEF PoolTypes, WaitersInside
    <3>2. k \in 1..Len(waiters[i])
      BY <3>1, LenProperties
    <3>3. QED
      BY <2>2, <3>1, <3>2, RemoveAtRange
  <2>6. /\ waiters' \in [Pool -> Seq(User)] /\ waiters'[i] = RemoveAt(waiters[i], k)
        /\ \A j \in Pool \ {i} : waiters'[j] = waiters[j]
    BY <1>0, <2>1, <2>4, <2>5 DEF PoolTypes
  <2>7. PoolTypes'
    BY <1>0, <1>1, <1>5, <2>4, <2>3, <2>6 DEF PoolTypes
  <2>8. WaitersInside'
    <3>1. ASSUME NEW j \in Pool
          PROVE  IsInjective(waiters'[j]) /\ Range(waiters'[j]) = Range(waiters[j]) \ {u}
      <4>1. j # i => u \notin Range(waiters[j])
        BY <1>0, <2>1 DEF WaitersInside
      <4>2. CASE j = i
        BY <2>5, <2>6, <4>2
      <4>3. CASE j # i
        <5>1. waiters'[j] = waiters[j]
          BY <2>6, <4>3
        <5>2. Range(waiters[j]) = Range(waiters[j]) \ {u}
          BY <4>1, <4>3
        <5>3. QED
          BY <1>0, <5>1, <5>2 DEF WaitersInside
      <4>4. QED
        BY <4>2, <4>3
    <3>2. QED
      BY <1>0, <1>1, <3>1 DEF WaitersInside
  <2>9. UnusedEntries'
    <3>1. \A j \in Pool : j >= nbpools => j # i
      BY <1>0 DEF UnusedEntries, i
    <3>2. QED
      BY <1>0, <1>1, <2>4, <2>3, <2>6, <3>1 DEF UnusedEntries
  <2>10. PromisesCovered'
    <3>1. ASSUME NEW j \in Pool PROVE Promised(j)' = Promised(j)
      <4>1. \A v \in User \ {u} : v \in Range(waiters'[j]) <=> v \in Range(waiters[j])
        BY <2>5, <2>6
      <4>2. u \notin Promised(j) /\ u \notin Promised(j)'
        BY <1>1, <2>1 DEF Promised, i
      <4>3. ASSUME NEW v \in User \ {u} PROVE v \in Promised(j)' <=> v \in Promised(j)
        BY <1>1, <4>1 DEF Promised
      <4>4. Promised(j)' \subseteq User /\ Promised(j) \subseteq User
        BY DEF Promised
      <4>5. QED
        BY <4>2, <4>3, <4>4
    <3>2. QED
      BY <1>1, <1>4, <2>4, <2>3, <3>1 DEF PromisesCovered
  <2>11. QED
    BY <1>2, <2>7, <2>8, <2>9, <2>10 DEF PoolInv
<1>7. CASE ~Waiting(u)
  <2>1. /\ wasted' = IF i = NoPool THEN wasted ELSE [wasted EXCEPT ![i] = @ + 1]
        /\ permits' = permits /\ waiters' = waiters
    BY <1>7 DEF KillUser
  <2>2. \A j \in Pool : u \notin Range(waiters[j])
    BY <1>7 DEF Waiting
  <2>3. i \in Pool \cup {NoPool}
    BY <1>0 DEF PoolTypes
  <2>4. /\ wasted' \in [Pool -> Nat]
        /\ \A j \in Pool : wasted'[j] = IF j = i THEN wasted[j] + 1 ELSE wasted[j]
    BY <1>0, <2>1, <2>3, PoolNumbers DEF PoolTypes
  <2> HIDE DEF i
  <2>5. PoolTypes'
    BY <1>0, <1>1, <1>5, <2>1, <2>4 DEF PoolTypes
  <2>6. WaitersInside'
    BY <1>0, <1>1, <2>1, <2>2 DEF WaitersInside
  <2>7. UnusedEntries'
    <3>1. \A j \in Pool : j >= nbpools => j # i
      BY <1>0 DEF UnusedEntries, i
    <3>2. QED
      BY <1>0, <1>1, <2>1, <2>4, <3>1 DEF UnusedEntries
  <2>8. ASSUME NEW j \in Pool
        PROVE  Promised(j)' = IF j = i THEN Promised(j) \ {u} ELSE Promised(j)
    <3>1. Promised(j)' = Promised(j) \ {u}
      BY <1>1, <2>1 DEF Promised
    <3>2. j # i => u \notin Promised(j)
      BY DEF Promised, i
    <3>3. QED
      BY <3>1, <3>2
  <2>9. PromisesCovered'
    <3>1. SUFFICES ASSUME NEW j \in Pool
                   PROVE  Len(bufs'[j]) = permits'[j] + Cardinality(Promised(j)') + wasted'[j]
      BY DEF PromisesCovered
    <3>2. permits[j] \in Nat /\ wasted[j] \in Nat
      BY <1>0 DEF PoolTypes
    <3>3. CASE j = i
      <4>1. u \in Promised(j)
        BY <1>1, <2>2, <3>3 DEF Promised, i
      <4>2. Cardinality(Promised(j)') = Cardinality(Promised(j)) - 1
        BY <1>3, <2>8, <3>3, <4>1, CountUsers
      <4>3. Len(bufs[j]) = permits[j] + Cardinality(Promised(j)) + wasted[j]
        BY <1>4
      <4>4. Cardinality(Promised(j)) \in Nat
        BY <1>3
      <4>5. /\ Len(bufs'[j]) = Len(bufs[j]) /\ permits'[j] = permits[j]
            /\ wasted'[j] = wasted[j] + 1
        BY <1>1, <2>1, <2>4, <3>3
      <4>6. QED
        BY <3>2, <4>2, <4>3, <4>4, <4>5, Z3T(30)
    <3>4. CASE j # i
      BY <1>1, <1>4, <2>1, <2>4, <2>8, <3>4
    <3>5. QED
      BY <3>3, <3>4
  <2>10. QED
    BY <1>2, <2>5, <2>6, <2>7, <2>9 DEF PoolInv
<1>8. QED
  BY <1>6, <1>7
-----------------------------------------------------------------------------
\* Steps that leave the pools alone keep what the invariant says of them.
LEMMA PoolsAlone ==
  ASSUME PoolInv, HeapInv', UNCHANGED poolVars
  PROVE  PoolInv'
<1>1. /\ nbpools' = nbpools /\ bufs' = bufs /\ permits' = permits /\ waiters' = waiters
      /\ gets' = gets /\ held' = held /\ wasted' = wasted /\ dead' = dead
  BY DEF poolVars, tabVars, userVars
<1>2. \A i \in Pool : Promised(i)' = Promised(i)
  BY <1>1 DEF Promised
<1>3. PoolTypes /\ WaitersInside /\ UnusedEntries /\ PromisesCovered
  BY DEF PoolInv
<1>4. PoolTypes'
  BY <1>1, <1>3 DEF PoolTypes
<1>5. WaitersInside'
  BY <1>1, <1>3 DEF WaitersInside
<1>6. UnusedEntries'
  BY <1>1, <1>3 DEF UnusedEntries
<1>7. PromisesCovered'
  BY <1>1, <1>2, <1>3 DEF PromisesCovered
<1>8. QED
  BY <1>4, <1>5, <1>6, <1>7 DEF PoolInv

\* Every step of the heap and the pools keeps the invariant.
LEMMA PoolInvKept == PoolInv /\ [PoolsNext]_<<heapVars, poolVars>> => PoolInv'
<1> SUFFICES ASSUME PoolInv, [PoolsNext]_<<heapVars, poolVars>> PROVE PoolInv'
  OBVIOUS
<1>1. HeapInv'
  BY HeapInvKept DEF PoolInv
<1>2. CASE UNCHANGED poolVars
  BY <1>1, <1>2, PoolsAlone
<1>3. ASSUME NEW a \in PoolArgs, Mkbufpool(a[1], a[2]) PROVE PoolInv'
  <2>1. a[1] \in Nat \ {0} /\ a[2] \in Nat \ {0}
    BY PoolSizes
  <2>2. QED
    BY <1>1, <1>2, <1>3, <2>1, MkbufpoolPromises
<1>4. ASSUME NEW u \in User, \E i \in Pool : Getbuf(u, i) PROVE PoolInv'
  BY <1>4, GetbufPromises
<1>5. ASSUME NEW u \in User, GetbufWoken(u) \/ KillUser(u) PROVE PoolInv'
  BY <1>5, GetbufWokenPromises, KillUserPromises
<1>6. ASSUME NEW b \in held, Freebuf(b) PROVE PoolInv'
  BY <1>6, FreebufPromises
<1>7. \/ UNCHANGED poolVars
      \/ \E a \in PoolArgs : Mkbufpool(a[1], a[2])
      \/ \E u \in User : (\E i \in Pool : Getbuf(u, i)) \/ GetbufWoken(u) \/ KillUser(u)
      \/ \E b \in held : Freebuf(b)
  BY DEF PoolsNext
<1>8. QED
  BY <1>2, <1>3, <1>4, <1>5, <1>6, <1>7

\* The invariant covers the promises of every pool that exists.
LEMMA PoolInvCovers == PoolInv => BuffersPromised
<1> SUFFICES ASSUME PoolInv, NEW i \in Created
             PROVE  Len(bufs[i]) = permits[i] + Cardinality(Woken(i)) + wasted[i]
  BY DEF BuffersPromised
<1>1. i \in Pool
  BY PoolNumbers DEF Created, PoolInv, PoolTypes
<1>2. \A u \in User : gets[u] = i => (Waiting(u) <=> u \in Range(waiters[i]))
  BY <1>1 DEF Waiting, PoolInv, WaitersInside
<1>3. Woken(i) = Promised(i)
  BY <1>2 DEF Woken, Promised
<1>4. QED
  BY <1>1, <1>3 DEF PoolInv, PromisesCovered

\* The semaphore of a pool never promises a buffer that is not there, whatever is
\* got, freed and killed in whatever order: getbuf, once its wait has returned,
\* takes the head of the list without looking whether there is one.
THEOREM PromisedBuffersExist == PoolsSpec => []BuffersPromised
<1>1. PoolsInit => PoolInv
  BY PoolInvStarts
<1>2. PoolInv /\ [PoolsNext]_<<heapVars, poolVars>> => PoolInv'
  BY PoolInvKept
<1>3. PoolInv => BuffersPromised
  BY PoolInvCovers
<1>4. QED
  BY <1>1, <1>2, <1>3, PTL DEF PoolsSpec
-----------------------------------------------------------------------------
\* The buffers of pool i that are in use.
Held(i) == {b \in held : b.pool = i}

\* The storage of pool i belongs to it, and the places of its buffers, linked or
\* in use, are the k places into which mkbufpool has cut it.
Cut(i) ==
  /\ poolmem[i] \in live
  /\ \E k \in Nat :
       /\ poolmem[i].bytes = k * (bpsize[i] + BPID)
       /\ Places(i) = {poolmem[i].ptr + (j - 1) * (bpsize[i] + BPID) : j \in 1..k}

\* No buffer of pool i is linked twice, held twice, or linked and held.
Apart(i) ==
  /\ IsInjective(bufs[i])
  /\ \A b, c \in Held(i) : b.addr = c.addr => b = c
  /\ \A b \in Held(i) : b.addr - BPID \notin Range(bufs[i])

TableTypes ==
  /\ bpsize \in [Pool -> Nat]
  /\ poolmem \in [Pool -> [kind : {"mem"}, bytes : Nat, ptr : Int]]

\* The second inductive invariant, about where the buffers of the pools are.
ApartInv == TableTypes /\ \A i \in Created : Cut(i) /\ Apart(i)
-----------------------------------------------------------------------------
\* What mkbufpool cuts off is as long as a buffer with the word before it.
LEMMA StrideFacts ==
  ASSUME NEW b \in Nat \ {0}
  PROVE  RoundWord(b) \in Nat /\ Stride(b) = RoundWord(b) + BPID /\ Stride(b) \in Nat \ {0}
BY DEF Stride, RoundWord, BPID

\* Places that are cut from a on at a distance of s.
LEMMA DistantPlaces ==
  ASSUME NEW a \in Int, NEW s \in Nat \ {0}, NEW x \in Int, NEW y \in Int
  PROVE  /\ a + (x - 1) * s \in Int
         /\ x < y => a + (x - 1) * s + s <= a + (y - 1) * s
         /\ a + (x - 1) * s = a + (y - 1) * s => x = y
<1>1. \A u, v \in Int : u * v \in Int
  OBVIOUS
<1>2. (x - 1) * s \in Int /\ (y - 1) * s \in Int
  BY <1>1
<1>3. ASSUME NEW u \in Int, NEW v \in Int, u < v PROVE (u - 1) * s + s <= (v - 1) * s
  <2>1. PICK d \in Nat : v = u + 1 + d
    <3>1. v - u - 1 \in Nat /\ v = u + 1 + (v - u - 1)
      BY <1>3
    <3>2. QED
      BY <3>1
  <2>2. (v - 1) * s = (u - 1) * s + s + d * s
    BY <2>1
  <2>3. d * s \in Nat
    OBVIOUS
  <2>4. (u - 1) * s \in Int
    BY <1>1
  <2>5. QED
    BY <2>2, <2>3, <2>4
<1>4. x < y => (x - 1) * s + s <= (y - 1) * s
  BY <1>3
<1>5. y < x => (y - 1) * s + s <= (x - 1) * s
  BY <1>3
<1>6. QED
  BY <1>2, <1>4, <1>5

\* A list with one more element at its head.
LEMMA ConsRange ==
  ASSUME NEW S, NEW q \in Seq(S), NEW e \in S, IsInjective(q), e \notin Range(q)
  PROVE  IsInjective(<<e>> \o q) /\ Range(<<e>> \o q) = Range(q) \cup {e}
<1> DEFINE w == <<e>> \o q
<1>1. /\ <<e>> \in Seq(S) /\ Len(<<e>>) = 1 /\ <<e>>[1] = e
      /\ Len(q) \in Nat /\ DOMAIN q = 1..Len(q)
  BY LenProperties
<1>2. /\ w \in Seq(S) /\ Len(w) = 1 + Len(q)
      /\ \A j \in 1 .. 1 + Len(q) : w[j] = IF j <= 1 THEN e ELSE q[j - 1]
  BY <1>1, ConcatProperties
<1>3. DOMAIN w = 1 .. 1 + Len(q)
  BY <1>2, LenProperties
<1> HIDE DEF w
<1>4. \A j \in 1..Len(q) : q[j] \in Range(q)
  BY <1>1 DEF Range
<1>5. \A j \in 2 .. 1 + Len(q) : j - 1 \in 1..Len(q) /\ w[j] = q[j - 1]
  BY <1>1, <1>2
<1>6. w[1] = e
  BY <1>1, <1>2
<1>7. IsInjective(w)
  <2>1. \A x, y \in 1..Len(q) : q[x] = q[y] => x = y
    BY <1>1 DEF IsInjective
  <2>2. ASSUME NEW x \in DOMAIN w, NEW y \in DOMAIN w, w[x] = w[y] PROVE x = y
    <3>1. CASE x = 1 /\ y = 1
      BY <3>1
    <3>2. CASE x = 1 /\ y # 1
      <4>1. y \in 2 .. 1 + Len(q)
        BY <1>1, <1>3, <3>2
      <4>2. w[y] \in Range(q)
        BY <1>4, <1>5, <4>1
      <4>3. QED
        BY <1>6, <2>2, <3>2, <4>2
    <3>3. CASE x # 1 /\ y = 1
      <4>1. x \in 2 .. 1 + Len(q)
        BY <1>1, <1>3, <3>3
      <4>2. w[x] \in Range(q)
        BY <1>4, <1>5, <4>1
      <4>3. QED
        BY <1>6, <2>2, <3>3, <4>2
    <3>4. CASE x # 1 /\ y # 1
      <4>1. x \in 2 .. 1 + Len(q) /\ y \in 2 .. 1 + Len(q)
        BY <1>1, <1>3, <3>4
      <4>2. x - 1 = y - 1
        BY <1>5, <2>1, <2>2, <4>1
      <4>3. QED
        BY <1>1, <4>1, <4>2
    <3>5. QED
      BY <3>1, <3>2, <3>3, <3>4
  <2>3. QED
    BY <2>2 DEF IsInjective
<1>8. Range(w) = Range(q) \cup {e}
  <2>1. \A x \in DOMAIN w : w[x] \in Range(q) \cup {e}
    <3>1. \A x \in DOMAIN w : x = 1 \/ x \in 2 .. 1 + Len(q)
      BY <1>1, <1>3
    <3>2. QED
      BY <1>4, <1>5, <1>6, <3>1
  <2>2. 1 \in DOMAIN w
    BY <1>1, <1>3
  <2>3. \A x \in 1..Len(q) : x + 1 \in DOMAIN w /\ w[x + 1] = q[x]
    <3>1. \A x \in 1..Len(q) : x + 1 \in 1 .. 1 + Len(q) /\ ~(x + 1 <= 1) /\ (x + 1) - 1 = x
      BY <1>1
    <3>2. QED
      BY <1>2, <1>3, <3>1
  <2>4. Range(q) \subseteq Range(w)
    BY <1>1, <2>3 DEF Range
  <2>5. e \in Range(w)
    BY <1>6, <2>2 DEF Range
  <2>6. Range(w) \subseteq Range(q) \cup {e}
    BY <2>1 DEF Range
  <2>7. QED
    BY <2>4, <2>5, <2>6
<1>9. QED
  BY <1>7, <1>8 DEF w
-----------------------------------------------------------------------------
\* A pool whose buffers and storage a step leaves alone stays as it is.
LEMMA PoolUntouched ==
  ASSUME NEW i, Cut(i), Apart(i), poolmem[i] \in live',
         poolmem'[i] = poolmem[i], bpsize'[i] = bpsize[i],
         bufs'[i] = bufs[i], Held(i)' = Held(i)
  PROVE  Cut(i)' /\ Apart(i)'
<1>1. Places(i)' = Places(i)
  BY DEF Places, Held
<1>2. Cut(i)'
  BY <1>1 DEF Cut
<1>3. Apart(i)'
  BY DEF Apart
<1>4. QED
  BY <1>2, <1>3

\* getbuf: the place at the head of the list becomes a place in use.
LEMMA UnlinkKeepsPlaces ==
  ASSUME PoolTypes, NEW u \in User, NEW i \in Pool, Len(bufs[i]) > 0, Unlink(u, i),
         UNCHANGED <<bpsize, poolmem, live>>, Cut(i), Apart(i)
  PROVE  /\ Cut(i)' /\ Apart(i)'
         /\ \A j \in Pool \ {i} : bufs'[j] = bufs[j] /\ Held(j)' = Held(j)
<1> DEFINE h == Head(bufs[i])
           c == [user |-> u, addr |-> h + BPID, pool |-> i]
<1>1. /\ bufs \in [Pool -> Seq(Int)] /\ bufs[i] \in Seq(Int)
      /\ held \subseteq [user : User, addr : Int, pool : Pool]
  BY DEF PoolTypes
<1>2. bufs[i] # <<>> /\ IsInjective(bufs[i])
  BY EmptySeq DEF Apart
<1>3. /\ h \in Int /\ h \in Range(bufs[i])
      /\ IsInjective(Tail(bufs[i])) /\ Range(Tail(bufs[i])) = Range(bufs[i]) \ {h}
  BY <1>1, <1>2, TailRange
<1>4. /\ bufs'[i] = Tail(bufs[i]) /\ \A j \in Pool \ {i} : bufs'[j] = bufs[j]
      /\ held' = held \cup {c}
  BY <1>1 DEF Unlink
<1>5. c.pool = i /\ c.addr - BPID = h /\ c.addr \in Int
  BY <1>3 DEF BPID
<1> HIDE DEF h, c
<1>6. Held(i)' = Held(i) \cup {c} /\ \A j \in Pool \ {i} : Held(j)' = Held(j)
  BY <1>4, <1>5 DEF Held
<1>7. \A b \in Held(i) : b.addr - BPID \notin Range(bufs[i])
  BY DEF Apart
<1>8. \A b \in Held(i) : b.addr # c.addr
  BY <1>3, <1>5, <1>7
<1>9. Apart(i)'
  <2>1. \A b, d \in Held(i)' : b.addr = d.addr => b = d
    BY <1>6, <1>8 DEF Apart
  <2>2. \A b \in Held(i)' : b.addr - BPID \notin Range(bufs'[i])
    BY <1>3, <1>4, <1>5, <1>6, <1>7
  <2>3. QED
    BY <1>3, <1>4, <2>1, <2>2 DEF Apart
<1>10. Places(i)' = Places(i)
  <2>1. /\ Places(i) = Range(bufs[i]) \cup {b.addr - BPID : b \in Held(i)}
        /\ Places(i)' = Range(bufs'[i]) \cup {b.addr - BPID : b \in Held(i)'}
    BY DEF Places, Held
  <2>2. {b.addr - BPID : b \in Held(i)'} = {b.addr - BPID : b \in Held(i)} \cup {h}
    BY <1>5, <1>6
  <2>3. QED
    BY <1>3, <1>4, <2>1, <2>2
<1>11. Cut(i)'
  BY <1>10 DEF Cut
<1>12. QED
  BY <1>4, <1>6, <1>9, <1>11

\* freebuf: a place in use becomes the head of the list.
LEMMA FreebufKeepsPlaces ==
  ASSUME PoolTypes, NEW b \in held, Freebuf(b), NEW i, i = b.pool, Cut(i), Apart(i)
  PROVE  /\ Cut(i)' /\ Apart(i)'
         /\ \A j \in Pool \ {i} : bufs'[j] = bufs[j] /\ Held(j)' = Held(j)
<1> DEFINE h == b.addr - BPID
<1>1. /\ bufs \in [Pool -> Seq(Int)] /\ i \in Pool /\ bufs[i] \in Seq(Int)
      /\ b.addr \in Int
  BY DEF PoolTypes
<1>2. /\ bufs' = [bufs EXCEPT ![i] = <<h>> \o @] /\ held' = held \ {b}
      /\ bpsize' = bpsize /\ poolmem' = poolmem /\ live' = live
  BY DEF Freebuf, tabVars, heapVars
<1>3. h \in Int
  BY <1>1 DEF BPID
<1>4. b \in Held(i)
  BY DEF Held
<1>5. h \notin Range(bufs[i]) /\ IsInjective(bufs[i])
  BY <1>4 DEF Apart
<1>6. Apart(i) /\ Cut(i)
  OBVIOUS
<1>7. h = b.addr - BPID
  OBVIOUS
<1> HIDE DEF h
<1>8. IsInjective(<<h>> \o bufs[i]) /\ Range(<<h>> \o bufs[i]) = Range(bufs[i]) \cup {h}
  BY <1>1, <1>3, <1>5, ConsRange
<1>9. bufs'[i] = <<h>> \o bufs[i] /\ \A j \in Pool \ {i} : bufs'[j] = bufs[j]
  BY <1>1, <1>2
<1>10. Held(i)' = Held(i) \ {b} /\ \A j \in Pool \ {i} : Held(j)' = Held(j)
  BY <1>2, <1>7 DEF Held
<1>11. \A c \in Held(i) : c.addr \in Int
  BY DEF Held, PoolTypes
<1>12. \A c \in Held(i) \ {b} : c.addr - BPID # h
  <2>1. ASSUME NEW c \in Held(i), c.addr - BPID = h PROVE c = b
    <3>1. c.addr = b.addr
      BY <1>1, <1>7, <1>11, <2>1 DEF BPID
    <3>2. QED
      BY <1>4, <1>6, <3>1 DEF Apart
  <2>2. QED
    BY <2>1
<1>13. Apart(i)'
  <2>1. \A c, d \in Held(i)' : c.addr = d.addr => c = d
    BY <1>6, <1>10 DEF Apart
  <2>2. \A c \in Held(i)' : c.addr - BPID \notin Range(bufs'[i])
    BY <1>6, <1>8, <1>9, <1>10, <1>12 DEF Apart
  <2>3. QED
    BY <1>8, <1>9, <2>1, <2>2 DEF Apart
<1>14. Places(i)' = Places(i)
  <2>1. /\ Places(i) = Range(bufs[i]) \cup {c.addr - BPID : c \in Held(i)}
        /\ Places(i)' = Range(bufs'[i]) \cup {c.addr - BPID : c \in Held(i)'}
    BY DEF Places, Held
  <2>2. {c.addr - BPID : c \in Held(i)} = {c.addr - BPID : c \in Held(i)'} \cup {h}
    BY <1>4, <1>7, <1>10
  <2>3. QED
    BY <1>8, <1>9, <2>1, <2>2
<1>15. Cut(i)'
  <2>1. bpsize' = bpsize /\ poolmem' = poolmem /\ live' = live
    BY <1>2
  <2>2. PICK k \in Nat :
          /\ poolmem[i].bytes = k * (bpsize[i] + BPID)
          /\ Places(i) = {poolmem[i].ptr + (j - 1) * (bpsize[i] + BPID) : j \in 1..k}
    BY <1>6 DEF Cut
  <2>3. /\ poolmem'[i].bytes = k * (bpsize'[i] + BPID)
        /\ Places(i)' = {poolmem'[i].ptr + (j - 1) * (bpsize'[i] + BPID) : j \in 1..k}
    BY <1>14, <2>1, <2>2
  <2>4. poolmem'[i] \in live'
    BY <1>6, <2>1 DEF Cut
  <2>5. QED
    BY <2>3, <2>4 DEF Cut
<1>16. QED
  BY <1>7, <1>9, <1>10, <1>13, <1>15

\* mkbufpool: the buffers of a new pool are its storage, cut into as many places.
LEMMA NewPoolCut ==
  ASSUME PoolInv, TableTypes, NEW b \in Nat \ {0}, NEW k \in Nat \ {0}, Mkbufpool(b, k),
         ~(UNCHANGED poolVars), NEW p, p = nbpools
  PROVE  /\ TableTypes' /\ p \in Pool /\ nbpools' = p + 1 /\ live \subseteq live'
         /\ Cut(p)' /\ Apart(p)'
         /\ \A j \in Pool \ {p} :
              /\ poolmem'[j] = poolmem[j] /\ bpsize'[j] = bpsize[j]
              /\ bufs'[j] = bufs[j] /\ Held(j)' = Held(j)
<1> DEFINE n == PoolBytes(b, k)
           fits == Fits(memlist, RoundMb(n))
           a == memlist[Min(fits)].addr
           s == Stride(b)
<1>0. PoolTypes /\ UnusedEntries /\ memlist \in Seq(FreeBlock)
  BY DEF PoolInv, HeapInv, Fit
<1>1. /\ p < NBPOOLS /\ fits # {} /\ Getmem(n)
      /\ nbpools' = p + 1
      /\ bpsize' = [bpsize EXCEPT ![p] = RoundWord(b)]
      /\ poolmem' = [poolmem EXCEPT ![p] = Owned("mem", n, a)]
      /\ bufs' = [bufs EXCEPT ![p] = Carve(a, b, k)]
      /\ held' = held
  BY DEF Mkbufpool, userVars
<1>2. live' = live \cup {Owned("mem", n, a)}
  BY <1>1 DEF Getmem
<1>3. p \in Pool
  <2>1. nbpools \in 0 .. NBPOOLS
    BY <1>0 DEF PoolTypes
  <2>2. p \in Nat /\ p < NBPOOLS
    BY <1>1, <2>1, PoolNumbers
  <2>3. QED
    BY <2>2, PoolNumbers
<1>4. a \in Int
  <2>1. RoundMb(n) \in Nat
    BY PoolBytesPositive, RoundMbType
  <2>2. Min(fits) \in DOMAIN memlist
    BY <1>0, <1>1, <2>1, FitsFound
  <2>3. QED
    BY <1>0, <2>2, ListFacts
<1>5. n = k * s
  BY DEF PoolBytes
<1>6. RoundWord(b) \in Nat /\ s = RoundWord(b) + BPID /\ s \in Nat \ {0}
  BY StrideFacts
<1>7. /\ Carve(a, b, k) = [j \in 1..k |-> a + (j - 1) * s]
      /\ Carve(a, b, k) \in Seq(Int)
  BY <1>4, CarveFacts DEF Carve
<1> HIDE DEF n, fits, a, s
<1>8. \A x, y \in 1..k : a + (x - 1) * s = a + (y - 1) * s => x = y
  <2>1. \A x \in 1..k : x \in Int
    OBVIOUS
  <2>2. QED
    BY <1>4, <1>6, <2>1, DistantPlaces
<1>9. IsInjective(Carve(a, b, k)) /\ Range(Carve(a, b, k)) = {a + (j - 1) * s : j \in 1..k}
  BY <1>7, <1>8 DEF IsInjective, Range
<1>10. /\ TableTypes'
       /\ poolmem'[p] = Owned("mem", n, a) /\ bpsize'[p] = RoundWord(b)
       /\ \A j \in Pool \ {p} : poolmem'[j] = poolmem[j] /\ bpsize'[j] = bpsize[j]
  <2>1. n \in Nat
    BY PoolBytesPositive DEF n
  <2>2. Owned("mem", n, a) \in [kind : {"mem"}, bytes : Nat, ptr : Int]
    BY <1>4, <2>1 DEF Owned
  <2>3. QED
    BY <1>1, <1>3, <1>6, <2>2 DEF TableTypes
<1>11. /\ bufs'[p] = Carve(a, b, k)
       /\ \A j \in Pool \ {p} : bufs'[j] = bufs[j]
  BY <1>0, <1>1, <1>3, <1>7 DEF PoolTypes
<1>12. /\ Held(p)' = {} /\ \A j \in Pool : Held(j)' = Held(j)
  <2>1. p >= nbpools
    BY <1>0 DEF PoolTypes
  <2>2. \A c \in held : c.pool # p
    BY <1>0, <1>3, <2>1 DEF UnusedEntries
  <2>3. QED
    BY <1>1, <2>2 DEF Held
<1>13. Apart(p)'
  BY <1>9, <1>11, <1>12 DEF Apart
<1>14. Places(p)' = {a + (j - 1) * s : j \in 1..k}
  <2>1. Places(p)' = Range(bufs'[p]) \cup {c.addr - BPID : c \in Held(p)'}
    BY DEF Places, Held
  <2>2. QED
    BY <1>9, <1>11, <1>12, <2>1
<1>15. Cut(p)'
  <2>1. Owned("mem", n, a).bytes = n /\ Owned("mem", n, a).ptr = a
    BY DEF Owned
  <2>2. poolmem'[p] \in live'
    BY <1>2, <1>10
  <2>3. k \in Nat /\ poolmem'[p].bytes = k * (bpsize'[p] + BPID)
    BY <1>5, <1>6, <1>10, <2>1
  <2>4. Places(p)' = {poolmem'[p].ptr + (j - 1) * (bpsize'[p] + BPID) : j \in 1..k}
    BY <1>6, <1>10, <1>14, <2>1
  <2>5. QED
    BY <2>2, <2>3, <2>4 DEF Cut
<1>16. QED
  BY <1>1, <1>2, <1>3, <1>10, <1>11, <1>12, <1>13, <1>15
-----------------------------------------------------------------------------
LEMMA ApartInvStarts == PoolsInit => ApartInv
<1> SUFFICES ASSUME PoolsInit PROVE ApartInv
  OBVIOUS
<1>1. /\ nbpools = 0 /\ bpsize = [i \in Pool |-> 0]
      /\ poolmem = [i \in Pool |-> Owned("mem", 0, 0)]
  BY DEF PoolsInit
<1>2. Owned("mem", 0, 0) \in [kind : {"mem"}, bytes : Nat, ptr : Int]
  BY DEF Owned
<1>3. TableTypes
  BY <1>1, <1>2 DEF TableTypes
<1>4. Created = {}
  BY <1>1 DEF Created
<1>5. QED
  BY <1>3, <1>4 DEF ApartInv

\* A step that changes only one pool that exists, and keeps its places.
LEMMA OnePoolChanged ==
  ASSUME ApartInv, PoolTypes, NEW i \in Created, Cut(i)', Apart(i)',
         UNCHANGED <<tabVars, live>>,
         \A j \in Pool \ {i} : bufs'[j] = bufs[j] /\ Held(j)' = Held(j)
  PROVE  ApartInv'
<1>1. nbpools' = nbpools /\ bpsize' = bpsize /\ poolmem' = poolmem /\ live' = live
  BY DEF tabVars
<1>2. TableTypes'
  BY <1>1 DEF ApartInv, TableTypes
<1>3. Created' = Created /\ Created \subseteq Pool
  BY <1>1, PoolNumbers DEF Created, PoolTypes
<1>4. ASSUME NEW j \in Created, j # i PROVE Cut(j)' /\ Apart(j)'
  <2>1. Cut(j) /\ Apart(j)
    BY DEF ApartInv
  <2>2. poolmem[j] \in live'
    BY <1>1, <2>1 DEF Cut
  <2>3. bufs'[j] = bufs[j] /\ Held(j)' = Held(j)
    BY <1>3, <1>4
  <2>4. QED
    BY <1>1, <2>1, <2>2, <2>3, PoolUntouched
<1>5. QED
  BY <1>2, <1>3, <1>4 DEF ApartInv

\* A step that leaves the pools alone, and their storage theirs.
LEMMA NoPoolChanged ==
  ASSUME ApartInv, bufs' = bufs, held' = held, UNCHANGED tabVars,
         \A i \in Created : poolmem[i] \in live'
  PROVE  ApartInv'
<1>1. nbpools' = nbpools /\ bpsize' = bpsize /\ poolmem' = poolmem
  BY DEF tabVars
<1>2. TableTypes' /\ Created' = Created
  BY <1>1 DEF ApartInv, TableTypes, Created
<1>3. ASSUME NEW i \in Created PROVE Cut(i)' /\ Apart(i)'
  <2>1. Cut(i) /\ Apart(i) /\ poolmem[i] \in live'
    BY DEF ApartInv
  <2>2. Held(i)' = Held(i)
    BY DEF Held
  <2>3. QED
    BY <1>1, <2>1, <2>2, PoolUntouched
<1>4. QED
  BY <1>2, <1>3 DEF ApartInv

\* Calls of the heap by others free none of the pools' storage.
LEMMA HeapCallsSpare ==
  ASSUME HeapCalls(live \ {poolmem[i] : i \in Created}), NEW r \in live,
         \E i \in Created : r = poolmem[i]
  PROVE  r \in live'
<1>1. CASE \E n \in Request : Getmem(n) \/ Getstk(n)
  BY <1>1 DEF Getmem, Getstk, Deny
<1>2. CASE \E s \in live \ {poolmem[i] : i \in Created} : Freemem(s)
  <2>1. PICK s \in live : s # r /\ live' = live \ {s}
    BY <1>2 DEF Freemem
  <2>2. QED
    BY <2>1
<1>3. CASE live' = live
  BY <1>3
<1>4. QED
  BY <1>1, <1>2, <1>3 DEF HeapCalls, FreememStale

\* A pool that somebody uses exists.
LEMMA UsedPoolExists ==
  ASSUME PoolTypes, UnusedEntries, NEW i \in Pool,
         (\E u \in User : gets[u] = i) \/ (\E b \in held : b.pool = i)
  PROVE  i \in Created
<1>1. ~(i >= nbpools)
  BY DEF UnusedEntries
<1>2. QED
  BY <1>1, PoolNumbers DEF PoolTypes, Created

\* A buffer that is given to a process was in the list.
LEMMA UnlinkKeepsApart ==
  ASSUME ApartInv, PoolTypes, NEW u \in User, NEW i \in Created, Len(bufs[i]) > 0,
         Unlink(u, i), UNCHANGED <<tabVars, heapVars>>
  PROVE  ApartInv'
<1>1. i \in Pool /\ Cut(i) /\ Apart(i)
  BY PoolNumbers DEF Created, PoolTypes, ApartInv
<1>2. UNCHANGED <<bpsize, poolmem, live>>
  BY DEF tabVars, heapVars
<1>3. /\ Cut(i)' /\ Apart(i)'
      /\ \A j \in Pool \ {i} : bufs'[j] = bufs[j] /\ Held(j)' = Held(j)
  BY <1>1, <1>2, UnlinkKeepsPlaces
<1>4. UNCHANGED <<tabVars, live>>
  BY <1>2
<1>5. QED
  BY <1>3, <1>4, OnePoolChanged

\* getbuf: a permit or a promise stands for a buffer in the list.
LEMMA PermittedBufferLinked ==
  ASSUME PoolInv, NEW i \in Pool, permits[i] > 0 \/ Promised(i) # {}
  PROVE  Len(bufs[i]) > 0
<1>1. permits[i] \in Nat /\ wasted[i] \in Nat
  BY DEF PoolInv, PoolTypes
<1>2. Promised(i) \in SUBSET User
  BY DEF Promised
<1>3. /\ Cardinality(Promised(i)) \in Nat
      /\ Promised(i) # {} => Cardinality(Promised(i)) > 0
  BY <1>2, CountUsers
<1>4. Len(bufs[i]) = permits[i] + Cardinality(Promised(i)) + wasted[i]
  BY DEF PoolInv, PromisesCovered
<1>5. QED
  BY <1>1, <1>3, <1>4

LEMMA GetbufKeepsApart ==
  ASSUME PoolInv, ApartInv, NEW u \in User, NEW i \in Pool, Getbuf(u, i)
  PROVE  ApartInv'
<1>0. PoolTypes
  BY DEF PoolInv
<1>1. /\ u \notin dead /\ gets[u] = NoPool /\ i < nbpools
      /\ PoolSemaphores!Acquire(i, u)
      /\ IF u \in Range(waiters'[i])
         THEN gets' = [gets EXCEPT ![u] = i] /\ UNCHANGED <<bufs, held>>
         ELSE Unlink(u, i)
      /\ UNCHANGED <<tabVars, heapVars>>
  BY DEF Getbuf, Idle
<1>2. i \in Created
  BY <1>0, <1>1, PoolNumbers DEF Created, PoolTypes
<1>3. CASE u \in Range(waiters'[i])
  <2>1. bufs' = bufs /\ held' = held /\ UNCHANGED tabVars /\ live' = live
    BY <1>1, <1>3 DEF heapVars
  <2>2. \A j \in Created : poolmem[j] \in live'
    BY <2>1 DEF ApartInv, Cut
  <2>3. QED
    BY <2>1, <2>2, NoPoolChanged
<1>4. CASE u \notin Range(waiters'[i])
  <2>1. Unlink(u, i)
    BY <1>1, <1>4
  <2>2. permits[i] > 0
    <3>1. \/ permits[i] > 0
          \/ waiters' = [waiters EXCEPT ![i] = Append(@, u)]
      BY <1>1 DEF PoolSemaphores!Acquire
    <3>2. ASSUME waiters' = [waiters EXCEPT ![i] = Append(@, u)] PROVE FALSE
      <4>1. u \notin Range(waiters[i])
        BY <1>1, IdleWaitsNowhere
      <4>2. waiters[i] \in Seq(User) /\ IsInjective(waiters[i])
        BY DEF PoolInv, PoolTypes, WaitersInside
      <4>3. u \in Range(Append(waiters[i], u))
        BY <4>1, <4>2, AppendRange
      <4>4. waiters'[i] = Append(waiters[i], u)
        BY <1>0, <3>2 DEF PoolTypes
      <4>5. QED
        BY <1>4, <4>3, <4>4
    <3>3. QED
      BY <3>1, <3>2
  <2>3. Len(bufs[i]) > 0
    BY <2>2, PermittedBufferLinked
  <2>4. QED
    BY <1>0, <1>1, <1>2, <2>1, <2>3, UnlinkKeepsApart
<1>5. QED
  BY <1>3, <1>4

LEMMA GetbufWokenKeepsApart ==
  ASSUME PoolInv, ApartInv, NEW u \in User, GetbufWoken(u)
  PROVE  ApartInv'
<1>0. PoolTypes /\ UnusedEntries
  BY DEF PoolInv
<1>1. /\ u \notin dead /\ gets[u] # NoPool /\ ~Waiting(u) /\ Unlink(u, gets[u])
      /\ UNCHANGED <<tabVars, heapVars>>
  BY DEF GetbufWoken
<1>2. PICK i \in Pool : i = gets[u]
  BY <1>0, <1>1 DEF PoolTypes
<1>3. u \in Promised(i)
  BY <1>1, <1>2 DEF Promised, Waiting
<1>4. Len(bufs[i]) > 0
  BY <1>3, PermittedBufferLinked
<1>5. i \in Created
  BY <1>0, <1>2, UsedPoolExists
<1>6. Unlink(u, i)
  BY <1>1, <1>2
<1>7. QED
  BY <1>0, <1>1, <1>4, <1>5, <1>6, UnlinkKeepsApart

LEMMA FreebufKeepsApart ==
  ASSUME PoolInv, ApartInv, NEW b \in held, Freebuf(b)
  PROVE  ApartInv'
<1>0. PoolTypes /\ UnusedEntries
  BY DEF PoolInv
<1>1. PICK i \in Pool : i = b.pool
  BY <1>0 DEF PoolTypes
<1>2. i \in Created
  BY <1>0, <1>1, UsedPoolExists
<1>3. Cut(i) /\ Apart(i)
  BY <1>2 DEF ApartInv
<1>4. /\ Cut(i)' /\ Apart(i)'
      /\ \A j \in Pool \ {i} : bufs'[j] = bufs[j] /\ Held(j)' = Held(j)
  BY <1>0, <1>1, <1>3, FreebufKeepsPlaces
<1>5. UNCHANGED <<tabVars, live>>
  BY DEF Freebuf, heapVars
<1>6. QED
  BY <1>0, <1>2, <1>4, <1>5, OnePoolChanged

LEMMA MkbufpoolKeepsApart ==
  ASSUME PoolInv, ApartInv, NEW b \in Nat \ {0}, NEW k \in Nat \ {0}, Mkbufpool(b, k)
  PROVE  ApartInv'
<1>1. CASE UNCHANGED poolVars
  <2>1. bufs' = bufs /\ held' = held /\ UNCHANGED tabVars
    BY <1>1 DEF poolVars, userVars
  <2>2. live \subseteq live'
    <3>1. \A n : Deny(n) \/ UndoGetmem(n) => live' = live
      BY DEF Deny, UndoGetmem
    <3>2. \A n : Getmem(n) => live \subseteq live'
      BY <3>1 DEF Getmem
    <3>3. \E n : Deny(n) \/ UndoGetmem(n) \/ Getmem(n)
      BY DEF Mkbufpool
    <3>4. QED
      BY <3>1, <3>2, <3>3
  <2>3. \A i \in Created : poolmem[i] \in live'
    BY <2>2 DEF ApartInv, Cut
  <2>4. QED
    BY <2>1, <2>3, NoPoolChanged
<1>2. CASE ~(UNCHANGED poolVars)
  <2>1. PICK p : p = nbpools
    OBVIOUS
  <2>2. TableTypes /\ PoolTypes
    BY DEF ApartInv, PoolInv
  <2>3. /\ TableTypes' /\ p \in Pool /\ nbpools' = p + 1 /\ live \subseteq live'
        /\ Cut(p)' /\ Apart(p)'
        /\ \A j \in Pool \ {p} :
             /\ poolmem'[j] = poolmem[j] /\ bpsize'[j] = bpsize[j]
             /\ bufs'[j] = bufs[j] /\ Held(j)' = Held(j)
    BY <1>2, <2>1, <2>2, NewPoolCut
  <2>4. Created' = Created \cup {p} /\ Created \subseteq Pool \ {p}
    <3>1. p \in Nat /\ p < NBPOOLS /\ NBPOOLS \in Nat
      BY <2>3, PoolNumbers
    <3>2. Created = 0 .. p - 1 /\ Created' = 0 .. p
      <4>1. nbpools = p /\ nbpools' = p + 1 /\ (p + 1) - 1 = p
        BY <2>1, <2>3, <3>1
      <4>2. Created = 0 .. nbpools - 1 /\ Created' = 0 .. nbpools' - 1
        BY DEF Created
      <4>3. QED
        BY <4>1, <4>2
    <3>3. \A j : j \in 0 .. p <=> j \in 0 .. p - 1 \/ j = p
      BY <3>1
    <3>4. \A j \in 0 .. p - 1 : j \in Nat /\ j < NBPOOLS /\ j # p
      BY <3>1
    <3>5. \A j \in 0 .. p - 1 : j \in Pool \ {p}
      BY <3>4, PoolNumbers
    <3>6. QED
      BY <3>2, <3>3, <3>5
  <2>5. ASSUME NEW j \in Created PROVE Cut(j)' /\ Apart(j)'
    <3>1. Cut(j) /\ Apart(j)
      BY DEF ApartInv
    <3>2. poolmem[j] \in live'
      BY <2>3, <3>1 DEF Cut
    <3>3. j \in Pool \ {p}
      BY <2>4
    <3>4. QED
      BY <2>3, <3>1, <3>2, <3>3, PoolUntouched
  <2>6. QED
    BY <2>3, <2>4, <2>5 DEF ApartInv
<1>3. QED
  BY <1>1, <1>2

LEMMA ApartInvKept ==
  PoolInv /\ ApartInv /\ [PoolsNext]_<<heapVars, poolVars>> => ApartInv'
<1> SUFFICES ASSUME PoolInv, ApartInv, [PoolsNext]_<<heapVars, poolVars>> PROVE ApartInv'
  OBVIOUS
<1>0. ASSUME UNCHANGED poolVars, \A i \in Created : poolmem[i] \in live' PROVE ApartInv'
  <2>1. bufs' = bufs /\ held' = held /\ UNCHANGED tabVars
    BY <1>0 DEF poolVars, userVars
  <2>2. QED
    BY <1>0, <2>1, NoPoolChanged
<1>1. \A i \in Created : poolmem[i] \in live
  BY DEF ApartInv, Cut
<1>2. CASE UNCHANGED <<heapVars, poolVars>>
  BY <1>0, <1>1, <1>2 DEF heapVars
<1>3. CASE HeapCalls(live \ {poolmem[i] : i \in Created}) /\ UNCHANGED poolVars
  <2>1. \A i \in Created : poolmem[i] \in live'
    BY <1>1, <1>3, HeapCallsSpare
  <2>2. QED
    BY <1>0, <1>3, <2>1
<1>4. ASSUME NEW a \in PoolArgs, Mkbufpool(a[1], a[2]) PROVE ApartInv'
  <2>1. a[1] \in Nat \ {0} /\ a[2] \in Nat \ {0}
    BY PoolSizes
  <2>2. QED
    BY <1>4, <2>1, MkbufpoolKeepsApart
<1>5. ASSUME NEW u \in User, \E i \in Pool : Getbuf(u, i) PROVE ApartInv'
  BY <1>5, GetbufKeepsApart
<1>6. ASSUME NEW u \in User, GetbufWoken(u) PROVE ApartInv'
  BY <1>6, GetbufWokenKeepsApart
<1>7. ASSUME NEW u \in User, KillUser(u) PROVE ApartInv'
  <2>1. bufs' = bufs /\ held' = held /\ UNCHANGED tabVars /\ live' = live
    BY <1>7 DEF KillUser, heapVars
  <2>2. QED
    BY <1>1, <2>1, NoPoolChanged
<1>8. ASSUME NEW b \in held, Freebuf(b) PROVE ApartInv'
  BY <1>8, FreebufKeepsApart
<1>9. QED
  BY <1>2, <1>3, <1>4, <1>5, <1>6, <1>7, <1>8 DEF PoolsNext
-----------------------------------------------------------------------------
\* As many places are linked or in use as mkbufpool has made.
LEMMA PlacesCounted ==
  ASSUME PoolTypes, TableTypes, NEW i \in Pool, Cut(i), Apart(i)
  PROVE  /\ Len(bufs[i]) + Cardinality(Held(i)) = Cardinality(Places(i))
         /\ Cardinality(Places(i)) = poolmem[i].bytes \div (bpsize[i] + BPID)
<1> DEFINE s == bpsize[i] + BPID
           p == poolmem[i].ptr
           used == {b.addr - BPID : b \in Held(i)}
<1>1. /\ bufs[i] \in Seq(Int) /\ \A b \in Held(i) : b.addr \in Int
      /\ p \in Int /\ s \in Nat \ {0}
  BY DEF PoolTypes, TableTypes, Held, BPID
<1>2. PICK k \in Nat : /\ poolmem[i].bytes = k * s
                       /\ Places(i) = {p + (j - 1) * s : j \in 1..k}
  BY DEF Cut
<1>3. Places(i) = Range(bufs[i]) \cup used
  BY DEF Places, Held
<1> HIDE DEF s, p, used
<1>4. IsFiniteSet(Places(i)) /\ Cardinality(Places(i)) = k
  <2> DEFINE f == [j \in 1..k |-> p + (j - 1) * s]
  <2>1. IsFiniteSet(1..k) /\ Cardinality(1..k) = k
    BY FS_Interval
  <2>2. \A x, y \in 1..k : p + (x - 1) * s = p + (y - 1) * s => x = y
    <3>1. \A x \in 1..k : x \in Int
      OBVIOUS
    <3>2. QED
      BY <1>1, <3>1, DistantPlaces
  <2>3. /\ f \in [1..k -> Places(i)]
        /\ \A x, y \in 1..k : f[x] = f[y] => x = y
        /\ \A t \in Places(i) : \E x \in 1..k : f[x] = t
    BY <1>2, <2>2
  <2> HIDE DEF f
  <2>4. /\ IsFiniteSet(1..k) /\ IsFiniteSet(Places(i))
        /\ Cardinality(Places(i)) = Cardinality(1..k)
    BY <2>1, <2>3, ImageCounted, Zenon
  <2>5. QED
    BY <2>1, <2>4
<1>5. IsFiniteSet(Range(bufs[i])) /\ Cardinality(Range(bufs[i])) = Len(bufs[i])
  BY <1>1, ListCounted DEF Apart
<1>6. IsFiniteSet(used) /\ Cardinality(used) = Cardinality(Held(i))
  <2> DEFINE f == [b \in Held(i) |-> b.addr - BPID]
  <2>1. IsFiniteSet(used)
    BY <1>3, <1>4, FS_Subset
  <2>2. \A b, c \in Held(i) : b.addr - BPID = c.addr - BPID => b = c
    <3>1. \A b, c \in Held(i) : b.addr - BPID = c.addr - BPID => b.addr = c.addr
      BY <1>1 DEF BPID
    <3>2. QED
      BY <3>1 DEF Apart
  <2>3. /\ f \in [Held(i) -> used]
        /\ \A b, c \in Held(i) : f[b] = f[c] => b = c
        /\ \A t \in used : \E b \in Held(i) : f[b] = t
    BY <2>2 DEF used
  <2> HIDE DEF f
  <2>4. QED
    BY <2>1, <2>3, ImageCounted
<1>7. Range(bufs[i]) \cap used = {}
  BY DEF Apart, used
<1>8. Cardinality(Places(i)) = Cardinality(Range(bufs[i])) + Cardinality(used)
  <2>1. Cardinality(Range(bufs[i]) \cap used) = 0
    BY <1>7, FS_EmptySet
  <2>2. Cardinality(Range(bufs[i])) \in Nat /\ Cardinality(used) \in Nat
    BY <1>5, <1>6, FS_CardinalityType
  <2>3. Cardinality(Range(bufs[i]) \cup used) =
          Cardinality(Range(bufs[i])) + Cardinality(used) - Cardinality(Range(bufs[i]) \cap used)
    BY <1>5, <1>6, FS_Union
  <2>4. QED
    BY <1>3, <2>1, <2>2, <2>3
<1>9. poolmem[i].bytes \div s = k
  <2>1. \A x \in Nat, y \in Nat \ {0} : (x * y) \div y = x
    OBVIOUS
  <2>2. QED
    BY <1>1, <1>2, <2>1
<1>10. QED
  BY <1>4, <1>5, <1>6, <1>8, <1>9 DEF s

\* The places are apart, inside the storage of the pool.
LEMMA PlacesInside ==
  ASSUME PoolTypes, TableTypes, HeapInv, NEW i \in Pool, Cut(i)
  PROVE  /\ \A a, b \in Places(i) : a < b => a + BPID + bpsize[i] <= b
         /\ \A a \in Places(i) :
              /\ StartOf(poolmem[i]) <= a
              /\ a + BPID + bpsize[i] <= EndOf(OwnedBlock(poolmem[i]))
<1> DEFINE s == bpsize[i] + BPID
           p == poolmem[i].ptr
<1>1. /\ p \in Int /\ s \in Nat \ {0} /\ poolmem[i].kind = "mem"
      /\ bpsize[i] \in Nat /\ BPID \in Nat
  BY DEF TableTypes, BPID
<1>2. PICK k \in Nat : /\ poolmem[i].bytes = k * s
                       /\ Places(i) = {p + (j - 1) * s : j \in 1..k}
  BY DEF Cut
<1>3. poolmem[i] \in OwnedRecord
  BY DEF Cut, HeapInv, Fit
<1>4. StartOf(poolmem[i]) = p
  BY <1>1 DEF StartOf
<1>5. EndOf(OwnedBlock(poolmem[i])) >= p + k * s
  <2>1. EndOf(OwnedBlock(poolmem[i])) = p + RoundMb(poolmem[i].bytes)
    BY <1>4 DEF EndOf, OwnedBlock, Block
  <2>2. /\ RoundMb(poolmem[i].bytes) \in Nat
        /\ RoundMb(poolmem[i].bytes) >= poolmem[i].bytes
        /\ poolmem[i].bytes \in Nat
    BY <1>3, RoundMbType, OwnedFacts
  <2>3. QED
    BY <1>1, <1>2, <2>1, <2>2
<1>6. EndOf(OwnedBlock(poolmem[i])) \in Int
  <2>1. EndOf(OwnedBlock(poolmem[i])) = p + RoundMb(poolmem[i].bytes)
    BY <1>4 DEF EndOf, OwnedBlock, Block
  <2>2. QED
    BY <1>1, <1>3, <2>1, OwnedFacts
<1>7. s = bpsize[i] + BPID
  OBVIOUS
<1> HIDE DEF s, p
<1>8. ASSUME NEW x \in 1..k, NEW y \in 1..k, p + (x - 1) * s < p + (y - 1) * s
      PROVE  p + (x - 1) * s + s <= p + (y - 1) * s
  <2>1. x \in Int /\ y \in Int
    OBVIOUS
  <2>2. p + (x - 1) * s \in Int /\ p + (y - 1) * s \in Int
    BY <1>1, <2>1, DistantPlaces
  <2>3. ~(y < x) /\ x # y
    <3>1. y < x => p + (y - 1) * s + s <= p + (x - 1) * s
      BY <1>1, <2>1, DistantPlaces
    <3>2. QED
      BY <1>1, <1>8, <2>2, <3>1
  <2>4. x < y
    BY <2>1, <2>3
  <2>5. QED
    BY <1>1, <2>1, <2>4, DistantPlaces
<1>9. ASSUME NEW x \in 1..k
      PROVE  /\ p + (x - 1) * s \in Int
             /\ p <= p + (x - 1) * s /\ p + (x - 1) * s + s <= p + k * s
  <2>1. x \in Int /\ k + 1 \in Int /\ 1 \in Int /\ x < k + 1
    OBVIOUS
  <2>2. p + (x - 1) * s \in Int /\ p + (x - 1) * s + s <= p + ((k + 1) - 1) * s
    BY <1>1, <2>1, DistantPlaces
  <2>3. (x - 1) * s \in Nat
    <3>1. \A u, v \in Nat : u * v \in Nat
      OBVIOUS
    <3>2. x - 1 \in Nat
      OBVIOUS
    <3>3. QED
      BY <1>1, <3>1, <3>2
  <2>4. (k + 1) - 1 = k
    OBVIOUS
  <2>5. QED
    BY <1>1, <2>2, <2>3, <2>4
<1>10. ASSUME NEW a \in Places(i) PROVE a \in Int /\ a + BPID + bpsize[i] = a + s
  BY <1>1, <1>2, <1>7, <1>9
<1>11. \A a, b \in Places(i) : a < b => a + s <= b
  BY <1>2, <1>8
<1>12. \A a \in Places(i) : p <= a /\ a + s <= p + k * s
  BY <1>2, <1>9
<1>13. \A a, b \in Places(i) : a < b => a + BPID + bpsize[i] <= b
  BY <1>10, <1>11
<1>14. \A a \in Places(i) : a + BPID + bpsize[i] <= EndOf(OwnedBlock(poolmem[i]))
  <2>1. p + k * s \in Int
    <3>1. \A u, v \in Int : u * v \in Int
      OBVIOUS
    <3>2. QED
      BY <1>1, <3>1
  <2>2. SUFFICES ASSUME NEW a \in Places(i) PROVE a + s <= EndOf(OwnedBlock(poolmem[i]))
    BY <1>10
  <2>3. a + s \in Int
    BY <1>1, <1>10
  <2>4. QED
    BY <1>5, <1>6, <1>12, <2>1, <2>3
<1>15. QED
  BY <1>4, <1>12, <1>13, <1>14

LEMMA ApartInvCovers == PoolInv /\ ApartInv => BuffersApart
<1> SUFFICES ASSUME PoolInv, ApartInv, NEW i \in Created
             PROVE  /\ Len(bufs[i]) + Cardinality({b \in held : b.pool = i}) = Cardinality(Places(i))
                    /\ Cardinality(Places(i)) = poolmem[i].bytes \div (bpsize[i] + BPID)
                    /\ \A a, b \in Places(i) : a < b => a + BPID + bpsize[i] <= b
                    /\ \A a \in Places(i) :
                         /\ StartOf(poolmem[i]) <= a
                         /\ a + BPID + bpsize[i] <= EndOf(OwnedBlock(poolmem[i]))
                    /\ poolmem[i] \in live
  BY DEF BuffersApart
<1>1. PoolTypes /\ TableTypes /\ HeapInv /\ Cut(i) /\ Apart(i)
  BY DEF PoolInv, ApartInv
<1>2. i \in Pool
  BY <1>1, PoolNumbers DEF Created, PoolTypes
<1>3. /\ Len(bufs[i]) + Cardinality(Held(i)) = Cardinality(Places(i))
      /\ Cardinality(Places(i)) = poolmem[i].bytes \div (bpsize[i] + BPID)
  BY <1>1, <1>2, PlacesCounted
<1>4. poolmem[i] \in live
  BY <1>1 DEF Cut
<1>5. /\ \A a, b \in Places(i) : a < b => a + BPID + bpsize[i] <= b
      /\ \A a \in Places(i) :
           /\ StartOf(poolmem[i]) <= a
           /\ a + BPID + bpsize[i] <= EndOf(OwnedBlock(poolmem[i]))
  BY <1>1, <1>2, PlacesInside
<1>6. QED
  BY <1>3, <1>4, <1>5 DEF Held

\* Every buffer stays in its own pool or in the hands of one process, whatever is
\* got, freed and killed: getbuf writes the number of the pool before the buffer,
\* and freebuf believes it; and the storage of a pool is given to nobody else.
THEOREM BuffersStayApart == PoolsSpec => []BuffersApart
<1>1. PoolsInit => PoolInv /\ ApartInv
  BY PoolInvStarts, ApartInvStarts
<1>2. PoolInv /\ ApartInv /\ [PoolsNext]_<<heapVars, poolVars>> => PoolInv' /\ ApartInv'
  BY PoolInvKept, ApartInvKept
<1>3. PoolInv /\ ApartInv => BuffersApart
  BY ApartInvCovers
<1>4. QED
  BY <1>1, <1>2, <1>3, PTL DEF PoolsSpec
-----------------------------------------------------------------------------
\* The storage of the pools that exist is owned, and the others have none.
SpareTable == \A i \in Pool \ Created : poolmem[i] = Owned("mem", 0, 0)

LEMMA SpareTableKept ==
  PoolInv /\ SpareTable /\ [PoolsNext]_<<heapVars, poolVars>> => SpareTable'
<1> SUFFICES ASSUME PoolInv, SpareTable, [PoolsNext]_<<heapVars, poolVars>>
             PROVE  SpareTable'
  OBVIOUS
<1>1. CASE UNCHANGED tabVars
  BY <1>1 DEF SpareTable, Created, tabVars
<1>2. ASSUME NEW a \in PoolArgs, Mkbufpool(a[1], a[2]) PROVE SpareTable'
  <2>1. CASE UNCHANGED poolVars
    BY <1>1, <2>1 DEF poolVars
  <2>2. CASE ~(UNCHANGED poolVars)
    <3>1. /\ nbpools' = nbpools + 1
          /\ \E x : poolmem' = [poolmem EXCEPT ![nbpools] = x]
      BY <1>2, <2>2 DEF Mkbufpool
    <3>2. nbpools \in Nat /\ Created = 0 .. nbpools - 1 /\ Created' = 0 .. nbpools
      <4>1. nbpools \in Nat /\ (nbpools + 1) - 1 = nbpools
        BY PoolSizes DEF PoolInv, PoolTypes
      <4>2. QED
        BY <3>1, <4>1 DEF Created
    <3>3. ASSUME NEW i \in Pool, i \notin Created' PROVE i \notin Created /\ i # nbpools
      BY <3>2, <3>3
    <3>4. \A i \in Pool : i # nbpools => poolmem'[i] = poolmem[i]
      BY <3>1
    <3>5. QED
      BY <3>3, <3>4 DEF SpareTable
  <2>3. QED
    BY <2>1, <2>2
<1>3. QED
  BY <1>1, <1>2 DEF PoolsNext, Getbuf, GetbufWoken, KillUser, Freebuf, poolVars

LEMMA PoolsTyped ==
  ASSUME PoolInv, ApartInv, ArenaInv, SpareTable
  PROVE  PoolsTypeOK
<1>1. PoolTypes /\ TableTypes /\ HeapInv
  BY DEF PoolInv, ApartInv
<1>2. HeapTypeOK
  BY ArenaInvTyped
<1>3. Created \subseteq Pool
  BY <1>1, PoolNumbers DEF Created, PoolTypes
<1>4. ASSUME NEW i \in Created
      PROVE  \A a \in Places(i) : a \in Int /\ MinHeap <= a /\ a <= MaxHeap
  <2>1. Cut(i) /\ i \in Pool /\ poolmem[i] \in live
    BY <1>3 DEF ApartInv, Cut
  <2>2. /\ MinHeap <= StartOf(poolmem[i]) /\ EndOf(OwnedBlock(poolmem[i])) <= MaxHeap
    BY <2>1, OwnedInside
  <2>3. /\ StartOf(poolmem[i]) \in Int /\ EndOf(OwnedBlock(poolmem[i])) \in Int
    <3>1. poolmem[i] \in OwnedRecord
      BY <1>1, <2>1 DEF HeapInv, Fit
    <3>2. QED
      BY <3>1, OwnedFacts DEF OwnedBlock, EndOf, Block
  <2>4. SUFFICES ASSUME NEW a \in Places(i) PROVE a \in Int /\ MinHeap <= a /\ a <= MaxHeap
    OBVIOUS
  <2>5. /\ StartOf(poolmem[i]) <= a
        /\ a + BPID + bpsize[i] <= EndOf(OwnedBlock(poolmem[i]))
    BY <1>1, <2>1, PlacesInside
  <2>6. a \in Int
    <3>1. CASE a \in Range(bufs[i])
      <4>1. bufs[i] \in Seq(Int)
        BY <1>1, <2>1 DEF PoolTypes
      <4>2. QED
        BY <3>1, <4>1 DEF Range
    <3>2. CASE a \notin Range(bufs[i])
      <4>1. PICK b \in held : a = b.addr - BPID
        BY <3>2 DEF Places
      <4>2. b.addr \in Int
        BY <1>1 DEF PoolTypes
      <4>3. QED
        BY <4>1, <4>2 DEF BPID
    <3>3. QED
      BY <3>1, <3>2
  <2>7. bpsize[i] \in Nat /\ BPID = 4
    BY <1>1, <2>1 DEF TableTypes, BPID
  <2>8. QED
    BY <2>2, <2>3, <2>5, <2>6, <2>7, HeapSizes
<1>5. ASSUME NEW i \in Pool PROVE bufs[i] \in Seq(MinHeap .. MaxHeap)
  <2>1. CASE i \in Created
    <3>1. bufs[i] \in Seq(Int)
      BY <1>1 DEF PoolTypes
    <3>2. \A k \in DOMAIN bufs[i] : bufs[i][k] \in Places(i)
      BY DEF Places, Range
    <3>3. \A k \in DOMAIN bufs[i] : bufs[i][k] \in MinHeap .. MaxHeap
      BY <1>4, <2>1, <3>2, HeapSizes
    <3>4. QED
      BY <3>1, <3>3, SequenceOver
  <2>2. CASE i \notin Created
    <3>1. i >= nbpools
      BY <1>1, <2>2, PoolNumbers DEF Created, PoolTypes
    <3>2. bufs[i] = <<>>
      BY <3>1 DEF PoolInv, UnusedEntries
    <3>3. QED
      BY <3>2
  <2>3. QED
    BY <2>1, <2>2
<1>6. bufs \in [Pool -> Seq(MinHeap .. MaxHeap)]
  BY <1>1, <1>5 DEF PoolTypes
<1>7. ASSUME NEW i \in Pool
      PROVE  poolmem[i] \in [kind : {"mem"}, bytes : Nat, ptr : Nat]
  <2>1. poolmem[i] \in [kind : {"mem"}, bytes : Nat, ptr : Int]
    BY <1>1 DEF TableTypes
  <2>2. poolmem[i].ptr \in Nat
    <3>1. CASE i \in Created
      <4>1. poolmem[i] \in live
        BY <3>1 DEF ApartInv, Cut
      <4>2. QED
        BY <4>1, OwnedInside
    <3>2. CASE i \notin Created
      BY <3>2 DEF SpareTable, Owned
    <3>3. QED
      BY <3>1, <3>2
  <2>3. QED
    BY <2>1, <2>2
<1>8. poolmem \in [Pool -> [kind : {"mem"}, bytes : Nat, ptr : Nat]]
  BY <1>1, <1>7 DEF TableTypes
<1>9. ASSUME NEW b \in held PROVE b \in [user : User, addr : Nat, pool : Pool]
  <2>1. b \in [user : User, addr : Int, pool : Pool]
    BY <1>1 DEF PoolTypes
  <2>2. b.pool \in Created
    <3>1. b.pool \in Pool /\ UnusedEntries /\ PoolTypes
      BY <1>1, <2>1 DEF PoolInv
    <3>2. QED
      BY <3>1, UsedPoolExists
  <2>3. b.addr - BPID \in Places(b.pool)
    BY DEF Places
  <2>4. MinHeap <= b.addr - BPID
    BY <1>4, <2>2, <2>3
  <2>5. b.addr \in Nat
    BY <2>1, <2>4, HeapSizes DEF BPID
  <2>6. QED
    BY <2>1, <2>5
<1>10. QED
  BY <1>1, <1>2, <1>6, <1>8, <1>9 DEF PoolsTypeOK, PoolTypes, TableTypes

\* The variables of the pools keep their types: every buffer that is linked or in
\* use lies in the heap, and so does every free block.
THEOREM PoolsStayTyped == PoolsSpec => []PoolsTypeOK
<1> DEFINE Inv == PoolInv /\ ApartInv /\ ArenaInv /\ SpareTable
<1>1. PoolsInit => Inv
  <2>1. PoolsInit => SpareTable
    BY DEF PoolsInit, SpareTable
  <2>2. QED
    BY <2>1, PoolInvStarts, ApartInvStarts, ArenaInvStarts DEF PoolsInit
<1>2. Inv /\ [PoolsNext]_<<heapVars, poolVars>> => Inv'
  BY PoolInvKept, ApartInvKept, ArenaInvKept, SpareTableKept
<1>3. Inv => PoolsTypeOK
  BY PoolsTyped
<1>4. QED
  BY <1>1, <1>2, <1>3, PTL DEF PoolsSpec
=============================================================================
