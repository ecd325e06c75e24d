---------------------------- MODULE KernelSafety ----------------------------
(***************************************************************************)
(* The safety of the kernel for every size of its tables.  First what the  *)
(* queue operations do to the set of processes in a queue, to the order of *)
(* its keys and to the sums of a delta list, whatever its length; then the *)
(* inductive invariant and what each way of handing over to the scheduler  *)
(* does to it; then one lemma for each action, and the theorems.           *)
(***************************************************************************)
EXTENDS Kernel, SequenceLemmas
-----------------------------------------------------------------------------
(* The queue operations.                                                   *)


\* Inserting an element that is not in the queue adds it and disturbs no other.
LEMMA InsertAtHolds ==
  ASSUME NEW S, NEW q \in Seq(S), NEW i \in 1..Len(q)+1, NEW e \in S, NEW T,
         Holds(q, T), e \notin T
  PROVE  /\ InsertAt(q, i, e) \in Seq(S)
         /\ Len(InsertAt(q, i, e)) = Len(q) + 1
         /\ Holds(InsertAt(q, i, e), T \cup {e})
BY InsertAtRange DEF Holds, IsInjective

\* Removing an entry removes its process and disturbs no other.
LEMMA RemoveAtHolds ==
  ASSUME NEW S, NEW q \in Seq(S), NEW i \in 1..Len(q), NEW T, Holds(q, T)
  PROVE  /\ RemoveAt(q, i) \in Seq(S)
         /\ Len(RemoveAt(q, i)) = Len(q) - 1
         /\ Holds(RemoveAt(q, i), T \ {q[i]})
BY RemoveAtRange DEF Holds, IsInjective

\* getitem of a process that is in the list takes out that process.
LEMMA UnlinkHolds ==
  ASSUME NEW S, NEW q \in Seq(S), NEW T, Holds(q, T), NEW p \in T
  PROVE  /\ Unlink(q, p) \in Seq(S)
         /\ Len(Unlink(q, p)) = Len(q) - 1
         /\ Holds(Unlink(q, p), T \ {p})
<1> DEFINE i == CHOOSE i \in 1..Len(q) : q[i] = p
<1>1. \E j \in 1..Len(q) : q[j] = p
  BY LenProperties DEF Holds, Range
<1>2. i \in 1..Len(q) /\ q[i] = p
  BY <1>1
<1> HIDE DEF i
<1>3. /\ RemoveAt(q, i) \in Seq(S)
      /\ Len(RemoveAt(q, i)) = Len(q) - 1
      /\ Holds(RemoveAt(q, i), T \ {q[i]})
  BY <1>2, RemoveAtHolds
<1>4. Unlink(q, p) = RemoveAt(q, i)
  BY DEF Unlink, i
<1>5. QED
  BY <1>2, <1>3, <1>4

\* Taking the head of a list removes it.
LEMMA TailHolds ==
  ASSUME NEW S, NEW q \in Seq(S), NEW T, Holds(q, T), q # <<>>
  PROVE  /\ Head(q) \in S /\ Head(q) \in T
         /\ Tail(q) \in Seq(S)
         /\ Len(Tail(q)) = Len(q) - 1
         /\ Holds(Tail(q), T \ {Head(q)})
BY TailRange DEF Holds, IsInjective

\* enqueue at the tail of a semaphore's list adds the process.
LEMMA AppendHolds ==
  ASSUME NEW S, NEW q \in Seq(S), NEW T, Holds(q, T), NEW e \in S, e \notin T
  PROVE  /\ Append(q, e) \in Seq(S)
         /\ Len(Append(q, e)) = Len(q) + 1
         /\ Holds(Append(q, e), T \cup {e})
BY AppendRange DEF Holds, IsInjective

\* insert and insertd stop at an entry of the list or at its tail.
LEMMA PositionInQueue ==
  ASSUME NEW S, NEW q \in Seq(S), NEW ks, NEW key
  PROVE  InsertPosition(q, ks, key) \in 1..Len(q)+1
<1> DEFINE P == {i \in 1..Len(q)+1 : i = Len(q)+1 \/ ks[q[i]] < key}
<1>1. Len(q) \in Nat
  BY LenProperties
<1>2. Len(q)+1 \in P
  BY <1>1
<1>3. P \in SUBSET Nat
  BY <1>1
<1> HIDE DEF P
<1>4. Min(P) \in P
  BY <1>2, <1>3, MinOfNats
<1>5. QED
  BY <1>4 DEF InsertPosition, P

LEMMA PositionInDeltaList ==
  ASSUME NEW S, NEW q \in Seq(S), NEW ks, NEW key
  PROVE  InsertdPosition(q, ks, key) \in 1..Len(q)+1
<1> DEFINE P == {i \in 1..Len(q)+1 : i = Len(q)+1 \/ Elapsed(q, ks)[i] > key}
<1>1. Len(q) \in Nat
  BY LenProperties
<1>2. Len(q)+1 \in P
  BY <1>1
<1>3. P \in SUBSET Nat
  BY <1>1
<1> HIDE DEF P
<1>4. Min(P) \in P
  BY <1>2, <1>3, MinOfNats
<1>5. QED
  BY <1>4 DEF InsertdPosition, P

\* insert adds a process that is not in the list to it, wherever its key puts it.
LEMMA InsertHolds ==
  ASSUME NEW S, NEW q \in Seq(S), NEW ks, NEW key, NEW T, Holds(q, T),
         NEW p \in S, p \notin T
  PROVE  /\ Insert(q, ks, p, key) \in Seq(S)
         /\ Insert(q, ks, p, key) # <<>>
         /\ Holds(Insert(q, ks, p, key), T \cup {p})
<1> DEFINE i == InsertPosition(q, ks, key)
<1>1. i \in 1..Len(q)+1
  BY PositionInQueue
<1> HIDE DEF i
<1>2. /\ InsertAt(q, i, p) \in Seq(S)
      /\ Len(InsertAt(q, i, p)) = Len(q)+1
      /\ Holds(InsertAt(q, i, p), T \cup {p})
  BY <1>1, InsertAtHolds
<1>3. Len(q)+1 # 0
  BY LenProperties
<1>4. InsertAt(q, i, p) # <<>>
  BY <1>2, <1>3, EmptySeq
<1>5. QED
  BY <1>2, <1>4 DEF Insert, i

\* insertd does the same for the sleep queue.
LEMMA InsertdHolds ==
  ASSUME NEW S, NEW q \in Seq(S), NEW ks, NEW key, NEW T, Holds(q, T),
         NEW p \in S, p \notin T
  PROVE  /\ Insertd(q, ks, p, key) \in Seq(S)
         /\ Holds(Insertd(q, ks, p, key), T \cup {p})
<1> DEFINE i == InsertdPosition(q, ks, key)
<1>1. i \in 1..Len(q)+1
  BY PositionInDeltaList
<1> HIDE DEF i
<1>2. /\ InsertAt(q, i, p) \in Seq(S)
      /\ Holds(InsertAt(q, i, p), T \cup {p})
  BY <1>1, InsertAtHolds
<1>3. QED
  BY <1>2 DEF Insertd, i

\* The sums of a delta list, by the recursion of Elapsed.
LEMMA ElapsedProperties ==
  ASSUME NEW q \in Seq(Pid), NEW ks \in [Pid -> Int]
  PROVE  /\ Elapsed(q, ks)[0] = 0
         /\ \A i \in 1..Len(q) : Elapsed(q, ks)[i] = Elapsed(q, ks)[i-1] + ks[q[i]]
         /\ \A i \in 0..Len(q) : Elapsed(q, ks)[i] \in Int
BY ElapsedSums

\* A function into the integers stays one when a value of it is replaced.
LEMMA UpdateInt ==
  ASSUME NEW f \in [Pid -> Int], NEW x, NEW v \in Int
  PROVE  [f EXCEPT ![x] = v] \in [Pid -> Int]
  OBVIOUS

\* The keys that insertd leaves are integers.
LEMMA InsertdKeysType ==
  ASSUME NEW q \in Seq(Pid), NEW ks \in [Pid -> Int], NEW p \in Pid, NEW key \in Int
  PROVE  InsertdKeys(q, ks, p, key) \in [Pid -> Int]
<1> DEFINE i == InsertdPosition(q, ks, key)
           rest == key - Elapsed(q, ks)[i-1]
<1>1. i \in 1..Len(q)+1
  BY PositionInDeltaList
<1>2. i-1 \in 0..Len(q)
  <2>1. Len(q) \in Nat
    BY LenProperties
  <2> HIDE DEF i
  <2>2. QED
    BY <1>1, <2>1
<1>3. rest \in Int
  BY <1>2, ElapsedProperties
<1>4. InsertdKeys(q, ks, p, key) = IF i <= Len(q) THEN [ks EXCEPT ![p] = rest, ![q[i]] = @ - rest]
                                   ELSE [ks EXCEPT ![p] = rest]
  BY DEF InsertdKeys
<1> HIDE DEF rest, i
<1>5. [ks EXCEPT ![p] = rest] \in [Pid -> Int]
  BY <1>3, UpdateInt
<1>6. ASSUME i <= Len(q)
      PROVE  [ks EXCEPT ![p] = rest, ![q[i]] = @ - rest] \in [Pid -> Int]
  <2>1. [ks EXCEPT ![p] = rest][q[i]] \in Int
    <3>1. q[i] \in Pid
      BY <1>1, <1>6, LenProperties, ElementOfSeq
    <3>2. QED
      BY <1>5, <3>1
  <2>2. QED
    BY <1>3, <1>5, <2>1, UpdateInt
<1>7. QED
  BY <1>4, <1>5, <1>6

\* The keys that unsleep leaves are integers.
LEMMA UnsleepKeysType ==
  ASSUME sleepq \in Seq(Pid), qkey \in [Pid -> Int], NEW p \in Pid, p \in Range(sleepq)
  PROVE  UnsleepKeys(p) \in [Pid -> Int]
<1> DEFINE i == CHOOSE j \in 1..Len(sleepq) : sleepq[j] = p
<1>0. i \in 1..Len(sleepq)
  BY LenProperties DEF Range
<1>1. UnsleepKeys(p) = IF i < Len(sleepq) THEN [qkey EXCEPT ![sleepq[i+1]] = @ + qkey[p]] ELSE qkey
  BY DEF UnsleepKeys
<1> HIDE DEF i
<1>2. ASSUME NEW x \in Pid
      PROVE  [qkey EXCEPT ![x] = @ + qkey[p]] \in [Pid -> Int]
  <2>1. qkey[x] + qkey[p] \in Int
    OBVIOUS
  <2>2. QED
    BY <2>1, UpdateInt
<1>3. ASSUME i < Len(sleepq)
      PROVE  sleepq[i+1] \in Pid
  <2>1. i+1 \in 1..Len(sleepq)
    BY <1>0, <1>3, LenProperties
  <2>2. QED
    BY <2>1, ElementOfSeq
<1>4. QED
  BY <1>1, <1>2, <1>3
-----------------------------------------------------------------------------
(* The order of keys.                                                      *)

\* The processes of q are in descending order of their keys.
Sorted(q, ks) == \A i, j \in 1..Len(q) : i < j => ks[q[i]] >= ks[q[j]]

\* insert puts a process in its place.
LEMMA InsertSorted ==
  ASSUME NEW q \in Seq(Pid), NEW ks \in [Pid -> Int], Sorted(q, ks),
         NEW p \in Pid, p \notin Range(q), NEW key \in Int
  PROVE  Sorted(Insert(q, ks, p, key), [ks EXCEPT ![p] = key])
<1> DEFINE P == {j \in 1..Len(q)+1 : j = Len(q)+1 \/ ks[q[j]] < key}
           i == InsertPosition(q, ks, key)
           r == InsertAt(q, i, p)
           keys == [ks EXCEPT ![p] = key]
<1>1. Len(q) \in Nat /\ \A j \in 1..Len(q) : q[j] \in Pid /\ q[j] # p
  BY LenProperties, ElementOfSeq DEF Range
<1>2. i \in P /\ \A j \in P : i <= j
  <2>1. P \in SUBSET Nat /\ Len(q)+1 \in P
    BY <1>1
  <2> HIDE DEF P
  <2>2. Min(P) \in P /\ \A j \in P : Min(P) <= j
    BY <2>1, MinOfNats
  <2>3. QED
    BY <2>2 DEF InsertPosition, P
<1>3. i \in 1..Len(q)+1
  BY <1>2
<1>4. \A j \in 1..Len(q) : j < i => ks[q[j]] >= key
  BY <1>1, <1>2, <1>3
<1>5. \A j \in 1..Len(q) : j >= i => ks[q[j]] <= key
  <2> SUFFICES ASSUME NEW j \in 1..Len(q), j >= i PROVE ks[q[j]] <= key
    OBVIOUS
  <2>1. ks[q[i]] < key /\ i \in 1..Len(q)
    BY <1>1, <1>2, <1>3
  <2>2. ks[q[i]] >= ks[q[j]]
    BY <1>1, <2>1 DEF Sorted
  <2>3. QED
    BY <1>1, <2>1, <2>2
<1> HIDE DEF i, P
<1>6. /\ Len(r) = Len(q)+1
      /\ \A j \in 1..Len(q)+1 : r[j] = IF j < i THEN q[j] ELSE IF j = i THEN p ELSE q[j-1]
  <2>1. Inserted(r, q, i, p)
    BY <1>3, InsertAtInserts, Zenon
  <2>2. QED
    BY <2>1 DEF Inserted
<1> HIDE DEF r
<1>7. keys[p] = key /\ \A j \in 1..Len(q) : keys[q[j]] = ks[q[j]] /\ ks[q[j]] \in Int
  BY <1>1
<1> HIDE DEF keys
<1>8. ASSUME NEW m \in 1..Len(r), NEW n \in 1..Len(r), m < n
      PROVE  keys[r[m]] >= keys[r[n]]
  <2>1. m \in 1..Len(q)+1 /\ n \in 1..Len(q)+1 /\ m < n
    BY <1>6, <1>8
  <2>2. CASE n < i
    <3>1. m \in 1..Len(q) /\ n \in 1..Len(q) /\ r[m] = q[m] /\ r[n] = q[n]
      BY <1>1, <1>3, <1>6, <2>1, <2>2
    <3>2. QED
      BY <1>7, <2>1, <3>1 DEF Sorted
  <2>3. CASE n = i
    <3>1. m \in 1..Len(q) /\ r[m] = q[m] /\ r[n] = p /\ m < i
      BY <1>1, <1>3, <1>6, <2>1, <2>3
    <3>2. QED
      BY <1>4, <1>7, <3>1
  <2>4. CASE n > i /\ m < i
    <3>1. m \in 1..Len(q) /\ n-1 \in 1..Len(q) /\ r[m] = q[m] /\ r[n] = q[n-1] /\ n-1 >= i
      BY <1>1, <1>3, <1>6, <2>1, <2>4
    <3>2. ks[q[m]] >= key /\ ks[q[n-1]] <= key
      BY <1>4, <1>5, <2>4, <3>1
    <3>3. keys[q[m]] = ks[q[m]] /\ keys[q[n-1]] = ks[q[n-1]] /\ ks[q[m]] \in Int /\ ks[q[n-1]] \in Int
      BY <1>7, <3>1
    <3>4. QED
      BY <3>1, <3>2, <3>3
  <2>5. CASE m = i
    <3>1. n-1 \in 1..Len(q) /\ r[m] = p /\ r[n] = q[n-1] /\ n-1 >= i
      BY <1>1, <1>3, <1>6, <2>1, <2>5
    <3>2. ks[q[n-1]] <= key
      BY <1>5, <3>1
    <3>3. QED
      BY <1>7, <3>1, <3>2
  <2>6. CASE m > i
    <3>1. m-1 \in 1..Len(q) /\ n-1 \in 1..Len(q) /\ r[m] = q[m-1] /\ r[n] = q[n-1] /\ m-1 < n-1
      BY <1>1, <1>3, <1>6, <2>1, <2>6
    <3>2. ks[q[m-1]] >= ks[q[n-1]]
      BY <3>1 DEF Sorted
    <3>3. keys[q[m-1]] = ks[q[m-1]] /\ keys[q[n-1]] = ks[q[n-1]]
      BY <1>7, <3>1
    <3>4. QED
      BY <3>1, <3>2, <3>3
  <2>7. QED
    BY <1>3, <2>1, <2>2, <2>3, <2>4, <2>5, <2>6
<1>9. QED
  BY <1>8 DEF Sorted, Insert, r, i, keys

\* Taking a process out, at the head or anywhere, leaves the others in order.
LEMMA RemoveSorted ==
  ASSUME NEW q \in Seq(Pid), NEW ks, Sorted(q, ks), NEW i \in 1..Len(q)
  PROVE  Sorted(RemoveAt(q, i), ks)
<1> DEFINE r == RemoveAt(q, i)
<1>1. /\ Len(r) = Len(q) - 1 /\ Len(q) \in Nat
      /\ \A j \in 1..Len(q)-1 : r[j] = IF j < i THEN q[j] ELSE q[j+1]
  BY RemoveAtRemoves, LenProperties DEF Removed
<1> HIDE DEF r
<1>2. ASSUME NEW m \in 1..Len(r), NEW n \in 1..Len(r), m < n
      PROVE  ks[r[m]] >= ks[r[n]]
  <2>1. PICK a \in 1..Len(q) : r[m] = q[a] /\ (IF m < i THEN a = m ELSE a = m+1)
    BY <1>1
  <2>2. PICK b \in 1..Len(q) : r[n] = q[b] /\ (IF n < i THEN b = n ELSE b = n+1)
    BY <1>1
  <2>3. a < b
    BY <1>1, <1>2, <2>1, <2>2
  <2>4. QED
    BY <2>1, <2>2, <2>3 DEF Sorted
<1>3. QED
  BY <1>2 DEF Sorted, r

LEMMA TailSorted ==
  ASSUME NEW q \in Seq(Pid), q # <<>>, NEW ks, Sorted(q, ks)
  PROVE  /\ Sorted(Tail(q), ks)
         /\ \A p \in Range(Tail(q)) : ks[Head(q)] >= ks[p]
<1>1. /\ Tail(q) \in Seq(Pid) /\ Len(Tail(q)) = Len(q) - 1 /\ Len(q) \in Nat /\ Len(q) # 0
      /\ Head(q) = q[1]
      /\ \A j \in 1..Len(q)-1 : Tail(q)[j] = q[j+1]
  BY HeadTailProperties, LenProperties, EmptySeq
<1>2. Sorted(Tail(q), ks)
  BY <1>1 DEF Sorted
<1>3. ASSUME NEW p \in Range(Tail(q))
      PROVE  ks[Head(q)] >= ks[p]
  <2>1. PICK j \in 1..Len(q)-1 : p = q[j+1]
    BY <1>1, LenProperties DEF Range
  <2>2. QED
    BY <1>1, <2>1 DEF Sorted
<1>4. QED
  BY <1>2, <1>3

LEMMA UnlinkSorted ==
  ASSUME NEW q \in Seq(Pid), NEW ks, Sorted(q, ks), NEW p \in Range(q)
  PROVE  Sorted(Unlink(q, p), ks)
<1>1. \E i \in 1..Len(q) : q[i] = p
  BY LenProperties DEF Range
<1>2. QED
  BY <1>1, RemoveSorted DEF Unlink

\* The order depends on the keys of the list's own processes alone.
LEMMA SortedByOwnKeys ==
  ASSUME NEW q \in Seq(Pid), NEW ks, NEW keys, \A p \in Range(q) : keys[p] = ks[p], Sorted(q, ks)
  PROVE  Sorted(q, keys)
<1>1. \A i \in 1..Len(q) : q[i] \in Range(q)
  BY LenProperties DEF Range
<1>2. QED
  BY <1>1 DEF Sorted
-----------------------------------------------------------------------------
(* Delta lists.  The key of an entry is the time its process has left      *)
(* beyond the entry before it.                                             *)

Before(q, lf, i) == IF i = 1 THEN 0 ELSE lf[q[i-1]]

Delta(q, ks, lf) ==
  /\ \A i \in 1..Len(q) : ks[q[i]] = lf[q[i]] - Before(q, lf, i)
  /\ \A i, j \in 1..Len(q) : i < j => lf[q[i]] <= lf[q[j]]

LEMMA DeltaElapsed ==
  ASSUME NEW q \in Seq(Pid), NEW ks \in [Pid -> Int], NEW lf \in [Pid -> Int], Delta(q, ks, lf)
  PROVE  /\ \A i \in 1..Len(q) : Elapsed(q, ks)[i] = lf[q[i]]
         /\ \A i \in 1..Len(q)+1 : Elapsed(q, ks)[i-1] = Before(q, lf, i)
<1> DEFINE n == Len(q)
           e == Elapsed(q, ks)
           Bad == {i \in 1..n : e[i] # lf[q[i]]}
<1>1. n \in Nat /\ \A i \in 1..n : q[i] \in Pid
  BY LenProperties, ElementOfSeq
<1>2. e[0] = 0 /\ \A i \in 1..n : e[i] = e[i-1] + ks[q[i]]
  BY ElapsedProperties
<1>3. \A i \in 1..n : ks[q[i]] = lf[q[i]] - Before(q, lf, i) /\ lf[q[i]] \in Int
  BY <1>1 DEF Delta
<1> HIDE DEF n, e
<1>4. Bad = {}
  <2> SUFFICES ASSUME Bad # {} PROVE FALSE
    OBVIOUS
  <2>1. PICK k \in Bad : \A j \in Bad : k <= j
    <3>1. Bad \in SUBSET Nat
      BY <1>1
    <3> HIDE DEF Bad
    <3>2. QED
      BY <3>1, LeastNat
  <2>2. k \in 1..n /\ e[k] = e[k-1] + ks[q[k]] /\ lf[q[k]] \in Int
    BY <1>2, <1>3
  <2>3. ks[q[k]] = lf[q[k]] - Before(q, lf, k)
    BY <1>3, <2>2
  <2>4. CASE k = 1
    BY <1>2, <2>1, <2>2, <2>3, <2>4 DEF Before
  <2>5. CASE k # 1
    <3>1. k-1 \in 1..n /\ ~(k <= k-1)
      BY <1>1, <2>2, <2>5
    <3>2. e[k-1] = lf[q[k-1]] /\ lf[q[k-1]] \in Int
      BY <1>3, <2>1, <3>1
    <3>3. e[k] = lf[q[k]]
      BY <2>2, <2>3, <2>5, <3>2 DEF Before
    <3>4. QED
      BY <2>1, <3>3
  <2>6. QED
    BY <2>4, <2>5
<1>5. ASSUME NEW i \in 1..n+1 PROVE e[i-1] = Before(q, lf, i)
  <2>1. CASE i = 1
    <3>1. i-1 = 0
      BY <2>1
    <3>2. QED
      BY <1>2, <2>1, <3>1 DEF Before
  <2>2. CASE i # 1
    <3>1. i-1 \in 1..n
      BY <1>1, <2>2
    <3>2. QED
      BY <1>4, <2>2, <3>1 DEF Before
  <2>3. QED
    BY <2>1, <2>2
<1>6. QED
  BY <1>4, <1>5 DEF e, n

\* A list whose entries keep their keys and their times stays a delta list.
LEMMA DeltaSame ==
  ASSUME NEW q \in Seq(Pid), NEW ks, NEW keys, NEW lf, Delta(q, ks, lf),
         \A p \in Range(q) : keys[p] = ks[p]
  PROVE  Delta(q, keys, lf)
<1>1. \A i \in 1..Len(q) : q[i] \in Range(q)
  BY LenProperties DEF Range
<1>2. QED
  BY <1>1 DEF Delta

\* insertd: where it stops, everybody before is due no later and everybody after is
\* due later.
LEMMA InsertdStops ==
  ASSUME NEW q \in Seq(Pid), NEW ks \in [Pid -> Int], NEW lf \in [Pid -> Int],
         Delta(q, ks, lf), NEW key \in Int, NEW i, i = InsertdPosition(q, ks, key)
  PROVE  /\ i \in 1..Len(q)+1
         /\ \A j \in 1..Len(q) : j < i => lf[q[j]] <= key
         /\ \A j \in 1..Len(q) : j >= i => lf[q[j]] > key
<1> DEFINE P == {j \in 1..Len(q)+1 : j = Len(q)+1 \/ Elapsed(q, ks)[j] > key}
<1>1. Len(q) \in Nat /\ \A j \in 1..Len(q) : q[j] \in Pid /\ lf[q[j]] \in Int
  BY LenProperties, ElementOfSeq
<1>2. i \in P /\ \A j \in P : i <= j
  <2>1. P \in SUBSET Nat /\ Len(q)+1 \in P
    BY <1>1
  <2>2. i = Min(P)
    BY DEF InsertdPosition
  <2> HIDE DEF P
  <2>3. QED
    BY <2>1, <2>2, MinOfNats
<1>3. \A j \in 1..Len(q) : Elapsed(q, ks)[j] = lf[q[j]]
  BY DeltaElapsed
<1>4. ASSUME NEW j \in 1..Len(q), j < i PROVE lf[q[j]] <= key
  <2>1. j \notin P /\ j \in 1..Len(q)+1
    BY <1>1, <1>2, <1>4
  <2>2. ~(Elapsed(q, ks)[j] > key)
    BY <2>1
  <2>3. QED
    BY <1>1, <1>3, <2>2
<1>5. ASSUME NEW j \in 1..Len(q), j >= i PROVE lf[q[j]] > key
  <2>0. i \in 1..Len(q) /\ i # Len(q)+1
    BY <1>1, <1>2, <1>5
  <2>1. i \in 1..Len(q) /\ lf[q[i]] > key
    BY <1>2, <1>3, <2>0
  <2>2. i = j \/ i < j
    BY <1>1, <1>5, <2>0
  <2>3. i = j \/ lf[q[i]] <= lf[q[j]]
    BY <2>0, <2>2 DEF Delta
  <2>4. QED
    BY <1>1, <2>1, <2>3
<1>6. QED
  BY <1>2, <1>4, <1>5

\* insertd keeps the sums: the entry it stops at gives its share to the new one.
LEMMA DeltaInsertd ==
  ASSUME NEW q \in Seq(Pid), NEW ks \in [Pid -> Int], NEW lf \in [Pid -> Int],
         Delta(q, ks, lf), \A i, j \in 1..Len(q) : q[i] = q[j] => i = j,
         NEW p \in Pid, p \notin Range(q), NEW key \in Int
  PROVE  Delta(Insertd(q, ks, p, key), InsertdKeys(q, ks, p, key), [lf EXCEPT ![p] = key])
<1> DEFINE n == Len(q)
           i == InsertdPosition(q, ks, key)
           rest == key - Elapsed(q, ks)[i-1]
           r == InsertAt(q, i, p)
           keys == InsertdKeys(q, ks, p, key)
           lp == [lf EXCEPT ![p] = key]
<1>1. n \in Nat /\ \A j \in 1..n : q[j] \in Pid /\ q[j] # p
  BY LenProperties, ElementOfSeq DEF Range
<1>2. /\ i \in 1..n+1
      /\ \A j \in 1..n : j < i => lf[q[j]] <= key
      /\ \A j \in 1..n : j >= i => lf[q[j]] > key
  BY InsertdStops
<1>3. rest = key - Before(q, lf, i)
  <2> HIDE DEF i
  <2>1. \A k \in 1..Len(q)+1 : Elapsed(q, ks)[k-1] = Before(q, lf, k)
    BY DeltaElapsed
  <2>2. Elapsed(q, ks)[i-1] = Before(q, lf, i)
    BY <1>2, <2>1
  <2>3. QED
    BY <2>2
<1>4. keys = IF i <= n THEN [ks EXCEPT ![p] = rest, ![q[i]] = @ - rest] ELSE [ks EXCEPT ![p] = rest]
  BY DEF InsertdKeys
<1>5. Insertd(q, ks, p, key) = r
  BY DEF Insertd
<1> HIDE DEF i, rest, keys
<1>6. /\ Len(r) = n+1
      /\ \A j \in 1..n+1 : r[j] = IF j < i THEN q[j] ELSE IF j = i THEN p ELSE q[j-1]
  <2>1. Inserted(r, q, i, p)
    BY <1>2, InsertAtInserts, Zenon
  <2> HIDE DEF r
  <2>2. QED
    BY <2>1 DEF Inserted
<1> HIDE DEF r
<1>7. lp[p] = key /\ \A j \in 1..n : lp[q[j]] = lf[q[j]] /\ lf[q[j]] \in Int
  BY <1>1
<1> HIDE DEF lp
<1>8. Before(q, lf, i) \in Int
  <2>1. i = 1 \/ i-1 \in 1..n
    BY <1>1, <1>2
  <2>2. QED
    BY <1>7, <2>1 DEF Before
<1>9. /\ keys[p] = rest
      /\ \A j \in 1..n : j # i => keys[q[j]] = ks[q[j]]
      /\ i <= n => keys[q[i]] = ks[q[i]] - rest
  <2>1. CASE i <= n
    <3>1. i \in 1..n
      BY <1>1, <1>2, <2>1
    <3>2. \A j \in 1..n : j # i => q[j] # q[i]
      BY <3>1
    <3>3. QED
      BY <1>1, <1>4, <2>1, <3>1, <3>2
  <2>2. CASE ~(i <= n)
    BY <1>1, <1>4, <2>2
  <2>3. QED
    BY <2>1, <2>2
<1>10. ASSUME NEW m \in 1..n+1 PROVE keys[r[m]] = lp[r[m]] - Before(r, lp, m)
  <2>0. \A j \in 1..n : ks[q[j]] = lf[q[j]] - Before(q, lf, j)
    BY DEF Delta
  <2>1. CASE m < i
    <3>0. m \in 1..n /\ m # i
      BY <1>1, <1>2, <2>1
    <3>1. m \in 1..n /\ r[m] = q[m]
      BY <1>6, <2>1, <3>0
    <3>2. Before(r, lp, m) = Before(q, lf, m)
      <4>1. m = 1 \/ (m-1 \in 1..n /\ m-1 \in 1..n+1 /\ m-1 < i)
        BY <1>1, <1>2, <2>1, <3>1
      <4>2. m = 1 \/ (r[m-1] = q[m-1] /\ lp[q[m-1]] = lf[q[m-1]])
        BY <1>6, <1>7, <4>1
      <4>3. QED
        BY <4>2 DEF Before
    <3>3. keys[q[m]] = ks[q[m]] /\ lp[q[m]] = lf[q[m]]
      BY <1>7, <1>9, <3>0
    <3>4. QED
      BY <2>0, <3>1, <3>2, <3>3
  <2>2. CASE m = i
    <3>1. r[m] = p
      BY <1>6, <2>2
    <3>2. Before(r, lp, m) = Before(q, lf, i)
      <4>1. m = 1 \/ (m-1 \in 1..n /\ m-1 \in 1..n+1 /\ m-1 < i)
        BY <1>1, <1>2, <2>2
      <4>2. m = 1 \/ (r[m-1] = q[m-1] /\ lp[q[m-1]] = lf[q[m-1]])
        BY <1>6, <1>7, <4>1
      <4>3. QED
        BY <2>2, <4>2 DEF Before
    <3>3. QED
      BY <1>3, <1>7, <1>9, <3>1, <3>2
  <2>3. CASE m > i
    <3>1. m-1 \in 1..n /\ m-1 \in 1..n+1 /\ m # 1 /\ ~(m < i) /\ m # i
      BY <1>1, <1>2, <2>3
    <3>2. r[m] = q[m-1]
      BY <1>6, <3>1
    <3>3. Before(r, lp, m) = lp[r[m-1]]
      BY <3>1 DEF Before
    <3>4. CASE m-1 = i
      <4>1. r[m-1] = p /\ i \in 1..n /\ i <= n
        BY <1>1, <1>2, <1>6, <3>1, <3>4
      <4>2. keys[q[i]] = ks[q[i]] - rest
        BY <1>9, <4>1
      <4>3. ks[q[i]] = lf[q[i]] - Before(q, lf, i) /\ lp[q[i]] = lf[q[i]] /\ lf[q[i]] \in Int
        BY <1>7, <2>0, <4>1
      <4>4. keys[q[i]] = lp[q[i]] - key
        BY <1>3, <1>8, <4>2, <4>3
      <4>5. QED
        BY <1>7, <3>2, <3>3, <3>4, <4>1, <4>4
    <3>5. CASE m-1 # i
      <4>1. m-2 \in 1..n /\ ~(m-1 < i) /\ m-1 # 1 /\ (m-1)-1 = m-2
        BY <1>1, <1>2, <2>3, <3>1, <3>5
      <4>2. r[m-1] = q[m-2]
        BY <1>6, <3>1, <3>5, <4>1
      <4>3. keys[q[m-1]] = ks[q[m-1]] /\ lp[q[m-1]] = lf[q[m-1]] /\ lp[q[m-2]] = lf[q[m-2]]
        BY <1>7, <1>9, <3>1, <3>5, <4>1
      <4>4. ks[q[m-1]] = lf[q[m-1]] - lf[q[m-2]]
        BY <2>0, <3>1, <4>1 DEF Before
      <4>5. QED
        BY <3>2, <3>3, <4>2, <4>3, <4>4
    <3>6. QED
      BY <3>4, <3>5
  <2>4. QED
    BY <1>1, <1>2, <2>1, <2>2, <2>3
<1>11. ASSUME NEW a \in 1..n+1, NEW b \in 1..n+1, a < b PROVE lp[r[a]] <= lp[r[b]]
  <2>0. \A j, k \in 1..n : j < k => lf[q[j]] <= lf[q[k]]
    BY DEF Delta
  <2>1. CASE b < i
    <3>0. a \in 1..n /\ b \in 1..n /\ a < i
      BY <1>1, <1>2, <1>11, <2>1
    <3>1. a \in 1..n /\ b \in 1..n /\ r[a] = q[a] /\ r[b] = q[b]
      BY <1>6, <2>1, <3>0
    <3>2. QED
      BY <1>7, <1>11, <2>0, <3>1
  <2>2. CASE b = i
    <3>0. a \in 1..n /\ a < i
      BY <1>1, <1>2, <1>11, <2>2
    <3>1. a \in 1..n /\ a < i /\ r[a] = q[a] /\ r[b] = p
      BY <1>6, <2>2, <3>0
    <3>2. QED
      BY <1>2, <1>7, <3>1
  <2>3. CASE b > i
    <3>0. b-1 \in 1..n /\ b-1 >= i /\ ~(b < i) /\ b # i
      BY <1>1, <1>2, <2>3
    <3>1. b-1 \in 1..n /\ b-1 >= i /\ r[b] = q[b-1]
      BY <1>6, <3>0
    <3>2. lf[q[b-1]] > key /\ lp[q[b-1]] = lf[q[b-1]] /\ lf[q[b-1]] \in Int
      BY <1>2, <1>7, <3>1
    <3>3. CASE a < i
      <4>1. a \in 1..n /\ r[a] = q[a]
        <5>1. r[a] = q[a]
          BY <1>6, <1>11, <3>3
        <5>2. a \in 1..n
          BY <1>1, <1>2, <1>11, <3>3
        <5>3. QED
          BY <5>1, <5>2
      <4>2. lf[q[a]] <= key
        BY <1>2, <3>3, <4>1
      <4>3. lp[q[a]] = lf[q[a]] /\ lf[q[a]] \in Int
        BY <1>7, <4>1
      <4>4. PICK x \in Int, y \in Int : x = lp[r[a]] /\ y = lp[r[b]] /\ x <= key /\ y > key
        <5>1. lp[r[a]] = lf[q[a]] /\ lp[r[b]] = lf[q[b-1]]
          BY <3>1, <3>2, <4>1, <4>3
        <5>2. QED
          BY <3>2, <4>2, <4>3, <5>1
      <4>5. x <= y
        BY <4>4
      <4>6. QED
        BY <4>4, <4>5
    <3>4. CASE a = i
      <4>1. r[a] = p
        BY <1>6, <3>4
      <4>2. PICK x \in Int : x = lp[r[b]] /\ x > key
        BY <3>1, <3>2
      <4>3. lp[r[a]] = key /\ key <= x
        BY <1>7, <4>1, <4>2
      <4>4. QED
        BY <4>2, <4>3
    <3>5. CASE a > i
      <4>0. a-1 \in 1..n /\ a-1 < b-1 /\ ~(a < i) /\ a # i
        BY <1>1, <1>2, <1>11, <3>5
      <4>1. a-1 \in 1..n /\ r[a] = q[a-1] /\ a-1 < b-1
        BY <1>6, <4>0
      <4>2. QED
        BY <1>7, <2>0, <3>1, <4>1
    <3>6. QED
      BY <1>2, <3>3, <3>4, <3>5
  <2>4. QED
    BY <1>2, <2>1, <2>2, <2>3
<1>12. Delta(r, keys, lp)
  BY <1>6, <1>10, <1>11 DEF Delta
<1>13. QED
  BY <1>5, <1>12 DEF keys, lp

\* unsleep keeps the sums: the next entry takes over the share of the one removed.
LEMMA DeltaUnsleep ==
  ASSUME sleepq \in Seq(Pid), qkey \in [Pid -> Int], NEW lf \in [Pid -> Int],
         Delta(sleepq, qkey, lf), \A i, j \in 1..Len(sleepq) : sleepq[i] = sleepq[j] => i = j,
         NEW p \in Range(sleepq)
  PROVE  Delta(Unlink(sleepq, p), UnsleepKeys(p), [lf EXCEPT ![p] = 0])
<1> DEFINE n == Len(sleepq)
           i == CHOOSE j \in 1..n : sleepq[j] = p
           r == RemoveAt(sleepq, i)
           keys == UnsleepKeys(p)
           lp == [lf EXCEPT ![p] = 0]
<1>1. n \in Nat /\ \A j \in 1..n : sleepq[j] \in Pid /\ lf[sleepq[j]] \in Int
  BY LenProperties, ElementOfSeq
<1>2. i \in 1..n /\ sleepq[i] = p
  BY LenProperties DEF Range
<1>3. Unlink(sleepq, p) = r
  BY DEF Unlink
<1>4. keys = IF i < n THEN [qkey EXCEPT ![sleepq[i+1]] = @ + qkey[p]] ELSE qkey
  BY DEF UnsleepKeys
<1> HIDE DEF i, keys
<1>5. /\ Len(r) = n-1
      /\ \A j \in 1..n-1 : r[j] = IF j < i THEN sleepq[j] ELSE sleepq[j+1]
  <2>1. Removed(r, sleepq, i)
    BY <1>2, RemoveAtRemoves, Zenon
  <2> HIDE DEF r
  <2>2. QED
    BY <2>1 DEF Removed
<1> HIDE DEF r
<1>6. \A j \in 1..n : j # i => lp[sleepq[j]] = lf[sleepq[j]]
  BY <1>1, <1>2
<1> HIDE DEF lp
<1>7. /\ \A j \in 1..n : j # i+1 => keys[sleepq[j]] = qkey[sleepq[j]]
      /\ i < n => keys[sleepq[i+1]] = qkey[sleepq[i+1]] + qkey[p]
  <2>1. CASE i < n
    <3>1. i+1 \in 1..n
      BY <1>1, <1>2, <2>1
    <3>2. \A j \in 1..n : j # i+1 => sleepq[j] # sleepq[i+1]
      BY <3>1
    <3>3. QED
      BY <1>1, <1>4, <2>1, <3>1, <3>2
  <2>2. CASE ~(i < n)
    BY <1>4, <2>2
  <2>3. QED
    BY <2>1, <2>2
<1>8. \A j \in 1..n : qkey[sleepq[j]] = lf[sleepq[j]] - Before(sleepq, lf, j)
  BY DEF Delta
<1>9. ASSUME NEW m \in 1..n-1 PROVE keys[r[m]] = lp[r[m]] - Before(r, lp, m)
  <2>1. CASE m < i
    <3>0. m \in 1..n /\ m # i /\ m # i+1
      BY <1>1, <1>2, <2>1
    <3>1. m \in 1..n /\ r[m] = sleepq[m] /\ m # i /\ m # i+1
      BY <1>5, <2>1, <3>0
    <3>2. Before(r, lp, m) = Before(sleepq, lf, m)
      <4>1. m = 1 \/ (m-1 \in 1..n /\ m-1 \in 1..n-1 /\ m-1 < i /\ m-1 # i)
        BY <1>1, <1>2, <2>1
      <4>2. m = 1 \/ (r[m-1] = sleepq[m-1] /\ lp[sleepq[m-1]] = lf[sleepq[m-1]])
        BY <1>5, <1>6, <4>1
      <4>3. QED
        BY <4>2 DEF Before
    <3>3. keys[sleepq[m]] = qkey[sleepq[m]] /\ lp[sleepq[m]] = lf[sleepq[m]]
      BY <1>6, <1>7, <3>1
    <3>4. QED
      BY <1>8, <3>1, <3>2, <3>3
  <2>2. CASE m = i
    <3>1. i+1 \in 1..n /\ i < n /\ i+1 # i /\ i+1 # 1 /\ (i+1)-1 = i
      BY <1>1, <1>2, <2>2
    <3>2. r[m] = sleepq[i+1]
      BY <1>5, <2>2
    <3>3. keys[sleepq[i+1]] = qkey[sleepq[i+1]] + qkey[p] /\ lp[sleepq[i+1]] = lf[sleepq[i+1]]
      BY <1>6, <1>7, <3>1
    <3>4. /\ qkey[sleepq[i+1]] = lf[sleepq[i+1]] - lf[p]
          /\ qkey[p] = lf[p] - Before(sleepq, lf, i)
      BY <1>2, <1>8, <3>1 DEF Before
    <3>5. Before(r, lp, m) = Before(sleepq, lf, i) /\ Before(sleepq, lf, i) \in Int
      <4>1. m = 1 \/ (m-1 \in 1..n /\ m-1 \in 1..n-1 /\ m-1 < i /\ m-1 # i)
        BY <1>1, <1>2, <2>2
      <4>2. m = 1 \/ (r[m-1] = sleepq[m-1] /\ lp[sleepq[m-1]] = lf[sleepq[m-1]])
        BY <1>5, <1>6, <4>1
      <4>3. CASE m = 1
        BY <2>2, <4>3 DEF Before
      <4>4. CASE m # 1
        <5>1. /\ Before(r, lp, m) = lp[r[m-1]]
              /\ Before(sleepq, lf, i) = lf[sleepq[m-1]]
          BY <2>2, <4>4 DEF Before
        <5>2. /\ r[m-1] = sleepq[m-1] /\ lp[sleepq[m-1]] = lf[sleepq[m-1]]
              /\ lf[sleepq[m-1]] \in Int
          BY <1>1, <4>1, <4>2, <4>4
        <5>3. QED
          BY <5>1, <5>2
      <4>5. QED
        BY <4>3, <4>4
    <3>6. lf[p] \in Int /\ lf[sleepq[i+1]] \in Int
      BY <1>1, <1>2, <3>1
    <3>7. PICK a \in Int, b \in Int, c \in Int :
            a = lf[p] /\ b = lf[sleepq[i+1]] /\ c = Before(sleepq, lf, i)
      BY <3>5, <3>6
    <3>8. keys[sleepq[i+1]] = (b - a) + (a - c)
      BY <3>3, <3>4, <3>7
    <3>9. keys[sleepq[i+1]] = b - c
      BY <3>8
    <3>10. QED
      BY <3>2, <3>3, <3>5, <3>7, <3>9
  <2>3. CASE m > i
    <3>1. /\ m+1 \in 1..n /\ m+1 # i /\ m+1 # i+1 /\ m+1 # 1 /\ (m+1)-1 = m /\ m \in 1..n /\ m # i
          /\ m-1 \in 1..n-1 /\ ~(m-1 < i) /\ (m-1)+1 = m /\ m # 1 /\ ~(m < i)
      BY <1>1, <1>2, <2>3
    <3>2. r[m] = sleepq[m+1] /\ r[m-1] = sleepq[m]
      <4>1. r[m] = sleepq[m+1]
        BY <1>5, <3>1
      <4>2. r[m-1] = sleepq[(m-1)+1]
        BY <1>5, <3>1
      <4>3. QED
        BY <3>1, <4>1, <4>2
    <3>3. /\ keys[sleepq[m+1]] = qkey[sleepq[m+1]] /\ lp[sleepq[m+1]] = lf[sleepq[m+1]]
          /\ lp[sleepq[m]] = lf[sleepq[m]]
      BY <1>6, <1>7, <3>1
    <3>4. qkey[sleepq[m+1]] = lf[sleepq[m+1]] - lf[sleepq[m]]
      BY <1>8, <3>1 DEF Before
    <3>5. QED
      BY <3>1, <3>2, <3>3, <3>4 DEF Before
  <2>4. QED
    BY <1>1, <1>2, <2>1, <2>2, <2>3
<1>10. ASSUME NEW a \in 1..n-1, NEW b \in 1..n-1, a < b PROVE lp[r[a]] <= lp[r[b]]
  <2> DEFINE At(m) == IF m < i THEN m ELSE m+1
  <2>1. /\ At(a) \in 1..n /\ At(a) # i /\ r[a] = sleepq[At(a)]
        /\ At(b) \in 1..n /\ At(b) # i /\ r[b] = sleepq[At(b)]
    <3>0. n \in Nat /\ i \in 1..n
      BY <1>1, <1>2
    <3>1. ASSUME NEW m \in 1..n-1 PROVE At(m) \in 1..n /\ At(m) # i
      <4>1. CASE m < i
        <5> HIDE DEF At
        <5>0. m \in Int /\ n \in Int /\ i \in Int /\ 1 <= m /\ m <= n-1
          BY <3>0
        <5>1. m \in 1..n /\ m # i
          BY <4>1, <5>0
        <5>2. At(m) = m
          BY <4>1 DEF At
        <5>3. QED
          BY <5>1, <5>2
      <4>2. CASE ~(m < i)
        <5> HIDE DEF At
        <5>0. m \in Int /\ n \in Int /\ i \in Int /\ 1 <= m /\ m <= n-1
          BY <3>0
        <5>1. m+1 \in 1..n /\ m+1 # i
          BY <4>2, <5>0
        <5>2. At(m) = m+1
          BY <4>2 DEF At
        <5>3. QED
          BY <5>1, <5>2
      <4>3. QED
        BY <4>1, <4>2
    <3>2. ASSUME NEW m \in 1..n-1 PROVE r[m] = sleepq[At(m)]
      <4>1. CASE m < i
        BY <1>5, <4>1
      <4>2. CASE ~(m < i)
        BY <1>5, <4>2
      <4>3. QED
        BY <4>1, <4>2
    <3> HIDE DEF At
    <3>3. QED
      BY <3>1, <3>2
  <2>2. At(a) < At(b)
    BY <1>1, <1>2, <1>10
  <2> HIDE DEF At
  <2>3. lf[sleepq[At(a)]] <= lf[sleepq[At(b)]]
    BY <2>1, <2>2 DEF Delta
  <2>4. lp[sleepq[At(a)]] = lf[sleepq[At(a)]] /\ lp[sleepq[At(b)]] = lf[sleepq[At(b)]]
    BY <1>6, <2>1
  <2>5. QED
    BY <2>1, <2>3, <2>4
<1>11. Delta(r, keys, lp)
  BY <1>5, <1>9, <1>10 DEF Delta
<1>12. QED
  BY <1>3, <1>11 DEF keys, lp

\* The head of a delta list is the process with the least time left.
LEMMA DeltaHead ==
  ASSUME NEW q \in Seq(Pid), q # <<>>, NEW ks \in [Pid -> Int], NEW lf \in [Pid -> Int],
         Delta(q, ks, lf)
  PROVE  /\ Head(q) \in Pid /\ Head(q) \in Range(q) /\ ks[Head(q)] = lf[Head(q)]
         /\ \A p \in Range(q) : lf[Head(q)] <= lf[p]
<1>1. Len(q) \in Nat /\ Len(q) # 0 /\ Head(q) = q[1] /\ 1 \in 1..Len(q)
  BY LenProperties, EmptySeq, HeadTailProperties
<1>2. \A j \in 1..Len(q) : q[j] \in Pid /\ lf[q[j]] \in Int
  BY ElementOfSeq
<1>3. ks[q[1]] = lf[q[1]]
  BY <1>1, <1>2 DEF Delta, Before
<1>4. \A j \in 1..Len(q) : lf[q[1]] <= lf[q[j]]
  <2> SUFFICES ASSUME NEW j \in 1..Len(q) PROVE lf[q[1]] <= lf[q[j]]
    OBVIOUS
  <2>1. j = 1 \/ 1 < j
    BY <1>1
  <2>2. QED
    BY <1>1, <1>2, <2>1 DEF Delta
<1>5. QED
  BY <1>1, <1>2, <1>3, <1>4, LenProperties DEF Range

\* Once its time is up, the head leaves nothing to the entry behind it.
LEMMA DeltaTail ==
  ASSUME NEW q \in Seq(Pid), q # <<>>, NEW ks \in [Pid -> Int], NEW lf \in [Pid -> Int],
         Delta(q, ks, lf), lf[Head(q)] = 0
  PROVE  Delta(Tail(q), ks, [lf EXCEPT ![Head(q)] = 0])
<1>1. /\ Tail(q) \in Seq(Pid) /\ Len(Tail(q)) = Len(q) - 1 /\ Len(q) \in Nat /\ Len(q) # 0
      /\ Head(q) = q[1]
      /\ \A j \in 1..Len(q)-1 : Tail(q)[j] = q[j+1]
  BY HeadTailProperties, LenProperties, EmptySeq
<1>2. [lf EXCEPT ![Head(q)] = 0] = lf
  OBVIOUS
<1>3. PICK r : r = Tail(q)
  OBVIOUS
<1>4. ASSUME NEW m \in 1..Len(q)-1 PROVE ks[r[m]] = lf[r[m]] - Before(r, lf, m)
  <2>1. m+1 \in 1..Len(q) /\ m+1 # 1 /\ (m+1)-1 = m /\ r[m] = q[m+1]
    BY <1>1, <1>3
  <2>2. ks[q[m+1]] = lf[q[m+1]] - lf[q[m]]
    BY <2>1 DEF Delta, Before
  <2>3. Before(r, lf, m) = lf[q[m]]
    <3>1. CASE m = 1
      BY <1>1, <3>1 DEF Before
    <3>2. CASE m # 1
      <4>1. m-1 \in 1..Len(q)-1 /\ (m-1)+1 = m
        BY <1>1, <3>2
      <4>2. QED
        BY <1>1, <1>3, <3>2, <4>1 DEF Before
    <3>3. QED
      BY <3>1, <3>2
  <2>4. QED
    BY <2>1, <2>2, <2>3
<1>5. ASSUME NEW a \in 1..Len(q)-1, NEW b \in 1..Len(q)-1, a < b PROVE lf[r[a]] <= lf[r[b]]
  <2>1. a+1 \in 1..Len(q) /\ b+1 \in 1..Len(q) /\ a+1 < b+1 /\ r[a] = q[a+1] /\ r[b] = q[b+1]
    BY <1>1, <1>3, <1>5
  <2>2. QED
    BY <2>1 DEF Delta
<1>6. QED
  BY <1>1, <1>2, <1>3, <1>4, <1>5 DEF Delta

\* A tick takes one from the head's key and from everybody's time.
LEMMA DeltaTick ==
  ASSUME NEW q \in Seq(Pid), q # <<>>, NEW ks \in [Pid -> Int], NEW lf \in [Pid -> Int],
         Delta(q, ks, lf), \A i, j \in 1..Len(q) : q[i] = q[j] => i = j, NEW lp,
         \A p \in Range(q) : lp[p] = lf[p] - 1
  PROVE  Delta(q, [ks EXCEPT ![Head(q)] = @ - 1], lp)
<1> DEFINE keys == [ks EXCEPT ![Head(q)] = @ - 1]
<1>1. Len(q) \in Nat /\ Len(q) # 0 /\ Head(q) = q[1] /\ 1 \in 1..Len(q)
  BY LenProperties, EmptySeq, HeadTailProperties
<1>2. \A j \in 1..Len(q) : /\ q[j] \in Pid /\ lf[q[j]] \in Int /\ lp[q[j]] = lf[q[j]] - 1
                           /\ ks[q[j]] \in Int
  BY ElementOfSeq, LenProperties DEF Range
<1>3. keys[q[1]] = ks[q[1]] - 1 /\ \A j \in 1..Len(q) : j # 1 => keys[q[j]] = ks[q[j]]
  BY <1>1, <1>2
<1> HIDE DEF keys
<1>4. ASSUME NEW m \in 1..Len(q) PROVE keys[q[m]] = lp[q[m]] - Before(q, lp, m)
  <2>1. ks[q[m]] = lf[q[m]] - Before(q, lf, m)
    BY DEF Delta
  <2>2. CASE m = 1
    BY <1>2, <1>3, <2>1, <2>2 DEF Before
  <2>3. CASE m # 1
    <3>1. m-1 \in 1..Len(q)
      BY <1>1, <2>3
    <3>2. ks[q[m]] = lf[q[m]] - lf[q[m-1]] /\ Before(q, lp, m) = lp[q[m-1]]
      BY <2>1, <2>3 DEF Before
    <3>3. lp[q[m-1]] = lf[q[m-1]] - 1 /\ lf[q[m-1]] \in Int
      BY <1>2, <3>1
    <3>4. PICK x \in Int, y \in Int : x = lf[q[m]] /\ y = lf[q[m-1]]
      BY <1>2, <3>3
    <3>5. keys[q[m]] = x - y /\ lp[q[m]] = x - 1 /\ Before(q, lp, m) = y - 1
      BY <1>2, <1>3, <2>3, <3>2, <3>3, <3>4
    <3>6. x - y = (x - 1) - (y - 1)
      OBVIOUS
    <3>7. QED
      BY <3>5, <3>6
  <2>4. QED
    BY <2>2, <2>3
<1>5. ASSUME NEW a \in 1..Len(q), NEW b \in 1..Len(q), a < b PROVE lp[q[a]] <= lp[q[b]]
  <2>1. lf[q[a]] <= lf[q[b]]
    BY <1>5 DEF Delta
  <2>2. PICK x \in Int, y \in Int :
          lf[q[a]] = x /\ lf[q[b]] = y /\ lp[q[a]] = x - 1 /\ lp[q[b]] = y - 1
    BY <1>2
  <2>3. x - 1 <= y - 1
    BY <2>1, <2>2
  <2>4. QED
    BY <2>2, <2>3
<1>6. QED
  BY <1>4, <1>5 DEF Delta, keys
-----------------------------------------------------------------------------
(* The invariant and the scheduler.                                        *)


\* What the arguments of Resched must satisfy: only the caller may be marked as
\* running, the ready list matches the states, and a caller that gives up the
\* CPU leaves somebody to take it.
Schedulable(ps, rl, ks, slice) ==
  /\ ps \in [Pid -> PrState] /\ rl \in Seq(Pid) /\ ks \in [Pid -> Int]
  /\ slice \in 1..QUANTUM
  /\ \A p \in Pid : ps[p] = "CURR" => p = currpid
  /\ Holds(rl, {p \in Pid : ps[p] = "READY"})
  /\ ps[currpid] = "CURR" \/ (rl # <<>> /\ ndefers = 0)
  /\ ps[currpid] # "READY"

\* What a step of the scheduler establishes when it starts from states ps: it
\* only moves processes between CURR and READY.
Scheduled(ps) ==
  /\ prstate' \in [Pid -> PrState] /\ readylist' \in Seq(Pid)
  /\ qkey' \in [Pid -> Int] /\ preempt' \in 1..QUANTUM
  /\ currpid' \in Pid /\ attempt' \in BOOLEAN
  /\ \A p \in Pid : prstate'[p] = "CURR" <=> p = currpid'
  /\ Holds(readylist', {p \in Pid : prstate'[p] = "READY"})
  /\ \A p \in Pid : IF ps[p] \in {"CURR", "READY"} THEN prstate'[p] \in {"CURR", "READY"}
                    ELSE prstate'[p] = ps[p]

\* The caller keeps the CPU.
LEMMA KeepSchedules ==
  ASSUME TypeOK, NEW ps, NEW rl, NEW ks, NEW slice, Schedulable(ps, rl, ks, slice),
         ps[currpid] = "CURR", Keep(ps, rl, ks, slice), attempt' \in BOOLEAN
  PROVE  Scheduled(ps)
<1>1. /\ prstate' = ps /\ readylist' = rl /\ qkey' = ks /\ preempt' = slice
      /\ currpid' = currpid /\ currpid \in Pid
  BY DEF Keep, TypeOK, SchedTypes
<1>2. {p \in Pid : prstate'[p] = "READY"} = {p \in Pid : ps[p] = "READY"}
  BY <1>1
<1>3. Holds(readylist', {p \in Pid : prstate'[p] = "READY"})
  BY <1>1, <1>2 DEF Schedulable
<1>4. \A p \in Pid : prstate'[p] = "CURR" <=> p = currpid'
  BY <1>1 DEF Schedulable
<1>5. QED
  BY <1>1, <1>3, <1>4 DEF Schedulable, Scheduled

LEMMA DispatchSchedules ==
  ASSUME TypeOK, NEW ps, NEW rl, NEW ks, NEW slice, Schedulable(ps, rl, ks, slice),
         Dispatch(ps, rl, ks, slice), attempt' \in BOOLEAN
  PROVE  Scheduled(ps)
<1>0. /\ ps \in [Pid -> PrState] /\ rl \in Seq(Pid) /\ ks \in [Pid -> Int]
      /\ slice \in 1..QUANTUM /\ currpid \in Pid /\ prprio \in [Pid -> Int]
      /\ QUANTUM \in 1..QUANTUM
  <2>1. currpid \in Pid /\ prprio \in [Pid -> Int]
    BY DEF TypeOK, SchedTypes, ProcTypes
  <2>2. QUANTUM \in 1..QUANTUM
    BY SizesAssumption
  <2>3. QED
    BY <2>1, <2>2 DEF Schedulable
<1>1. CASE Keep(ps, rl, ks, slice) /\ StaysCurrent(ps, rl, ks)
  BY <1>1, KeepSchedules DEF StaysCurrent
<1>2. ASSUME NEW qs \in [Pid -> PrState], NEW q \in Seq(Pid), NEW keys \in [Pid -> Int],
             Switch(qs, q, keys), q # <<>>, Holds(q, {p \in Pid : qs[p] = "READY"}),
             \A p \in Pid : qs[p] # "CURR",
             \A p \in Pid : qs[p] = IF ps[p] = "CURR" THEN "READY" ELSE ps[p]
      PROVE  Scheduled(ps)
  <2> DEFINE h == Head(q)
           R == {p \in Pid : qs[p] = "READY"}
  <2>1. /\ h \in Pid /\ qs[h] = "READY" /\ Tail(q) \in Seq(Pid)
        /\ Holds(Tail(q), {p \in Pid : qs[p] = "READY"} \ {h})
    <3>1. Holds(q, R)
      BY <1>2
    <3> HIDE DEF R
    <3>2. h \in R /\ Tail(q) \in Seq(Pid) /\ Holds(Tail(q), R \ {h})
      BY <1>2, <3>1, TailHolds
    <3>3. QED
      BY <3>2 DEF R
  <2> HIDE DEF h
  <2>2. /\ currpid' = h /\ readylist' = Tail(q) /\ prstate' = [qs EXCEPT ![h] = "CURR"]
        /\ qkey' = keys /\ preempt' = QUANTUM
    BY <1>2 DEF Switch, h
  <2>3. prstate' \in [Pid -> PrState]
    BY <1>2, <2>2 DEF PrState
  <2>4. {p \in Pid : qs[p] = "READY"} \ {h} = {p \in Pid : prstate'[p] = "READY"}
    BY <1>2, <2>1, <2>2
  <2>5. Holds(readylist', {p \in Pid : prstate'[p] = "READY"})
    BY <2>1, <2>2, <2>4
  <2>6. \A p \in Pid : prstate'[p] = "CURR" <=> p = currpid'
    BY <1>2, <2>1, <2>2
  <2>7. \A p \in Pid : IF ps[p] \in {"CURR", "READY"} THEN prstate'[p] \in {"CURR", "READY"}
                       ELSE prstate'[p] = ps[p]
    BY <1>2, <2>1, <2>2
  <2>8. QED
    BY <1>0, <2>1, <2>2, <2>3, <2>5, <2>6, <2>7 DEF Scheduled
<1>3. CASE ~StaysCurrent(ps, rl, ks) /\ ps[currpid] = "CURR"
  <2> DEFINE qs == [ps EXCEPT ![currpid] = "READY"]
             keys == [ks EXCEPT ![currpid] = prprio[currpid]]
             q == Insert(rl, ks, currpid, prprio[currpid])
  <2>1. Switch(qs, q, keys)
    BY <1>3 DEF Dispatch
  <2>2. qs \in [Pid -> PrState] /\ keys \in [Pid -> Int]
    BY <1>0 DEF PrState
  <2>3. currpid \notin {p \in Pid : ps[p] = "READY"}
    BY <1>3
  <2>4. /\ q \in Seq(Pid) /\ q # <<>>
        /\ Holds(q, {p \in Pid : ps[p] = "READY"} \cup {currpid})
    BY <1>0, <2>3, InsertHolds DEF Schedulable
  <2>5. {p \in Pid : ps[p] = "READY"} \cup {currpid} = {p \in Pid : qs[p] = "READY"}
    BY <1>0
  <2>6. /\ \A p \in Pid : qs[p] # "CURR"
        /\ \A p \in Pid : qs[p] = IF ps[p] = "CURR" THEN "READY" ELSE ps[p]
    BY <1>0, <1>3 DEF Schedulable
  <2> HIDE DEF qs, keys, q
  <2>7. QED
    BY <1>2, <2>1, <2>2, <2>4, <2>5, <2>6
<1>4. CASE ~StaysCurrent(ps, rl, ks) /\ ps[currpid] # "CURR"
  <2>1. Switch(ps, rl, ks)
    BY <1>4 DEF Dispatch
  <2>2. \A p \in Pid : ps[p] # "CURR"
    BY <1>4 DEF Schedulable
  <2>3. rl # <<>> /\ Holds(rl, {p \in Pid : ps[p] = "READY"})
    BY <1>4 DEF Schedulable
  <2>4. QED
    BY <1>0, <1>2, <2>1, <2>2, <2>3
<1>5. QED
  BY <1>1, <1>3, <1>4 DEF Dispatch

LEMMA ReschedSchedules ==
  ASSUME TypeOK, NEW ps, NEW rl, NEW ks, NEW slice, Schedulable(ps, rl, ks, slice),
         Resched(ps, rl, ks, slice)
  PROVE  Scheduled(ps)
<1>1. CASE ndefers > 0 /\ attempt' = TRUE /\ Keep(ps, rl, ks, slice)
  <2>1. ps[currpid] = "CURR" /\ attempt' \in BOOLEAN
    BY <1>1 DEF Schedulable, TypeOK, SchedTypes
  <2>2. QED
    BY <1>1, <2>1, KeepSchedules
<1>2. CASE ndefers = 0 /\ UNCHANGED attempt /\ Dispatch(ps, rl, ks, slice)
  <2>1. attempt' \in BOOLEAN
    BY <1>2 DEF TypeOK, SchedTypes
  <2>2. QED
    BY <1>2, <2>1, DispatchSchedules
<1>3. QED
  BY <1>1, <1>2 DEF Resched
-----------------------------------------------------------------------------
(* The inductive invariant.                                                *)

\* What the kernel relies on of the processes that are not on the CPU or ready.
OffCpu(ps, sq, wq, sem, msg, fr) ==
  /\ Holds(sq, {p \in Pid : ps[p] \in {"SLEEP", "RECTIM"}})
  /\ \A s \in Sid : Holds(wq[s], {p \in Pid : ps[p] = "WAIT" /\ sem[p] = s})
  /\ \A p \in Pid : ps[p] = "WAIT" => sem[p] \in Sid
  /\ ps[NULLPROC] \in {"CURR", "READY"}
  /\ \A p \in Pid : ps[p] \in {"RECV", "RECTIM"} => ~msg[p]
  /\ \A p \in Pid : fr[p].at = "receive" => ps[p] \in {"RECV", "FREE"} \/ msg[p]

OnCpu ==
  /\ \A p \in Pid : prstate[p] = "CURR" <=> p = currpid
  /\ Holds(readylist, {p \in Pid : prstate[p] = "READY"})

\* The null process is nobody's victim, a loop works on a semaphore, and semreset
\* has the count it was called with.
FrameOK(f) ==
  /\ f \in FrameSet
  /\ f.at = "kill" => f.obj \in Pid \ {NULLPROC}
  /\ f.at \in {"signaln", "semdelete", "semreset", "batch_signaln"} => f.obj \in Sid
  /\ f.at = "semreset" => f.n \in Counts
FramesOK == \A p \in Pid : FrameOK(frame[p])

\* semdelete's loop ends only when it has released everybody.
SemdeleteDone ==
  In("semdelete") /\ frame[currpid].n = 0 => squeue[frame[currpid].obj] = <<>>

SemInv ==
  DeferralBalanced /\ SemaphoreCounts /\ DeletedSemaphoresEmpty /\ SemdeleteDone

IInv ==
  /\ TypeOK
  /\ OnCpu
  /\ OffCpu(prstate, sleepq, squeue, prsem, prhasmsg, frame)
  /\ FramesOK
  /\ SemInv

\* Outside the loops nothing is deferred, and every count and queue is settled.
Quiet(fr) == \A p \in Pid : fr[p].at \notin LoopRoutines
Settled(wq, cnt, st) ==
  \A s \in Sid : /\ Len(wq[s]) = IF cnt[s] < 0 THEN -cnt[s] ELSE 0
                 /\ st[s] = "FREE" => wq[s] = <<>>

LEMMA OutsideLoops ==
  ASSUME NEW r, r \notin LoopRoutines
  PROVE  Depth(r) = 0
BY DEF Depth, LoopRoutines

LEMMA QuietFacts ==
  ASSUME IInv, frame[currpid].at \notin LoopRoutines
  PROVE  ndefers = 0 /\ Quiet(frame) /\ Settled(squeue, scount, sstate)
<1>1. /\ ndefers = 0
      /\ \A p \in Pid \ {currpid} : frame[p].at \notin LoopRoutines
  BY OutsideLoops DEF IInv, SemInv, DeferralBalanced
<1>2. Quiet(frame)
  BY <1>1 DEF Quiet
<1>3. ~In("semreset") /\ ~In("semdelete")
  BY DEF In, LoopRoutines
<1>4. Settled(squeue, scount, sstate)
  BY <1>3 DEF Settled, IInv, SemInv, SemaphoreCounts, Resetting, DeletedSemaphoresEmpty
<1>5. QED
  BY <1>1, <1>2, <1>4

LEMMA QuietSemInv ==
  ASSUME ndefers' = 0, Quiet(frame'), Settled(squeue', scount', sstate'), currpid' \in Pid
  PROVE  SemInv'
<1>1. frame'[currpid'].at \notin LoopRoutines
  BY DEF Quiet
<1>2. DeferralBalanced'
  BY <1>1, OutsideLoops DEF DeferralBalanced, Quiet
<1>3. SemaphoreCounts' /\ DeletedSemaphoresEmpty'
  BY DEF SemaphoreCounts, DeletedSemaphoresEmpty, Settled
<1>4. SemdeleteDone'
  BY <1>1 DEF SemdeleteDone, In, LoopRoutines
<1>5. QED
  BY <1>2, <1>3, <1>4 DEF SemInv

\* A step is proved from the states its caller hands to the scheduler.
LEMMA Reassemble ==
  ASSUME NEW ps, Scheduled(ps),
         OffCpu(ps, sleepq', squeue', prsem', prhasmsg', frame'),
         ProcTypes', SemTypes', SleepTypes', CallTypes', FramesOK', SemInv'
  PROVE  IInv'
<1>1. SchedTypes'
  BY DEF Scheduled, SchedTypes
<1>2. TypeOK'
  BY <1>1 DEF TypeOK
<1>3. OnCpu'
  BY DEF Scheduled, OnCpu
<1>4. \A p \in Pid : IF ps[p] \in {"CURR", "READY"} THEN prstate'[p] \in {"CURR", "READY"}
                     ELSE prstate'[p] = ps[p]
  BY DEF Scheduled
<1>5. OffCpu(prstate', sleepq', squeue', prsem', prhasmsg', frame')
  <2>1. {p \in Pid : ps[p] \in {"SLEEP", "RECTIM"}}
          = {p \in Pid : prstate'[p] \in {"SLEEP", "RECTIM"}}
    BY <1>4
  <2>2. \A s \in Sid : {p \in Pid : ps[p] = "WAIT" /\ prsem'[p] = s}
                        = {p \in Pid : prstate'[p] = "WAIT" /\ prsem'[p] = s}
    BY <1>4
  <2>3. prstate'[NULLPROC] \in {"CURR", "READY"}
    BY <1>4, SizesAssumption DEF OffCpu, Pid, NULLPROC
  <2>4. \A p \in Pid : prstate'[p] \in {"RECV", "RECTIM"} => ~prhasmsg'[p]
    BY <1>4 DEF OffCpu
  <2>5. \A p \in Pid : frame'[p].at = "receive"
                       => prstate'[p] \in {"RECV", "FREE"} \/ prhasmsg'[p]
    BY <1>4 DEF OffCpu
  <2>6. Holds(sleepq', {p \in Pid : prstate'[p] \in {"SLEEP", "RECTIM"}})
    BY <2>1 DEF OffCpu
  <2>7. \A s \in Sid : Holds(squeue'[s], {p \in Pid : prstate'[p] = "WAIT" /\ prsem'[p] = s})
    BY <2>2 DEF OffCpu
  <2>8. \A p \in Pid : prstate'[p] = "WAIT" => prsem'[p] \in Sid
    BY <1>4 DEF OffCpu
  <2>9. QED
    BY <2>3, <2>4, <2>5, <2>6, <2>7, <2>8 DEF OffCpu
<1>6. QED
  BY <1>2, <1>3, <1>5 DEF IInv
-----------------------------------------------------------------------------
(* Every way a system call hands over to the scheduler.                    *)

LEMMA IInvFacts ==
  ASSUME IInv
  PROVE  /\ TypeOK /\ currpid \in Pid /\ NULLPROC \in Pid
         /\ prstate \in [Pid -> PrState] /\ readylist \in Seq(Pid)
         /\ qkey \in [Pid -> Int] /\ preempt \in 1..QUANTUM /\ attempt \in BOOLEAN
         /\ prstate[currpid] = "CURR"
         /\ \A p \in Pid : prstate[p] = "CURR" => p = currpid
         /\ Holds(readylist, {p \in Pid : prstate[p] = "READY"})
         /\ ndefers \in Nat
<1>1. TypeOK /\ currpid \in Pid /\ ndefers \in Nat /\ SchedTypes
  BY DEF IInv, TypeOK, SchedTypes, CallTypes
<1>2. NULLPROC \in Pid
  BY SizesAssumption DEF Pid, NULLPROC
<1>3. QED
  BY <1>1, <1>2 DEF SchedTypes, IInv, OnCpu

\* While a process other than the null process runs, the null process is ready.
LEMMA ReadyNotEmpty ==
  ASSUME IInv, currpid # NULLPROC
  PROVE  readylist # <<>>
<1>1. prstate[NULLPROC] = "READY" /\ NULLPROC \in Pid
  BY IInvFacts DEF IInv, OffCpu
<1>2. NULLPROC \in Range(readylist)
  BY <1>1, IInvFacts DEF Holds
<1>3. QED
  BY <1>2, EmptySeq DEF Range

\* No rescheduling at all.
LEMMA StaySchedules ==
  ASSUME IInv, UNCHANGED <<prstate, readylist, currpid>>,
         qkey' \in [Pid -> Int], preempt' \in 1..QUANTUM, attempt' \in BOOLEAN
  PROVE  Scheduled(prstate)
<1>1. {p \in Pid : prstate'[p] = "READY"} = {p \in Pid : prstate[p] = "READY"}
  OBVIOUS
<1>2. Holds(readylist', {p \in Pid : prstate'[p] = "READY"})
  BY <1>1, IInvFacts
<1>3. QED
  BY <1>2, IInvFacts DEF Scheduled

\* The caller yields, or blocks in state s.
LEMMA BlockSchedulable ==
  ASSUME IInv, NEW ks \in [Pid -> Int], NEW slice \in 1..QUANTUM,
         NEW s \in PrState \ {"READY"}, s = "CURR" \/ (currpid # NULLPROC /\ ndefers = 0)
  PROVE  Schedulable([prstate EXCEPT ![currpid] = s], readylist, ks, slice)
<1> DEFINE ps == [prstate EXCEPT ![currpid] = s]
<1>1. ps \in [Pid -> PrState] /\ ps[currpid] = s
  BY IInvFacts
<1>2. {p \in Pid : ps[p] = "READY"} = {p \in Pid : prstate[p] = "READY"}
  BY IInvFacts
<1>3. Holds(readylist, {p \in Pid : ps[p] = "READY"})
  BY <1>2, IInvFacts
<1>4. \A p \in Pid : ps[p] = "CURR" => p = currpid
  BY IInvFacts
<1>5. s = "CURR" \/ (readylist # <<>> /\ ndefers = 0)
  BY ReadyNotEmpty
<1> HIDE DEF ps
<1>6. Schedulable(ps, readylist, ks, slice)
  BY <1>1, <1>3, <1>4, <1>5, IInvFacts DEF Schedulable
<1>7. QED
  BY <1>6 DEF ps

LEMMA BlockSchedules ==
  ASSUME IInv, NEW ks \in [Pid -> Int], NEW slice \in 1..QUANTUM,
         NEW s \in PrState \ {"READY"}, s = "CURR" \/ (currpid # NULLPROC /\ ndefers = 0),
         Resched([prstate EXCEPT ![currpid] = s], readylist, ks, slice)
  PROVE  Scheduled([prstate EXCEPT ![currpid] = s])
BY BlockSchedulable, IInvFacts, ReschedSchedules

\* Another process becomes ready.
LEMMA ReadySchedulable ==
  ASSUME IInv, NEW p \in Pid, prstate[p] \notin {"CURR", "READY"}, NEW ks \in [Pid -> Int]
  PROVE  Schedulable([prstate EXCEPT ![p] = "READY"], Insert(readylist, ks, p, prprio[p]),
                     [ks EXCEPT ![p] = prprio[p]], preempt)
<1> DEFINE ps == [prstate EXCEPT ![p] = "READY"]
           rl == Insert(readylist, ks, p, prprio[p])
           keys == [ks EXCEPT ![p] = prprio[p]]
<1>1. ps \in [Pid -> PrState] /\ ps[currpid] = "CURR" /\ \A x \in Pid : ps[x] = "CURR" => x = currpid
  BY IInvFacts DEF PrState
<1>2. keys \in [Pid -> Int]
  BY DEF IInv, TypeOK, ProcTypes
<1>3. {x \in Pid : ps[x] = "READY"} = {x \in Pid : prstate[x] = "READY"} \cup {p}
  BY IInvFacts
<1>4. rl \in Seq(Pid) /\ Holds(rl, {x \in Pid : prstate[x] = "READY"} \cup {p})
  <2> DEFINE R == {x \in Pid : prstate[x] = "READY"}
  <2>1. p \notin R /\ Holds(readylist, R) /\ readylist \in Seq(Pid)
    BY IInvFacts
  <2> HIDE DEF R
  <2>2. rl \in Seq(Pid) /\ Holds(rl, R \cup {p})
    BY <2>1, InsertHolds
  <2>3. QED
    BY <2>2 DEF R
<1> HIDE DEF ps, rl, keys
<1>5. Schedulable(ps, rl, keys, preempt)
  BY <1>1, <1>2, <1>3, <1>4, IInvFacts DEF Schedulable
<1>6. QED
  BY <1>5 DEF ps, rl, keys

LEMMA ReadySchedules ==
  ASSUME IInv, NEW p \in Pid, prstate[p] \notin {"CURR", "READY"},
         NEW ks \in [Pid -> Int], Ready(p, ks)
  PROVE  Scheduled([prstate EXCEPT ![p] = "READY"])
BY ReadySchedulable, IInvFacts, ReschedSchedules DEF Ready

\* A ready process is taken off the ready list.
LEMMA UnreadySchedules ==
  ASSUME IInv, NEW p \in Pid, prstate[p] = "READY",
         NEW s \in PrState \ {"CURR", "READY"},
         readylist' = Unlink(readylist, p), prstate' = [prstate EXCEPT ![p] = s],
         UNCHANGED <<qkey, currpid, preempt, attempt>>
  PROVE  Scheduled([prstate EXCEPT ![p] = s])
<1> DEFINE R == {x \in Pid : prstate[x] = "READY"}
<1>1. p \in R /\ Holds(readylist, R)
  BY IInvFacts
<1>2. Unlink(readylist, p) \in Seq(Pid) /\ Holds(Unlink(readylist, p), R \ {p})
  <2> HIDE DEF R
  <2> QED BY <1>1, IInvFacts, UnlinkHolds
<1>3. R \ {p} = {x \in Pid : prstate'[x] = "READY"}
  BY IInvFacts
<1>4. prstate' \in [Pid -> PrState] /\ \A x \in Pid : prstate'[x] = "CURR" <=> x = currpid'
  BY IInvFacts
<1>5. QED
  BY <1>2, <1>3, <1>4, IInvFacts DEF Scheduled

\* A process that is neither running nor ready changes to another such state.
LEMMA OffCpuSchedules ==
  ASSUME IInv, NEW p \in Pid, prstate[p] \notin {"CURR", "READY"},
         NEW s \in PrState \ {"CURR", "READY"}, prstate' = [prstate EXCEPT ![p] = s],
         qkey' \in [Pid -> Int], UNCHANGED <<readylist, currpid, preempt, attempt>>
  PROVE  Scheduled([prstate EXCEPT ![p] = s])
<1>1. {x \in Pid : prstate'[x] = "READY"} = {x \in Pid : prstate[x] = "READY"}
  BY IInvFacts
<1>2. Holds(readylist', {x \in Pid : prstate'[x] = "READY"})
  BY <1>1, IInvFacts
<1>3. prstate' \in [Pid -> PrState] /\ \A x \in Pid : prstate'[x] = "CURR" <=> x = currpid'
  BY IInvFacts
<1>4. QED
  BY <1>2, <1>3, IInvFacts DEF Scheduled

\* A loop has ended, and rescheduling is made up for.
LEMMA StopSchedules ==
  ASSUME IInv, DeferStop
  PROVE  Scheduled(prstate)
<1>1. attempt' \in BOOLEAN
  BY IInvFacts DEF DeferStop
<1>2. CASE UNCHANGED <<prstate, readylist, qkey, currpid, preempt>>
  <2>1. qkey' \in [Pid -> Int] /\ preempt' \in 1..QUANTUM
    BY <1>2, IInvFacts
  <2>2. QED
    BY <1>1, <1>2, <2>1, StaySchedules
<1>3. CASE Dispatch(prstate, readylist, qkey, preempt)
  <2>1. Schedulable(prstate, readylist, qkey, preempt)
    BY IInvFacts DEF Schedulable
  <2>2. QED
    BY <1>1, <1>3, <2>1, IInvFacts, DispatchSchedules
<1>4. QED
  BY <1>2, <1>3 DEF DeferStop

\* Nobody is switched out while rescheduling is deferred.
LEMMA DeferredStays ==
  ASSUME NEW ps, NEW rl, NEW ks, NEW slice, ndefers # 0, Resched(ps, rl, ks, slice)
  PROVE  currpid' = currpid
BY DEF Resched, Keep
-----------------------------------------------------------------------------
(* What most steps leave alone.                                            *)

LEMMA ProcKept ==
  ASSUME IInv, UNCHANGED procVars
  PROVE  ProcTypes'
BY DEF IInv, TypeOK, ProcTypes, procVars

LEMMA SemKept ==
  ASSUME IInv, UNCHANGED semVars
  PROVE  SemTypes'
BY DEF IInv, TypeOK, SemTypes, semVars

LEMMA SleepqKept ==
  ASSUME IInv, sleepq' = sleepq, left' \in [Pid -> Int], NEW ps,
         \A p \in Pid : ps[p] \in {"SLEEP", "RECTIM"} <=> prstate[p] \in {"SLEEP", "RECTIM"}
  PROVE  SleepTypes' /\ Holds(sleepq', {p \in Pid : ps[p] \in {"SLEEP", "RECTIM"}})
<1>1. {p \in Pid : ps[p] \in {"SLEEP", "RECTIM"}} = {p \in Pid : prstate[p] \in {"SLEEP", "RECTIM"}}
  OBVIOUS
<1>2. sleepq' = sleepq /\ SleepTypes'
  BY DEF IInv, TypeOK, SleepTypes
<1>3. QED
  BY <1>1, <1>2 DEF IInv, OffCpu

LEMMA SleepKept ==
  ASSUME IInv, UNCHANGED sleepVars, NEW ps,
         \A p \in Pid : ps[p] \in {"SLEEP", "RECTIM"} <=> prstate[p] \in {"SLEEP", "RECTIM"}
  PROVE  SleepTypes' /\ Holds(sleepq', {p \in Pid : ps[p] \in {"SLEEP", "RECTIM"}})
<1>1. sleepq' = sleepq /\ left' \in [Pid -> Int]
  BY DEF IInv, TypeOK, SleepTypes, sleepVars
<1>2. QED
  BY <1>1, SleepqKept

LEMMA GotoFrames ==
  ASSUME IInv, NEW f, FrameOK(f), Goto(f)
  PROVE  /\ frame' \in [Pid -> FrameSet] /\ FramesOK'
         /\ frame'[currpid] = f
         /\ \A p \in Pid \ {currpid} : frame'[p] = frame[p]
<1>1. frame \in [Pid -> FrameSet] /\ currpid \in Pid /\ f \in FrameSet
  BY IInvFacts DEF TypeOK, CallTypes, FrameOK
<1>2. /\ frame' \in [Pid -> FrameSet]
      /\ frame'[currpid] = f
      /\ \A p \in Pid \ {currpid} : frame'[p] = frame[p]
  BY <1>1 DEF Goto
<1>3. \A p \in Pid : FrameOK(frame[p])
  BY DEF IInv, FramesOK
<1>4. \A p \in Pid : FrameOK(frame'[p])
  BY <1>2, <1>3
<1>5. QED
  BY <1>2, <1>4 DEF FramesOK

LEMMA FramesKept ==
  ASSUME IInv, UNCHANGED frame
  PROVE  frame' \in [Pid -> FrameSet] /\ FramesOK'
BY DEF IInv, TypeOK, CallTypes, FramesOK

\* A frame of a routine that works on nothing.
LEMMA PlainFrame ==
  ASSUME NEW r \in Routine \ {"kill", "signaln", "semdelete", "semreset", "batch_signaln"}
  PROVE  FrameOK(Frame(r, 0, 0)) /\ Frame(r, 0, 0).at = r
BY DEF FrameOK, Frame, FrameSet

LEMMA UserFrame == FrameOK(User) /\ User.at = "user"
BY PlainFrame DEF User, Routine

\* A process makes system calls, and is interrupted, while it runs its own code.
LEMMA UserFacts ==
  ASSUME IInv, In("user")
  PROVE  /\ frame[currpid].at = "user" /\ frame[currpid].at \notin LoopRoutines
         /\ ndefers = 0 /\ Quiet(frame) /\ Settled(squeue, scount, sstate)
<1>1. frame[currpid].at = "user" /\ frame[currpid].at \notin LoopRoutines
  BY DEF In, LoopRoutines
<1>2. QED
  BY <1>1, QuietFacts

LEMMA SyscallFacts ==
  ASSUME IInv, NEW c, Syscall(c)
  PROVE  /\ currpid # NULLPROC /\ frame[currpid].at = "user"
         /\ ndefers = 0 /\ Quiet(frame) /\ Settled(squeue, scount, sstate)
BY UserFacts DEF Syscall

LEMMA SignalFacts ==
  ASSUME IInv, NEW c, Syscall(c) \/ Interrupted
  PROVE  /\ frame[currpid].at = "user" /\ frame[currpid].at \notin LoopRoutines
         /\ ndefers = 0 /\ Quiet(frame) /\ Settled(squeue, scount, sstate)
BY UserFacts DEF Syscall, Interrupted

\* A step outside the loops that has nothing to do with semaphores.
LEMMA QuietStep ==
  ASSUME IInv, frame[currpid].at \notin LoopRoutines, UNCHANGED <<semVars, ndefers>>,
         NEW ps, Scheduled(ps), ProcTypes', SleepTypes', prhasmsg' \in [Pid -> BOOLEAN],
         frame' \in [Pid -> FrameSet], FramesOK', Quiet(frame'),
         Holds(sleepq', {p \in Pid : ps[p] \in {"SLEEP", "RECTIM"}}),
         \A p \in Pid : /\ ps[p] = "WAIT" <=> prstate[p] = "WAIT"
                        /\ ps[p] = "WAIT" => prsem'[p] = prsem[p],
         ps[NULLPROC] \in {"CURR", "READY"},
         \A p \in Pid : ps[p] \in {"RECV", "RECTIM"} => ~prhasmsg'[p],
         \A p \in Pid : frame'[p].at = "receive" => ps[p] \in {"RECV", "FREE"} \/ prhasmsg'[p]
  PROVE  IInv'
<1>1. ndefers = 0 /\ Settled(squeue, scount, sstate)
  BY QuietFacts
<1>2. squeue' = squeue /\ scount' = scount /\ sstate' = sstate /\ ndefers' = 0
  BY <1>1 DEF semVars
<1>3. Settled(squeue', scount', sstate')
  BY <1>1, <1>2
<1>4. currpid' \in Pid
  BY DEF Scheduled
<1>5. SemInv'
  BY <1>2, <1>3, <1>4, QuietSemInv
<1>6. \A s \in Sid : {p \in Pid : ps[p] = "WAIT" /\ prsem'[p] = s}
                      = {p \in Pid : prstate[p] = "WAIT" /\ prsem[p] = s}
  OBVIOUS
<1>7. \A s \in Sid : Holds(squeue'[s], {p \in Pid : ps[p] = "WAIT" /\ prsem'[p] = s})
  BY <1>2, <1>6 DEF IInv, OffCpu
<1>8. OffCpu(ps, sleepq', squeue', prsem', prhasmsg', frame')
  <2>1. \A p \in Pid : ps[p] = "WAIT" => prsem'[p] \in Sid
    BY DEF IInv, OffCpu
  <2>2. QED
    BY <1>7, <2>1 DEF OffCpu
<1>9. CallTypes'
  BY <1>2 DEF CallTypes
<1>10. QED
  BY <1>5, <1>8, <1>9, SemKept, Reassemble
-----------------------------------------------------------------------------
(* The start.                                                              *)

LEMMA InitStep == Init => IInv
<1> SUFFICES ASSUME Init PROVE IInv
  OBVIOUS
<1>0. /\ 0 \in Pid /\ 1 \in Pid /\ NULLPROC \in Pid /\ QUANTUM \in 1..QUANTUM
      /\ 2 % NPROC \in Pid
  BY SizesAssumption DEF Pid, NULLPROC
<1>1. ProcTypes
  BY <1>0, ArgumentsAssumption DEF Init, ProcTypes, NoSem
<1>2. SemTypes
  BY DEF Init, SemTypes
<1>3. SleepTypes
  BY DEF Init, SleepTypes
<1>4. SchedTypes
  BY <1>0, ArgumentsAssumption DEF Init, SchedTypes, PrState
<1>5. FramesOK /\ CallTypes
  BY UserFrame DEF Init, CallTypes, FramesOK, FrameOK
<1>6. Holds(<<>>, {})
  BY DEF Holds, Range
<1>7. OnCpu
  <2>1. {p \in Pid : prstate[p] = "READY"} = {NULLPROC}
    BY <1>0 DEF Init, NULLPROC
  <2>2. Holds(<<NULLPROC>>, {NULLPROC})
    BY DEF Holds, Range
  <2>3. QED
    BY <1>0, <2>1, <2>2 DEF Init, OnCpu
<1>8. OffCpu(prstate, sleepq, squeue, prsem, prhasmsg, frame)
  <2>1. {p \in Pid : prstate[p] \in {"SLEEP", "RECTIM"}} = {}
    BY DEF Init
  <2>2. \A s \in Sid : {p \in Pid : prstate[p] = "WAIT" /\ prsem[p] = s} = {}
    BY DEF Init
  <2>3. \A p \in Pid : prstate[p] \in {"CURR", "READY", "FREE"} /\ frame[p].at = "user"
    BY UserFrame DEF Init
  <2>4. prstate[NULLPROC] = "READY"
    BY <1>0 DEF Init, NULLPROC
  <2>5. sleepq = <<>> /\ \A s \in Sid : squeue[s] = <<>>
    BY DEF Init
  <2>6. QED
    BY <1>6, <2>1, <2>2, <2>3, <2>4, <2>5 DEF OffCpu
<1>9. SemInv
  <2>1. \A p \in Pid : frame[p].at = "user"
    BY UserFrame DEF Init
  <2>2. ndefers = 0 /\ currpid \in Pid /\ \A s \in Sid : squeue[s] = <<>> /\ scount[s] = 0
    BY <1>0 DEF Init
  <2>3. DeferralBalanced /\ SemdeleteDone
    BY <2>1, <2>2 DEF DeferralBalanced, SemdeleteDone, Depth, LoopRoutines, In
  <2>4. SemaphoreCounts /\ DeletedSemaphoresEmpty
    BY <2>2, EmptySeq DEF SemaphoreCounts, DeletedSemaphoresEmpty
  <2>5. QED
    BY <2>3, <2>4 DEF SemInv
<1>10. QED
  BY <1>1, <1>2, <1>3, <1>4, <1>5, <1>7, <1>8, <1>9 DEF IInv, TypeOK
-----------------------------------------------------------------------------
(* Processes.                                                              *)

\* Facts about a state of which every action makes use.
LEMMA StateFacts ==
  ASSUME IInv
  PROVE  /\ prstate[NULLPROC] \in {"CURR", "READY"}
         /\ \A p \in Pid : prstate[p] \in {"RECV", "RECTIM"} => ~prhasmsg[p]
         /\ \A p \in Pid : frame[p].at = "receive" => prstate[p] \in {"RECV", "FREE"} \/ prhasmsg[p]
         /\ prhasmsg \in [Pid -> BOOLEAN]
         /\ \A p \in Pid : prstate[p] = "WAIT" => prsem[p] \in Sid
BY DEF IInv, OffCpu, TypeOK, CallTypes

LEMMA CreateStep ==
  ASSUME IInv, NEW prio \in Prios, Create(prio)
  PROVE  IInv'
<1>0. /\ frame[currpid].at = "user" /\ Quiet(frame)
      /\ frame[currpid].at \notin LoopRoutines
  BY SyscallFacts DEF Create, LoopRoutines
<1>1. PICK p \in Pid :
        /\ IsNewpid(p)
        /\ nextpid' = (p + 1) % NPROC
        /\ IF prio < 1
           THEN UNCHANGED <<prstate, prprio, prsem, prparent, prhasmsg, prcount, frame>>
           ELSE /\ prcount' = prcount + 1
                /\ prstate' = [prstate EXCEPT ![p] = "SUSP"]
                /\ prprio' = [prprio EXCEPT ![p] = prio]
                /\ prsem' = [prsem EXCEPT ![p] = NoSem]
                /\ prparent' = [prparent EXCEPT ![p] = currpid]
                /\ prhasmsg' = [prhasmsg EXCEPT ![p] = FALSE]
                /\ frame' = [frame EXCEPT ![p] = User]
  BY DEF Create
<1>2. UNCHANGED <<semVars, sleepVars, qkey, readylist, currpid, preempt, attempt, ndefers>>
  BY DEF Create
<1>3. prstate[p] = "FREE"
  BY <1>1 DEF IsNewpid
<1>4. nextpid' \in Pid
  BY <1>1, SizesAssumption DEF Pid
<1>5. ProcTypes
  BY IInvFacts DEF TypeOK
<1>6. CASE prio < 1
  <2>1. UNCHANGED <<prstate, prprio, prsem, prparent, prhasmsg, prcount, frame>>
    BY <1>1, <1>6
  <2>2. Scheduled(prstate)
    BY <1>2, <2>1, IInvFacts, StaySchedules
  <2>3. ProcTypes'
    BY <1>4, <1>5, <2>1 DEF ProcTypes
  <2>4. SleepTypes' /\ Holds(sleepq', {x \in Pid : prstate[x] \in {"SLEEP", "RECTIM"}})
    BY <1>2, SleepKept
  <2>5. frame' \in [Pid -> FrameSet] /\ FramesOK' /\ Quiet(frame')
    BY <1>0, <2>1, FramesKept
  <2>6. QED
    BY <1>0, <1>2, <2>1, <2>2, <2>3, <2>4, <2>5, StateFacts, QuietStep
<1>7. CASE ~(prio < 1)
  <2> DEFINE ps == [prstate EXCEPT ![p] = "SUSP"]
  <2>1. /\ prcount' = prcount + 1
        /\ prstate' = ps
        /\ prprio' = [prprio EXCEPT ![p] = prio]
        /\ prsem' = [prsem EXCEPT ![p] = NoSem]
        /\ prparent' = [prparent EXCEPT ![p] = currpid]
        /\ prhasmsg' = [prhasmsg EXCEPT ![p] = FALSE]
        /\ frame' = [frame EXCEPT ![p] = User]
    BY <1>1, <1>7
  <2>2. Scheduled(ps)
    BY <1>2, <1>3, <2>1, IInvFacts, OffCpuSchedules DEF PrState
  <2>3. ProcTypes'
    BY <1>4, <1>5, <2>1, IInvFacts, ArgumentsAssumption DEF ProcTypes
  <2>4. \A x \in Pid : ps[x] \in {"SLEEP", "RECTIM"} <=> prstate[x] \in {"SLEEP", "RECTIM"}
    BY <1>3, IInvFacts
  <2>5. \A x \in Pid : ps[x] = IF x = p THEN "SUSP" ELSE prstate[x]
    BY IInvFacts
  <2> HIDE DEF ps
  <2>6. SleepTypes' /\ Holds(sleepq', {x \in Pid : ps[x] \in {"SLEEP", "RECTIM"}})
    BY <1>2, <2>4, SleepKept
  <2>7. \A x \in Pid : frame'[x] = IF x = p THEN User ELSE frame[x]
    BY <2>1 DEF IInv, TypeOK, CallTypes
  <2>8. frame' \in [Pid -> FrameSet] /\ FramesOK' /\ Quiet(frame')
    <3>1. frame' \in [Pid -> FrameSet]
      BY <2>1, UserFrame DEF IInv, TypeOK, CallTypes, FrameOK
    <3>2. FramesOK'
      BY <2>7, UserFrame DEF IInv, FramesOK
    <3>3. Quiet(frame')
      BY <1>0, <2>7, UserFrame DEF Quiet, LoopRoutines
    <3>4. QED
      BY <3>1, <3>2, <3>3
  <2>9. prhasmsg' \in [Pid -> BOOLEAN] /\ \A x \in Pid : prhasmsg'[x] = IF x = p THEN FALSE ELSE prhasmsg[x]
    BY <2>1, StateFacts
  <2>10. \A x \in Pid : /\ ps[x] = "WAIT" <=> prstate[x] = "WAIT"
                        /\ ps[x] = "WAIT" => prsem'[x] = prsem[x]
    BY <1>3, <1>5, <2>1, <2>5 DEF ProcTypes
  <2>11. ps[NULLPROC] \in {"CURR", "READY"}
    BY <1>3, <2>5, StateFacts, IInvFacts
  <2>12. \A x \in Pid : ps[x] \in {"RECV", "RECTIM"} => ~prhasmsg'[x]
    BY <2>5, <2>9, StateFacts
  <2>13. \A x \in Pid : frame'[x].at = "receive" => ps[x] \in {"RECV", "FREE"} \/ prhasmsg'[x]
    BY <2>5, <2>7, <2>9, StateFacts, UserFrame
  <2>14. QED
    BY <1>0, <1>2, <2>2, <2>3, <2>6, <2>8, <2>9, <2>10, <2>11, <2>12, <2>13, QuietStep
<1>8. QED
  BY <1>6, <1>7

\* One process changes its state and nothing else happens.
LEMMA PlainStep ==
  ASSUME IInv, frame[currpid].at \notin LoopRoutines,
         UNCHANGED <<procVars, semVars, sleepVars, prhasmsg, ndefers, frame>>,
         NEW p \in Pid, NEW st \in {"CURR", "READY", "SUSP"},
         prstate[p] \in {"CURR", "READY", "SUSP"},
         st \in {"CURR", "READY"} \/ p # NULLPROC,
         Scheduled([prstate EXCEPT ![p] = st])
  PROVE  IInv'
<1> DEFINE ps == [prstate EXCEPT ![p] = st]
<1>1. \A x \in Pid : ps[x] = IF x = p THEN st ELSE prstate[x]
  BY IInvFacts
<1> HIDE DEF ps
<1>2. \A x \in Pid : ps[x] \in {"SLEEP", "RECTIM"} <=> prstate[x] \in {"SLEEP", "RECTIM"}
  BY <1>1
<1>3. SleepTypes' /\ Holds(sleepq', {x \in Pid : ps[x] \in {"SLEEP", "RECTIM"}})
  BY <1>2, SleepKept
<1>4. frame' \in [Pid -> FrameSet] /\ FramesOK' /\ Quiet(frame')
  BY FramesKept, QuietFacts
<1>5. prsem' = prsem /\ prhasmsg' = prhasmsg /\ frame' = frame
  BY DEF procVars
<1>6. \A x \in Pid : /\ ps[x] = "WAIT" <=> prstate[x] = "WAIT"
                     /\ ps[x] = "WAIT" => prsem'[x] = prsem[x]
  BY <1>1, <1>5
<1>7. ps[NULLPROC] \in {"CURR", "READY"}
  BY <1>1, StateFacts, IInvFacts
<1>8. \A x \in Pid : ps[x] \in {"RECV", "RECTIM"} => ~prhasmsg'[x]
  BY <1>1, <1>5, StateFacts
<1>9. \A x \in Pid : frame'[x].at = "receive" => ps[x] \in {"RECV", "FREE"} \/ prhasmsg'[x]
  BY <1>1, <1>5, StateFacts
<1>10. Scheduled(ps) /\ ProcTypes' /\ prhasmsg' \in [Pid -> BOOLEAN]
  BY <1>5, StateFacts, ProcKept DEF ps
<1>11. QED
  BY <1>3, <1>4, <1>6, <1>7, <1>8, <1>9, <1>10, QuietStep

LEMMA ResumeStep ==
  ASSUME IInv, NEW p \in Pid, Resume(p)
  PROVE  IInv'
<1>1. Scheduled([prstate EXCEPT ![p] = "READY"])
  BY IInvFacts, ReadySchedules DEF Resume
<1>2. frame[currpid].at \notin LoopRoutines
  BY SyscallFacts DEF Resume, LoopRoutines
<1>3. QED
  BY <1>1, <1>2, PlainStep DEF Resume

LEMMA SuspendStep ==
  ASSUME IInv, NEW p \in Pid, Suspend(p)
  PROVE  IInv'
<1>1. frame[currpid].at \notin LoopRoutines /\ currpid # NULLPROC /\ ndefers = 0
  BY SyscallFacts DEF Suspend, LoopRoutines
<1>2. CASE prstate[p] = "READY"
  <2>1. Scheduled([prstate EXCEPT ![p] = "SUSP"])
    BY <1>2, UnreadySchedules DEF Suspend, PrState
  <2>2. QED
    BY <1>1, <1>2, <2>1, PlainStep DEF Suspend
<1>3. CASE prstate[p] = "CURR"
  <2>1. p = currpid
    BY <1>3, IInvFacts
  <2>2. Resched([prstate EXCEPT ![currpid] = "SUSP"], readylist, qkey, preempt)
    BY <1>3 DEF Suspend, Block
  <2>3. Scheduled([prstate EXCEPT ![currpid] = "SUSP"])
    BY <1>1, <2>2, IInvFacts, BlockSchedules DEF PrState
  <2>4. QED
    BY <1>1, <1>3, <2>1, <2>3, PlainStep DEF Suspend
<1>4. QED
  BY <1>2, <1>3 DEF Suspend

\* Both yield and a sleepms of no time only give the others a turn.
LEMMA BlockCurrStep ==
  ASSUME IInv, frame[currpid].at \notin LoopRoutines, Block("CURR"),
         UNCHANGED <<procVars, semVars, sleepVars, prhasmsg, ndefers, frame>>
  PROVE  IInv'
<1>1. Scheduled([prstate EXCEPT ![currpid] = "CURR"])
  BY IInvFacts, BlockSchedules DEF Block, PrState
<1>2. QED
  BY <1>1, IInvFacts, PlainStep

LEMMA YieldStep ==
  ASSUME IInv, Yield
  PROVE  IInv'
BY SyscallFacts, BlockCurrStep DEF Yield, LoopRoutines

\* Nothing but a field of the process table, a message or a frame changes.
LEMMA NoScheduleStep ==
  ASSUME IInv, frame[currpid].at \notin LoopRoutines,
         UNCHANGED <<semVars, sleepVars, schedVars, ndefers>>,
         ProcTypes', prhasmsg' \in [Pid -> BOOLEAN], prsem' = prsem,
         frame' \in [Pid -> FrameSet], FramesOK', Quiet(frame'),
         \A p \in Pid : prhasmsg'[p] => prhasmsg[p],
         \A p \in Pid : frame'[p].at = "receive" => prstate[p] \in {"RECV", "FREE"} \/ prhasmsg'[p]
  PROVE  IInv'
<1>1. Scheduled(prstate)
  BY IInvFacts, StaySchedules DEF schedVars
<1>2. SleepTypes' /\ Holds(sleepq', {x \in Pid : prstate[x] \in {"SLEEP", "RECTIM"}})
  BY SleepKept
<1>3. \A p \in Pid : prstate[p] \in {"RECV", "RECTIM"} => ~prhasmsg'[p]
  BY StateFacts
<1>4. QED
  BY <1>1, <1>2, <1>3, StateFacts, QuietStep

LEMMA ChprioStep ==
  ASSUME IInv, NEW p \in Pid, NEW prio \in Prios, Chprio(p, prio)
  PROVE  IInv'
<1>1. frame[currpid].at \notin LoopRoutines /\ Quiet(frame)
  BY SyscallFacts DEF Chprio, LoopRoutines
<1>2. /\ prprio' = [prprio EXCEPT ![p] = prio] /\ prio \in Int
      /\ UNCHANGED <<prsem, prparent, nextpid, prcount, semVars, sleepVars, schedVars,
                     prhasmsg, ndefers, frame>>
  BY ArgumentsAssumption DEF Chprio
<1>3. ProcTypes'
  BY <1>2 DEF IInv, TypeOK, ProcTypes
<1>4. frame' \in [Pid -> FrameSet] /\ FramesOK'
  BY <1>2, FramesKept
<1>5. QED
  BY <1>1, <1>2, <1>3, <1>4, StateFacts, NoScheduleStep
-----------------------------------------------------------------------------
(* Messages.                                                               *)

\* What send leaves behind, for the states ps it hands to the scheduler.
Delivered(ps) ==
  /\ Scheduled(ps) /\ SleepTypes' /\ prhasmsg' \in [Pid -> BOOLEAN]
  /\ Holds(sleepq', {x \in Pid : ps[x] \in {"SLEEP", "RECTIM"}})
  /\ \A x \in Pid : ps[x] = "WAIT" <=> prstate[x] = "WAIT"
  /\ ps[NULLPROC] \in {"CURR", "READY"}
  /\ \A x \in Pid : ps[x] \in {"RECV", "RECTIM"} => ~prhasmsg'[x]
  /\ \A x \in Pid : frame[x].at = "receive" => ps[x] \in {"RECV", "FREE"} \/ prhasmsg'[x]

LEMMA DeliverNoted ==
  ASSUME IInv, UNCHANGED <<schedVars, sleepVars>>, NEW p \in Pid,
         \/ UNCHANGED prhasmsg
         \/ /\ prhasmsg' = [prhasmsg EXCEPT ![p] = TRUE]
            /\ prstate[p] \notin {"RECV", "RECTIM"}
  PROVE  Delivered(prstate)
<1>1. Scheduled(prstate)
  BY IInvFacts, StaySchedules DEF schedVars
<1>2. SleepTypes' /\ Holds(sleepq', {x \in Pid : prstate[x] \in {"SLEEP", "RECTIM"}})
  BY SleepKept
<1>3. /\ prhasmsg' \in [Pid -> BOOLEAN]
      /\ \A x \in Pid : prhasmsg[x] => prhasmsg'[x]
      /\ \A x \in Pid : prstate[x] \in {"RECV", "RECTIM"} => ~prhasmsg'[x]
  BY StateFacts
<1>4. QED
  BY <1>1, <1>2, <1>3, StateFacts DEF Delivered

LEMMA DeliverWakes ==
  ASSUME IInv, NEW p \in Pid, prhasmsg' = [prhasmsg EXCEPT ![p] = TRUE],
         \/ prstate[p] = "RECV" /\ Ready(p, qkey) /\ UNCHANGED sleepVars
         \/ /\ prstate[p] = "RECTIM" /\ Ready(p, UnsleepKeys(p))
            /\ sleepq' = Unlink(sleepq, p) /\ left' = [left EXCEPT ![p] = 0]
  PROVE  Delivered([prstate EXCEPT ![p] = "READY"])
<1> DEFINE ps == [prstate EXCEPT ![p] = "READY"]
           Sleepers == {x \in Pid : prstate[x] \in {"SLEEP", "RECTIM"}}
<1>1. \A x \in Pid : ps[x] = IF x = p THEN "READY" ELSE prstate[x]
  BY IInvFacts
<1>2. \E ks \in [Pid -> Int] : Ready(p, ks)
  <2>1. CASE Ready(p, qkey)
    BY <2>1, IInvFacts
  <2>2. CASE prstate[p] = "RECTIM" /\ Ready(p, UnsleepKeys(p))
    <3>1. sleepq \in Seq(Pid) /\ Holds(sleepq, Sleepers)
      BY DEF IInv, OffCpu, TypeOK, SleepTypes
    <3>2. p \in Range(sleepq)
      BY <2>2, <3>1 DEF Holds
    <3>3. UnsleepKeys(p) \in [Pid -> Int]
      BY <3>1, <3>2, IInvFacts, UnsleepKeysType
    <3>4. QED
      BY <2>2, <3>3
  <2>3. QED
    BY <2>1, <2>2
<1>3. Scheduled(ps)
  BY <1>2, IInvFacts, ReadySchedules
<1>4. SleepTypes' /\ Holds(sleepq', {x \in Pid : ps[x] \in {"SLEEP", "RECTIM"}})
  <2>1. CASE prstate[p] = "RECV"
    <3>1. \A x \in Pid : ps[x] \in {"SLEEP", "RECTIM"} <=> prstate[x] \in {"SLEEP", "RECTIM"}
      BY <1>1, <2>1
    <3> HIDE DEF ps
    <3>2. QED
      BY <2>1, <3>1, SleepKept
  <2>2. CASE prstate[p] = "RECTIM"
    <3>1. p \in Sleepers /\ Holds(sleepq, Sleepers) /\ sleepq \in Seq(Pid)
      BY <2>2 DEF IInv, OffCpu, TypeOK, SleepTypes
    <3>2. Unlink(sleepq, p) \in Seq(Pid) /\ Holds(Unlink(sleepq, p), Sleepers \ {p})
      <4> HIDE DEF Sleepers
      <4> QED BY <3>1, UnlinkHolds
    <3>3. Sleepers \ {p} = {x \in Pid : ps[x] \in {"SLEEP", "RECTIM"}}
      BY <1>1
    <3>4. sleepq' = Unlink(sleepq, p) /\ SleepTypes'
      BY <2>2, <3>2 DEF IInv, TypeOK, SleepTypes
    <3>5. QED
      BY <3>2, <3>3, <3>4
  <2>3. QED
    BY <2>1, <2>2
<1>5. \A x \in Pid : prhasmsg'[x] = IF x = p THEN TRUE ELSE prhasmsg[x]
  BY StateFacts
<1>6. prhasmsg' \in [Pid -> BOOLEAN]
  BY StateFacts
<1>7. prstate[p] \in {"RECV", "RECTIM"}
  OBVIOUS
<1> HIDE DEF ps
<1>8. /\ \A x \in Pid : ps[x] = "WAIT" <=> prstate[x] = "WAIT"
      /\ ps[NULLPROC] \in {"CURR", "READY"}
      /\ \A x \in Pid : ps[x] \in {"RECV", "RECTIM"} => ~prhasmsg'[x]
      /\ \A x \in Pid : frame[x].at = "receive" => ps[x] \in {"RECV", "FREE"} \/ prhasmsg'[x]
  BY <1>1, <1>5, <1>7, StateFacts, IInvFacts
<1>9. QED
  BY <1>3, <1>4, <1>6, <1>8 DEF Delivered, ps

LEMMA DeliverFacts ==
  ASSUME IInv, NEW p \in Pid, Deliver(p)
  PROVE  \E ps : Delivered(ps)
<1>1. CASE UNCHANGED <<schedVars, sleepVars, prhasmsg>>
  BY <1>1, DeliverNoted
<1>2. CASE /\ prhasmsg' = [prhasmsg EXCEPT ![p] = TRUE]
           /\ prstate[p] \notin {"RECV", "RECTIM"}
           /\ UNCHANGED <<schedVars, sleepVars>>
  BY <1>2, DeliverNoted
<1>3. CASE /\ prhasmsg' = [prhasmsg EXCEPT ![p] = TRUE]
           /\ \/ prstate[p] = "RECV" /\ Ready(p, qkey) /\ UNCHANGED sleepVars
              \/ /\ prstate[p] = "RECTIM" /\ Ready(p, UnsleepKeys(p))
                 /\ sleepq' = Unlink(sleepq, p) /\ left' = [left EXCEPT ![p] = 0]
  <2>1. Delivered([prstate EXCEPT ![p] = "READY"])
    BY <1>3, DeliverWakes
  <2>2. QED
    BY <2>1
<1>4. QED
  BY <1>1, <1>2, <1>3 DEF Deliver

LEMMA SendStep ==
  ASSUME IInv, NEW p \in Pid, Send(p)
  PROVE  IInv'
<1>1. frame[currpid].at \notin LoopRoutines /\ Quiet(frame)
  BY SyscallFacts DEF Send, LoopRoutines
<1>2. PICK ps : Delivered(ps)
  BY DeliverFacts DEF Send
<1>3. UNCHANGED <<procVars, semVars, ndefers, frame>>
  BY DEF Send
<1>4. prsem' = prsem /\ frame' = frame /\ ProcTypes' /\ frame' \in [Pid -> FrameSet] /\ FramesOK'
  BY <1>3, ProcKept, FramesKept DEF procVars
<1>5. QED
  BY <1>1, <1>2, <1>3, <1>4, QuietStep DEF Delivered

\* The frame of the running process alone changes, to one outside the loops.
LEMMA QuietGoto ==
  ASSUME IInv, frame[currpid].at \notin LoopRoutines, NEW f, FrameOK(f),
         f.at \notin LoopRoutines, Goto(f)
  PROVE  /\ frame' \in [Pid -> FrameSet] /\ FramesOK' /\ Quiet(frame')
         /\ frame'[currpid] = f
         /\ \A p \in Pid \ {currpid} : frame'[p] = frame[p]
<1>1. Quiet(frame)
  BY QuietFacts
<1>2. /\ frame' \in [Pid -> FrameSet] /\ FramesOK'
      /\ frame'[currpid] = f
      /\ \A p \in Pid \ {currpid} : frame'[p] = frame[p]
  BY GotoFrames
<1>3. QED
  BY <1>1, <1>2 DEF Quiet

LEMMA TakeMessageFacts ==
  ASSUME IInv, TakeMessage
  PROVE  /\ prhasmsg' \in [Pid -> BOOLEAN]
         /\ \A p \in Pid : prhasmsg'[p] = IF p = currpid THEN FALSE ELSE prhasmsg[p]
BY StateFacts, IInvFacts DEF TakeMessage

LEMMA ReceiveAtOnceStep ==
  ASSUME IInv, ReceiveAtOnce
  PROVE  IInv'
<1>1. /\ frame[currpid].at = "user" /\ frame[currpid].at \notin LoopRoutines
      /\ Quiet(frame)
  BY SyscallFacts DEF ReceiveAtOnce, LoopRoutines
<1>2. TakeMessage /\ UNCHANGED <<procVars, semVars, sleepVars, schedVars, ndefers, frame>>
  BY DEF ReceiveAtOnce
<1>3. ProcTypes' /\ prsem' = prsem /\ frame' = frame
  BY <1>2, ProcKept DEF procVars
<1>4. frame' \in [Pid -> FrameSet] /\ FramesOK'
  BY <1>3, FramesKept
<1>5. \A p \in Pid : frame'[p].at = "receive" => prstate[p] \in {"RECV", "FREE"} \/ prhasmsg'[p]
  BY <1>1, <1>2, <1>3, TakeMessageFacts, StateFacts
<1>6. QED
  BY <1>1, <1>2, <1>3, <1>4, <1>5, TakeMessageFacts, NoScheduleStep

LEMMA ReceiveReturnStep ==
  ASSUME IInv, ReceiveReturn
  PROVE  IInv'
<1>1. frame[currpid].at \notin LoopRoutines
  BY DEF ReceiveReturn, In, LoopRoutines
<1>2. /\ TakeMessage /\ Goto(User)
      /\ UNCHANGED <<procVars, semVars, sleepVars, schedVars, ndefers>>
  BY DEF ReceiveReturn
<1>3. ProcTypes' /\ prsem' = prsem
  BY <1>2, ProcKept DEF procVars
<1>4. /\ frame' \in [Pid -> FrameSet] /\ FramesOK' /\ Quiet(frame')
      /\ frame'[currpid] = User
      /\ \A p \in Pid \ {currpid} : frame'[p] = frame[p]
  BY <1>1, <1>2, UserFrame, QuietGoto DEF LoopRoutines
<1>5. \A p \in Pid : frame'[p].at = "receive" => prstate[p] \in {"RECV", "FREE"} \/ prhasmsg'[p]
  BY <1>2, <1>4, TakeMessageFacts, StateFacts, UserFrame
<1>6. QED
  BY <1>1, <1>2, <1>3, <1>4, <1>5, TakeMessageFacts, NoScheduleStep

LEMMA ReceiveBlockStep ==
  ASSUME IInv, ReceiveBlock
  PROVE  IInv'
<1> DEFINE ps == [prstate EXCEPT ![currpid] = "RECV"]
           f == Frame("receive", 0, 0)
<1>1. /\ frame[currpid].at \notin LoopRoutines
      /\ currpid # NULLPROC /\ ndefers = 0
  BY SyscallFacts DEF ReceiveBlock, LoopRoutines
<1>2. /\ Resched(ps, readylist, qkey, preempt) /\ Goto(f)
      /\ ~prhasmsg[currpid] /\ UNCHANGED <<procVars, semVars, sleepVars, prhasmsg, ndefers>>
  BY DEF ReceiveBlock, Block
<1>3. Scheduled(ps)
  BY <1>1, <1>2, IInvFacts, BlockSchedules DEF PrState
<1>4. FrameOK(f) /\ f.at = "receive"
  BY PlainFrame DEF Routine
<1>5. /\ frame' \in [Pid -> FrameSet] /\ FramesOK' /\ Quiet(frame')
      /\ \A p \in Pid \ {currpid} : frame'[p] = frame[p]
  <2> HIDE DEF f
  <2> QED BY <1>1, <1>2, <1>4, QuietGoto DEF LoopRoutines
<1>6. \A x \in Pid : ps[x] = IF x = currpid THEN "RECV" ELSE prstate[x]
  BY IInvFacts
<1> HIDE DEF ps
<1>7. \A x \in Pid : ps[x] \in {"SLEEP", "RECTIM"} <=> prstate[x] \in {"SLEEP", "RECTIM"}
  BY <1>6, IInvFacts
<1>8. SleepTypes' /\ Holds(sleepq', {x \in Pid : ps[x] \in {"SLEEP", "RECTIM"}})
  BY <1>2, <1>7, SleepKept
<1>9. ProcTypes' /\ prsem' = prsem /\ prhasmsg' = prhasmsg
  BY <1>2, ProcKept DEF procVars
<1>10. /\ \A x \in Pid : /\ ps[x] = "WAIT" <=> prstate[x] = "WAIT"
                         /\ ps[x] = "WAIT" => prsem'[x] = prsem[x]
       /\ ps[NULLPROC] \in {"CURR", "READY"}
       /\ \A x \in Pid : ps[x] \in {"RECV", "RECTIM"} => ~prhasmsg'[x]
       /\ \A x \in Pid : frame'[x].at = "receive" => ps[x] \in {"RECV", "FREE"} \/ prhasmsg'[x]
  BY <1>1, <1>2, <1>5, <1>6, <1>9, StateFacts, IInvFacts
<1>11. QED
  BY <1>1, <1>2, <1>3, <1>5, <1>8, <1>9, <1>10, StateFacts, QuietStep

\* The caller of sleepms or recvtime enters the sleep queue.
LEMMA EnterSleepqStep ==
  ASSUME IInv, frame[currpid].at = "user", currpid # NULLPROC, NEW delay \in Nat,
         NEW st \in {"SLEEP", "RECTIM"}, EnterSleepq(delay, st),
         st = "RECTIM" => ~prhasmsg[currpid],
         Goto(Frame("recvtime", 0, 0)) \/ UNCHANGED frame,
         UNCHANGED <<procVars, semVars, prhasmsg, ndefers>>
  PROVE  IInv'
<1> DEFINE ps == [prstate EXCEPT ![currpid] = st]
           Sleepers == {x \in Pid : prstate[x] \in {"SLEEP", "RECTIM"}}
           f == Frame("recvtime", 0, 0)
           ks == InsertdKeys(sleepq, qkey, currpid, delay)
<1>1. frame[currpid].at \notin LoopRoutines
  BY DEF LoopRoutines
<1>2. ndefers = 0
  BY <1>1, QuietFacts
<1>3. sleepq \in Seq(Pid) /\ left \in [Pid -> Int] /\ Holds(sleepq, Sleepers)
  BY DEF IInv, TypeOK, SleepTypes, OffCpu
<1>4. ks \in [Pid -> Int]
  <2>1. sleepq \in Seq(Pid) /\ qkey \in [Pid -> Int] /\ currpid \in Pid /\ delay \in Int
    BY <1>3, IInvFacts
  <2>2. QED
    BY <2>1, InsertdKeysType
<1>5. Scheduled(ps)
  <2>1. Resched(ps, readylist, ks, preempt) /\ st \in PrState \ {"READY"}
    BY DEF EnterSleepq, PrState
  <2> HIDE DEF ks
  <2>2. QED
    BY <1>2, <1>4, <2>1, IInvFacts, BlockSchedules
<1>6. currpid \notin Sleepers
  BY IInvFacts
<1>7. /\ Insertd(sleepq, qkey, currpid, delay) \in Seq(Pid)
      /\ Holds(Insertd(sleepq, qkey, currpid, delay), Sleepers \cup {currpid})
  <2> HIDE DEF Sleepers
  <2> QED BY <1>3, <1>6, IInvFacts, InsertdHolds
<1>8. Sleepers \cup {currpid} = {x \in Pid : ps[x] \in {"SLEEP", "RECTIM"}}
  BY IInvFacts
<1>9. SleepTypes' /\ Holds(sleepq', {x \in Pid : ps[x] \in {"SLEEP", "RECTIM"}})
  <2>1. /\ sleepq' = Insertd(sleepq, qkey, currpid, delay)
        /\ left' = [left EXCEPT ![currpid] = delay]
    BY DEF EnterSleepq
  <2>2. left' \in [Pid -> Int] /\ sleepq' \in Seq(Pid)
    <3>1. left \in [Pid -> Int] /\ delay \in Int
      BY <1>3
    <3>2. left' \in [Pid -> Int]
      BY <2>1, <3>1
    <3>3. QED
      BY <1>7, <2>1, <3>2
  <2>3. Holds(sleepq', Sleepers \cup {currpid})
    BY <1>7, <2>1
  <2>4. QED
    BY <1>8, <2>2, <2>3 DEF SleepTypes
<1>10. FrameOK(f) /\ f.at = "recvtime"
  BY PlainFrame DEF Routine
<1>11. /\ frame' \in [Pid -> FrameSet] /\ FramesOK' /\ Quiet(frame')
       /\ \A x \in Pid : frame'[x].at = "receive" => frame[x].at = "receive" /\ x # currpid
  <2>1. CASE Goto(f)
    <3> HIDE DEF f
    <3> QED BY <1>1, <1>10, <2>1, QuietGoto DEF LoopRoutines
  <2>2. CASE UNCHANGED frame
    BY <1>1, <2>2, FramesKept, QuietFacts
  <2>3. QED
    BY <2>1, <2>2
<1>12. \A x \in Pid : ps[x] = IF x = currpid THEN st ELSE prstate[x]
  BY IInvFacts
<1> HIDE DEF ps
<1>13. ProcTypes' /\ prsem' = prsem /\ prhasmsg' = prhasmsg
  BY ProcKept DEF procVars
<1>14. /\ \A x \in Pid : /\ ps[x] = "WAIT" <=> prstate[x] = "WAIT"
                         /\ ps[x] = "WAIT" => prsem'[x] = prsem[x]
       /\ ps[NULLPROC] \in {"CURR", "READY"}
       /\ \A x \in Pid : ps[x] \in {"RECV", "RECTIM"} => ~prhasmsg'[x]
       /\ \A x \in Pid : frame'[x].at = "receive" => ps[x] \in {"RECV", "FREE"} \/ prhasmsg'[x]
  BY <1>11, <1>12, <1>13, StateFacts, IInvFacts
<1>15. QED
  BY <1>1, <1>5, <1>9, <1>11, <1>13, <1>14, StateFacts, QuietStep

LEMMA RecvtimeBlockStep ==
  ASSUME IInv, NEW delay \in Waits, RecvtimeBlock(delay)
  PROVE  IInv'
<1>1. frame[currpid].at = "user" /\ currpid # NULLPROC /\ delay \in Nat
  BY SyscallFacts, ArgumentsAssumption DEF RecvtimeBlock
<1>2. QED
  BY <1>1, EnterSleepqStep DEF RecvtimeBlock

LEMMA SleepmsStep ==
  ASSUME IInv, NEW delay \in Delays, Sleepms(delay)
  PROVE  IInv'
<1>1. /\ frame[currpid].at = "user" /\ currpid # NULLPROC /\ delay \in Nat
      /\ frame[currpid].at \notin LoopRoutines
  BY SyscallFacts, ArgumentsAssumption DEF Sleepms, LoopRoutines
<1>2. CASE Block("CURR") /\ UNCHANGED sleepVars
  BY <1>1, <1>2, BlockCurrStep DEF Sleepms
<1>3. CASE EnterSleepq(delay, "SLEEP")
  BY <1>1, <1>3, EnterSleepqStep DEF Sleepms
<1>4. QED
  BY <1>2, <1>3 DEF Sleepms
-----------------------------------------------------------------------------
(* Semaphores.                                                             *)

\* A step that moves processes between the lists of semaphores and the CPU.
LEMMA SemStep ==
  ASSUME IInv, NEW ps, Scheduled(ps), sleepq' = sleepq, left' \in [Pid -> Int],
         prhasmsg' = prhasmsg, ProcTypes', SemTypes', ndefers' \in Nat,
         frame' \in [Pid -> FrameSet], FramesOK', SemInv',
         \A s \in Sid : Holds(squeue'[s], {p \in Pid : ps[p] = "WAIT" /\ prsem'[p] = s}),
         \A p \in Pid : ps[p] = "WAIT" => prsem'[p] \in Sid,
         ps[NULLPROC] \in {"CURR", "READY"},
         \A p \in Pid : \/ ps[p] = prstate[p]
                        \/ /\ ps[p] \in {"READY", "WAIT", "CURR", "FREE"}
                           /\ prstate[p] \in {"WAIT", "CURR"},
         \A p \in Pid : frame'[p].at = "receive" => frame[p].at = "receive"
  PROVE  IInv'
<1>1. SleepTypes' /\ Holds(sleepq', {p \in Pid : ps[p] \in {"SLEEP", "RECTIM"}})
  <2>1. \A p \in Pid : ps[p] \in {"SLEEP", "RECTIM"} <=> prstate[p] \in {"SLEEP", "RECTIM"}
    OBVIOUS
  <2>2. QED
    BY <2>1, SleepqKept
<1>2. prhasmsg' = prhasmsg
  OBVIOUS
<1>3. \A p \in Pid : ps[p] \in {"RECV", "RECTIM"} => ~prhasmsg'[p]
  BY <1>2, StateFacts
<1>4. \A p \in Pid : frame'[p].at = "receive" => ps[p] \in {"RECV", "FREE"} \/ prhasmsg'[p]
  BY <1>2, StateFacts
<1>5. OffCpu(ps, sleepq', squeue', prsem', prhasmsg', frame')
  BY <1>1, <1>3, <1>4 DEF OffCpu
<1>6. CallTypes'
  BY <1>2, StateFacts DEF CallTypes
<1>7. QED
  BY <1>1, <1>5, <1>6, Reassemble

LEMMA SemTables ==
  ASSUME IInv
  PROVE  /\ squeue \in [Sid -> Seq(Pid)] /\ scount \in [Sid -> Int]
         /\ sstate \in [Sid -> {"FREE", "USED"}] /\ nextsem \in Nat
BY DEF IInv, TypeOK, SemTypes

LEMMA SemFacts ==
  ASSUME IInv, NEW s \in Sid
  PROVE  /\ squeue \in [Sid -> Seq(Pid)] /\ scount \in [Sid -> Int]
         /\ sstate \in [Sid -> {"FREE", "USED"}] /\ nextsem \in Nat
         /\ squeue[s] \in Seq(Pid) /\ scount[s] \in Int
         /\ Holds(squeue[s], {p \in Pid : prstate[p] = "WAIT" /\ prsem[p] = s})
         /\ Len(squeue[s]) \in Nat
         /\ squeue[s] = <<>> <=> Len(squeue[s]) = 0
<1>1. /\ squeue \in [Sid -> Seq(Pid)] /\ scount \in [Sid -> Int]
      /\ sstate \in [Sid -> {"FREE", "USED"}] /\ nextsem \in Nat
  BY DEF IInv, TypeOK, SemTypes
<1>2. squeue[s] \in Seq(Pid) /\ scount[s] \in Int
  BY <1>1
<1>3. Len(squeue[s]) \in Nat /\ (squeue[s] = <<>> <=> Len(squeue[s]) = 0)
  BY <1>2, LenProperties, EmptySeq
<1>4. QED
  BY <1>1, <1>2, <1>3 DEF IInv, OffCpu

\* The head of a semaphore's list becomes ready.
LEMMA WakeHead ==
  ASSUME IInv, NEW s \in Sid, squeue[s] # <<>>,
         squeue' = [squeue EXCEPT ![s] = Tail(@)], Ready(Head(squeue[s]), qkey)
  PROVE  LET ps == [prstate EXCEPT ![Head(squeue[s])] = "READY"]
         IN /\ Scheduled(ps)
            /\ squeue' \in [Sid -> Seq(Pid)] /\ Len(squeue'[s]) = Len(squeue[s]) - 1
            /\ \A t \in Sid : Holds(squeue'[t], {p \in Pid : ps[p] = "WAIT" /\ prsem[p] = t})
            /\ ps[NULLPROC] \in {"CURR", "READY"}
            /\ \A p \in Pid : ps[p] = prstate[p] \/ (ps[p] = "READY" /\ prstate[p] = "WAIT")
<1> DEFINE h == Head(squeue[s])
           ps == [prstate EXCEPT ![h] = "READY"]
           Waiters(t) == {p \in Pid : prstate[p] = "WAIT" /\ prsem[p] = t}
<1>1. /\ h \in Pid /\ h \in Waiters(s) /\ Tail(squeue[s]) \in Seq(Pid)
      /\ Len(Tail(squeue[s])) = Len(squeue[s]) - 1
      /\ Holds(Tail(squeue[s]), Waiters(s) \ {h})
  <2>1. squeue[s] \in Seq(Pid) /\ Holds(squeue[s], Waiters(s))
    BY SemFacts
  <2> HIDE DEF Waiters
  <2>2. QED
    BY <2>1, TailHolds
<1> HIDE DEF h
<1>2. prstate[h] = "WAIT" /\ prsem[h] = s
  BY <1>1
<1>3. Scheduled(ps)
  BY <1>1, <1>2, IInvFacts, ReadySchedules DEF h
<1>4. \A p \in Pid : ps[p] = IF p = h THEN "READY" ELSE prstate[p]
  BY <1>1, IInvFacts
<1>5. \A t \in Sid : squeue'[t] = IF t = s THEN Tail(squeue[s]) ELSE squeue[t]
  BY SemFacts
<1>6. squeue' \in [Sid -> Seq(Pid)]
  BY <1>1, SemFacts
<1> HIDE DEF ps
<1>7. ASSUME NEW t \in Sid
      PROVE  Holds(squeue'[t], {p \in Pid : ps[p] = "WAIT" /\ prsem[p] = t})
  <2>1. CASE t = s
    <3>1. {p \in Pid : ps[p] = "WAIT" /\ prsem[p] = s} = Waiters(s) \ {h}
      BY <1>4
    <3>2. QED
      BY <1>1, <1>5, <2>1, <3>1
  <2>2. CASE t # s
    <3>1. {p \in Pid : ps[p] = "WAIT" /\ prsem[p] = t} = Waiters(t)
      BY <1>2, <1>4, <2>2
    <3>2. squeue'[t] = squeue[t]
      BY <1>5, <2>2
    <3>3. QED
      BY <3>1, <3>2, SemFacts
  <2>3. QED
    BY <2>1, <2>2
<1>8. Len(squeue'[s]) = Len(squeue[s]) - 1
  BY <1>1, <1>5
<1>9. ps[NULLPROC] \in {"CURR", "READY"}
  BY <1>4, StateFacts, IInvFacts
<1>10. \A p \in Pid : ps[p] = prstate[p] \/ (ps[p] = "READY" /\ prstate[p] = "WAIT")
  BY <1>2, <1>4
<1>11. QED
  BY <1>3, <1>6, <1>7, <1>8, <1>9, <1>10 DEF ps, h

\* What one release of semaphore s leaves behind.
Released(ps, s) ==
  /\ Scheduled(ps)
  /\ squeue' \in [Sid -> Seq(Pid)] /\ scount' \in [Sid -> Int]
  /\ \A t \in Sid : Holds(squeue'[t], {p \in Pid : ps[p] = "WAIT" /\ prsem[p] = t})
  /\ ps[NULLPROC] \in {"CURR", "READY"}
  /\ \A p \in Pid : ps[p] = prstate[p] \/ (ps[p] = "READY" /\ prstate[p] = "WAIT")
  /\ \A t \in Sid \ {s} : squeue'[t] = squeue[t] /\ scount'[t] = scount[t]
  /\ scount'[s] = scount[s] + 1
  /\ Len(squeue'[s]) = IF scount'[s] < 0 THEN -scount'[s] ELSE 0
  /\ squeue[s] = <<>> => squeue'[s] = <<>>

LEMMA ReleaseFacts ==
  ASSUME IInv, NEW s \in Sid, Release(s),
         Len(squeue[s]) = IF scount[s] < 0 THEN -scount[s] ELSE 0
  PROVE  /\ \E ps : Released(ps, s)
         /\ ndefers # 0 => currpid' = currpid
<1>0. /\ squeue \in [Sid -> Seq(Pid)] /\ scount \in [Sid -> Int]
      /\ scount[s] \in Int /\ Len(squeue[s]) \in Nat
      /\ squeue[s] = <<>> <=> Len(squeue[s]) = 0
  BY SemFacts
<1>1. /\ scount' = [scount EXCEPT ![s] = @ + 1]
      /\ scount' \in [Sid -> Int]
      /\ scount'[s] = scount[s] + 1
      /\ \A t \in Sid \ {s} : scount'[t] = scount[t]
  BY <1>0 DEF Release
<1>2. CASE scount[s] < 0
  <2>0. ~(scount[s] >= 0)
    BY <1>0, <1>2
  <2>1. /\ squeue' = [squeue EXCEPT ![s] = Tail(@)]
        /\ Ready(Head(squeue[s]), qkey)
    BY <2>0 DEF Release
  <2>2. squeue[s] # <<>>
    BY <1>2, <1>0
  <2>3. PICK ps : /\ Scheduled(ps)
                  /\ squeue' \in [Sid -> Seq(Pid)] /\ Len(squeue'[s]) = Len(squeue[s]) - 1
                  /\ \A t \in Sid : Holds(squeue'[t], {p \in Pid : ps[p] = "WAIT" /\ prsem[p] = t})
                  /\ ps[NULLPROC] \in {"CURR", "READY"}
                  /\ \A p \in Pid : ps[p] = prstate[p] \/ (ps[p] = "READY" /\ prstate[p] = "WAIT")
    <3>1. \E ps : ps = [prstate EXCEPT ![Head(squeue[s])] = "READY"]
      OBVIOUS
    <3>2. QED
      BY <2>1, <2>2, <3>1, WakeHead
  <2>4. \A t \in Sid \ {s} : squeue'[t] = squeue[t]
    BY <2>1, <1>0
  <2>5. Len(squeue'[s]) = IF scount'[s] < 0 THEN -scount'[s] ELSE 0
    <3>1. /\ scount[s] \in Int /\ Len(squeue[s]) = -scount[s]
          /\ Len(squeue'[s]) = -scount[s] - 1 /\ scount'[s] = scount[s] + 1
      BY <1>1, <1>2, <2>3, <1>0
    <3>2. QED
      BY <1>2, <3>1
  <2>6. Released(ps, s)
    BY <1>1, <2>2, <2>3, <2>4, <2>5 DEF Released
  <2>7. ndefers # 0 => currpid' = currpid
    BY <2>1, DeferredStays DEF Ready
  <2>8. QED
    BY <2>6, <2>7
<1>3. CASE scount[s] >= 0
  <2>0. ~(scount[s] < 0)
    BY <1>0, <1>3
  <2>1. UNCHANGED <<squeue, schedVars>>
    BY <2>0 DEF Release
  <2>2. Scheduled(prstate) /\ currpid' = currpid
    BY <2>1, IInvFacts, StaySchedules DEF schedVars
  <2>3. Len(squeue'[s]) = IF scount'[s] < 0 THEN -scount'[s] ELSE 0
    <3>1. scount[s] \in Int /\ ~(scount[s] < 0) /\ ~(scount'[s] < 0) /\ squeue' = squeue
      BY <1>1, <1>3, <2>1, <1>0
    <3>2. QED
      BY <3>1
  <2>4. squeue' = squeue /\ squeue' \in [Sid -> Seq(Pid)]
    BY <2>1, <1>0
  <2>5. \A t \in Sid : Holds(squeue'[t], {p \in Pid : prstate[p] = "WAIT" /\ prsem[p] = t})
    BY <2>4, SemFacts
  <2>6. Released(prstate, s)
    BY <1>1, <2>2, <2>3, <2>4, <2>5, StateFacts DEF Released
  <2>7. QED
    BY <2>2, <2>6
<1>4. QED
  BY <1>2, <1>3, <1>0

LEMMA SleepVarsKept ==
  ASSUME IInv, UNCHANGED sleepVars
  PROVE  sleepq' = sleepq /\ left' \in [Pid -> Int]
BY DEF IInv, TypeOK, SleepTypes, sleepVars

LEMMA SemcreateStep ==
  ASSUME IInv, NEW count \in Counts, Semcreate(count)
  PROVE  IInv'
<1>1. /\ frame[currpid].at \notin LoopRoutines
      /\ ndefers = 0 /\ Quiet(frame) /\ Settled(squeue, scount, sstate)
  BY SyscallFacts DEF Semcreate, LoopRoutines
<1>2. PICK s \in Sid :
        /\ sstate[s] = "FREE"
        /\ nextsem' = (s + 1) % NSEM
        /\ sstate' = [sstate EXCEPT ![s] = "USED"]
        /\ scount' = [scount EXCEPT ![s] = count]
  BY DEF Semcreate
<1>3. UNCHANGED <<procVars, squeue, sleepVars, schedVars, prhasmsg, ndefers, frame>>
  BY DEF Semcreate
<1>4. count \in Nat /\ (s + 1) % NSEM \in Nat
  BY SizesAssumption, ArgumentsAssumption DEF Sid
<1>5. SemTypes'
  BY <1>2, <1>3, <1>4, SemTables DEF SemTypes
<1>6. Settled(squeue', scount', sstate')
  <2>1. squeue[s] = <<>> /\ Len(squeue[s]) = 0
    BY <1>1, <1>2, SemFacts DEF Settled
  <2>2. /\ scount'[s] = count /\ ~(count < 0) /\ sstate'[s] = "USED" /\ squeue' = squeue
        /\ \A t \in Sid \ {s} : scount'[t] = scount[t] /\ sstate'[t] = sstate[t]
    BY <1>2, <1>3, <1>4, SemTables
  <2>3. QED
    BY <1>1, <2>1, <2>2 DEF Settled
<1>7. Scheduled(prstate)
  BY <1>3, IInvFacts, StaySchedules DEF schedVars
<1>8. SemInv'
  <2>1. currpid' \in Pid /\ ndefers' = 0 /\ Quiet(frame')
    BY <1>1, <1>3, IInvFacts DEF schedVars
  <2>2. QED
    BY <1>6, <2>1, QuietSemInv
<1>9. frame' \in [Pid -> FrameSet] /\ FramesOK' /\ frame' = frame /\ ndefers' \in Nat
  BY <1>1, <1>3, FramesKept
<1>10. ProcTypes' /\ prsem' = prsem
  BY <1>3, ProcKept DEF procVars
<1>11. \A t \in Sid : Holds(squeue'[t], {p \in Pid : prstate[p] = "WAIT" /\ prsem'[p] = t})
  BY <1>3, <1>10, SemFacts
<1>12. QED
  BY <1>3, <1>5, <1>7, <1>8, <1>9, <1>10, <1>11, SleepVarsKept, StateFacts, SemStep

LEMMA WaitStep ==
  ASSUME IInv, NEW s \in Sid, Wait(s)
  PROVE  IInv'
<1>1. /\ frame[currpid].at \notin LoopRoutines
      /\ currpid # NULLPROC /\ ndefers = 0 /\ Quiet(frame) /\ Settled(squeue, scount, sstate)
  BY SyscallFacts DEF Wait, LoopRoutines
<1>2. /\ sstate[s] = "USED"
      /\ scount' = [scount EXCEPT ![s] = @ - 1]
      /\ UNCHANGED <<prprio, prparent, nextpid, prcount, sstate, nextsem, sleepVars,
                     prhasmsg, ndefers, frame>>
  BY DEF Wait
<1>3. /\ scount[s] \in Int /\ squeue[s] \in Seq(Pid) /\ Len(squeue[s]) \in Nat
      /\ scount' \in [Sid -> Int] /\ scount'[s] = scount[s] - 1
      /\ \A t \in Sid \ {s} : scount'[t] = scount[t]
      /\ squeue \in [Sid -> Seq(Pid)]
  <2>1. /\ squeue \in [Sid -> Seq(Pid)] /\ scount \in [Sid -> Int]
        /\ scount[s] \in Int /\ squeue[s] \in Seq(Pid) /\ Len(squeue[s]) \in Nat
    BY SemFacts
  <2>2. scount' = [scount EXCEPT ![s] = scount[s] - 1]
    BY <1>2
  <2>3. QED
    BY <2>1, <2>2
<1>4. frame' \in [Pid -> FrameSet] /\ FramesOK' /\ frame' = frame /\ ndefers' = 0 /\ Quiet(frame')
  BY <1>1, <1>2, FramesKept
<1>5. CASE /\ scount[s] - 1 < 0
           /\ prsem' = [prsem EXCEPT ![currpid] = s]
           /\ squeue' = [squeue EXCEPT ![s] = Append(@, currpid)]
           /\ Block("WAIT")
  <2> DEFINE ps == [prstate EXCEPT ![currpid] = "WAIT"]
             Waiters(t) == {p \in Pid : prstate[p] = "WAIT" /\ prsem[p] = t}
  <2>1. Scheduled(ps)
    BY <1>1, <1>5, IInvFacts, BlockSchedules DEF Block, PrState
  <2>2. currpid \notin Waiters(s)
    BY IInvFacts
  <2>3. /\ Append(squeue[s], currpid) \in Seq(Pid)
        /\ Len(Append(squeue[s], currpid)) = Len(squeue[s]) + 1
        /\ Holds(Append(squeue[s], currpid), Waiters(s) \cup {currpid})
    <3>1. Holds(squeue[s], Waiters(s)) /\ currpid \in Pid
      BY SemFacts, IInvFacts
    <3> HIDE DEF Waiters
    <3>2. QED
      BY <1>3, <2>2, <3>1, AppendHolds
  <2>4. /\ squeue' \in [Sid -> Seq(Pid)] /\ squeue'[s] = Append(squeue[s], currpid)
        /\ \A t \in Sid \ {s} : squeue'[t] = squeue[t]
    BY <1>3, <1>5, <2>3
  <2>5. ProcTypes' /\ \A p \in Pid : prsem'[p] = IF p = currpid THEN s ELSE prsem[p]
    BY <1>2, <1>5, IInvFacts DEF TypeOK, ProcTypes
  <2>6. \A p \in Pid : ps[p] = IF p = currpid THEN "WAIT" ELSE prstate[p]
    BY IInvFacts
  <2> HIDE DEF ps
  <2>7. ASSUME NEW t \in Sid
        PROVE  Holds(squeue'[t], {p \in Pid : ps[p] = "WAIT" /\ prsem'[p] = t})
    <3>1. CASE t = s
      <4>1. {p \in Pid : ps[p] = "WAIT" /\ prsem'[p] = s} = Waiters(s) \cup {currpid}
        BY <2>5, <2>6, IInvFacts
      <4>2. QED
        BY <2>3, <2>4, <3>1, <4>1
    <3>2. CASE t # s
      <4>1. {p \in Pid : ps[p] = "WAIT" /\ prsem'[p] = t} = Waiters(t)
        BY <2>5, <2>6, <3>2, IInvFacts
      <4>2. squeue'[t] = squeue[t]
        BY <2>4, <3>2
      <4>3. QED
        BY <4>1, <4>2, SemFacts
    <3>3. QED
      BY <3>1, <3>2
  <2>8. Settled(squeue', scount', sstate')
    <3>1. Len(squeue'[s]) = -scount'[s] /\ scount'[s] < 0
      <4>1. Len(squeue[s]) = IF scount[s] < 0 THEN -scount[s] ELSE 0
        BY <1>1 DEF Settled
      <4>2. Len(squeue[s]) = -scount[s]
        BY <1>3, <1>5, <4>1
      <4>3. Len(squeue'[s]) = Len(squeue[s]) + 1
        BY <2>3, <2>4
      <4>4. QED
        BY <1>3, <1>5, <4>2, <4>3
    <3>2. \A t \in Sid \ {s} : squeue'[t] = squeue[t] /\ scount'[t] = scount[t]
      BY <1>3, <2>4
    <3>3. sstate' = sstate /\ sstate[s] = "USED"
      BY <1>2
    <3>4. QED
      BY <1>1, <3>1, <3>2, <3>3 DEF Settled
  <2>9. SemInv'
    BY <1>4, <2>1, <2>8, QuietSemInv DEF Scheduled
  <2>10. SemTypes'
    BY <1>2, <1>3, <2>4, SemFacts DEF SemTypes
  <2>11. /\ ps[NULLPROC] \in {"CURR", "READY"}
         /\ \A p \in Pid : ps[p] = "WAIT" => prsem'[p] \in Sid
         /\ \A p \in Pid : ps[p] = prstate[p] \/ (ps[p] = "WAIT" /\ prstate[p] = "CURR")
    BY <1>1, <2>5, <2>6, StateFacts, IInvFacts
  <2>12. sleepq' = sleepq /\ left' \in [Pid -> Int] /\ prhasmsg' = prhasmsg /\ ndefers' \in Nat
    BY <1>2, <1>4, SleepVarsKept
  <2>13. QED
    BY <1>4, <2>1, <2>5, <2>7, <2>9, <2>10, <2>11, <2>12, SemStep
<1>6. CASE scount[s] - 1 >= 0 /\ UNCHANGED <<prsem, squeue, schedVars>>
  <2>1. Scheduled(prstate)
    BY <1>6, IInvFacts, StaySchedules DEF schedVars
  <2>2. Settled(squeue', scount', sstate')
    <3>1. ~(scount[s] < 0) /\ ~(scount'[s] < 0) /\ squeue' = squeue /\ sstate' = sstate
      BY <1>2, <1>3, <1>6
    <3>2. QED
      BY <1>1, <1>3, <3>1 DEF Settled
  <2>3. SemInv'
    BY <1>4, <2>1, <2>2, QuietSemInv DEF Scheduled
  <2>4. SemTypes'
    BY <1>2, <1>3, <1>6, SemFacts DEF SemTypes
  <2>5. ProcTypes' /\ prsem' = prsem /\ squeue' = squeue
    BY <1>2, <1>6, ProcKept DEF procVars
  <2>6. \A t \in Sid : Holds(squeue'[t], {p \in Pid : prstate[p] = "WAIT" /\ prsem'[p] = t})
    BY <2>5, SemFacts
  <2>7. sleepq' = sleepq /\ left' \in [Pid -> Int] /\ prhasmsg' = prhasmsg /\ ndefers' \in Nat
    BY <1>2, <1>4, SleepVarsKept
  <2>8. QED
    BY <1>4, <2>1, <2>3, <2>4, <2>5, <2>6, <2>7, StateFacts, SemStep
<1>7. QED
  BY <1>5, <1>6 DEF Wait

LEMMA SignalStep ==
  ASSUME IInv, NEW s \in Sid, Signal(s)
  PROVE  IInv'
<1>1. /\ frame[currpid].at \notin LoopRoutines
      /\ ndefers = 0 /\ Quiet(frame) /\ Settled(squeue, scount, sstate)
  BY SignalFacts DEF Signal
<1>2. /\ sstate[s] = "USED"
      /\ UNCHANGED <<procVars, sstate, nextsem, sleepVars, prhasmsg, ndefers, frame>>
  BY DEF Signal
<1>3. PICK ps : Released(ps, s)
  <2>1. Release(s) /\ Len(squeue[s]) = IF scount[s] < 0 THEN -scount[s] ELSE 0
    BY <1>1 DEF Signal, Settled
  <2>2. QED
    BY <2>1, ReleaseFacts
<1>4. /\ frame' \in [Pid -> FrameSet] /\ FramesOK' /\ frame' = frame
      /\ ndefers' = 0 /\ ndefers' \in Nat /\ Quiet(frame')
  BY <1>1, <1>2, FramesKept
<1>5. Settled(squeue', scount', sstate')
  BY <1>1, <1>2, <1>3 DEF Settled, Released
<1>6. SemInv'
  BY <1>3, <1>4, <1>5, QuietSemInv DEF Released, Scheduled
<1>7. SemTypes'
  BY <1>2, <1>3, SemTables DEF SemTypes, Released
<1>8. ProcTypes' /\ prsem' = prsem /\ prhasmsg' = prhasmsg
  BY <1>2, ProcKept DEF procVars
<1>9. sleepq' = sleepq /\ left' \in [Pid -> Int]
  BY <1>2, SleepVarsKept
<1>10. \A p \in Pid : ps[p] = "WAIT" => prsem'[p] \in Sid
  BY <1>3, <1>8, StateFacts DEF Released
<1>11. QED
  BY <1>3, <1>4, <1>6, <1>7, <1>8, <1>9, <1>10, SemStep DEF Released
-----------------------------------------------------------------------------
(* Loops with rescheduling deferred.                                       *)

LEMMA LoopFacts ==
  ASSUME IInv, frame[currpid].at \in LoopRoutines
  PROVE  /\ ndefers # 0 /\ ndefers = Depth(frame[currpid].at)
         /\ \A p \in Pid \ {currpid} : frame[p].at \notin LoopRoutines
BY DEF IInv, SemInv, DeferralBalanced, Depth

\* A loop that is not inside another one is the only deferral.
LEMMA OuterLoop ==
  ASSUME NEW r \in LoopRoutines, r # "batch_signaln"
  PROVE  Depth(r) = 1
BY DEF Depth

\* In a loop the CPU stays where it is, and so does the deferral.
LEMMA LoopBalanced ==
  ASSUME \A p \in Pid \ {currpid} : frame'[p].at \notin LoopRoutines,
         currpid' = currpid, ndefers' = Depth(frame'[currpid].at)
  PROVE  DeferralBalanced'
BY DEF DeferralBalanced

\* The first step of a loop.
LEMMA StartStep ==
  ASSUME IInv, frame[currpid].at \notin LoopRoutines,
         NEW f, FrameOK(f), f.at \in LoopRoutines, f.at # "batch_signaln",
         Goto(f), DeferStart,
         f.at = "semdelete" => f.n # 0,
         UNCHANGED <<procVars, squeue, scount, nextsem, sleepq, prstate, readylist,
                     currpid, preempt, prhasmsg>>,
         qkey' \in [Pid -> Int], left' \in [Pid -> Int],
         sstate' \in [Sid -> {"FREE", "USED"}],
         \A s \in Sid : sstate'[s] = "FREE" =>
           sstate[s] = "FREE" \/ (f.at = "semdelete" /\ f.obj = s)
  PROVE  IInv'
<1>1. ndefers = 0 /\ Quiet(frame) /\ Settled(squeue, scount, sstate)
  BY QuietFacts
<1>2. /\ frame' \in [Pid -> FrameSet] /\ FramesOK'
      /\ frame'[currpid] = f
      /\ \A p \in Pid \ {currpid} : frame'[p] = frame[p]
  BY GotoFrames
<1>3. ndefers' = 1 /\ attempt' \in BOOLEAN
  BY <1>1 DEF DeferStart
<1>4. Scheduled(prstate)
  BY <1>3, IInvFacts, StaySchedules
<1>5. currpid' = currpid /\ squeue' = squeue /\ scount' = scount
  OBVIOUS
<1>6. DeferralBalanced'
  <2>1. \A p \in Pid \ {currpid} : frame'[p].at \notin LoopRoutines
    BY <1>1, <1>2 DEF Quiet
  <2>2. QED
    BY <1>2, <1>3, <1>5, <2>1, LoopBalanced, OuterLoop
<1>7. SemaphoreCounts'
  BY <1>1, <1>5 DEF SemaphoreCounts, Settled
<1>8. DeletedSemaphoresEmpty'
  BY <1>1, <1>2, <1>5 DEF DeletedSemaphoresEmpty, Settled, In
<1>9. SemdeleteDone'
  BY <1>2, <1>5 DEF SemdeleteDone, In
<1>10. SemTypes'
  BY <1>5, SemTables DEF SemTypes
<1>11. ProcTypes' /\ prsem' = prsem
  BY ProcKept DEF procVars
<1>12. \A s \in Sid : Holds(squeue'[s], {p \in Pid : prstate[p] = "WAIT" /\ prsem'[p] = s})
  BY <1>5, <1>11, SemFacts
<1>13. \A p \in Pid : frame'[p].at = "receive" => frame[p].at = "receive"
  BY <1>2 DEF LoopRoutines
<1>14. SemInv' /\ ndefers' \in Nat
  BY <1>3, <1>6, <1>7, <1>8, <1>9 DEF SemInv
<1>15. QED
  BY <1>2, <1>4, <1>10, <1>11, <1>12, <1>13, <1>14, StateFacts, SemStep

\* The frame of a loop over semaphore s.
LEMMA LoopFrame ==
  ASSUME NEW r \in {"signaln", "semdelete", "semreset", "batch_signaln"},
         NEW s \in Sid, NEW n \in Nat,
         r = "semreset" => n \in Counts
  PROVE  /\ FrameOK(Frame(r, s, n)) /\ Frame(r, s, n).at = r
         /\ Frame(r, s, n).obj = s /\ Frame(r, s, n).n = n
         /\ r \in LoopRoutines
BY SizesAssumption DEF FrameOK, Frame, FrameSet, Routine, Sid, LoopRoutines

LEMMA SignalnStartStep ==
  ASSUME IInv, NEW s \in Sid, NEW n \in Counts, SignalnStart(s, n)
  PROVE  IInv'
<1> DEFINE f == Frame("signaln", s, n)
<1>1. FrameOK(f) /\ f.at = "signaln" /\ f.at \in LoopRoutines
  BY LoopFrame, ArgumentsAssumption
<1>2. Goto(f) /\ DeferStart /\ frame[currpid].at \notin LoopRoutines
  BY SignalFacts DEF SignalnStart
<1> HIDE DEF f
<1>3. UNCHANGED <<procVars, semVars, sleepVars, prstate, qkey, readylist, currpid,
                  preempt, prhasmsg>>
  BY DEF SignalnStart
<1>4. /\ UNCHANGED <<procVars, squeue, scount, nextsem, sleepq, prstate, readylist,
                     currpid, preempt, prhasmsg>>
      /\ qkey' \in [Pid -> Int] /\ left' \in [Pid -> Int]
      /\ sstate' = sstate /\ sstate' \in [Sid -> {"FREE", "USED"}]
  BY <1>3, IInvFacts, SemTables, SleepVarsKept DEF semVars, sleepVars
<1>5. QED
  BY <1>1, <1>2, <1>4, StartStep

LEMMA SemresetStartStep ==
  ASSUME IInv, NEW s \in Sid, NEW n \in Counts, SemresetStart(s, n)
  PROVE  IInv'
<1> DEFINE f == Frame("semreset", s, n)
<1>1. FrameOK(f) /\ f.at = "semreset" /\ f.at \in LoopRoutines
  BY LoopFrame, ArgumentsAssumption
<1>2. Goto(f) /\ DeferStart /\ frame[currpid].at \notin LoopRoutines
  BY SyscallFacts DEF SemresetStart, LoopRoutines
<1> HIDE DEF f
<1>3. UNCHANGED <<procVars, semVars, sleepVars, prstate, qkey, readylist, currpid,
                  preempt, prhasmsg>>
  BY DEF SemresetStart
<1>4. /\ UNCHANGED <<procVars, squeue, scount, nextsem, sleepq, prstate, readylist,
                     currpid, preempt, prhasmsg>>
      /\ qkey' \in [Pid -> Int] /\ left' \in [Pid -> Int]
      /\ sstate' = sstate /\ sstate' \in [Sid -> {"FREE", "USED"}]
  BY <1>3, IInvFacts, SemTables, SleepVarsKept DEF semVars, sleepVars
<1>5. QED
  BY <1>1, <1>2, <1>4, StartStep

LEMMA SemdeleteStartStep ==
  ASSUME IInv, NEW s \in Sid, SemdeleteStart(s)
  PROVE  IInv'
<1> DEFINE f == Frame("semdelete", s, 1)
<1>1. FrameOK(f) /\ f.at = "semdelete" /\ f.at \in LoopRoutines /\ f.n # 0 /\ f.obj = s
  BY LoopFrame
<1>2. Goto(f) /\ DeferStart /\ frame[currpid].at \notin LoopRoutines
  BY SyscallFacts DEF SemdeleteStart, LoopRoutines
<1> HIDE DEF f
<1>3. /\ sstate' = [sstate EXCEPT ![s] = "FREE"]
      /\ UNCHANGED <<procVars, squeue, scount, nextsem, sleepVars, prstate, qkey,
                     readylist, currpid, preempt, prhasmsg>>
  BY DEF SemdeleteStart
<1>4. /\ UNCHANGED <<procVars, squeue, scount, nextsem, sleepq, prstate, readylist,
                     currpid, preempt, prhasmsg>>
      /\ qkey' \in [Pid -> Int] /\ left' \in [Pid -> Int]
  BY <1>3, IInvFacts, SleepVarsKept DEF sleepVars
<1>5. /\ sstate' \in [Sid -> {"FREE", "USED"}]
      /\ \A t \in Sid : sstate'[t] = "FREE" => sstate[t] = "FREE" \/ t = s
  BY <1>3, SemTables
<1>6. QED
  BY <1>1, <1>2, <1>4, <1>5, StartStep

LEMMA CurrentFrame ==
  ASSUME IInv
  PROVE  FrameOK(frame[currpid]) /\ frame[currpid] \in FrameSet
BY IInvFacts DEF IInv, FramesOK, FrameOK

\* The next turn of a loop over the same semaphore.
LEMMA NextTurnFrame ==
  ASSUME NEW f, FrameOK(f), f.at \in {"signaln", "semdelete", "batch_signaln"}, NEW m \in Nat
  PROVE  /\ FrameOK([f EXCEPT !.n = m]) /\ [f EXCEPT !.n = m].at = f.at
         /\ [f EXCEPT !.n = m].obj = f.obj /\ [f EXCEPT !.n = m].n = m
         /\ f.obj \in Sid /\ f.n \in Nat /\ f.at \in LoopRoutines
BY DEF FrameOK, FrameSet, LoopRoutines

\* A release inside a loop: the routine stays in it, in frame f.
LEMMA ReleaseInLoop ==
  ASSUME IInv, NEW s \in Sid, ~In("semreset"), Release(s),
         NEW f, FrameOK(f), f.at = frame[currpid].at, f.at \in LoopRoutines, Goto(f),
         f.at = "semdelete" => /\ f.obj = frame[currpid].obj /\ f.obj = s
                               /\ f.n = 0 => scount[s] >= 0,
         UNCHANGED <<procVars, sstate, nextsem, sleepVars, prhasmsg, ndefers>>
  PROVE  IInv'
<1>2. /\ ndefers # 0 /\ ndefers = Depth(f.at)
      /\ \A p \in Pid \ {currpid} : frame[p].at \notin LoopRoutines
  BY LoopFacts
<1>3. /\ frame' \in [Pid -> FrameSet] /\ FramesOK' /\ frame'[currpid] = f
      /\ \A p \in Pid \ {currpid} : frame'[p] = frame[p]
  BY GotoFrames
<1>4. \A t \in Sid : Len(squeue[t]) = IF scount[t] < 0 THEN -scount[t] ELSE 0
  BY DEF IInv, SemInv, SemaphoreCounts, Resetting
<1>5. (\E ps : Released(ps, s)) /\ currpid' = currpid
  BY <1>2, <1>4, ReleaseFacts
<1>6. PICK ps : Released(ps, s)
  BY <1>5
<1>7. DeferralBalanced'
  <2>1. \A p \in Pid \ {currpid} : frame'[p].at \notin LoopRoutines
    BY <1>2, <1>3
  <2>2. ndefers' = Depth(frame'[currpid].at)
    BY <1>2, <1>3
  <2>3. QED
    BY <1>5, <2>1, <2>2, LoopBalanced
<1>8. SemaphoreCounts'
  BY <1>4, <1>6 DEF SemaphoreCounts, Released
<1>9. DeletedSemaphoresEmpty'
  <2>1. ASSUME NEW t \in Sid, sstate'[t] = "FREE", squeue'[t] # <<>>
        PROVE  In("semdelete") /\ frame[currpid].obj = t
    <3>1. sstate[t] = "FREE" /\ squeue[t] # <<>>
      BY <1>6, <2>1 DEF Released
    <3>2. QED
      BY <3>1 DEF IInv, SemInv, DeletedSemaphoresEmpty
  <2>2. QED
    BY <1>3, <1>5, <2>1 DEF DeletedSemaphoresEmpty, In
<1>10. SemdeleteDone'
  <2>1. SUFFICES ASSUME f.at = "semdelete", f.n = 0 PROVE squeue'[s] = <<>>
    BY <1>3, <1>5 DEF SemdeleteDone, In
  <2>2. scount[s] >= 0 /\ scount[s] \in Int
    BY <2>1, SemFacts
  <2>3. Len(squeue[s]) = 0
    BY <1>4, <2>2
  <2>4. squeue[s] = <<>>
    BY <2>3, SemFacts
  <2>5. QED
    BY <1>6, <2>4 DEF Released
<1>11. SemInv' /\ ndefers' \in Nat
  BY <1>7, <1>8, <1>9, <1>10, IInvFacts DEF SemInv
<1>12. SemTypes'
  BY <1>6, SemTables DEF SemTypes, Released
<1>13. ProcTypes' /\ prsem' = prsem /\ prhasmsg' = prhasmsg
  BY ProcKept DEF procVars
<1>14. \A p \in Pid : frame'[p].at = "receive" => frame[p].at = "receive"
  BY <1>3
<1>15. \A p \in Pid : ps[p] = "WAIT" => prsem'[p] \in Sid
  BY <1>6, <1>13, StateFacts DEF Released
<1>16. QED
  BY <1>3, <1>6, <1>11, <1>12, <1>13, <1>14, <1>15, SleepVarsKept, SemStep DEF Released

\* One turn of signaln, called by a process or inside another loop.
LEMMA SignalnTurnStep ==
  ASSUME IInv, SignalnTurn
  PROVE  IInv'
<1> DEFINE f == frame[currpid]
           g == [f EXCEPT !.n = f.n - 1]
<1>1. /\ f.at \in {"signaln", "batch_signaln"} /\ f.n > 0 /\ Release(f.obj) /\ Goto(g)
      /\ UNCHANGED <<procVars, sstate, nextsem, sleepVars, prhasmsg, ndefers>>
  BY DEF SignalnTurn, In
<1>2. f.obj \in Sid /\ f.n \in Nat /\ f.at \in LoopRoutines /\ FrameOK(f)
  BY <1>1, CurrentFrame, NextTurnFrame
<1>3. f.n - 1 \in Nat
  BY <1>1, <1>2
<1>4. f.at # "semdelete" /\ ~In("semreset")
  BY <1>1 DEF In
<1>5. FrameOK(g) /\ g.at = f.at
  BY <1>1, <1>2, <1>3, NextTurnFrame
<1> HIDE DEF g
<1>6. QED
  BY <1>1, <1>2, <1>4, <1>5, ReleaseInLoop

LEMMA SemdeleteTurnStep ==
  ASSUME IInv, SemdeleteTurn
  PROVE  IInv'
<1> DEFINE f == frame[currpid]
           m == IF scount[f.obj] < 0 THEN 1 ELSE 0
           g == [f EXCEPT !.n = m]
<1>1. f.at = "semdelete" /\ Release(f.obj) /\ Goto(g)
      /\ UNCHANGED <<procVars, sstate, nextsem, sleepVars, prhasmsg, ndefers>>
  BY DEF SemdeleteTurn, In
<1>2. f.obj \in Sid /\ f.at \in LoopRoutines /\ ~In("semreset") /\ FrameOK(f)
  BY <1>1, CurrentFrame, NextTurnFrame DEF In
<1>3. m \in Nat /\ (m = 0 => scount[f.obj] >= 0)
  <2>1. scount[f.obj] \in Int
    BY <1>2, SemFacts
  <2>2. QED
    BY <2>1
<1> HIDE DEF m
<1>4. FrameOK(g) /\ g.at = f.at /\ g.obj = f.obj /\ g.n = m
  BY <1>1, <1>2, <1>3, NextTurnFrame
<1> HIDE DEF g
<1>5. QED
  BY <1>1, <1>2, <1>3, <1>4, ReleaseInLoop

LEMMA SemresetTurnStep ==
  ASSUME IInv, SemresetTurn
  PROVE  IInv'
<1> DEFINE s == frame[currpid].obj
<1>1. /\ In("semreset") /\ squeue[s] # <<>>
      /\ squeue' = [squeue EXCEPT ![s] = Tail(@)]
      /\ Ready(Head(squeue[s]), qkey)
      /\ UNCHANGED <<procVars, sstate, scount, nextsem, sleepVars, prhasmsg, ndefers, frame>>
  BY DEF SemresetTurn
<1>2. s \in Sid /\ frame[currpid].at \in LoopRoutines
  BY <1>1, CurrentFrame DEF In, FrameOK, LoopRoutines
<1>3. ndefers # 0
  BY <1>2, LoopFacts
<1> HIDE DEF s
<1>4. PICK ps : /\ Scheduled(ps)
                /\ squeue' \in [Sid -> Seq(Pid)]
                /\ \A t \in Sid : Holds(squeue'[t], {p \in Pid : ps[p] = "WAIT" /\ prsem[p] = t})
                /\ ps[NULLPROC] \in {"CURR", "READY"}
                /\ \A p \in Pid : ps[p] = prstate[p] \/ (ps[p] = "READY" /\ prstate[p] = "WAIT")
  <2>1. \E ps : ps = [prstate EXCEPT ![Head(squeue[s])] = "READY"]
    OBVIOUS
  <2>2. QED
    BY <1>1, <1>2, <2>1, WakeHead
<1>5. currpid' = currpid
  BY <1>1, <1>3, DeferredStays DEF Ready
<1>6. \A t \in Sid \ {s} : squeue'[t] = squeue[t]
  BY <1>1, <1>2, SemTables
<1>7. frame' = frame /\ scount' = scount /\ sstate' = sstate /\ ndefers' = ndefers
  BY <1>1
<1>8. DeferralBalanced'
  BY <1>5, <1>7 DEF IInv, SemInv, DeferralBalanced
<1>9. SemaphoreCounts'
  <2>1. \A t \in Sid \ {s} : Len(squeue[t]) = IF scount[t] < 0 THEN -scount[t] ELSE 0
    BY DEF IInv, SemInv, SemaphoreCounts, Resetting, s
  <2>2. QED
    BY <1>1, <1>5, <1>6, <1>7, <2>1 DEF SemaphoreCounts, Resetting, In, s
<1>10. DeletedSemaphoresEmpty'
  <2>1. ~In("semdelete")
    BY <1>1 DEF In
  <2>2. \A t \in Sid : sstate[t] = "FREE" => squeue[t] = <<>>
    BY <2>1 DEF IInv, SemInv, DeletedSemaphoresEmpty
  <2>3. QED
    BY <1>1, <1>6, <1>7, <2>2 DEF DeletedSemaphoresEmpty
<1>11. SemdeleteDone'
  BY <1>1, <1>5, <1>7 DEF SemdeleteDone, In
<1>12. SemInv' /\ ndefers' \in Nat
  BY <1>7, <1>8, <1>9, <1>10, <1>11, IInvFacts DEF SemInv
<1>13. SemTypes'
  BY <1>1, <1>4, SemTables DEF SemTypes
<1>14. ProcTypes' /\ prsem' = prsem /\ prhasmsg' = prhasmsg
  BY <1>1, ProcKept DEF procVars
<1>15. frame' \in [Pid -> FrameSet] /\ FramesOK'
  BY <1>7, FramesKept
<1>16. sleepq' = sleepq /\ left' \in [Pid -> Int]
  BY <1>1, SleepVarsKept
<1>17. \A p \in Pid : ps[p] = "WAIT" => prsem'[p] \in Sid
  BY <1>4, <1>14, StateFacts
<1>18. QED
  BY <1>4, <1>7, <1>12, <1>13, <1>14, <1>15, <1>16, <1>17, SemStep

\* The end of a loop: everything is settled before anybody else may run.
LEMMA StopStep ==
  ASSUME IInv, frame[currpid].at \in LoopRoutines, frame[currpid].at # "batch_signaln",
         DeferStop, NEW r \in {"user", "clkhandler"}, NEW f, f = Frame(r, 0, 0), Goto(f),
         UNCHANGED <<procVars, squeue, sstate, nextsem, sleepVars, prhasmsg>>,
         scount' \in [Sid -> Int], Settled(squeue, scount', sstate)
  PROVE  IInv'
<1>1. ndefers = 1 /\ \A p \in Pid \ {currpid} : frame[p].at \notin LoopRoutines
  BY LoopFacts, OuterLoop
<1>2. FrameOK(f) /\ f.at = r
  BY PlainFrame DEF Routine
<1>3. /\ frame' \in [Pid -> FrameSet] /\ FramesOK' /\ frame'[currpid] = f
      /\ \A p \in Pid \ {currpid} : frame'[p] = frame[p]
  BY <1>2, GotoFrames
<1>4. Quiet(frame')
  BY <1>1, <1>2, <1>3 DEF Quiet, LoopRoutines
<1>5. ndefers' = 0 /\ ndefers' \in Nat
  BY <1>1 DEF DeferStop
<1>6. Scheduled(prstate)
  BY StopSchedules
<1>7. SemInv'
  BY <1>4, <1>5, <1>6, QuietSemInv DEF Scheduled
<1>8. SemTypes' /\ squeue' = squeue
  BY SemTables DEF SemTypes
<1>9. ProcTypes' /\ prsem' = prsem
  BY ProcKept DEF procVars
<1>10. \A s \in Sid : Holds(squeue'[s], {p \in Pid : prstate[p] = "WAIT" /\ prsem'[p] = s})
  BY <1>8, <1>9, SemFacts
<1>11. \A p \in Pid : frame'[p].at = "receive" => frame[p].at = "receive"
  BY <1>2, <1>3
<1>12. QED
  BY <1>3, <1>5, <1>6, <1>7, <1>8, <1>9, <1>10, <1>11, SleepVarsKept, StateFacts, SemStep

LEMMA LoopStopStep ==
  ASSUME IInv, LoopStop
  PROVE  IInv'
<1>1. /\ In("signaln") \/ In("semdelete")
      /\ frame[currpid].n = 0
      /\ DeferStop /\ Goto(User)
      /\ UNCHANGED <<procVars, semVars, sleepVars, prhasmsg>>
  BY DEF LoopStop
<1>2. Settled(squeue, scount, sstate)
  <2>1. ~In("semreset")
    BY <1>1 DEF In
  <2>2. \A s \in Sid : Len(squeue[s]) = IF scount[s] < 0 THEN -scount[s] ELSE 0
    BY <2>1 DEF IInv, SemInv, SemaphoreCounts, Resetting
  <2>3. \A s \in Sid : sstate[s] = "FREE" => squeue[s] = <<>>
    BY <1>1 DEF IInv, SemInv, DeletedSemaphoresEmpty, SemdeleteDone
  <2>4. QED
    BY <2>2, <2>3 DEF Settled
<1>3. frame[currpid].at \in LoopRoutines /\ frame[currpid].at # "batch_signaln"
  BY <1>1 DEF In, LoopRoutines
<1>4. UNCHANGED <<procVars, squeue, sstate, nextsem, sleepVars, prhasmsg>> /\ scount' = scount
  BY <1>1 DEF semVars
<1>5. QED
  BY <1>1, <1>2, <1>3, <1>4, SemTables, StopStep DEF User

LEMMA SemresetStopStep ==
  ASSUME IInv, SemresetStop
  PROVE  IInv'
<1> DEFINE s == frame[currpid].obj
           n == frame[currpid].n
<1>1. /\ In("semreset") /\ squeue[s] = <<>>
      /\ scount' = [scount EXCEPT ![s] = n]
      /\ DeferStop /\ Goto(User)
      /\ UNCHANGED <<procVars, squeue, sstate, nextsem, sleepVars, prhasmsg>>
  BY DEF SemresetStop
<1>2. /\ s \in Sid /\ n \in Nat
      /\ frame[currpid].at \in LoopRoutines /\ frame[currpid].at # "batch_signaln"
  BY <1>1, CurrentFrame DEF In, FrameOK, FrameSet, LoopRoutines
<1>3. /\ scount' \in [Sid -> Int] /\ scount'[s] = n
      /\ \A t \in Sid \ {s} : scount'[t] = scount[t]
  BY <1>1, <1>2, SemTables
<1> HIDE DEF n
<1>4. Settled(squeue, scount', sstate)
  <2>1. \A t \in Sid \ {s} : Len(squeue[t]) = IF scount[t] < 0 THEN -scount[t] ELSE 0
    BY DEF IInv, SemInv, SemaphoreCounts, Resetting
  <2>2. ~In("semdelete")
    BY <1>1 DEF In
  <2>3. \A t \in Sid : sstate[t] = "FREE" => squeue[t] = <<>>
    BY <2>2 DEF IInv, SemInv, DeletedSemaphoresEmpty
  <2>4. Len(squeue[s]) = 0 /\ ~(n < 0)
    BY <1>1, <1>2, SemFacts
  <2>5. QED
    BY <1>3, <2>1, <2>3, <2>4 DEF Settled
<1>5. QED
  BY <1>1, <1>2, <1>3, <1>4, StopStep DEF User
-----------------------------------------------------------------------------
(* The loops of interrupt handlers, with signaln inside them.              *)

LEMMA BatchStartStep ==
  ASSUME IInv, BatchStart
  PROVE  IInv'
<1> DEFINE f == Frame("batch", 0, 0)
<1>1. FrameOK(f) /\ f.at = "batch" /\ f.at \in LoopRoutines
  BY PlainFrame DEF Routine, LoopRoutines
<1>2. Goto(f) /\ DeferStart /\ frame[currpid].at \notin LoopRoutines
  BY UserFacts DEF BatchStart, Interrupted
<1> HIDE DEF f
<1>3. UNCHANGED <<procVars, semVars, sleepVars, prstate, qkey, readylist, currpid,
                  preempt, prhasmsg>>
  BY DEF BatchStart
<1>4. /\ UNCHANGED <<procVars, squeue, scount, nextsem, sleepq, prstate, readylist,
                     currpid, preempt, prhasmsg>>
      /\ qkey' \in [Pid -> Int] /\ left' \in [Pid -> Int]
      /\ sstate' = sstate /\ sstate' \in [Sid -> {"FREE", "USED"}]
  BY <1>3, IInvFacts, SemTables, SleepVarsKept DEF semVars, sleepVars
<1>5. QED
  BY <1>1, <1>2, <1>4, StartStep

LEMMA BatchSignalStep ==
  ASSUME IInv, NEW s \in Sid, BatchSignal(s)
  PROVE  IInv'
<1> DEFINE f == frame[currpid]
<1>1. /\ f.at = "batch" /\ f.at \in LoopRoutines /\ ~In("semreset") /\ Release(s)
      /\ frame' = frame
      /\ UNCHANGED <<procVars, sstate, nextsem, sleepVars, prhasmsg, ndefers>>
  BY DEF BatchSignal, In, LoopRoutines
<1>2. Goto(f)
  BY <1>1, IInvFacts DEF Goto, TypeOK, CallTypes
<1>3. QED
  BY <1>1, <1>2, CurrentFrame, ReleaseInLoop

\* Into and out of the inner deferral: nothing is scheduled.
LEMMA NestStep ==
  ASSUME IInv, frame[currpid].at \in {"batch", "batch_signaln"},
         NEW f, FrameOK(f), f.at \in {"batch", "batch_signaln"}, Goto(f),
         ndefers' = Depth(f.at), attempt' = attempt,
         UNCHANGED <<procVars, semVars, sleepVars, prstate, qkey, readylist, currpid,
                     preempt, prhasmsg>>
  PROVE  IInv'
<1>1. /\ frame' \in [Pid -> FrameSet] /\ FramesOK' /\ frame'[currpid] = f
      /\ \A p \in Pid \ {currpid} : frame'[p] = frame[p]
  BY GotoFrames
<1>2. frame[currpid].at \in LoopRoutines /\ ~In("semreset") /\ ~In("semdelete")
  BY DEF LoopRoutines, In
<1>3. /\ squeue' = squeue /\ scount' = scount /\ sstate' = sstate /\ currpid' = currpid
      /\ prsem' = prsem
  BY DEF semVars, procVars
<1>4. DeferralBalanced'
  BY <1>1, <1>2, <1>3, LoopFacts, LoopBalanced
<1>5. SemaphoreCounts' /\ DeletedSemaphoresEmpty' /\ SemdeleteDone'
  <2>1. ~In("semreset")' /\ ~In("semdelete")'
    BY <1>1, <1>3 DEF In
  <2>2. \A s \in Sid : /\ Len(squeue'[s]) = IF scount'[s] < 0 THEN -scount'[s] ELSE 0
                       /\ sstate'[s] = "FREE" => squeue'[s] = <<>>
    BY <1>2, <1>3 DEF IInv, SemInv, SemaphoreCounts, Resetting, DeletedSemaphoresEmpty
  <2>3. QED
    BY <2>1, <2>2 DEF SemaphoreCounts, DeletedSemaphoresEmpty, SemdeleteDone
<1>6. Scheduled(prstate)
  BY IInvFacts, StaySchedules
<1>7. SemInv' /\ ndefers' \in Nat
  BY <1>4, <1>5 DEF SemInv, Depth
<1>8. \A s \in Sid : Holds(squeue'[s], {p \in Pid : prstate[p] = "WAIT" /\ prsem'[p] = s})
  BY <1>3, SemFacts
<1>9. \A p \in Pid : frame'[p].at = "receive" => frame[p].at = "receive"
  BY <1>1
<1>10. QED
  BY <1>1, <1>3, <1>6, <1>7, <1>8, <1>9, ProcKept, SemKept, SleepVarsKept, StateFacts, SemStep

LEMMA BatchSignalnStartStep ==
  ASSUME IInv, NEW s \in Sid, NEW n \in Counts, BatchSignalnStart(s, n)
  PROVE  IInv'
<1> DEFINE f == Frame("batch_signaln", s, n)
<1>1. FrameOK(f) /\ f.at = "batch_signaln"
  BY LoopFrame, ArgumentsAssumption
<1>2. /\ frame[currpid].at = "batch" /\ DeferStart /\ Goto(f)
      /\ UNCHANGED <<procVars, semVars, sleepVars, prstate, qkey, readylist, currpid,
                     preempt, prhasmsg>>
  BY DEF BatchSignalnStart, In
<1>3. ndefers = 1
  BY <1>2, LoopFacts, OuterLoop DEF LoopRoutines
<1> HIDE DEF f
<1>4. ndefers' = Depth(f.at) /\ attempt' = attempt
  BY <1>1, <1>2, <1>3 DEF DeferStart, Depth
<1>5. QED
  BY <1>1, <1>2, <1>4, NestStep

LEMMA BatchSignalnStopStep ==
  ASSUME IInv, BatchSignalnStop
  PROVE  IInv'
<1> DEFINE f == Frame("batch", 0, 0)
<1>1. FrameOK(f) /\ f.at = "batch"
  BY PlainFrame DEF Routine
<1>2. /\ frame[currpid].at = "batch_signaln" /\ DeferStop /\ Goto(f)
      /\ UNCHANGED <<procVars, semVars, sleepVars, prhasmsg>>
  BY DEF BatchSignalnStop, In
<1>3. ndefers = 2
  BY <1>2, LoopFacts DEF LoopRoutines, Depth
<1> HIDE DEF f
<1>4. /\ ndefers' = Depth(f.at) /\ attempt' = attempt
      /\ UNCHANGED <<prstate, readylist, qkey, currpid, preempt>>
  BY <1>1, <1>2, <1>3 DEF DeferStop, Depth, LoopRoutines
<1>5. QED
  BY <1>1, <1>2, <1>4, NestStep

LEMMA BatchStopStep ==
  ASSUME IInv, BatchStop
  PROVE  IInv'
<1>1. /\ In("batch") /\ DeferStop /\ Goto(User)
      /\ UNCHANGED <<procVars, semVars, sleepVars, prhasmsg>>
  BY DEF BatchStop
<1>2. frame[currpid].at \in LoopRoutines /\ frame[currpid].at # "batch_signaln"
  BY <1>1 DEF In, LoopRoutines
<1>3. Settled(squeue, scount, sstate)
  <2>1. ~In("semreset") /\ ~In("semdelete")
    BY <1>1 DEF In
  <2>2. QED
    BY <2>1 DEF IInv, SemInv, SemaphoreCounts, Resetting, DeletedSemaphoresEmpty, Settled
<1>4. UNCHANGED <<procVars, squeue, sstate, nextsem, sleepVars, prhasmsg>> /\ scount' = scount
  BY <1>1 DEF semVars
<1>5. QED
  BY <1>1, <1>2, <1>3, <1>4, SemTables, StopStep DEF User
-----------------------------------------------------------------------------
(* kill.                                                                   *)

LEMMA KillStartStep ==
  ASSUME IInv, NEW p \in Pid, KillStart(p)
  PROVE  IInv'
<1>1. /\ frame[currpid].at \notin LoopRoutines /\ p # NULLPROC
      /\ UNCHANGED <<prprio, prsem, prparent, nextpid, semVars, ndefers>>
      /\ prcount' = prcount - 1
  BY SyscallFacts DEF KillStart, LoopRoutines
<1>2. ProcTypes' /\ prsem' = prsem /\ prparent[p] \in Pid
  <2>1. ProcTypes
    BY IInvFacts DEF TypeOK
  <2>2. PICK n \in Int : n = prcount
    BY <2>1 DEF ProcTypes
  <2>3. n - 1 \in Int
    OBVIOUS
  <2>4. prcount' \in Int
    BY <1>1, <2>2, <2>3
  <2>5. QED
    BY <1>1, <2>1, <2>4 DEF ProcTypes
<1>3. PICK ps, f : /\ Delivered(ps) /\ Goto(f)
                   /\ f.at # "receive" /\ f.at \notin LoopRoutines /\ FrameOK(f)
  <2>1. p \in Pid \ {NULLPROC} /\ p \in Nat
    BY <1>1, SizesAssumption DEF Pid
  <2>2. CASE Goto(Frame("halt", p, 0)) /\ UNCHANGED <<schedVars, sleepVars, prhasmsg>>
    <3>1. FrameOK(Frame("halt", p, 0)) /\ Frame("halt", p, 0).at = "halt"
      BY <2>1 DEF FrameOK, Frame, FrameSet, Routine
    <3>2. Delivered(prstate)
      BY <2>2, DeliverNoted
    <3>3. QED
      BY <2>2, <3>1, <3>2 DEF LoopRoutines
  <2>3. CASE Deliver(prparent[p]) /\ Goto(Frame("kill", p, 0))
    <3>1. FrameOK(Frame("kill", p, 0)) /\ Frame("kill", p, 0).at = "kill"
      BY <2>1 DEF FrameOK, Frame, FrameSet, Routine
    <3>2. \E ps : Delivered(ps)
      BY <1>2, <2>3, DeliverFacts
    <3>3. QED
      BY <2>3, <3>1, <3>2 DEF LoopRoutines
  <2>4. QED
    BY <2>2, <2>3 DEF KillStart
<1>4. /\ frame' \in [Pid -> FrameSet] /\ FramesOK' /\ Quiet(frame')
      /\ frame'[currpid] = f
      /\ \A x \in Pid \ {currpid} : frame'[x] = frame[x]
  BY <1>1, <1>3, QuietGoto
<1>5. \A x \in Pid : frame'[x].at = "receive" => ps[x] \in {"RECV", "FREE"} \/ prhasmsg'[x]
  BY <1>3, <1>4 DEF Delivered
<1>6. QED
  BY <1>1, <1>2, <1>3, <1>4, <1>5, QuietStep DEF Delivered

\* The victim, wherever it was, is in no list any more.
LEMMA KillFinishStep ==
  ASSUME IInv, KillFinish
  PROVE  IInv'
<1> DEFINE p == frame[currpid].obj
           ps == [prstate EXCEPT ![p] = "FREE"]
<1>1. /\ frame[currpid].at = "kill" /\ frame[currpid].at \notin LoopRoutines
      /\ Goto(User) /\ UNCHANGED <<procVars, sstate, nextsem, prhasmsg, ndefers>>
  BY DEF KillFinish, In, LoopRoutines
<1>2. p \in Pid /\ p # NULLPROC
  BY <1>1, CurrentFrame DEF FrameOK
<1>3. ndefers = 0 /\ Quiet(frame) /\ Settled(squeue, scount, sstate)
  BY <1>1, QuietFacts
<1>4. /\ frame' \in [Pid -> FrameSet] /\ FramesOK' /\ Quiet(frame')
      /\ frame'[currpid] = User
      /\ \A x \in Pid \ {currpid} : frame'[x] = frame[x]
  BY <1>1, UserFrame, QuietGoto DEF LoopRoutines
<1>5. \A x \in Pid : ps[x] = IF x = p THEN "FREE" ELSE prstate[x]
  BY IInvFacts
<1>6. ps[NULLPROC] \in {"CURR", "READY"}
  BY <1>2, <1>5, StateFacts, IInvFacts
<1>7. ProcTypes' /\ prsem' = prsem /\ prhasmsg' = prhasmsg /\ ndefers' = 0 /\ ndefers' \in Nat
  BY <1>1, <1>3, ProcKept DEF procVars
<1>8. \A x \in Pid : ps[x] \in {"RECV", "RECTIM"} => ~prhasmsg'[x]
  BY <1>5, <1>7, StateFacts
<1>9. \A x \in Pid : frame'[x].at = "receive" => ps[x] \in {"RECV", "FREE"} \/ prhasmsg'[x]
  BY <1>4, <1>5, <1>7, StateFacts, UserFrame
<1>10. ASSUME Scheduled(ps), UNCHANGED <<squeue, scount>>, prstate[p] # "WAIT", SleepTypes',
              Holds(sleepq', {x \in Pid : ps[x] \in {"SLEEP", "RECTIM"}})
       PROVE  IInv'
  <2>1. UNCHANGED <<semVars, ndefers>>
    BY <1>1, <1>10 DEF semVars
  <2>2. \A x \in Pid : /\ ps[x] = "WAIT" <=> prstate[x] = "WAIT"
                       /\ ps[x] = "WAIT" => prsem'[x] = prsem[x]
    BY <1>5, <1>7, <1>10
  <2> HIDE DEF ps
  <2>3. QED
    BY <1>1, <1>4, <1>6, <1>7, <1>8, <1>9, <1>10, <2>1, <2>2, StateFacts, QuietStep
<1>11. ASSUME prstate[p] \notin {"SLEEP", "RECTIM"}, UNCHANGED sleepVars
       PROVE  SleepTypes' /\ Holds(sleepq', {x \in Pid : ps[x] \in {"SLEEP", "RECTIM"}})
  <2>1. \A x \in Pid : ps[x] \in {"SLEEP", "RECTIM"} <=> prstate[x] \in {"SLEEP", "RECTIM"}
    BY <1>5, <1>11
  <2> HIDE DEF ps
  <2>2. QED
    BY <1>11, <2>1, SleepKept
<1>12. CASE /\ prstate[p] = "CURR"
            /\ Resched(ps, readylist, qkey, preempt)
            /\ UNCHANGED <<sleepVars, squeue, scount>>
  <2>1. p = currpid
    BY <1>2, <1>12, IInvFacts
  <2>2. Scheduled([prstate EXCEPT ![currpid] = "FREE"])
    BY <1>2, <1>3, <1>12, <2>1, IInvFacts, BlockSchedules DEF PrState
  <2>3. QED
    BY <1>10, <1>11, <1>12, <2>1, <2>2
<1>13. CASE /\ prstate[p] \in {"SLEEP", "RECTIM"}
            /\ sleepq' = Unlink(sleepq, p) /\ qkey' = UnsleepKeys(p)
            /\ left' = [left EXCEPT ![p] = 0] /\ prstate' = ps
            /\ UNCHANGED <<readylist, squeue, scount, currpid, preempt, attempt>>
  <2> DEFINE Sleepers == {x \in Pid : prstate[x] \in {"SLEEP", "RECTIM"}}
  <2>1. p \in Sleepers /\ Holds(sleepq, Sleepers) /\ sleepq \in Seq(Pid) /\ left \in [Pid -> Int]
    BY <1>2, <1>13 DEF IInv, OffCpu, TypeOK, SleepTypes
  <2>2. Unlink(sleepq, p) \in Seq(Pid) /\ Holds(Unlink(sleepq, p), Sleepers \ {p})
    <3> HIDE DEF Sleepers
    <3> QED BY <2>1, UnlinkHolds
  <2>3. Sleepers \ {p} = {x \in Pid : ps[x] \in {"SLEEP", "RECTIM"}}
    BY <1>5
  <2>4. qkey' \in [Pid -> Int]
    <3>1. p \in Range(sleepq)
      BY <2>1 DEF Holds
    <3>2. QED
      BY <1>2, <1>13, <2>1, <3>1, IInvFacts, UnsleepKeysType
  <2>5. Scheduled(ps)
    BY <1>2, <1>13, <2>4, OffCpuSchedules DEF PrState
  <2>6. SleepTypes'
    BY <1>13, <2>1, <2>2 DEF SleepTypes
  <2>7. Holds(sleepq', {x \in Pid : ps[x] \in {"SLEEP", "RECTIM"}})
    BY <1>13, <2>2, <2>3
  <2>8. QED
    BY <1>10, <1>13, <2>5, <2>6, <2>7
<1>14. CASE /\ prstate[p] = "READY" /\ readylist' = Unlink(readylist, p) /\ prstate' = ps
            /\ UNCHANGED <<sleepVars, squeue, scount, qkey, currpid, preempt, attempt>>
  <2>1. Scheduled(ps)
    BY <1>2, <1>14, UnreadySchedules DEF PrState
  <2>2. QED
    BY <1>10, <1>11, <1>14, <2>1
<1>15. CASE /\ prstate[p] \in {"RECV", "SUSP", "FREE"} /\ prstate' = ps
            /\ UNCHANGED <<sleepVars, squeue, scount, qkey, readylist, currpid, preempt, attempt>>
  <2>1. Scheduled(ps)
    BY <1>2, <1>15, IInvFacts, OffCpuSchedules DEF PrState
  <2>2. QED
    BY <1>10, <1>11, <1>15, <2>1
<1>16. CASE /\ prstate[p] = "WAIT"
            /\ scount' = [scount EXCEPT ![prsem[p]] = @ + 1]
            /\ squeue' = [squeue EXCEPT ![prsem[p]] = Unlink(@, p)]
            /\ prstate' = ps
            /\ UNCHANGED <<sleepVars, qkey, readylist, currpid, preempt, attempt>>
  <2> DEFINE s == prsem[p]
             Waiters(t) == {x \in Pid : prstate[x] = "WAIT" /\ prsem[x] = t}
  <2>1. s \in Sid
    BY <1>2, <1>16, StateFacts
  <2>2. p \in Waiters(s) /\ Holds(squeue[s], Waiters(s)) /\ squeue[s] \in Seq(Pid)
    BY <1>2, <1>16, <2>1, SemFacts
  <2>3. /\ Unlink(squeue[s], p) \in Seq(Pid)
        /\ Len(Unlink(squeue[s], p)) = Len(squeue[s]) - 1
        /\ Holds(Unlink(squeue[s], p), Waiters(s) \ {p})
    <3> HIDE DEF Waiters
    <3> QED BY <2>2, UnlinkHolds
  <2>4. /\ squeue' \in [Sid -> Seq(Pid)] /\ squeue'[s] = Unlink(squeue[s], p)
        /\ \A t \in Sid \ {s} : squeue'[t] = squeue[t]
        /\ scount' \in [Sid -> Int] /\ scount'[s] = scount[s] + 1
        /\ \A t \in Sid \ {s} : scount'[t] = scount[t]
    <3>1. PICK q : q = Unlink(squeue[s], p)
      OBVIOUS
    <3>2. squeue' = [squeue EXCEPT ![s] = q] /\ scount' = [scount EXCEPT ![s] = @ + 1]
      BY <1>16, <3>1
    <3>3. squeue \in [Sid -> Seq(Pid)] /\ scount \in [Sid -> Int]
      BY SemTables
    <3>4. q \in Seq(Pid)
      BY <2>3, <3>1
    <3> HIDE DEF s, Waiters
    <3>5. /\ squeue' \in [Sid -> Seq(Pid)] /\ squeue'[s] = q
          /\ \A t \in Sid \ {s} : squeue'[t] = squeue[t]
      BY <2>1, <3>2, <3>3, <3>4
    <3>6. /\ scount' \in [Sid -> Int] /\ scount'[s] = scount[s] + 1
          /\ \A t \in Sid \ {s} : scount'[t] = scount[t]
      BY <2>1, <3>2, <3>3
    <3>7. QED
      BY <3>1, <3>5, <3>6
  <2>5. ASSUME NEW t \in Sid
        PROVE  Holds(squeue'[t], {x \in Pid : ps[x] = "WAIT" /\ prsem'[x] = t})
    <3>1. CASE t = s
      <4>1. {x \in Pid : ps[x] = "WAIT" /\ prsem'[x] = s} = Waiters(s) \ {p}
        BY <1>5, <1>7
      <4>2. QED
        BY <2>3, <2>4, <3>1, <4>1
    <3>2. CASE t # s
      <4>1. {x \in Pid : ps[x] = "WAIT" /\ prsem'[x] = t} = Waiters(t)
        BY <1>5, <1>7, <3>2
      <4>2. squeue'[t] = squeue[t]
        BY <2>4, <3>2
      <4>3. QED
        BY <4>1, <4>2, SemFacts
    <3>3. QED
      BY <3>1, <3>2
  <2>6. Scheduled(ps)
    BY <1>2, <1>16, IInvFacts, OffCpuSchedules DEF PrState
  <2>7. Len(squeue'[s]) = IF scount'[s] < 0 THEN -scount'[s] ELSE 0
    <3>1. p \in Range(squeue[s])
      BY <2>2 DEF Holds
    <3>2. squeue[s] # <<>> /\ Len(squeue[s]) \in Nat \ {0} /\ scount[s] \in Int
      <4>1. squeue[s] # <<>>
        BY <3>1, EmptySeq DEF Range
      <4>2. Len(squeue[s]) \in Nat /\ (squeue[s] = <<>> <=> Len(squeue[s]) = 0) /\ scount[s] \in Int
        BY <2>1, SemFacts
      <4>3. QED
        BY <4>1, <4>2
    <3>3. Len(squeue[s]) = IF scount[s] < 0 THEN -scount[s] ELSE 0
      BY <1>3, <2>1 DEF Settled
    <3>4. Len(squeue'[s]) = Len(squeue[s]) - 1
      BY <2>3, <2>4
    <3>5. QED
      BY <2>4, <3>2, <3>3, <3>4
  <2>8. Settled(squeue', scount', sstate')
    <3>1. sstate' = sstate
      BY <1>1
    <3>2. sstate[s] # "FREE"
      BY <1>3, <2>1, <2>2, EmptySeq DEF Settled, Holds, Range
    <3>3. QED
      BY <1>3, <2>4, <2>7, <3>1, <3>2 DEF Settled
  <2>9. SemInv'
    BY <1>4, <1>7, <2>6, <2>8, QuietSemInv DEF Scheduled
  <2>10. SemTypes'
    BY <1>1, <2>4, SemTables DEF SemTypes
  <2>11. SleepTypes' /\ Holds(sleepq', {x \in Pid : ps[x] \in {"SLEEP", "RECTIM"}})
    BY <1>11, <1>16
  <2>12. CallTypes'
    BY <1>4, <1>7, StateFacts DEF CallTypes
  <2>13. OffCpu(ps, sleepq', squeue', prsem', prhasmsg', frame')
    <3>1. \A x \in Pid : ps[x] = "WAIT" => prsem'[x] \in Sid
      BY <1>5, <1>7, StateFacts
    <3>2. QED
      BY <1>6, <1>8, <1>9, <2>5, <2>11, <3>1 DEF OffCpu
  <2>14. QED
    BY <1>4, <1>7, <2>6, <2>9, <2>10, <2>11, <2>12, <2>13, Reassemble
<1>17. QED
  BY <1>12, <1>13, <1>14, <1>15, <1>16 DEF KillFinish

\* The machine has stopped, or nothing happens.
LEMMA StutterStep ==
  ASSUME IInv, UNCHANGED vars
  PROVE  IInv'
BY SMTT(30) DEF vars, procVars, semVars, sleepVars, schedVars, IInv, TypeOK, ProcTypes, SemTypes,
       SleepTypes, SchedTypes, CallTypes, OnCpu, OffCpu, FramesOK, SemInv, DeferralBalanced,
       SemaphoreCounts, Resetting, DeletedSemaphoresEmpty, SemdeleteDone, In
-----------------------------------------------------------------------------
(* The clock.                                                              *)

LEMMA TickStep ==
  ASSUME IInv, Tick
  PROVE  IInv'
<1> DEFINE head == Head(sleepq)
<1>1. /\ frame[currpid].at = "user" /\ frame[currpid].at \notin LoopRoutines
      /\ UNCHANGED <<procVars, semVars, sleepq, prstate, readylist, currpid, preempt, prhasmsg>>
  BY DEF Tick, In, LoopRoutines
<1>2. qkey' = qkey \/ qkey' = [qkey EXCEPT ![head] = @ - 1]
  BY DEF Tick
<1>3. qkey' \in [Pid -> Int]
  BY <1>2, IInvFacts
<1>4. left' = left \/ left' = TickLeft
  BY DEF Tick
<1>5. left' \in [Pid -> Int]
  BY <1>4 DEF IInv, TypeOK, SleepTypes, TickLeft
<1>6. \/ DeferStart /\ Goto(Frame("wakeup", 0, 0))
      \/ Goto(Frame("clkhandler", 0, 0)) /\ UNCHANGED <<ndefers, attempt>>
  BY DEF Tick
<1>7. \A s \in Sid : sstate' = sstate /\ sstate' \in [Sid -> {"FREE", "USED"}]
  BY <1>1, SemTables DEF semVars
<1>8. CASE DeferStart /\ Goto(Frame("wakeup", 0, 0))
  <2> DEFINE f == Frame("wakeup", 0, 0)
  <2>1. FrameOK(f) /\ f.at = "wakeup" /\ f.at \in LoopRoutines
    BY PlainFrame DEF Routine, LoopRoutines
  <2>2. Goto(f)
    BY <1>8
  <2> HIDE DEF f
  <2>3. /\ UNCHANGED <<procVars, squeue, scount, nextsem, sleepq, prstate, readylist,
                       currpid, preempt, prhasmsg>>
        /\ sstate' = sstate /\ sstate' \in [Sid -> {"FREE", "USED"}]
    BY <1>1, SemTables DEF semVars
  <2>4. QED
    BY <1>1, <1>3, <1>5, <1>8, <2>1, <2>2, <2>3, StartStep
<1>9. CASE Goto(Frame("clkhandler", 0, 0)) /\ UNCHANGED <<ndefers, attempt>>
  <2> DEFINE f == Frame("clkhandler", 0, 0)
  <2>1. FrameOK(f) /\ f.at = "clkhandler"
    BY PlainFrame DEF Routine
  <2>2. Goto(f)
    BY <1>9
  <2> HIDE DEF f
  <2>3. /\ frame' \in [Pid -> FrameSet] /\ FramesOK' /\ Quiet(frame')
        /\ frame'[currpid] = f
        /\ \A p \in Pid \ {currpid} : frame'[p] = frame[p]
    BY <1>1, <2>1, <2>2, QuietGoto DEF LoopRoutines
  <2>4. Scheduled(prstate)
    BY <1>1, <1>3, <1>9, IInvFacts, StaySchedules
  <2>5. SleepTypes' /\ Holds(sleepq', {x \in Pid : prstate[x] \in {"SLEEP", "RECTIM"}})
    BY <1>1, <1>5, SleepqKept
  <2>6. ProcTypes' /\ prsem' = prsem /\ prhasmsg' = prhasmsg /\ UNCHANGED <<semVars, ndefers>>
    BY <1>1, <1>9, ProcKept DEF procVars
  <2>7. \A p \in Pid : frame'[p].at = "receive" => prstate[p] \in {"RECV", "FREE"} \/ prhasmsg'[p]
    BY <2>1, <2>3, <2>6, StateFacts
  <2>8. QED
    BY <1>1, <2>3, <2>4, <2>5, <2>6, <2>7, StateFacts, QuietStep
<1>10. QED
  BY <1>6, <1>8, <1>9

\* wakeup makes the first sleeper ready.
LEMMA WakeupTurnStep ==
  ASSUME IInv, WakeupTurn
  PROVE  IInv'
<1> DEFINE h == Head(sleepq)
           ps == [prstate EXCEPT ![h] = "READY"]
           Sleepers == {x \in Pid : prstate[x] \in {"SLEEP", "RECTIM"}}
<1>1. /\ In("wakeup") /\ sleepq # <<>>
      /\ sleepq' = Tail(sleepq)
      /\ left' = [left EXCEPT ![h] = 0]
      /\ Ready(h, qkey)
      /\ UNCHANGED <<procVars, semVars, prhasmsg, ndefers, frame>>
  BY DEF WakeupTurn, Due
<1>2. ndefers # 0
  BY <1>1, LoopFacts DEF In, LoopRoutines
<1>3. h \in Pid /\ h \in Sleepers /\ Tail(sleepq) \in Seq(Pid) /\ Holds(Tail(sleepq), Sleepers \ {h})
  <2>1. Holds(sleepq, Sleepers) /\ sleepq \in Seq(Pid)
    BY DEF IInv, OffCpu, TypeOK, SleepTypes
  <2> HIDE DEF Sleepers
  <2>2. QED
    BY <1>1, <2>1, TailHolds
<1> HIDE DEF h
<1>4. prstate[h] \in {"SLEEP", "RECTIM"}
  BY <1>3
<1>5. Scheduled(ps) /\ currpid' = currpid
  <2>1. Ready(h, qkey)
    BY <1>1
  <2>2. currpid' = currpid
    BY <1>2, <2>1, DeferredStays DEF Ready
  <2>3. QED
    BY <1>3, <1>4, <2>1, <2>2, IInvFacts, ReadySchedules
<1>6. \A x \in Pid : ps[x] = IF x = h THEN "READY" ELSE prstate[x]
  BY IInvFacts
<1> HIDE DEF ps
<1>7. Sleepers \ {h} = {x \in Pid : ps[x] \in {"SLEEP", "RECTIM"}}
  BY <1>6
<1>8. Holds(sleepq', {x \in Pid : ps[x] \in {"SLEEP", "RECTIM"}}) /\ sleepq' \in Seq(Pid)
  BY <1>1, <1>3, <1>7
<1>9. SleepTypes'
  <2>1. left \in [Pid -> Int]
    BY DEF IInv, TypeOK, SleepTypes
  <2>2. left' = [left EXCEPT ![h] = 0]
    BY <1>1 DEF h
  <2>3. [left EXCEPT ![h] = 0] \in [Pid -> Int]
    <3>1. 0 \in Int
      OBVIOUS
    <3>2. QED
      BY <2>1, <3>1, UpdateInt
  <2>4. QED
    BY <1>8, <2>2, <2>3 DEF SleepTypes
<1>10. /\ squeue' = squeue /\ scount' = scount /\ sstate' = sstate /\ ndefers' = ndefers
       /\ frame' = frame /\ prhasmsg' = prhasmsg /\ prsem' = prsem
  BY <1>1 DEF procVars, semVars
<1>11. SemInv'
  BY <1>5, <1>10 DEF IInv, SemInv, DeferralBalanced, SemaphoreCounts, Resetting,
                     DeletedSemaphoresEmpty, SemdeleteDone, In
<1>12. \A t \in Sid : Holds(squeue'[t], {x \in Pid : ps[x] = "WAIT" /\ prsem'[x] = t})
  <2>1. ASSUME NEW t \in Sid
        PROVE  Holds(squeue'[t], {x \in Pid : ps[x] = "WAIT" /\ prsem'[x] = t})
    <3>1. {x \in Pid : ps[x] = "WAIT" /\ prsem'[x] = t} = {x \in Pid : prstate[x] = "WAIT" /\ prsem[x] = t}
      BY <1>4, <1>6, <1>10
    <3>2. QED
      BY <1>10, <3>1, SemFacts
  <2>2. QED
    BY <2>1
<1>13. /\ ps[NULLPROC] \in {"CURR", "READY"}
       /\ \A x \in Pid : ps[x] = "WAIT" => prsem'[x] \in Sid
       /\ \A x \in Pid : ps[x] \in {"RECV", "RECTIM"} => ~prhasmsg'[x]
       /\ \A x \in Pid : frame'[x].at = "receive" => ps[x] \in {"RECV", "FREE"} \/ prhasmsg'[x]
  BY <1>4, <1>6, <1>10, StateFacts, IInvFacts
<1>14. OffCpu(ps, sleepq', squeue', prsem', prhasmsg', frame')
  BY <1>8, <1>12, <1>13 DEF OffCpu
<1>15. ProcTypes' /\ SemTypes' /\ CallTypes' /\ FramesOK'
  BY <1>1, <1>10, ProcKept, SemKept, FramesKept, StateFacts, IInvFacts DEF CallTypes
<1>16. QED
  BY <1>5, <1>9, <1>11, <1>14, <1>15, Reassemble

LEMMA WakeupStopStep ==
  ASSUME IInv, WakeupStop
  PROVE  IInv'
<1>1. /\ In("wakeup") /\ DeferStop /\ Goto(Frame("clkhandler", 0, 0))
      /\ UNCHANGED <<procVars, semVars, sleepVars, prhasmsg>>
  BY DEF WakeupStop
<1>2. frame[currpid].at \in LoopRoutines /\ frame[currpid].at # "batch_signaln"
  BY <1>1 DEF In, LoopRoutines
<1>3. Settled(squeue, scount, sstate)
  <2>1. ~In("semreset") /\ ~In("semdelete")
    BY <1>1 DEF In
  <2>2. QED
    BY <2>1 DEF IInv, SemInv, SemaphoreCounts, Resetting, DeletedSemaphoresEmpty, Settled
<1>4. UNCHANGED <<procVars, squeue, sstate, nextsem, sleepVars, prhasmsg>> /\ scount' = scount
  BY <1>1 DEF semVars
<1>5. QED
  BY <1>1, <1>2, <1>3, <1>4, SemTables, StopStep

LEMMA ClockPreemptStep ==
  ASSUME IInv, ClockPreempt
  PROVE  IInv'
<1>1. /\ frame[currpid].at \notin LoopRoutines /\ Goto(User)
      /\ UNCHANGED <<procVars, semVars, sleepVars, prhasmsg, ndefers>>
  BY DEF ClockPreempt, In, LoopRoutines
<1>2. /\ frame' \in [Pid -> FrameSet] /\ FramesOK' /\ Quiet(frame')
      /\ frame'[currpid] = User
      /\ \A p \in Pid \ {currpid} : frame'[p] = frame[p]
  BY <1>1, UserFrame, QuietGoto DEF LoopRoutines
<1>3. Scheduled(prstate)
  <2>1. CASE Resched(prstate, readylist, qkey, QUANTUM)
    <3>1. QUANTUM \in 1..QUANTUM /\ "CURR" \in PrState \ {"READY"}
      BY SizesAssumption DEF PrState
    <3>2. [prstate EXCEPT ![currpid] = "CURR"] = prstate
      BY IInvFacts
    <3>3. QED
      BY <2>1, <3>1, <3>2, IInvFacts, BlockSchedules
  <2>2. CASE /\ preempt - 1 # 0 /\ preempt' = preempt - 1
             /\ UNCHANGED <<prstate, qkey, readylist, currpid, attempt>>
    <3>1. preempt' \in 1..QUANTUM
      BY <2>2, IInvFacts, SizesAssumption
    <3>2. QED
      BY <2>2, <3>1, IInvFacts, StaySchedules
  <2>3. QED
    BY <2>1, <2>2 DEF ClockPreempt
<1>4. SleepTypes' /\ Holds(sleepq', {x \in Pid : prstate[x] \in {"SLEEP", "RECTIM"}})
  BY <1>1, SleepKept
<1>5. ProcTypes' /\ prsem' = prsem /\ prhasmsg' = prhasmsg
  BY <1>1, ProcKept DEF procVars
<1>6. \A p \in Pid : frame'[p].at = "receive" => prstate[p] \in {"RECV", "FREE"} \/ prhasmsg'[p]
  BY <1>2, <1>5, StateFacts, UserFrame
<1>7. QED
  BY <1>1, <1>2, <1>3, <1>4, <1>5, <1>6, StateFacts, QuietStep
-----------------------------------------------------------------------------
(* The theorems.                                                           *)

LEMMA NextStep ==
  ASSUME IInv, Next
  PROVE  IInv'
<1>1. CASE ProcessStep
  BY <1>1, CreateStep, ResumeStep, SuspendStep, KillStartStep, SendStep, ChprioStep, YieldStep,
     ReceiveAtOnceStep, ReceiveBlockStep, RecvtimeBlockStep, SleepmsStep DEF ProcessStep
<1>2. CASE SemaphoreStep
  BY <1>2, SemcreateStep, WaitStep, SignalStep, SemdeleteStartStep, SignalnStartStep,
     SemresetStartStep DEF SemaphoreStep
<1>3. CASE KernelStep
  BY <1>3, ReceiveReturnStep, KillFinishStep, StutterStep, SignalnTurnStep, SemdeleteTurnStep,
     LoopStopStep, SemresetTurnStep, SemresetStopStep, WakeupTurnStep, WakeupStopStep,
     ClockPreemptStep, BatchSignalStep, BatchSignalnStartStep, BatchSignalnStopStep,
     BatchStopStep DEF KernelStep, Halted
<1>4. CASE Tick \/ BatchStart
  BY <1>4, TickStep, BatchStartStep
<1>5. QED
  BY <1>1, <1>2, <1>3, <1>4 DEF Next

\* The inductive invariant holds in every reachable state.
THEOREM Invariance == Spec => []IInv
<1>1. IInv /\ [Next]_vars => IInv'
  BY NextStep, StutterStep
<1>2. QED
  BY InitStep, <1>1, PTL DEF Spec

\* Every table, list, counter and frame keeps its type, and every key of a list is
\* a number, for any number of processes and semaphores.
THEOREM TypeCorrectness == Spec => []TypeOK
<1>1. IInv => TypeOK
  BY DEF IInv
<1>2. QED
  BY <1>1, Invariance, PTL

\* A process is in the list its state and prsem name, in no other and only once.
THEOREM ListsMatchStates == Spec => []QueuesMatchStates
<1>1. ASSUME IInv PROVE QueuesMatchStates
  <2>1. {p \in Pid : prstate[p] = "CURR"} = {currpid}
    BY <1>1, IInvFacts
  <2>2. QED
    BY <1>1, <2>1 DEF IInv, OnCpu, OffCpu, QueuesMatchStates
<1>2. QED
  BY <1>1, Invariance, PTL

\* A negative semaphore count is the number of its waiters, except while semreset
\* empties the list, and nobody waits on a semaphore that has been deleted.
THEOREM SemaphoreListsAgree == Spec => []SemaphoreLists
<1>1. IInv => SemaphoreLists
  BY DEF IInv, SemInv, SemaphoreLists
<1>2. QED
  BY <1>1, Invariance, PTL

\* There is always a process to run: the null process is running or ready.
THEOREM AlwaysSomebodyToRun == Spec => []CpuNeverIdle
<1>1. ASSUME IInv PROVE CpuNeverIdle
  BY <1>1, ReadyNotEmpty, StateFacts DEF CpuNeverIdle
<1>2. QED
  BY <1>1, Invariance, PTL

\* Rescheduling is deferred once for every loop the running process is inside of,
\* twice when the loop of an interrupt handler has called signaln, and not at all
\* otherwise; nobody else is inside one.
THEOREM DeferralMatchesLoops == Spec => []DeferralBalanced
<1>1. IInv => DeferralBalanced
  BY DEF IInv, SemInv
<1>2. QED
  BY <1>1, Invariance, PTL

\* No process waits for a message that it already has, and nobody is made ready again
\* in receive without one.
THEOREM MessagesArrive == Spec => []MessagesFound
<1>1. ASSUME IInv PROVE MessagesFound
  <2>1. NoMissedMessage
    BY <1>1, StateFacts DEF NoMissedMessage
  <2>2. ReceiveFindsMessage
    BY <1>1, StateFacts DEF ReceiveFindsMessage
  <2>3. QED
    BY <2>1, <2>2 DEF MessagesFound
<1>2. QED
  BY <1>1, Invariance, PTL
=============================================================================
