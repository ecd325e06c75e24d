--------------------------- MODULE QueueTheorems ----------------------------
(***************************************************************************)
(* The links of the queue table implement lists.  TableSound, which says   *)
(* that the links of each queue lead along the processes whose states name *)
(* it and back, is inductive.  From it follows, loop by loop, where each   *)
(* routine links a process in or out, and so that each call does to the    *)
(* lists what ProcessQueues says.                                          *)
(***************************************************************************)
EXTENDS QueueTab, SequenceLemmas

-----------------------------------------------------------------------------
(* The entries of the table.                                               *)

LEMMA TableFacts ==
  /\ NPROC \in Nat \ {0} /\ NQENT \in Nat /\ EMPTY \in Int /\ EMPTY \notin Node
  /\ EMPTY \notin Queue /\ NQENT \notin Queue
  /\ MINKEY \in Int /\ MAXKEY \in Int
  /\ readylist \in Queue /\ sleepq \in Queue /\ SemQueue \subseteq Queue
  /\ sleepq + 2 = NQENT /\ readylist + 2 = sleepq
  /\ \A p \in Proc : p \in Node /\ p \in Nat /\ p < NPROC
<1>1. /\ NPROC \in Nat \ {0} /\ NSEM \in Nat /\ MINKEY \in Int /\ MAXKEY \in Int
  BY TableSizes
<1>2. NQENT \in Nat /\ EMPTY \in Int /\ EMPTY \notin Node
  BY <1>1 DEF NQENT, EMPTY, Node
<1>3. /\ readylist = NPROC + 2*NSEM /\ sleepq = NPROC + 2*NSEM + 2
      /\ NQENT = NPROC + 2*NSEM + 4
  BY <1>1 DEF readylist, sleepq, NQENT
<1>4. \A s \in 0 .. NSEM-1 : NPROC + 2*s < NPROC + 2*NSEM /\ NPROC + 2*s >= 1
  BY <1>1
<1>5. EMPTY \notin Queue /\ NQENT \notin Queue
  BY <1>1, <1>3, <1>4 DEF Queue, SemQueue, EMPTY
<1>6. \A p \in Proc : p \in Node /\ p \in Nat /\ p < NPROC
  BY <1>1, <1>3 DEF Proc, Node
<1> QED BY <1>1, <1>2, <1>3, <1>5, <1>6 DEF Queue

\* The heads and tails of the queues are different entries, and none is a process.
LEMMA QueueFacts ==
  ASSUME NEW q \in Queue
  PROVE  /\ q \in Nat /\ q >= NPROC /\ q + 1 < NQENT /\ q \in Node /\ q + 1 \in Node
         /\ q \notin Proc /\ q + 1 \notin Proc /\ q # q + 1
         /\ \A t \in Queue : t # q => t # q + 1 /\ t + 1 # q /\ t + 1 # q + 1
<1>1. NPROC \in Nat \ {0} /\ NSEM \in Nat
  BY TableSizes
<1>2. \A t \in Queue : \E s \in 0 .. NSEM+1 : t = NPROC + 2*s
  <2>1. readylist = NPROC + 2*NSEM /\ NSEM \in 0 .. NSEM+1
    BY <1>1 DEF readylist
  <2>2. sleepq = NPROC + 2*(NSEM+1) /\ NSEM+1 \in 0 .. NSEM+1
    BY <1>1 DEF readylist, sleepq
  <2>3. \A t \in SemQueue : \E s \in 0 .. NSEM+1 : t = NPROC + 2*s
    <3>1. 0 .. NSEM-1 \subseteq 0 .. NSEM+1
      BY <1>1
    <3> QED BY <3>1 DEF SemQueue
  <2> QED BY <2>1, <2>2, <2>3 DEF Queue
<1>3. PICK m \in 0 .. NSEM+1 : q = NPROC + 2*m
  BY <1>2
<1>4. NQENT = NPROC + 2*NSEM + 4
  BY <1>1 DEF NQENT
<1>5. q \in Nat /\ q >= NPROC /\ q + 1 < NQENT
  BY <1>1, <1>3, <1>4
<1>6. /\ q \in Node /\ q + 1 \in Node /\ q \notin Proc /\ q + 1 \notin Proc /\ q # q + 1
  BY <1>1, <1>4, <1>5 DEF Node, Proc
<1>7. ASSUME NEW t \in Queue, t # q
      PROVE  t # q + 1 /\ t + 1 # q /\ t + 1 # q + 1
  <2>1. PICK n \in 0 .. NSEM+1 : t = NPROC + 2*n
    BY <1>2
  <2>2. m \in Int /\ n \in Int /\ m # n
    BY <1>1, <1>3, <1>7, <2>1
  <2> QED BY <1>1, <1>3, <2>1, <2>2
<1> QED BY <1>5, <1>6, <1>7

\* A list of processes, each of them once, is no longer than the table of processes.
LEMMA ListFacts ==
  ASSUME NEW s \in Seq(Proc), IsInjective(s)
  PROVE  /\ Len(s) \in Nat /\ DOMAIN s = 1 .. Len(s) /\ Len(s) <= NPROC
         /\ \A i \in 1 .. Len(s) : s[i] \in Proc /\ s[i] \in Range(s)
         /\ \A i, j \in 1 .. Len(s) : s[i] = s[j] => i = j
         /\ \A p \in Range(s) : p \in Proc /\ \E i \in 1 .. Len(s) : s[i] = p
<1>1. Len(s) \in Nat /\ DOMAIN s = 1 .. Len(s)
  BY LenProperties
<1>2. \A i \in 1 .. Len(s) : s[i] \in Proc /\ s[i] \in Range(s)
  BY <1>1, ElementOfSeq DEF Range
<1>3. \A i, j \in 1 .. Len(s) : s[i] = s[j] => i = j
  BY <1>1 DEF IsInjective
<1>4. \A p \in Range(s) : p \in Proc /\ \E i \in 1 .. Len(s) : s[i] = p
  BY <1>1, <1>2 DEF Range
<1>5. Len(s) <= NPROC
  <2>1. IsFiniteSet(Range(s)) /\ Cardinality(Range(s)) = Len(s)
    BY ListCounted
  <2>2. IsFiniteSet(Proc) /\ Cardinality(Proc) = NPROC
    <3>1. 0 \in Int /\ NPROC - 1 \in Int /\ (NPROC - 1) - 0 + 1 = NPROC /\ 0 <= NPROC - 1
      BY TableSizes
    <3>2. IsFiniteSet(0 .. NPROC-1) /\ Cardinality(0 .. NPROC-1) = NPROC
      BY <3>1, FS_Interval
    <3> QED BY <3>2 DEF Proc
  <2>3. Range(s) \subseteq Proc
    BY <1>4
  <2> QED BY <2>1, <2>2, <2>3, FS_Subset
<1> QED BY <1>1, <1>2, <1>3, <1>4, <1>5

\* The entries of a queue: its head, the processes of its list, its tail, all different.
LEMMA NodeFacts ==
  ASSUME NEW q \in Queue, NEW s \in Seq(Proc), IsInjective(s)
  PROVE  /\ NodeOf(q, s, 0) = q /\ NodeOf(q, s, Len(s)+1) = q + 1
         /\ \A i \in 1 .. Len(s) : NodeOf(q, s, i) = s[i]
         /\ \A i \in 0 .. Len(s)+1 : NodeOf(q, s, i) \in Node
         /\ \A i, j \in 0 .. Len(s)+1 : NodeOf(q, s, i) = NodeOf(q, s, j) => i = j
<1>1. /\ Len(s) \in Nat /\ \A i \in 1 .. Len(s) : s[i] \in Proc
      /\ \A i, j \in 1 .. Len(s) : s[i] = s[j] => i = j
  BY ListFacts
<1>2. /\ q \in Node /\ q + 1 \in Node /\ q \notin Proc /\ q + 1 \notin Proc /\ q # q + 1
  BY QueueFacts
<1>3. NodeOf(q, s, 0) = q /\ NodeOf(q, s, Len(s)+1) = q + 1
  BY <1>1 DEF NodeOf, queuehead, queuetail
<1>4. \A i \in 1 .. Len(s) : NodeOf(q, s, i) = s[i]
  BY <1>1 DEF NodeOf
<1>5. \A i \in 0 .. Len(s)+1 : i = 0 \/ i = Len(s)+1 \/ i \in 1 .. Len(s)
  BY <1>1
<1>6. \A i \in 0 .. Len(s)+1 : NodeOf(q, s, i) \in Node
  BY <1>1, <1>2, <1>3, <1>4, <1>5, TableFacts
<1>7. ASSUME NEW i \in 0 .. Len(s)+1, NEW j \in 0 .. Len(s)+1, NodeOf(q, s, i) = NodeOf(q, s, j)
      PROVE  i = j
  <2>1. CASE i \in 1 .. Len(s)
    <3>1. j \in 1 .. Len(s)
      BY <1>1, <1>2, <1>3, <1>4, <1>5, <1>7, <2>1
    <3> QED BY <1>1, <1>4, <1>7, <2>1, <3>1
  <2>2. CASE i = 0 \/ i = Len(s)+1
    <3>1. j = 0 \/ j = Len(s)+1
      BY <1>1, <1>2, <1>3, <1>4, <1>5, <1>7, <2>2
    <3> QED BY <1>2, <1>3, <1>7, <2>2, <3>1
  <2> QED BY <1>5, <2>1, <2>2
<1> QED BY <1>3, <1>4, <1>6, <1>7

\* The entries of two queues without a common process are different.
LEMMA NodesApart ==
  ASSUME NEW q \in Queue, NEW s \in Seq(Proc), IsInjective(s),
         NEW t \in Queue, t # q, NEW u \in Seq(Proc), IsInjective(u),
         Range(s) \cap Range(u) = {},
         NEW i \in 0 .. Len(s)+1, NEW j \in 0 .. Len(u)+1
  PROVE  NodeOf(q, s, i) # NodeOf(t, u, j)
<1>1. /\ q \notin Proc /\ q + 1 \notin Proc /\ t \notin Proc /\ t + 1 \notin Proc
      /\ t # q + 1 /\ t + 1 # q /\ t + 1 # q + 1
  BY QueueFacts
<1>2. /\ \A m \in 1 .. Len(s) : s[m] \in Range(s) /\ s[m] \in Proc
      /\ \A m \in 1 .. Len(u) : u[m] \in Range(u) /\ u[m] \in Proc
      /\ Len(s) \in Nat /\ Len(u) \in Nat
  BY ListFacts
<1>3. NodeOf(q, s, i) \in {q, q + 1} \/ NodeOf(q, s, i) \in Range(s) \cap Proc
  <2>1. i = 0 \/ i = Len(s)+1 \/ i \in 1 .. Len(s)
    BY <1>2
  <2> QED BY <1>2, <2>1, NodeFacts
<1>4. NodeOf(t, u, j) \in {t, t + 1} \/ NodeOf(t, u, j) \in Range(u) \cap Proc
  <2>1. j = 0 \/ j = Len(u)+1 \/ j \in 1 .. Len(u)
    BY <1>2
  <2> QED BY <1>2, <2>1, NodeFacts
<1> QED BY <1>1, <1>3, <1>4
-----------------------------------------------------------------------------
(* Linking in and out.                                                     *)

\* The links of table tab for queue q lead along s and back.
Links(tab, q, s) ==
  \A i \in 0 .. Len(s) :
    /\ tab[NodeOf(q, s, i)].qnext = NodeOf(q, s, i+1)
    /\ tab[NodeOf(q, s, i+1)].qprev = NodeOf(q, s, i)

\* Table new differs from old at most in the link of prev to its successor, in that of
\* next to its predecessor, and in the links of p.
Relinked(old, new, prev, p, next) ==
  /\ \A n \in Node \ {p, prev} : new[n].qnext = old[n].qnext
  /\ \A n \in Node \ {p, next} : new[n].qprev = old[n].qprev

\* The entries of a list into which a process is inserted.
LEMMA NodesInserted ==
  ASSUME NEW q \in Queue, NEW s \in Seq(Proc), IsInjective(s), NEW r \in Seq(Proc),
         NEW p \in Proc, NEW i \in 1 .. Len(s)+1, Inserted(r, s, i, p)
  PROVE  /\ Len(r) = Len(s) + 1
         /\ \A j \in 0 .. Len(s)+2 :
              NodeOf(q, r, j) = IF j < i THEN NodeOf(q, s, j)
                                ELSE IF j = i THEN p ELSE NodeOf(q, s, j-1)
<1>1. /\ Len(s) \in Nat /\ Len(r) = Len(s) + 1
      /\ \A j \in 1 .. Len(s)+1 : r[j] = IF j < i THEN s[j] ELSE IF j = i THEN p ELSE s[j-1]
  BY LenProperties DEF Inserted
<1>2. /\ NodeOf(q, s, 0) = q /\ NodeOf(q, s, Len(s)+1) = q + 1
      /\ \A j \in 1 .. Len(s) : NodeOf(q, s, j) = s[j]
  BY NodeFacts
<1>3. ASSUME NEW j \in 0 .. Len(s)+2
      PROVE  NodeOf(q, r, j) = IF j < i THEN NodeOf(q, s, j)
                               ELSE IF j = i THEN p ELSE NodeOf(q, s, j-1)
  <2>1. CASE j = 0
    <3>1. NodeOf(q, r, j) = q
      BY <2>1 DEF NodeOf, queuehead
    <3>2. j < i
      BY <1>1, <2>1
    <3> QED BY <1>2, <2>1, <3>1, <3>2
  <2>2. CASE j = Len(s)+2
    <3>1. j = Len(r)+1 /\ j # 0 /\ ~(j < i) /\ j # i /\ j-1 = Len(s)+1
      BY <1>1, <2>2
    <3>2. NodeOf(q, r, j) = q + 1
      BY <3>1 DEF NodeOf, queuetail
    <3> QED BY <1>2, <3>1, <3>2
  <2>3. CASE j \in 1 .. Len(s)+1
    <3>1. j # 0 /\ j # Len(r)+1
      BY <1>1, <2>3
    <3>2. NodeOf(q, r, j) = r[j]
      BY <3>1 DEF NodeOf
    <3>3. CASE j < i
      <4>1. j \in 1 .. Len(s)
        BY <1>1, <2>3, <3>3
      <4> QED BY <1>1, <1>2, <2>3, <3>2, <3>3, <4>1
    <3>4. CASE j = i
      BY <1>1, <3>2, <3>4
    <3>5. CASE j > i
      <4>1. j-1 \in 1 .. Len(s) /\ ~(j < i) /\ j # i
        BY <1>1, <2>3, <3>5
      <4>2. r[j] = s[j-1]
        BY <1>1, <2>3, <4>1
      <4> QED BY <1>2, <3>2, <4>1, <4>2
    <3> QED BY <1>1, <2>3, <3>3, <3>4, <3>5
  <2>4. j = 0 \/ j = Len(s)+2 \/ j \in 1 .. Len(s)+1
    BY <1>1
  <2> QED BY <2>1, <2>2, <2>3, <2>4
<1> QED BY <1>1, <1>3

\* Linked in between two neighbours, a process is in the list between them.
LEMMA LinkIn ==
  ASSUME NEW q \in Queue, NEW s \in Seq(Proc), IsInjective(s), NEW r \in Seq(Proc),
         NEW p \in Proc, p \notin Range(s), NEW i \in 1 .. Len(s)+1, Inserted(r, s, i, p),
         NEW old, NEW new, Links(old, q, s),
         Relinked(old, new, NodeOf(q, s, i-1), p, NodeOf(q, s, i)),
         new[NodeOf(q, s, i-1)].qnext = p, new[p].qprev = NodeOf(q, s, i-1),
         new[p].qnext = NodeOf(q, s, i), new[NodeOf(q, s, i)].qprev = p
  PROVE  Links(new, q, r)
<1>1. /\ Len(s) \in Nat /\ Len(r) = Len(s) + 1
      /\ \A j \in 0 .. Len(s)+2 :
           NodeOf(q, r, j) = IF j < i THEN NodeOf(q, s, j)
                             ELSE IF j = i THEN p ELSE NodeOf(q, s, j-1)
  BY NodesInserted, LenProperties
<1>2. /\ \A j \in 0 .. Len(s)+1 : NodeOf(q, s, j) \in Node /\ NodeOf(q, s, j) # p
      /\ \A j, m \in 0 .. Len(s)+1 : NodeOf(q, s, j) = NodeOf(q, s, m) => j = m
  <2>1. \A j \in 1 .. Len(s) : s[j] \in Range(s)
    BY ListFacts
  <2>2. ASSUME NEW j \in 0 .. Len(s)+1 PROVE NodeOf(q, s, j) # p
    <3>1. j = 0 \/ j = Len(s)+1 \/ j \in 1 .. Len(s)
      BY <1>1
    <3> QED BY <2>1, <3>1, NodeFacts, QueueFacts
  <2> QED BY <2>2, NodeFacts
<1>3. ASSUME NEW j \in 0 .. Len(s)+1
      PROVE  /\ new[NodeOf(q, r, j)].qnext = NodeOf(q, r, j+1)
             /\ new[NodeOf(q, r, j+1)].qprev = NodeOf(q, r, j)
  <2>1. CASE j < i - 1
    <3>1. /\ j \in 0 .. Len(s) /\ j \in 0 .. Len(s)+2 /\ j+1 \in 0 .. Len(s)+2
          /\ j \in 0 .. Len(s)+1 /\ j+1 \in 0 .. Len(s)+1
          /\ i-1 \in 0 .. Len(s)+1 /\ i \in 0 .. Len(s)+1
          /\ j < i /\ j+1 < i /\ j # i-1 /\ j+1 # i
      BY <1>1, <2>1
    <3>2. NodeOf(q, r, j) = NodeOf(q, s, j) /\ NodeOf(q, r, j+1) = NodeOf(q, s, j+1)
      BY <1>1, <3>1
    <3>3. /\ NodeOf(q, s, j) \in Node \ {p, NodeOf(q, s, i-1)}
          /\ NodeOf(q, s, j+1) \in Node \ {p, NodeOf(q, s, i)}
      BY <1>2, <3>1
    <3> QED BY <3>1, <3>2, <3>3 DEF Links, Relinked
  <2>2. CASE j = i - 1
    <3>1. /\ j \in 0 .. Len(s)+2 /\ j+1 \in 0 .. Len(s)+2 /\ j < i /\ j+1 = i /\ ~(i < i)
      BY <1>1, <2>2
    <3>2. NodeOf(q, r, j) = NodeOf(q, s, i-1) /\ NodeOf(q, r, j+1) = p
      BY <1>1, <2>2, <3>1
    <3> QED BY <3>2
  <2>3. CASE j = i
    <3>1. /\ j \in 0 .. Len(s)+2 /\ j+1 \in 0 .. Len(s)+2 /\ ~(j < i) /\ ~(j+1 < i)
          /\ j+1 # i /\ (j+1)-1 = i
      BY <1>1, <2>3
    <3>2. NodeOf(q, r, j) = p /\ NodeOf(q, r, j+1) = NodeOf(q, s, i)
      BY <1>1, <2>3, <3>1
    <3> QED BY <3>2
  <2>4. CASE j > i
    <3>1. /\ j-1 \in 0 .. Len(s) /\ j \in 0 .. Len(s)+2 /\ j+1 \in 0 .. Len(s)+2
          /\ j-1 \in 0 .. Len(s)+1 /\ j \in 0 .. Len(s)+1
          /\ i-1 \in 0 .. Len(s)+1 /\ i \in 0 .. Len(s)+1
          /\ ~(j < i) /\ j # i /\ ~(j+1 < i) /\ j+1 # i /\ (j+1)-1 = j
          /\ j-1 # i-1 /\ (j-1)+1 = j
      BY <1>1, <2>4
    <3>2. NodeOf(q, r, j) = NodeOf(q, s, j-1) /\ NodeOf(q, r, j+1) = NodeOf(q, s, j)
      <4>1. NodeOf(q, r, j) = NodeOf(q, s, j-1)
        BY <1>1, <3>1
      <4>2. NodeOf(q, r, j+1) = NodeOf(q, s, (j+1)-1)
        BY <1>1, <3>1
      <4> QED BY <3>1, <4>1, <4>2
    <3>3. /\ NodeOf(q, s, j-1) \in Node \ {p, NodeOf(q, s, i-1)}
          /\ NodeOf(q, s, j) \in Node \ {p, NodeOf(q, s, i)}
      BY <1>2, <3>1
    <3>4. /\ old[NodeOf(q, s, j-1)].qnext = NodeOf(q, s, (j-1)+1)
          /\ old[NodeOf(q, s, (j-1)+1)].qprev = NodeOf(q, s, j-1)
      BY <3>1 DEF Links
    <3> QED BY <3>1, <3>2, <3>3, <3>4 DEF Relinked
  <2>5. j < i-1 \/ j = i-1 \/ j = i \/ j > i
    BY <1>1
  <2> QED BY <2>1, <2>2, <2>3, <2>4, <2>5
<1>4. Len(r) = Len(s)+1
  BY <1>1
<1> QED BY <1>3, <1>4 DEF Links

\* The entries of a list from which a process is removed.
LEMMA NodesRemoved ==
  ASSUME NEW q \in Queue, NEW s \in Seq(Proc), IsInjective(s), NEW r \in Seq(Proc),
         NEW i \in 1 .. Len(s), Removed(r, s, i)
  PROVE  /\ Len(r) = Len(s) - 1
         /\ \A j \in 0 .. Len(s) :
              NodeOf(q, r, j) = IF j < i THEN NodeOf(q, s, j) ELSE NodeOf(q, s, j+1)
<1>1. /\ Len(s) \in Nat /\ Len(r) = Len(s) - 1 /\ Len(r) \in Nat
      /\ \A j \in 1 .. Len(s)-1 : r[j] = IF j < i THEN s[j] ELSE s[j+1]
  BY LenProperties DEF Removed
<1>2. /\ NodeOf(q, s, 0) = q /\ NodeOf(q, s, Len(s)+1) = q + 1
      /\ \A j \in 1 .. Len(s) : NodeOf(q, s, j) = s[j]
  BY NodeFacts
<1>3. ASSUME NEW j \in 0 .. Len(s)
      PROVE  NodeOf(q, r, j) = IF j < i THEN NodeOf(q, s, j) ELSE NodeOf(q, s, j+1)
  <2>1. CASE j = 0
    <3>1. NodeOf(q, r, j) = q
      BY <2>1 DEF NodeOf, queuehead
    <3>2. j < i
      BY <1>1, <2>1
    <3> QED BY <1>2, <2>1, <3>1, <3>2
  <2>2. CASE j = Len(s)
    <3>1. j = Len(r)+1 /\ j # 0 /\ ~(j < i)
      BY <1>1, <2>2
    <3>2. NodeOf(q, r, j) = q + 1
      BY <3>1 DEF NodeOf, queuetail
    <3> QED BY <1>2, <2>2, <3>1, <3>2
  <2>3. CASE j \in 1 .. Len(s)-1
    <3>1. j # 0 /\ j # Len(r)+1 /\ j \in 1 .. Len(s) /\ j+1 \in 1 .. Len(s)
      BY <1>1, <2>3
    <3>2. NodeOf(q, r, j) = r[j]
      BY <3>1 DEF NodeOf
    <3> QED BY <1>1, <1>2, <2>3, <3>1, <3>2
  <2>4. j = 0 \/ j = Len(s) \/ j \in 1 .. Len(s)-1
    BY <1>1
  <2> QED BY <2>1, <2>2, <2>3, <2>4
<1> QED BY <1>1, <1>3

\* Once its neighbours are linked to each other, a process is not in the list.
LEMMA LinkOut ==
  ASSUME NEW q \in Queue, NEW s \in Seq(Proc), IsInjective(s), NEW r \in Seq(Proc),
         NEW i \in 1 .. Len(s), Removed(r, s, i),
         NEW old, NEW new, Links(old, q, s),
         Relinked(old, new, NodeOf(q, s, i-1), s[i], NodeOf(q, s, i+1)),
         new[NodeOf(q, s, i-1)].qnext = NodeOf(q, s, i+1),
         new[NodeOf(q, s, i+1)].qprev = NodeOf(q, s, i-1)
  PROVE  Links(new, q, r)
<1>1. /\ Len(s) \in Nat /\ Len(r) = Len(s) - 1
      /\ \A j \in 0 .. Len(s) :
           NodeOf(q, r, j) = IF j < i THEN NodeOf(q, s, j) ELSE NodeOf(q, s, j+1)
  BY NodesRemoved, LenProperties
<1>2. /\ \A j \in 0 .. Len(s)+1 : NodeOf(q, s, j) \in Node
      /\ \A j, m \in 0 .. Len(s)+1 : NodeOf(q, s, j) = NodeOf(q, s, m) => j = m
      /\ NodeOf(q, s, i) = s[i]
  BY NodeFacts
<1>3. ASSUME NEW j \in 0 .. Len(s)-1
      PROVE  /\ new[NodeOf(q, r, j)].qnext = NodeOf(q, r, j+1)
             /\ new[NodeOf(q, r, j+1)].qprev = NodeOf(q, r, j)
  <2>0. /\ j \in 0 .. Len(s) /\ j+1 \in 0 .. Len(s) /\ j \in 0 .. Len(s)+1 /\ j+1 \in 0 .. Len(s)+1
        /\ (j+1)+1 \in 0 .. Len(s)+1
        /\ i-1 \in 0 .. Len(s)+1 /\ i \in 0 .. Len(s)+1 /\ i+1 \in 0 .. Len(s)+1
    BY <1>1
  <2>1. CASE j < i - 1
    <3>1. j < i /\ j+1 < i /\ j # i-1 /\ j # i /\ j+1 # i /\ j+1 # i+1
      BY <1>1, <2>1
    <3>2. NodeOf(q, r, j) = NodeOf(q, s, j) /\ NodeOf(q, r, j+1) = NodeOf(q, s, j+1)
      BY <1>1, <2>0, <3>1
    <3>3. /\ NodeOf(q, s, j) \in Node \ {s[i], NodeOf(q, s, i-1)}
          /\ NodeOf(q, s, j+1) \in Node \ {s[i], NodeOf(q, s, i+1)}
      BY <1>2, <2>0, <3>1
    <3> QED BY <2>0, <3>2, <3>3 DEF Links, Relinked
  <2>2. CASE j = i - 1
    <3>1. j < i /\ j+1 = i /\ ~(i < i)
      BY <1>1, <2>2
    <3>2. NodeOf(q, r, j) = NodeOf(q, s, i-1) /\ NodeOf(q, r, j+1) = NodeOf(q, s, i+1)
      BY <1>1, <2>0, <2>2, <3>1
    <3> QED BY <3>2
  <2>3. CASE j >= i
    <3>1. /\ ~(j < i) /\ ~(j+1 < i) /\ j+1 # i-1 /\ j+1 # i /\ (j+1)+1 # i /\ (j+1)+1 # i+1
      BY <1>1, <2>3
    <3>2. NodeOf(q, r, j) = NodeOf(q, s, j+1) /\ NodeOf(q, r, j+1) = NodeOf(q, s, (j+1)+1)
      BY <1>1, <2>0, <3>1
    <3>3. /\ NodeOf(q, s, j+1) \in Node \ {s[i], NodeOf(q, s, i-1)}
          /\ NodeOf(q, s, (j+1)+1) \in Node \ {s[i], NodeOf(q, s, i+1)}
      BY <1>2, <2>0, <3>1
    <3> QED BY <2>0, <3>2, <3>3 DEF Links, Relinked
  <2>4. j < i-1 \/ j = i-1 \/ j >= i
    BY <1>1
  <2> QED BY <2>1, <2>2, <2>3, <2>4
<1>4. Len(r) = Len(s)-1
  BY <1>1
<1> QED BY <1>3, <1>4 DEF Links

\* The links of the other queues stay as they are.
LEMMA LinksElsewhere ==
  ASSUME NEW q \in Queue, NEW s \in Seq(Proc), IsInjective(s),
         NEW t \in Queue, t # q, NEW u \in Seq(Proc), IsInjective(u),
         Range(s) \cap Range(u) = {}, NEW p \in Proc, p \notin Range(u),
         NEW i \in 0 .. Len(s)+1, NEW j \in 0 .. Len(s)+1,
         NEW old, NEW new, Links(old, t, u),
         Relinked(old, new, NodeOf(q, s, i), p, NodeOf(q, s, j))
  PROVE  Links(new, t, u)
<1>1. Len(u) \in Nat
  BY LenProperties
<1>2. ASSUME NEW m \in 0 .. Len(u)+1
      PROVE  NodeOf(t, u, m) \in Node \ {p, NodeOf(q, s, i), NodeOf(q, s, j)}
  <2>1. NodeOf(t, u, m) \in Node
    BY NodeFacts
  <2>2. NodeOf(t, u, m) # p
    <3>1. m = 0 \/ m = Len(u)+1 \/ m \in 1 .. Len(u)
      BY <1>1
    <3>2. \A n \in 1 .. Len(u) : u[n] \in Range(u)
      BY ListFacts
    <3> QED BY <3>1, <3>2, NodeFacts, QueueFacts
  <2>3. NodeOf(t, u, m) # NodeOf(q, s, i) /\ NodeOf(t, u, m) # NodeOf(q, s, j)
    BY NodesApart
  <2> QED BY <2>1, <2>2, <2>3
<1>3. ASSUME NEW m \in 0 .. Len(u)
      PROVE  /\ new[NodeOf(t, u, m)].qnext = NodeOf(t, u, m+1)
             /\ new[NodeOf(t, u, m+1)].qprev = NodeOf(t, u, m)
  <2>1. m \in 0 .. Len(u)+1 /\ m+1 \in 0 .. Len(u)+1
    BY <1>1
  <2>2. /\ new[NodeOf(t, u, m)].qnext = old[NodeOf(t, u, m)].qnext
        /\ new[NodeOf(t, u, m+1)].qprev = old[NodeOf(t, u, m+1)].qprev
    BY <1>2, <2>1 DEF Relinked
  <2> QED BY <2>2 DEF Links
<1> QED BY <1>3 DEF Links
-----------------------------------------------------------------------------
(* The loops.                                                              *)

\* A loop that leads along c stops at c[i].
Stops(after, c, i) == \A n \in 0 .. NPROC : after[n] = c[IF n < i-1 THEN n+1 ELSE i]

\* A loop whose body leads from c[1] to c[2] and so on, and leaves c[i] alone, stops
\* at c[i]: if some round came out elsewhere, so would have the one before.
LEMMA LoopStops ==
  ASSUME NEW body, NEW c, NEW i \in 1 .. NPROC+1,
         \A j \in 1 .. i-1 : body[c[j]] = c[j+1], body[c[i]] = c[i]
  PROVE  Stops(Loop(body, c[1]), c, i)
<1> DEFINE Rounds(f) == f = [n \in 0 .. NPROC |-> IF n = 0 THEN c[1] ELSE body[f[n-1]]]
           g == [n \in 0 .. NPROC |-> c[IF n < i-1 THEN n+1 ELSE i]]
           f == CHOOSE h : Rounds(h)
<1>1. NPROC \in Nat /\ i \in Nat /\ i >= 1
  BY TableFacts
<1>2. Rounds(g)
  <2>1. ASSUME NEW n \in 0 .. NPROC PROVE g[n] = IF n = 0 THEN c[1] ELSE body[g[n-1]]
    <3>1. CASE n = 0
      BY <1>1, <3>1
    <3>2. CASE n # 0 /\ n <= i-1
      <4>1. /\ n-1 \in 0 .. NPROC /\ n-1 < i-1 /\ (n-1)+1 = n /\ n \in 1 .. i-1
        BY <1>1, <3>2
      <4>2. g[n-1] = c[n] /\ body[c[n]] = c[n+1]
        BY <4>1
      <4>3. g[n] = c[n+1]
        <5>1. CASE n < i-1
          BY <5>1
        <5>2. CASE n = i-1
          <6>1. n+1 = i /\ ~(n < i-1)
            BY <1>1, <5>2
          <6> QED BY <6>1
        <5> QED BY <1>1, <3>2, <5>1, <5>2
      <4> QED BY <3>2, <4>2, <4>3
    <3>3. CASE n # 0 /\ n > i-1
      <4>1. n-1 \in 0 .. NPROC /\ ~(n-1 < i-1) /\ ~(n < i-1)
        BY <1>1, <3>3
      <4>2. g[n-1] = c[i] /\ g[n] = c[i]
        BY <4>1
      <4> QED BY <3>3, <4>2
    <3> QED BY <1>1, <3>1, <3>2, <3>3
  <2> QED BY <2>1
<1>3. Rounds(f)
  <2> HIDE DEF g
  <2> QED BY <1>2
<1>4. Loop(body, c[1]) = f
  BY DEF Loop
<1> HIDE DEF f
<1>5. \A n \in 0 .. NPROC : f[n] = IF n = 0 THEN c[1] ELSE body[f[n-1]]
  BY <1>3
<1>6. \A n \in 0 .. NPROC : g[n] = IF n = 0 THEN c[1] ELSE body[g[n-1]]
  <2> HIDE DEF g
  <2> QED BY <1>2
<1>7. \A n \in 0 .. NPROC : f[n] = g[n]
  <2> HIDE DEF g
  <2> DEFINE Bad == {n \in 0 .. NPROC : f[n] # g[n]}
  <2>1. SUFFICES ASSUME Bad # {} PROVE FALSE
    OBVIOUS
  <2>2. PICK n \in Bad : \A m \in Bad : n <= m
    <3>1. Bad \in SUBSET Nat
      BY <1>1
    <3> HIDE DEF Bad
    <3> QED BY <2>1, <3>1, LeastNat
  <2>3. n # 0
    BY <1>1, <1>5, <1>6
  <2>4. n-1 \in 0 .. NPROC /\ n \in 0 .. NPROC /\ ~(n <= n-1)
    BY <1>1, <2>3
  <2>5. f[n-1] = g[n-1]
    BY <2>2, <2>4
  <2> QED BY <1>5, <1>6, <2>3, <2>4, <2>5
<1> QED BY <1>4, <1>7 DEF Stops

\* A queue whose links lead along s has the list s.
LEMMA ListIs ==
  ASSUME TableTypes, NEW q \in Queue, q < nextqid, NEW s \in Seq(Proc), IsInjective(s),
         Links(queuetab, q, s)
  PROVE  List(q) = s
<1> DEFINE body == [n \in Node |-> IF n \in Proc THEN queuetab[n].qnext ELSE n]
           c == [j \in 0 .. Len(s)+1 |-> NodeOf(q, s, j)]
           walk == Loop(body, firstid(q))
           stop == {n \in 0 .. NPROC+1 : n = NPROC+1 \/ walk[n] \notin Proc}
<1>1. /\ NPROC \in Nat /\ Len(s) \in Nat /\ Len(s) <= NPROC
      /\ \A j \in 1 .. Len(s) : s[j] \in Proc
  BY ListFacts, TableFacts
<1>2. /\ NodeOf(q, s, 0) = q /\ NodeOf(q, s, Len(s)+1) = q + 1
      /\ \A j \in 1 .. Len(s) : NodeOf(q, s, j) = s[j]
      /\ \A j \in 0 .. Len(s)+1 : NodeOf(q, s, j) \in Node
  BY NodeFacts
<1>3. q + 1 \notin Proc /\ q + 1 \in Node
  BY QueueFacts
<1>4. firstid(q) = c[1]
  <2>1. 0 \in 0 .. Len(s) /\ 1 \in 0 .. Len(s)+1 /\ 0+1 = 1
    BY <1>1
  <2>2. queuetab[NodeOf(q, s, 0)].qnext = NodeOf(q, s, 0+1)
    BY <2>1 DEF Links
  <2> QED BY <1>2, <2>1, <2>2 DEF firstid, queuehead
<1>5. \A j \in 1 .. Len(s) : body[c[j]] = c[j+1]
  <2> SUFFICES ASSUME NEW j \in 1 .. Len(s) PROVE body[c[j]] = c[j+1]
    OBVIOUS
  <2>1. j \in 0 .. Len(s) /\ j \in 0 .. Len(s)+1 /\ j+1 \in 0 .. Len(s)+1
    BY <1>1
  <2>2. c[j] = s[j] /\ c[j] \in Node /\ s[j] \in Proc
    BY <1>1, <1>2, <2>1
  <2>3. queuetab[NodeOf(q, s, j)].qnext = NodeOf(q, s, j+1)
    BY <2>1 DEF Links
  <2> QED BY <2>1, <2>2, <2>3
<1>6. c[Len(s)+1] = q + 1 /\ body[c[Len(s)+1]] = c[Len(s)+1]
  BY <1>1, <1>2, <1>3
<1>7. \A n \in 0 .. NPROC : walk[n] = c[IF n < Len(s) THEN n+1 ELSE Len(s)+1]
  <2>0. PICK i : i = Len(s)+1
    OBVIOUS
  <2>1. i \in 1 .. NPROC+1 /\ i-1 = Len(s)
    BY <1>1, <2>0
  <2> HIDE DEF body, c, walk
  <2>2. (\A j \in 1 .. i-1 : body[c[j]] = c[j+1]) /\ body[c[i]] = c[i]
    BY <1>5, <1>6, <2>0, <2>1
  <2>3. Stops(Loop(body, c[1]), c, i)
    BY <2>1, <2>2, LoopStops
  <2>4. walk = Loop(body, c[1])
    BY <1>4 DEF walk
  <2>5. \A n \in 0 .. NPROC : walk[n] = c[IF n < i-1 THEN n+1 ELSE i]
    BY <2>3, <2>4 DEF Stops
  <2> QED BY <2>0, <2>1, <2>5
<1> HIDE DEF body, walk
<1>8. ASSUME NEW n \in 0 .. Len(s)-1 PROVE walk[n] = s[n+1] /\ walk[n] \in Proc
  <2>1. n \in 0 .. NPROC /\ n < Len(s) /\ n+1 \in 1 .. Len(s) /\ n+1 \in 0 .. Len(s)+1
    BY <1>1
  <2>2. walk[n] = c[n+1]
    BY <1>7, <2>1
  <2> QED BY <1>1, <1>2, <2>1, <2>2
<1>9. walk[Len(s)] = q + 1
  <2>1. Len(s) \in 0 .. NPROC /\ ~(Len(s) < Len(s))
    BY <1>1
  <2> QED BY <1>6, <1>7, <2>1
<1>10. Min(stop) = Len(s)
  <2>1. stop \in SUBSET Nat /\ Len(s) \in stop
    BY <1>1, <1>3, <1>9
  <2>2. \A n \in stop : n >= Len(s)
    <3> SUFFICES ASSUME NEW n \in stop, ~(n >= Len(s)) PROVE FALSE
      OBVIOUS
    <3>1. n \in 0 .. Len(s)-1 /\ n # NPROC+1
      BY <1>1
    <3> QED BY <1>8, <3>1
  <2> HIDE DEF stop
  <2>3. PICK m : m = Min(stop)
    OBVIOUS
  <2>4. m \in stop /\ m <= Len(s)
    BY <2>1, <2>3, MinOfNats
  <2>5. m \in Nat /\ m >= Len(s)
    BY <2>1, <2>2, <2>4
  <2> QED BY <1>1, <2>3, <2>4, <2>5
<1>11. List(q) = [i \in 1 .. Min(stop) |-> walk[i-1]]
  BY DEF List, walk, body
<1> HIDE DEF stop
<1>12. \A i \in 1 .. Len(s) : walk[i-1] = s[i]
  <2> SUFFICES ASSUME NEW i \in 1 .. Len(s) PROVE walk[i-1] = s[i]
    OBVIOUS
  <2>1. i-1 \in 0 .. Len(s)-1 /\ (i-1)+1 = i
    BY <1>1
  <2> QED BY <1>8, <2>1
<1>13. s = [i \in 1 .. Len(s) |-> s[i]]
  BY LenProperties
<1> QED BY <1>10, <1>11, <1>12, <1>13

\* Where a loop that stops is after NPROC rounds.
LEMMA StopsThere ==
  ASSUME NEW after, NEW c, NEW i \in 1 .. NPROC+1, Stops(after, c, i)
  PROVE  after[NPROC] = c[i]
<1>1. NPROC \in Nat
  BY TableFacts
<1>2. NPROC \in 0 .. NPROC /\ ~(NPROC < i-1)
  BY <1>1
<1> QED BY <1>2 DEF Stops

\* The first entry of a queue.
LEMMA FirstNode ==
  ASSUME NEW q \in Queue, NEW s \in Seq(Proc), IsInjective(s), Links(queuetab, q, s)
  PROVE  firstid(q) = NodeOf(q, s, 1)
<1>1. 0 \in 0 .. Len(s) /\ 0+1 = 1
  BY LenProperties
<1>2. NodeOf(q, s, 0) = q
  BY NodeFacts
<1> QED BY <1>1, <1>2 DEF Links, firstid, queuehead

\* The keys of the processes.
LEMMA KeyFacts ==
  ASSUME TableTypes, NEW ks, ks = [p \in Proc |-> queuetab[p].qkey]
  PROVE  ks \in [Proc -> Int]
BY TableFacts DEF TableTypes

\* insert passes the entries whose keys are not smaller.
LEMMA InsertPlace ==
  ASSUME NEW s \in Seq(Proc), NEW ks, NEW key
  PROVE  LET i == InsertPosition(s, ks, key) IN
         /\ i \in 1 .. Len(s)+1 /\ (i = Len(s)+1 \/ ks[s[i]] < key)
         /\ \A j \in 1 .. i-1 : j \in 1 .. Len(s) /\ ~(ks[s[j]] < key)
<1> DEFINE S == {i \in 1 .. Len(s)+1 : i = Len(s)+1 \/ ks[s[i]] < key}
<1>1. Len(s) \in Nat
  BY LenProperties
<1>2. S \in SUBSET Nat /\ Len(s)+1 \in S
  BY <1>1
<1>3. PICK i : i = Min(S)
  OBVIOUS
<1>4. i \in S /\ \A n \in S : i <= n
  <2> HIDE DEF S
  <2> QED BY <1>2, <1>3, MinOfNats
<1>5. InsertPosition(s, ks, key) = i
  BY <1>3 DEF InsertPosition
<1>6. \A j \in 1 .. i-1 : j \in 1 .. Len(s)
  BY <1>1, <1>4
<1>7. ASSUME NEW j \in 1 .. i-1 PROVE ~(ks[s[j]] < key)
  <2>1. j \in 1 .. Len(s)+1 /\ ~(i <= j)
    BY <1>1, <1>4
  <2> QED BY <1>4, <2>1
<1> QED BY <1>4, <1>5, <1>6, <1>7

\* The loop of insert stops at the place of the new entry: at the tail at the latest,
\* whose key is smaller than any.
LEMMA InsertStops ==
  ASSUME TableTypes, NEW q \in Queue, NEW s \in Seq(Proc), IsInjective(s),
         Links(queuetab, q, s), queuetab[q + 1].qkey = MINKEY,
         NEW key \in Int, MINKEY < key,
         NEW ks, ks = [p \in Proc |-> queuetab[p].qkey], NEW i, i = InsertPosition(s, ks, key)
  PROVE  /\ i \in 1 .. Len(s)+1
         /\ Loop(PassKeys(key), firstid(q))[NPROC] = NodeOf(q, s, i)
<1> DEFINE body == PassKeys(key)
           c == [j \in 0 .. Len(s)+1 |-> NodeOf(q, s, j)]
<1>1. /\ NPROC \in Nat /\ Len(s) \in Nat /\ Len(s) <= NPROC
      /\ \A j \in 1 .. Len(s) : s[j] \in Proc
  BY ListFacts, TableFacts
<1>2. /\ NodeOf(q, s, Len(s)+1) = q + 1
      /\ \A j \in 1 .. Len(s) : NodeOf(q, s, j) = s[j]
      /\ \A j \in 0 .. Len(s)+1 : NodeOf(q, s, j) \in Node
  BY NodeFacts
<1>3. /\ i \in 1 .. Len(s)+1 /\ (i = Len(s)+1 \/ ks[s[i]] < key)
      /\ \A j \in 1 .. i-1 : j \in 1 .. Len(s) /\ ~(ks[s[j]] < key)
  BY InsertPlace
<1>4. ks \in [Proc -> Int] /\ \A p \in Proc : ks[p] = queuetab[p].qkey
  BY KeyFacts
<1>5. MINKEY \in Int
  BY TableFacts
<1>6. ASSUME NEW j \in 1 .. i-1 PROVE body[c[j]] = c[j+1]
  <2>1. j \in 1 .. Len(s) /\ ~(ks[s[j]] < key)
    BY <1>3
  <2>2. j \in 0 .. Len(s) /\ j \in 0 .. Len(s)+1 /\ j+1 \in 0 .. Len(s)+1
    BY <1>1, <2>1
  <2>3. c[j] = s[j] /\ s[j] \in Node /\ s[j] \in Proc /\ c[j+1] = NodeOf(q, s, j+1)
    BY <1>1, <1>2, <2>1, <2>2
  <2>4. queuetab[s[j]].qkey >= key
    BY <1>4, <2>1, <2>3
  <2>5. queuetab[s[j]].qnext = NodeOf(q, s, j+1)
    BY <1>2, <2>1, <2>2 DEF Links
  <2> QED BY <2>3, <2>4, <2>5 DEF PassKeys
<1>7. body[c[i]] = c[i]
  <2>1. i \in 0 .. Len(s)+1 /\ c[i] = NodeOf(q, s, i) /\ c[i] \in Node
    BY <1>1, <1>2, <1>3
  <2>2. ~(queuetab[c[i]].qkey >= key)
    <3>1. CASE i = Len(s)+1
      BY <1>2, <1>5, <2>1, <3>1
    <3>2. CASE i \in 1 .. Len(s) /\ ks[s[i]] < key
      <4>1. c[i] = s[i] /\ s[i] \in Proc /\ ks[s[i]] \in Int /\ queuetab[s[i]].qkey = ks[s[i]]
        BY <1>1, <1>2, <1>4, <2>1, <3>2
      <4> QED BY <3>2, <4>1
    <3> QED BY <1>1, <1>3, <3>1, <3>2
  <2> QED BY <2>1, <2>2 DEF PassKeys
<1>8. firstid(q) = c[1]
  <2>1. 1 \in 0 .. Len(s)+1
    BY <1>1
  <2> QED BY <2>1, FirstNode
<1>9. c[i] = NodeOf(q, s, i)
  BY <1>1, <1>3
<1>10. i \in 1 .. NPROC+1
  BY <1>1, <1>3
<1> HIDE DEF body, c
<1>11. Stops(Loop(body, c[1]), c, i)
  BY <1>6, <1>7, <1>10, LoopStops
<1>12. Loop(body, c[1])[NPROC] = c[i]
  BY <1>10, <1>11, StopsThere
<1> QED BY <1>3, <1>8, <1>9, <1>12 DEF body

\* insertd passes the entries that are due no later.
LEMMA InsertdPlace ==
  ASSUME NEW s \in Seq(Proc), NEW ks, NEW key
  PROVE  LET i == InsertdPosition(s, ks, key) IN
         /\ i \in 1 .. Len(s)+1 /\ (i = Len(s)+1 \/ Elapsed(s, ks)[i] > key)
         /\ \A j \in 1 .. i-1 : j \in 1 .. Len(s) /\ ~(Elapsed(s, ks)[j] > key)
<1> DEFINE S == {i \in 1 .. Len(s)+1 : i = Len(s)+1 \/ Elapsed(s, ks)[i] > key}
<1>1. Len(s) \in Nat
  BY LenProperties
<1>2. S \in SUBSET Nat /\ Len(s)+1 \in S
  BY <1>1
<1>3. PICK i : i = Min(S)
  OBVIOUS
<1>4. i \in S /\ \A n \in S : i <= n
  <2> HIDE DEF S
  <2> QED BY <1>2, <1>3, MinOfNats
<1>5. InsertdPosition(s, ks, key) = i
  BY <1>3 DEF InsertdPosition
<1>6. \A j \in 1 .. i-1 : j \in 1 .. Len(s)
  BY <1>1, <1>4
<1>7. ASSUME NEW j \in 1 .. i-1 PROVE ~(Elapsed(s, ks)[j] > key)
  <2>1. j \in 1 .. Len(s)+1 /\ ~(i <= j)
    BY <1>1, <1>4
  <2> QED BY <1>4, <2>1
<1> QED BY <1>4, <1>5, <1>6, <1>7

\* sum has the times that are left to the entries of s.
Sums(sum, s, ks) ==
  /\ sum[0] = 0 /\ \A j \in 1 .. Len(s) : sum[j] = sum[j-1] + ks[s[j]]
  /\ \A j \in 0 .. Len(s) : sum[j] \in Int

LEMMA ListSums ==
  ASSUME NEW s \in Seq(Proc), NEW ks \in [Proc -> Int]
  PROVE  Sums(Elapsed(s, ks), s, ks)
BY ElapsedSums DEF Sums

\* The loop of insertd stops at entry i.
StopsAtDelay(q, s, ks, delay, i) ==
  /\ i \in 1 .. Len(s)+1 /\ Elapsed(s, ks)[i-1] \in Int
  /\ Loop(PassDelays(q), [next |-> firstid(q), prev |-> queuehead(q), key |-> delay])[NPROC]
       = [next |-> NodeOf(q, s, i), prev |-> NodeOf(q, s, i-1),
          key |-> delay - Elapsed(s, ks)[i-1]]

\* The loop of insertd stops at the place of the new entry, with what is left of the
\* delay from there.
LEMMA InsertdStops ==
  ASSUME TableTypes, NEW q \in Queue, NEW s \in Seq(Proc), IsInjective(s),
         Links(queuetab, q, s), NEW delay \in Int,
         NEW ks, ks = [p \in Proc |-> queuetab[p].qkey], NEW i, i = InsertdPosition(s, ks, delay)
  PROVE  StopsAtDelay(q, s, ks, delay, i)
<1> DEFINE body == PassDelays(q)
<1>0. PICK sum : sum = Elapsed(s, ks)
  OBVIOUS
<1> DEFINE c == [j \in 1 .. Len(s)+1 |-> [next |-> NodeOf(q, s, j), prev |-> NodeOf(q, s, j-1),
                                         key |-> delay - sum[j-1]]]
<1>1. /\ NPROC \in Nat /\ Len(s) \in Nat /\ Len(s) <= NPROC
      /\ \A j \in 1 .. Len(s) : s[j] \in Proc
  BY ListFacts, TableFacts
<1>2. /\ NodeOf(q, s, 0) = q /\ NodeOf(q, s, Len(s)+1) = q + 1
      /\ \A j \in 1 .. Len(s) : NodeOf(q, s, j) = s[j]
      /\ \A j \in 0 .. Len(s)+1 : NodeOf(q, s, j) \in Node
      /\ \A j, m \in 0 .. Len(s)+1 : NodeOf(q, s, j) = NodeOf(q, s, m) => j = m
  BY NodeFacts
<1>3. /\ i \in 1 .. Len(s)+1 /\ (i = Len(s)+1 \/ sum[i] > delay)
      /\ \A j \in 1 .. i-1 : j \in 1 .. Len(s) /\ ~(sum[j] > delay)
  BY <1>0, InsertdPlace
<1>4. ks \in [Proc -> Int] /\ \A p \in Proc : ks[p] = queuetab[p].qkey
  BY KeyFacts
<1>5. /\ sum[0] = 0 /\ \A j \in 1 .. Len(s) : sum[j] = sum[j-1] + ks[s[j]]
      /\ \A j \in 0 .. Len(s) : sum[j] \in Int
  <2>1. Sums(sum, s, ks)
    BY <1>0, <1>4, ListSums, Zenon
  <2> QED BY <2>1 DEF Sums
<1>6. ASSUME NEW j \in 1 .. Len(s)+1
      PROVE  c[j] \in Cursor /\ c[j].next = NodeOf(q, s, j) /\ c[j].prev = NodeOf(q, s, j-1)
             /\ c[j].key = delay - sum[j-1]
  <2>1. j \in 0 .. Len(s)+1 /\ j-1 \in 0 .. Len(s)+1 /\ j-1 \in 0 .. Len(s)
    BY <1>1
  <2>2. NodeOf(q, s, j) \in Node /\ NodeOf(q, s, j-1) \in Node /\ delay - sum[j-1] \in Int
    <3>1. NodeOf(q, s, j) \in Node /\ NodeOf(q, s, j-1) \in Node
      BY <1>2, <2>1
    <3>2. PICK x \in Int : x = sum[j-1]
      BY <1>5, <2>1
    <3>3. delay - x \in Int
      OBVIOUS
    <3> QED BY <3>1, <3>2, <3>3
  <2> QED BY <2>2 DEF Cursor
<1>7. ASSUME NEW j \in 1 .. Len(s)
      PROVE  /\ c[j].next # queuetail(q) /\ queuetab[c[j].next].qkey = sum[j] - sum[j-1]
             /\ queuetab[c[j].next].qnext = NodeOf(q, s, j+1) /\ c[j].next = NodeOf(q, s, j)
             /\ sum[j] \in Int /\ sum[j-1] \in Int
  <2>1. /\ j \in 0 .. Len(s) /\ j \in 0 .. Len(s)+1 /\ j \in 1 .. Len(s)+1 /\ j # Len(s)+1
        /\ Len(s)+1 \in 0 .. Len(s)+1 /\ j-1 \in 0 .. Len(s)
    BY <1>1
  <2>2. c[j].next = NodeOf(q, s, j) /\ NodeOf(q, s, j) = s[j] /\ s[j] \in Proc
    BY <1>1, <1>2, <1>6, <2>1
  <2>3. NodeOf(q, s, j) # NodeOf(q, s, Len(s)+1)
    BY <1>2, <2>1
  <2>4. c[j].next # queuetail(q)
    BY <1>2, <2>2, <2>3 DEF queuetail
  <2>5. queuetab[NodeOf(q, s, j)].qnext = NodeOf(q, s, j+1)
    BY <2>1 DEF Links
  <2>6. ks[s[j]] \in Int /\ ks[s[j]] = queuetab[s[j]].qkey /\ sum[j] = sum[j-1] + ks[s[j]]
        /\ sum[j] \in Int /\ sum[j-1] \in Int
    BY <1>4, <1>5, <2>1, <2>2
  <2>7. queuetab[s[j]].qkey = sum[j] - sum[j-1]
    BY <2>6
  <2> QED BY <2>2, <2>4, <2>5, <2>6, <2>7
<1>8. ASSUME NEW j \in 1 .. i-1 PROVE body[c[j]] = c[j+1]
  <2>1. j \in 1 .. Len(s) /\ ~(sum[j] > delay) /\ j \in 1 .. Len(s)+1 /\ j+1 \in 1 .. Len(s)+1
        /\ (j+1)-1 = j
    BY <1>1, <1>3
  <2>2. PICK w : w = c[j]
    OBVIOUS
  <2>3. /\ w \in Cursor /\ w.next # queuetail(q) /\ w.next = NodeOf(q, s, j)
        /\ w.key = delay - sum[j-1] /\ queuetab[w.next].qkey = sum[j] - sum[j-1]
        /\ queuetab[w.next].qnext = NodeOf(q, s, j+1) /\ sum[j] \in Int /\ sum[j-1] \in Int
    <3> HIDE DEF c
    <3> QED BY <1>6, <1>7, <2>1, <2>2
  <2>4. queuetab[w.next].qkey <= w.key /\ w.key - queuetab[w.next].qkey = delay - sum[j]
    BY <2>1, <2>3
  <2>5. body[w] = [next |-> queuetab[w.next].qnext, prev |-> w.next,
                   key |-> w.key - queuetab[w.next].qkey]
    BY <2>3, <2>4 DEF PassDelays
  <2>6. body[w] = [next |-> NodeOf(q, s, j+1), prev |-> NodeOf(q, s, j), key |-> delay - sum[j]]
    <3> HIDE DEF body
    <3> QED BY <2>3, <2>4, <2>5
  <2>7. c[j+1] = [next |-> NodeOf(q, s, j+1), prev |-> NodeOf(q, s, (j+1)-1),
                  key |-> delay - sum[(j+1)-1]]
    BY <2>1
  <2> HIDE DEF c, body
  <2> QED BY <2>1, <2>2, <2>6, <2>7
<1>9. body[c[i]] = c[i]
  <2>1. PICK w : w = c[i]
    OBVIOUS
  <2>2. w \in Cursor /\ w.next = NodeOf(q, s, i) /\ w.key = delay - sum[i-1]
    <3> HIDE DEF c
    <3> QED BY <1>3, <1>6, <2>1
  <2>3. ~(w.next # queuetail(q) /\ queuetab[w.next].qkey <= w.key)
    <3>1. CASE i = Len(s)+1
      BY <1>2, <2>2, <3>1 DEF queuetail
    <3>2. CASE i \in 1 .. Len(s) /\ sum[i] > delay
      <4>1. queuetab[w.next].qkey = sum[i] - sum[i-1] /\ sum[i] \in Int /\ sum[i-1] \in Int
        <5> HIDE DEF c
        <5> QED BY <1>7, <2>1, <3>2
      <4> QED BY <2>2, <3>2, <4>1
    <3> QED BY <1>1, <1>3, <3>1, <3>2
  <2>4. body[w] = w
    BY <2>2, <2>3 DEF PassDelays
  <2> QED BY <2>1, <2>4
<1>10. c[1] = [next |-> firstid(q), prev |-> queuehead(q), key |-> delay]
  <2>1. 1 \in 1 .. Len(s)+1 /\ 1-1 = 0 /\ delay - sum[0] = delay
    BY <1>1, <1>5
  <2>2. firstid(q) = NodeOf(q, s, 1) /\ queuehead(q) = NodeOf(q, s, 0)
    BY <1>2, FirstNode DEF queuehead
  <2>3. c[1] = [next |-> NodeOf(q, s, 1), prev |-> NodeOf(q, s, 1-1), key |-> delay - sum[1-1]]
    BY <2>1
  <2> HIDE DEF c
  <2> QED BY <2>1, <2>2, <2>3
<1>11. c[i] = [next |-> NodeOf(q, s, i), prev |-> NodeOf(q, s, i-1), key |-> delay - sum[i-1]]
  BY <1>3
<1>12. i \in 1 .. NPROC+1 /\ sum[i-1] \in Int
  <2>1. i \in 1 .. NPROC+1 /\ i-1 \in 0 .. Len(s)
    BY <1>1, <1>3
  <2> QED BY <1>5, <2>1
<1> HIDE DEF body, c
<1>13. Stops(Loop(body, c[1]), c, i)
  BY <1>8, <1>9, <1>12, LoopStops
<1>14. Loop(body, c[1])[NPROC] = c[i]
  BY <1>12, <1>13, StopsThere
<1>15. /\ i \in 1 .. Len(s)+1 /\ sum[i-1] \in Int
       /\ Loop(PassDelays(q), [next |-> firstid(q), prev |-> queuehead(q), key |-> delay])[NPROC]
            = [next |-> NodeOf(q, s, i), prev |-> NodeOf(q, s, i-1), key |-> delay - sum[i-1]]
  BY <1>3, <1>10, <1>11, <1>12, <1>14 DEF body
<1> QED BY <1>0, <1>15 DEF StopsAtDelay
-----------------------------------------------------------------------------
(* What a sound table becomes when processes are linked in and out.        *)

Tables == [Node -> [qkey : Int, qnext : Node \cup {EMPTY}, qprev : Node \cup {EMPTY}]]

\* Process p is linked in between prev and next, or out from between them.
LinkedIn(old, new, prev, p, next) ==
  /\ Relinked(old, new, prev, p, next)
  /\ new[prev].qnext = p /\ new[p].qprev = prev /\ new[p].qnext = next /\ new[next].qprev = p
LinkedOut(old, new, prev, p, next) ==
  /\ Relinked(old, new, prev, p, next)
  /\ new[prev].qnext = next /\ new[next].qprev = prev

\* No link changes; or no key of a head or a tail does, or no key at all.
SameLinks(old, new) ==
  \A n \in Node : new[n].qnext = old[n].qnext /\ new[n].qprev = old[n].qprev
SameEnds(old, new) == \A n \in Node \ Proc : new[n].qkey = old[n].qkey
SameKeys(old, new) == \A n \in Node : new[n].qkey = old[n].qkey

\* A queue that holds s has the list s.
SoundLists ==
  \A q \in Queue, s \in Seq(Proc) : TableTypes /\ QueueSound(q, s) => List(q) = s

LEMMA SoundListsHold == SoundLists
<1> SUFFICES ASSUME NEW q \in Queue, NEW s \in Seq(Proc), TableTypes, QueueSound(q, s)
             PROVE  List(q) = s
  BY DEF SoundLists
<1>1. CASE q < nextqid
  <2>1. IsInjective(s) /\ Links(queuetab, q, s)
    BY <1>1 DEF QueueSound, Linked, Links
  <2> QED BY <1>1, <2>1, ListIs
<1>2. CASE ~(q < nextqid)
  BY <1>2 DEF QueueSound, List
<1> QED BY <1>1, <1>2

LEMMA SoundListsHoldNext == SoundLists'
BY SoundListsHold, PTL

\* The lists of the queues.
LEMMA ListsFacts ==
  ASSUME TableSound, NEW q \in Queue
  PROVE  /\ List(q) \in Seq(Proc) /\ IsInjective(List(q))
         /\ Range(List(q)) = {p \in Proc : inqueue[p] = q}
         /\ q < nextqid => /\ Links(queuetab, q, List(q))
                           /\ queuetab[q].qkey = MAXKEY /\ queuetab[q + 1].qkey = MINKEY
         /\ ~(q < nextqid) => List(q) = <<>>
<1>1. QueueSound(q, List(q))
  BY DEF TableSound
<1> QED BY <1>1 DEF QueueSound, Linked, Links, queuehead, queuetail

\* Queue q holds s in table tab, of which next is the first unused entry, where the
\* states of the processes name the queues in place.
Holds(tab, next, place, q, s) ==
  /\ s \in Seq(Proc) /\ IsInjective(s) /\ Range(s) = {p \in Proc : place[p] = q}
  /\ q < next => /\ Links(tab, q, s)
                 /\ tab[q].qkey = MAXKEY /\ tab[q + 1].qkey = MINKEY
  /\ ~(q < next) => s = <<>>
HoldsNext(q, s) == Holds(queuetab', nextqid', inqueue', q, s)

\* If each queue holds new[q] after a step, the table is sound and has these lists.
LEMMA NewLists ==
  ASSUME TableTypes', NEW new, \A q \in Queue : HoldsNext(q, new[q])
  PROVE  TableSound' /\ \A q \in Queue : List(q)' = new[q]
<1>1. ASSUME NEW q \in Queue PROVE List(q)' = new[q] /\ QueueSound(q, new[q])'
  <2>1. PICK s : s = new[q]
    OBVIOUS
  <2>2. s \in Seq(Proc) /\ QueueSound(q, s)'
    BY <2>1 DEF HoldsNext, Holds, QueueSound, Linked, Links, queuehead, queuetail
  <2>3. List(q)' = s
    BY <2>2, SoundListsHoldNext DEF SoundLists
  <2> QED BY <2>1, <2>2, <2>3
<1> QED BY <1>1 DEF TableSound

\* A process is in at most one list: in that of the queue that its state names.
LEMMA ListsApart ==
  ASSUME TableSound, NEW q \in Queue, NEW t \in Queue, t # q
  PROVE  Range(List(q)) \cap Range(List(t)) = {}
BY ListsFacts

\* A list that no process enters or leaves.
LEMMA OtherKept ==
  ASSUME TableSound, NEW q \in Queue, NEW t \in Queue, t # q, NEW p \in Proc,
         inqueue[p] \in {q, EMPTY},
         NEW now \in {q, EMPTY}, inqueue' = [inqueue EXCEPT ![p] = now], nextqid' = nextqid,
         NEW i \in 0 .. Len(List(q))+1, NEW j \in 0 .. Len(List(q))+1,
         Relinked(queuetab, queuetab', NodeOf(q, List(q), i), p, NodeOf(q, List(q), j)),
         SameEnds(queuetab, queuetab')
  PROVE  HoldsNext(t, List(t))
<1>1. PICK s, u : s = List(q) /\ u = List(t)
  OBVIOUS
<1>2. s \in Seq(Proc) /\ IsInjective(s)
  BY <1>1, ListsFacts
<1>3. /\ u \in Seq(Proc) /\ IsInjective(u) /\ Range(u) = {x \in Proc : inqueue[x] = t}
      /\ t < nextqid => /\ Links(queuetab, t, u)
                        /\ queuetab[t].qkey = MAXKEY /\ queuetab[t + 1].qkey = MINKEY
      /\ ~(t < nextqid) => u = <<>>
  BY <1>1, ListsFacts
<1>4. Range(s) \cap Range(u) = {}
  BY <1>1, ListsApart
<1>5. t # EMPTY /\ inqueue \in [Proc -> Queue \cup {EMPTY}]
  BY TableFacts DEF TableSound, TableTypes
<1>6. p \notin Range(u) /\ Range(u) = {x \in Proc : inqueue'[x] = t}
  BY <1>3, <1>5
<1>7. t < nextqid' => Links(queuetab', t, u)
  <2> SUFFICES ASSUME t < nextqid' PROVE Links(queuetab', t, u)
    OBVIOUS
  <2>1. Links(queuetab, t, u)
    BY <1>3
  <2>2. /\ i \in 0 .. Len(s)+1 /\ j \in 0 .. Len(s)+1
        /\ Relinked(queuetab, queuetab', NodeOf(q, s, i), p, NodeOf(q, s, j))
    BY <1>1
  <2> QED BY <1>2, <1>3, <1>4, <1>6, <2>1, <2>2, LinksElsewhere
<1>8. queuetab'[t].qkey = queuetab[t].qkey /\ queuetab'[t + 1].qkey = queuetab[t + 1].qkey
  <2>1. t \in Node \ Proc /\ t + 1 \in Node \ Proc
    BY QueueFacts
  <2> QED BY <2>1 DEF SameEnds
<1>9. HoldsNext(t, u)
  BY <1>3, <1>6, <1>7, <1>8 DEF HoldsNext, Holds
<1> QED BY <1>1, <1>9

\* A process that is in no queue is linked in before entry i of q.
LEMMA PutIn ==
  ASSUME TableSound, NEW q \in Queue, q < nextqid, NEW p \in Proc, inqueue[p] = EMPTY,
         NEW i \in 1 .. Len(List(q))+1,
         inqueue' = [inqueue EXCEPT ![p] = q], nextqid' = nextqid, queuetab' \in Tables,
         LinkedIn(queuetab, queuetab', NodeOf(q, List(q), i-1), p, NodeOf(q, List(q), i)),
         SameEnds(queuetab, queuetab')
  PROVE  /\ TableSound' /\ List(q)' = InsertAt(List(q), i, p)
         /\ \A t \in Queue : t # q => List(t)' = List(t)
<1>1. PICK s, r : s = List(q) /\ r = InsertAt(List(q), i, p)
  OBVIOUS
<1>2. /\ s \in Seq(Proc) /\ IsInjective(s) /\ Range(s) = {x \in Proc : inqueue[x] = q}
      /\ Links(queuetab, q, s)
      /\ queuetab[q].qkey = MAXKEY /\ queuetab[q + 1].qkey = MINKEY
  BY <1>1, ListsFacts
<1>3. p \notin Range(s) /\ q # EMPTY /\ inqueue \in [Proc -> Queue \cup {EMPTY}]
  BY <1>2, TableFacts DEF TableSound, TableTypes
<1>4. i \in 1 .. Len(s)+1 /\ Len(s) \in Nat /\ i-1 \in 0 .. Len(s)+1 /\ i \in 0 .. Len(s)+1
  BY <1>1, <1>2, LenProperties
<1>5. r \in Seq(Proc) /\ IsInjective(r) /\ Range(r) = Range(s) \cup {p} /\ Inserted(r, s, i, p)
  BY <1>1, <1>2, <1>3, <1>4, InsertAtRange, InsertAtInserts
<1>6. Range(r) = {x \in Proc : inqueue'[x] = q}
  BY <1>2, <1>3, <1>5
<1>7. LinkedIn(queuetab, queuetab', NodeOf(q, s, i-1), p, NodeOf(q, s, i))
  BY <1>1
<1>8. Links(queuetab', q, r)
  BY <1>2, <1>3, <1>4, <1>5, <1>7, LinkIn DEF LinkedIn
<1>9. queuetab'[q].qkey = queuetab[q].qkey /\ queuetab'[q + 1].qkey = queuetab[q + 1].qkey
  <2>1. q \in Node \ Proc /\ q + 1 \in Node \ Proc
    BY QueueFacts
  <2> QED BY <2>1 DEF SameEnds
<1>10. HoldsNext(q, r)
  BY <1>2, <1>5, <1>6, <1>8, <1>9 DEF HoldsNext, Holds
<1>11. Relinked(queuetab, queuetab', NodeOf(q, List(q), i-1), p, NodeOf(q, List(q), i))
  BY DEF LinkedIn
<1>12. \A t \in Queue : t # q => HoldsNext(t, List(t))
  BY <1>1, <1>4, <1>11, OtherKept
<1>13. TableTypes'
  BY <1>3 DEF TableSound, TableTypes, Tables
<1>14. PICK new : new = [t \in Queue |-> IF t = q THEN r ELSE List(t)]
  OBVIOUS
<1>15. new[q] = r /\ \A t \in Queue : t # q => new[t] = List(t)
  BY <1>14
<1>16. \A t \in Queue : HoldsNext(t, new[t])
  BY <1>10, <1>12, <1>15
<1>17. TableSound' /\ \A t \in Queue : List(t)' = new[t]
  BY <1>13, <1>16, NewLists
<1> QED BY <1>1, <1>15, <1>17

\* Entry i of q is linked out.
LEMMA TakeOut ==
  ASSUME TableSound, NEW q \in Queue, NEW i \in 1 .. Len(List(q)), NEW p, p = List(q)[i],
         inqueue' = [inqueue EXCEPT ![p] = EMPTY], nextqid' = nextqid, queuetab' \in Tables,
         LinkedOut(queuetab, queuetab', NodeOf(q, List(q), i-1), p, NodeOf(q, List(q), i+1)),
         SameEnds(queuetab, queuetab')
  PROVE  /\ TableSound' /\ List(q)' = RemoveAt(List(q), i)
         /\ \A t \in Queue : t # q => List(t)' = List(t)
<1>1. PICK s, r : s = List(q) /\ r = RemoveAt(List(q), i)
  OBVIOUS
<1>0. s \in Seq(Proc) /\ IsInjective(s) /\ Len(s) \in Nat /\ i \in 1 .. Len(s) /\ p = s[i]
  BY <1>1, ListsFacts, LenProperties
<1>2. /\ Range(s) = {x \in Proc : inqueue[x] = q} /\ Links(queuetab, q, s) /\ q < nextqid
      /\ queuetab[q].qkey = MAXKEY /\ queuetab[q + 1].qkey = MINKEY
  <2>1. s # <<>>
    BY <1>0
  <2> QED BY <1>1, <2>1, ListsFacts
<1>3. /\ p \in Proc /\ inqueue[p] = q /\ q # EMPTY
      /\ inqueue \in [Proc -> Queue \cup {EMPTY}]
  <2>1. p \in Range(s)
    BY <1>0, ListFacts
  <2> QED BY <1>2, <2>1, TableFacts DEF TableSound, TableTypes
<1>4. i-1 \in 0 .. Len(s)+1 /\ i+1 \in 0 .. Len(s)+1
  BY <1>0
<1>5. r \in Seq(Proc) /\ IsInjective(r) /\ Range(r) = Range(s) \ {p} /\ Removed(r, s, i)
  BY <1>0, <1>1, RemoveAtRange, RemoveAtRemoves
<1>6. Range(r) = {x \in Proc : inqueue'[x] = q}
  BY <1>2, <1>3, <1>5
<1>7. LinkedOut(queuetab, queuetab', NodeOf(q, s, i-1), s[i], NodeOf(q, s, i+1))
  BY <1>0, <1>1
<1>8. Links(queuetab', q, r)
  BY <1>0, <1>2, <1>5, <1>7, LinkOut DEF LinkedOut
<1>9. queuetab'[q].qkey = queuetab[q].qkey /\ queuetab'[q + 1].qkey = queuetab[q + 1].qkey
  <2>1. q \in Node \ Proc /\ q + 1 \in Node \ Proc
    BY QueueFacts
  <2> QED BY <2>1 DEF SameEnds
<1>10. HoldsNext(q, r)
  BY <1>2, <1>5, <1>6, <1>8, <1>9 DEF HoldsNext, Holds
<1>11. Relinked(queuetab, queuetab', NodeOf(q, List(q), i-1), p, NodeOf(q, List(q), i+1))
  BY DEF LinkedOut
<1>12. \A t \in Queue : t # q => HoldsNext(t, List(t))
  BY <1>1, <1>3, <1>4, <1>11, OtherKept
<1>13. TableTypes'
  BY <1>3 DEF TableSound, TableTypes, Tables
<1>14. PICK new : new = [t \in Queue |-> IF t = q THEN r ELSE List(t)]
  OBVIOUS
<1>15. new[q] = r /\ \A t \in Queue : t # q => new[t] = List(t)
  BY <1>14
<1>16. \A t \in Queue : HoldsNext(t, new[t])
  BY <1>10, <1>12, <1>15
<1>17. TableSound' /\ \A t \in Queue : List(t)' = new[t]
  BY <1>13, <1>16, NewLists
<1> QED BY <1>1, <1>15, <1>17

\* No process is linked in or out.
LEMMA NobodyMoves ==
  ASSUME TableSound, UNCHANGED <<inqueue, nextqid>>, queuetab' \in Tables,
         SameLinks(queuetab, queuetab'), SameEnds(queuetab, queuetab')
  PROVE  TableSound' /\ \A t \in Queue : List(t)' = List(t)
<1>1. ASSUME NEW t \in Queue PROVE HoldsNext(t, List(t))
  <2>1. PICK u : u = List(t)
    OBVIOUS
  <2>2. /\ u \in Seq(Proc) /\ IsInjective(u) /\ Range(u) = {x \in Proc : inqueue[x] = t}
        /\ t < nextqid => /\ Links(queuetab, t, u)
                          /\ queuetab[t].qkey = MAXKEY /\ queuetab[t + 1].qkey = MINKEY
        /\ ~(t < nextqid) => u = <<>>
    BY <2>1, ListsFacts
  <2>3. Links(queuetab, t, u) => Links(queuetab', t, u)
    <3> SUFFICES ASSUME Links(queuetab, t, u), NEW i \in 0 .. Len(u)
                 PROVE  /\ queuetab'[NodeOf(t, u, i)].qnext = NodeOf(t, u, i+1)
                        /\ queuetab'[NodeOf(t, u, i+1)].qprev = NodeOf(t, u, i)
      BY DEF Links
    <3>1. i \in 0 .. Len(u)+1 /\ i+1 \in 0 .. Len(u)+1
      BY <2>2, LenProperties
    <3>2. NodeOf(t, u, i) \in Node /\ NodeOf(t, u, i+1) \in Node
      BY <2>2, <3>1, NodeFacts
    <3> QED BY <3>2 DEF Links, SameLinks
  <2>4. queuetab'[t].qkey = queuetab[t].qkey /\ queuetab'[t + 1].qkey = queuetab[t + 1].qkey
    <3>1. t \in Node \ Proc /\ t + 1 \in Node \ Proc
      BY QueueFacts
    <3> QED BY <3>1 DEF SameEnds
  <2>5. HoldsNext(t, u)
    BY <2>2, <2>3, <2>4 DEF HoldsNext, Holds
  <2> QED BY <2>1, <2>5
<1>2. TableTypes'
  BY DEF TableSound, TableTypes, Tables
<1>3. PICK new : new = [t \in Queue |-> List(t)]
  OBVIOUS
<1>4. \A t \in Queue : new[t] = List(t)
  BY <1>3
<1>5. \A t \in Queue : HoldsNext(t, new[t])
  BY <1>1, <1>4
<1> QED BY <1>2, <1>4, <1>5, NewLists
-----------------------------------------------------------------------------
(* The assignments of the routines.                                        *)

\* The entries that are linked to entry i of a queue.
LEMMA Neighbours ==
  ASSUME NEW q \in Queue, NEW s \in Seq(Proc), NEW tab, Links(tab, q, s)
  PROVE  /\ \A i \in 1 .. Len(s)+1 : tab[NodeOf(q, s, i)].qprev = NodeOf(q, s, i-1)
         /\ \A i \in 0 .. Len(s) : tab[NodeOf(q, s, i)].qnext = NodeOf(q, s, i+1)
<1>1. Len(s) \in Nat
  BY LenProperties
<1>2. ASSUME NEW i \in 1 .. Len(s)+1 PROVE tab[NodeOf(q, s, i)].qprev = NodeOf(q, s, i-1)
  <2>1. i-1 \in 0 .. Len(s) /\ (i-1)+1 = i
    BY <1>1
  <2>2. tab[NodeOf(q, s, (i-1)+1)].qprev = NodeOf(q, s, i-1)
    BY <2>1 DEF Links
  <2> QED BY <2>1, <2>2
<1> QED BY <1>2 DEF Links

LEMMA LinkinLinks ==
  ASSUME queuetab \in Tables, NEW p \in Node, NEW prev \in Node, NEW next \in Node,
         prev # p, next # p, NEW new, new = Linkin(p, prev, next)
  PROVE  /\ new \in Tables /\ LinkedIn(queuetab, new, prev, p, next)
         /\ SameKeys(queuetab, new)
<1>1. PICK a : a = [queuetab EXCEPT ![p].qnext = next, ![p].qprev = prev]
  OBVIOUS
<1>2. /\ a \in Tables /\ a[p].qnext = next /\ a[p].qprev = prev
      /\ \A n \in Node : a[n].qkey = queuetab[n].qkey
      /\ \A n \in Node \ {p} : a[n] = queuetab[n]
  BY <1>1 DEF Tables
<1>3. new = [a EXCEPT ![prev].qnext = p, ![next].qprev = p]
  BY <1>1 DEF Linkin
<1>4. PICK b : b = [a EXCEPT ![prev].qnext = p]
  OBVIOUS
<1>5. /\ b \in Tables /\ b[prev].qnext = p /\ b[p] = a[p]
      /\ \A n \in Node : b[n].qkey = a[n].qkey /\ b[n].qprev = a[n].qprev
      /\ \A n \in Node \ {prev} : b[n].qnext = a[n].qnext
  BY <1>2, <1>4 DEF Tables
<1>6. new = [b EXCEPT ![next].qprev = p]
  BY <1>3, <1>4
<1>7. /\ new \in Tables /\ new[next].qprev = p /\ new[p] = b[p]
      /\ \A n \in Node : new[n].qkey = b[n].qkey /\ new[n].qnext = b[n].qnext
      /\ \A n \in Node \ {next} : new[n].qprev = b[n].qprev
  BY <1>5, <1>6 DEF Tables
<1> QED BY <1>2, <1>5, <1>7 DEF LinkedIn, Relinked, SameKeys

LEMMA UnlinkedLinks ==
  ASSUME queuetab \in Tables, NEW p \in Node, queuetab[p].qnext \in Node,
         queuetab[p].qprev \in Node, NEW new, new = Unlinked(p)
  PROVE  /\ new \in Tables
         /\ LinkedOut(queuetab, new, queuetab[p].qprev, p, queuetab[p].qnext)
         /\ SameKeys(queuetab, new)
<1>1. PICK prev, next : prev = queuetab[p].qprev /\ next = queuetab[p].qnext
  OBVIOUS
<1>2. PICK a : a = [queuetab EXCEPT ![prev].qnext = next]
  OBVIOUS
<1>3. /\ a \in Tables /\ a[prev].qnext = next
      /\ \A n \in Node : a[n].qkey = queuetab[n].qkey /\ a[n].qprev = queuetab[n].qprev
      /\ \A n \in Node \ {prev} : a[n].qnext = queuetab[n].qnext
  BY <1>1, <1>2 DEF Tables
<1>4. new = [a EXCEPT ![next].qprev = prev]
  BY <1>1, <1>2 DEF Unlinked
<1>5. /\ new \in Tables /\ new[next].qprev = prev
      /\ \A n \in Node : new[n].qkey = a[n].qkey /\ new[n].qnext = a[n].qnext
      /\ \A n \in Node \ {next} : new[n].qprev = a[n].qprev
  BY <1>1, <1>3, <1>4 DEF Tables
<1> QED BY <1>1, <1>3, <1>5 DEF LinkedOut, Relinked, SameKeys

\* A key is set.
KeyIsSet(old, new, n, key) ==
  /\ new \in Tables /\ SameLinks(old, new)
  /\ \A m \in Node : new[m].qkey = IF m = n THEN key ELSE old[m].qkey

LEMMA KeySet ==
  ASSUME NEW old \in Tables, NEW n \in Node, NEW key \in Int,
         NEW new, new = [old EXCEPT ![n].qkey = key]
  PROVE  KeyIsSet(old, new, n, key)
BY DEF Tables, SameLinks, KeyIsSet

LEMMA StillLinkedIn ==
  ASSUME NEW old, NEW mid, NEW new, NEW p \in Node, NEW prev \in Node, NEW next \in Node,
         LinkedIn(old, mid, prev, p, next), SameLinks(mid, new)
  PROVE  LinkedIn(old, new, prev, p, next)
BY DEF LinkedIn, Relinked, SameLinks

LEMMA StillLinkedOut ==
  ASSUME NEW old, NEW mid, NEW new, NEW p \in Node, NEW prev \in Node, NEW next \in Node,
         LinkedOut(old, mid, prev, p, next), SameLinks(mid, new)
  PROVE  LinkedOut(old, new, prev, p, next)
BY DEF LinkedOut, Relinked, SameLinks

\* The last process of a list was inserted behind the others; what is left behind its
\* first is its tail.
LEMMA AppendInserts ==
  ASSUME NEW S, NEW s \in Seq(S), NEW e \in S
  PROVE  InsertAt(s, Len(s)+1, e) = Append(s, e)
<1>1. PICK r, t, i : r = InsertAt(s, i, e) /\ t = Append(s, e) /\ i = Len(s)+1
  OBVIOUS
<1>2. Len(s) \in Nat /\ i \in 1 .. Len(s)+1
  BY <1>1, LenProperties
<1>3. r \in Seq(S) /\ Inserted(r, s, i, e)
  BY <1>1, <1>2, InsertAtInserts
<1>4. /\ Len(r) = Len(s)+1
      /\ \A j \in 1 .. Len(s)+1 : r[j] = IF j < i THEN s[j] ELSE IF j = i THEN e ELSE s[j-1]
  BY <1>3 DEF Inserted
<1>5. t \in Seq(S) /\ Len(t) = Len(s)+1 /\ t[Len(s)+1] = e /\ \A j \in 1 .. Len(s) : t[j] = s[j]
  BY <1>1, AppendProperties
<1>6. \A j \in 1 .. Len(s)+1 : r[j] = t[j]
  <2> SUFFICES ASSUME NEW j \in 1 .. Len(s)+1 PROVE r[j] = t[j]
    OBVIOUS
  <2>1. CASE j = i
    BY <1>1, <1>4, <1>5, <2>1
  <2>2. CASE j # i
    <3>1. j \in 1 .. Len(s) /\ j < i
      BY <1>1, <1>2, <2>2
    <3> QED BY <1>4, <1>5, <3>1
  <2> QED BY <2>1, <2>2
<1>7. r = t
  BY <1>3, <1>4, <1>5, <1>6, SeqEqual
<1> QED BY <1>1, <1>7

LEMMA TailRemoves ==
  ASSUME NEW S, NEW s \in Seq(S), s # <<>>
  PROVE  RemoveAt(s, 1) = Tail(s) /\ Head(s) = s[1] /\ 1 \in 1 .. Len(s)
<1>1. PICK r, t : r = RemoveAt(s, 1) /\ t = Tail(s)
  OBVIOUS
<1>2. Len(s) \in Nat /\ 1 \in 1 .. Len(s)
  BY LenProperties, EmptySeq
<1>3. r \in Seq(S) /\ Removed(r, s, 1)
  BY <1>1, <1>2, RemoveAtRemoves
<1>4. Len(r) = Len(s)-1 /\ \A j \in 1 .. Len(s)-1 : r[j] = IF j < 1 THEN s[j] ELSE s[j+1]
  BY <1>3 DEF Removed
<1>5. t \in Seq(S) /\ Len(t) = Len(s)-1 /\ \A j \in 1 .. Len(t) : t[j] = s[j+1]
  BY <1>1, HeadTailProperties
<1>6. \A j \in 1 .. Len(s)-1 : r[j] = t[j]
  <2> SUFFICES ASSUME NEW j \in 1 .. Len(s)-1 PROVE r[j] = t[j]
    OBVIOUS
  <2>1. ~(j < 1)
    BY <1>2
  <2> QED BY <1>4, <1>5, <2>1
<1>7. r = t
  BY <1>3, <1>4, <1>5, <1>6, SeqEqual
<1>8. Head(s) = s[1]
  BY HeadTailProperties
<1> QED BY <1>1, <1>2, <1>7, <1>8
-----------------------------------------------------------------------------
(* Where the routines link processes in and out.                           *)

LEMMA TableTyped ==
  ASSUME TableSound
  PROVE  queuetab \in Tables /\ inqueue \in [Proc -> Queue \cup {EMPTY}]
BY DEF TableSound, TableTypes, Tables

\* Table new has p linked in before entry i of q.
PlacedIn(q, i, p, new) ==
  LET prev == NodeOf(q, List(q), i-1)
      next == NodeOf(q, List(q), i)
  IN /\ prev \in Node /\ next \in Node /\ prev # p /\ next # p
     /\ queuetab[next].qprev = prev
     /\ new \in Tables /\ LinkedIn(queuetab, new, prev, p, next) /\ SameKeys(queuetab, new)

LEMMA PlaceIn ==
  ASSUME TableSound, NEW q \in Queue, q < nextqid, NEW p \in Proc, inqueue[p] = EMPTY,
         NEW i \in 1 .. Len(List(q))+1
  PROVE  PlacedIn(q, i, p, Linkin(p, queuetab[NodeOf(q, List(q), i)].qprev,
                                  NodeOf(q, List(q), i)))
<1> DEFINE prev == NodeOf(q, List(q), i-1)
           next == NodeOf(q, List(q), i)
           new == Linkin(p, queuetab[next].qprev, next)
<1>1. PICK s : s = List(q)
  OBVIOUS
<1>2. /\ s \in Seq(Proc) /\ IsInjective(s) /\ Range(s) = {x \in Proc : inqueue[x] = q}
      /\ Links(queuetab, q, s)
  BY <1>1, ListsFacts
<1>3. p \notin Range(s) /\ p \in Node
  BY <1>2, TableFacts
<1>4. /\ Len(s) \in Nat /\ i \in 1 .. Len(s)+1 /\ i-1 \in 0 .. Len(s)+1 /\ i \in 0 .. Len(s)+1
  BY <1>1, <1>2, LenProperties
<1>5. \A j \in 0 .. Len(s)+1 : NodeOf(q, s, j) \in Node /\ NodeOf(q, s, j) # p
  <2> SUFFICES ASSUME NEW j \in 0 .. Len(s)+1
               PROVE  NodeOf(q, s, j) \in Node /\ NodeOf(q, s, j) # p
    OBVIOUS
  <2>1. j = 0 \/ j = Len(s)+1 \/ j \in 1 .. Len(s)
    BY <1>4
  <2>2. \A m \in 1 .. Len(s) : s[m] \in Range(s)
    BY <1>2, ListFacts
  <2>3. q # p /\ q + 1 # p
    BY QueueFacts
  <2>4. NodeOf(q, s, j) \in Node
    BY <1>2, NodeFacts
  <2> QED BY <1>2, <1>3, <2>1, <2>2, <2>3, <2>4, NodeFacts
<1>6. prev \in Node /\ next \in Node /\ prev # p /\ next # p
  BY <1>1, <1>4, <1>5
<1>7. queuetab[next].qprev = prev
  BY <1>1, <1>2, <1>4, Neighbours
<1>8. queuetab \in Tables /\ new = Linkin(p, prev, next)
  BY <1>7, TableTyped
<1> HIDE DEF prev, next, new
<1>9. new \in Tables /\ LinkedIn(queuetab, new, prev, p, next) /\ SameKeys(queuetab, new)
  BY <1>3, <1>6, <1>7, <1>8, LinkinLinks
<1> QED BY <1>6, <1>7, <1>9 DEF PlacedIn, prev, next, new

\* Table new has p, entry i of q, linked out.
PlacedOut(q, i, p, new) ==
  LET prev == NodeOf(q, List(q), i-1)
      next == NodeOf(q, List(q), i+1)
  IN /\ p \in Proc /\ p \in Node /\ inqueue[p] = q
     /\ prev \in Node /\ next \in Node /\ prev # p /\ next # p
     /\ queuetab[p].qnext = next
     /\ new \in Tables /\ LinkedOut(queuetab, new, prev, p, next) /\ SameKeys(queuetab, new)

LEMMA PlaceOut ==
  ASSUME TableSound, NEW q \in Queue, NEW i \in 1 .. Len(List(q)), NEW p, p = List(q)[i]
  PROVE  PlacedOut(q, i, p, Unlinked(p))
<1> DEFINE prev == NodeOf(q, List(q), i-1)
           next == NodeOf(q, List(q), i+1)
           new == Unlinked(p)
<1>1. PICK s : s = List(q)
  OBVIOUS
<1>2. s \in Seq(Proc) /\ IsInjective(s) /\ i \in 1 .. Len(s) /\ Len(s) \in Nat /\ s[i] = p
  BY <1>1, ListsFacts, LenProperties
<1>3. Range(s) = {x \in Proc : inqueue[x] = q} /\ Links(queuetab, q, s)
  <2>1. s # <<>>
    BY <1>2
  <2> QED BY <1>1, <2>1, ListsFacts
<1>4. p \in Range(s)
  BY <1>2, ListFacts
<1>5. p \in Proc /\ p \in Node /\ inqueue[p] = q
  BY <1>3, <1>4, TableFacts
<1>6. /\ i-1 \in 0 .. Len(s)+1 /\ i \in 0 .. Len(s)+1 /\ i+1 \in 0 .. Len(s)+1
      /\ i \in 1 .. Len(s)+1 /\ i \in 0 .. Len(s) /\ i-1 # i /\ i+1 # i
  BY <1>2
<1>7. NodeOf(q, s, i) = p
  BY <1>2, NodeFacts
<1>8. prev \in Node /\ next \in Node /\ prev # p /\ next # p
  BY <1>1, <1>2, <1>6, <1>7, NodeFacts
<1>9. queuetab[p].qnext = next /\ queuetab[p].qprev = prev
  BY <1>1, <1>2, <1>3, <1>6, <1>7, Neighbours
<1>10. /\ new \in Tables /\ LinkedOut(queuetab, new, prev, p, next)
       /\ SameKeys(queuetab, new)
  <2>1. queuetab \in Tables
    BY TableTyped
  <2>2. queuetab[p].qnext \in Node /\ queuetab[p].qprev \in Node
    BY <1>8, <1>9
  <2>3. /\ new \in Tables /\ SameKeys(queuetab, new)
        /\ LinkedOut(queuetab, new, queuetab[p].qprev, p, queuetab[p].qnext)
    BY <1>5, <2>1, <2>2, UnlinkedLinks
  <2> QED BY <1>9, <2>3
<1> QED BY <1>5, <1>8, <1>9, <1>10 DEF PlacedOut

\* The first process of a queue.
LEMMA FirstFacts ==
  ASSUME TableSound, NEW q \in Queue, q < nextqid
  PROVE  /\ isempty(q) <=> List(q) = <<>>
         /\ List(q) # <<>> => /\ firstid(q) = List(q)[1] /\ firstid(q) = Head(List(q))
                              /\ 1 \in 1 .. Len(List(q))
<1>1. PICK s : s = List(q)
  OBVIOUS
<1>2. s \in Seq(Proc) /\ IsInjective(s) /\ Links(queuetab, q, s) /\ Len(s) \in Nat
  BY <1>1, ListsFacts, LenProperties
<1>3. firstid(q) = NodeOf(q, s, 1)
  BY <1>2, FirstNode
<1>4. CASE s = <<>>
  <2>1. Len(s)+1 = 1
    BY <1>4
  <2>2. firstid(q) = q + 1
    BY <1>2, <1>3, <2>1, NodeFacts
  <2>3. NPROC \in Nat /\ q \in Nat /\ q >= NPROC
    BY TableFacts, QueueFacts
  <2>4. isempty(q)
    BY <2>2, <2>3 DEF isempty
  <2> QED BY <1>1, <1>4, <2>4
<1>5. CASE s # <<>>
  <2>1. 1 \in 1 .. Len(s) /\ Head(s) = s[1]
    BY <1>2, <1>5, TailRemoves
  <2>2. firstid(q) = s[1] /\ s[1] \in Proc
    BY <1>2, <1>3, <2>1, NodeFacts, ListFacts
  <2>3. NPROC \in Nat /\ s[1] \in Nat /\ s[1] < NPROC
    BY <2>2, TableFacts
  <2>4. ~isempty(q)
    BY <2>2, <2>3 DEF isempty
  <2> QED BY <1>1, <1>5, <2>1, <2>2, <2>4
<1> QED BY <1>4, <1>5

-----------------------------------------------------------------------------
(* The calls on lists.                                                     *)

\* The operators on lists are those of Queues.
LEMMA ListOperators ==
  /\ \A s : Lists!Range(s) = Range(s)
  /\ \A s, i : Lists!RemoveAt(s, i) = RemoveAt(s, i)
  /\ \A s, i, e : Lists!InsertAt(s, i, e) = InsertAt(s, i, e)
  /\ \A s, ks, p, key : Lists!Insert(s, ks, p, key) = Insert(s, ks, p, key)
  /\ \A s, ks : Lists!Elapsed(s, ks) = Elapsed(s, ks)
  /\ \A s, ks, p, key : Lists!Insertd(s, ks, p, key) = Insertd(s, ks, p, key)
  /\ \A s, ks, p, key : Lists!InsertdKeys(s, ks, p, key) = InsertdKeys(s, ks, p, key)
<1>1. \A s : Lists!Range(s) = Range(s)
  BY DEF Lists!Range, Range
<1>2. \A s, i : Lists!RemoveAt(s, i) = RemoveAt(s, i)
  BY DEF Lists!RemoveAt, RemoveAt
<1>3. \A s, i, e : Lists!InsertAt(s, i, e) = InsertAt(s, i, e)
  BY DEF Lists!InsertAt, InsertAt
<1>4. \A s, ks : Lists!Elapsed(s, ks) = Elapsed(s, ks)
  BY DEF Lists!Elapsed, Elapsed
<1>5. \A S : Lists!Min(S) = Min(S)
  BY DEF Lists!Min, Min
<1>6. \A s, ks, key : Lists!InsertPosition(s, ks, key) = InsertPosition(s, ks, key)
  BY <1>5 DEF Lists!InsertPosition, InsertPosition
<1>7. \A s, ks, key : Lists!InsertdPosition(s, ks, key) = InsertdPosition(s, ks, key)
  BY <1>4, <1>5 DEF Lists!InsertdPosition, InsertdPosition
<1>8. \A s, ks, p, key : Lists!Insert(s, ks, p, key) = Insert(s, ks, p, key)
  BY <1>3, <1>6 DEF Lists!Insert, Insert
<1>9. \A s, ks, p, key : Lists!Insertd(s, ks, p, key) = Insertd(s, ks, p, key)
  BY <1>3, <1>7 DEF Lists!Insertd, Insertd
<1>10. \A s, ks, p, key : Lists!InsertdKeys(s, ks, p, key) = InsertdKeys(s, ks, p, key)
  <2> TAKE s, ks, p, key
  <2>1. PICK i, sum : i = InsertdPosition(s, ks, key) /\ sum = Elapsed(s, ks)
    OBVIOUS
  <2>2. i = Lists!InsertdPosition(s, ks, key) /\ sum = Lists!Elapsed(s, ks)
    BY <1>4, <1>7, <2>1
  <2>3. InsertdKeys(s, ks, p, key)
          = IF i <= Len(s) THEN [ks EXCEPT ![p] = key - sum[i-1], ![s[i]] = @ - (key - sum[i-1])]
            ELSE [ks EXCEPT ![p] = key - sum[i-1]]
    BY <2>1, Zenon DEF InsertdKeys
  <2>4. Lists!InsertdKeys(s, ks, p, key)
          = IF i <= Len(s) THEN [ks EXCEPT ![p] = key - sum[i-1], ![s[i]] = @ - (key - sum[i-1])]
            ELSE [ks EXCEPT ![p] = key - sum[i-1]]
    BY <2>2, Zenon DEF Lists!InsertdKeys
  <2> QED BY <2>3, <2>4
<1> QED BY <1>1, <1>2, <1>3, <1>4, <1>8, <1>9, <1>10

\* A process whose state names no queue is in none.
LEMMA NotQueued ==
  ASSUME TableSound, NEW p \in Proc, inqueue[p] = EMPTY
  PROVE  ~Lists!Queued(p)
<1>1. \A q \in Queue : p \notin Range(List(q))
  BY ListsFacts, TableFacts
<1> QED BY <1>1, ListOperators DEF Lists!Queued, listsBar, keysBar

\* The lists when one of them changes, and when none does.
LEMMA OneList ==
  ASSUME NEW q \in Queue, NEW r, List(q)' = r,
         \A t \in Queue : t # q => List(t)' = List(t)
  PROVE  [t \in Queue |-> List(t)]' = [[t \in Queue |-> List(t)] EXCEPT ![q] = r]
OBVIOUS

\* The keys when entry n gets key, and when none does.
LEMMA NewKeys ==
  ASSUME NEW new
  PROVE  (\A p \in Proc : queuetab'[p].qkey = new[p])
           => [p \in Proc |-> queuetab[p].qkey]' = [p \in Proc |-> new[p]]
OBVIOUS

LEMMA EnqueueLists ==
  ASSUME TableSound, NEW p \in Proc, NEW q \in Queue, Enqueue(p, q)
  PROVE  TableSound' /\ Lists!Enqueue(p, q)
<1>1. PICK s, i, prev, next, new :
        /\ s = List(q) /\ i = Len(s)+1 /\ prev = NodeOf(q, s, i-1) /\ next = NodeOf(q, s, i)
        /\ new = Linkin(p, queuetab[next].qprev, next)
  OBVIOUS
<1>2. /\ q < nextqid /\ inqueue[p] = EMPTY /\ inqueue' = [inqueue EXCEPT ![p] = q]
      /\ call' = Call("enqueue", q, p) /\ nextqid' = nextqid
      /\ queuetab' = Linkin(p, queuetab[queuetail(q)].qprev, queuetail(q))
  BY DEF Enqueue, Given
<1>3. s \in Seq(Proc) /\ IsInjective(s) /\ Len(s) \in Nat /\ i \in 1 .. Len(s)+1
  BY <1>1, ListsFacts, LenProperties
<1>4. next = q + 1
  BY <1>1, <1>3, NodeFacts
<1>5. queuetab' = new
  BY <1>1, <1>2, <1>4 DEF queuetail
<1>6. /\ new \in Tables /\ LinkedIn(queuetab, new, prev, p, next)
      /\ SameKeys(queuetab, new)
  <2>1. i \in 1 .. Len(List(q))+1
    BY <1>1, <1>3
  <2>2. PlacedIn(q, i, p, new)
    <3>1. PlacedIn(q, i, p, Linkin(p, queuetab[NodeOf(q, List(q), i)].qprev,
                                   NodeOf(q, List(q), i)))
      BY <1>2, <2>1, PlaceIn
    <3> QED BY <1>1, <3>1
  <2> QED BY <1>1, <2>2 DEF PlacedIn
<1>7. SameEnds(queuetab, queuetab')
  BY <1>5, <1>6 DEF SameEnds, SameKeys
<1>8. /\ TableSound' /\ List(q)' = InsertAt(s, i, p)
      /\ \A t \in Queue : t # q => List(t)' = List(t)
  BY <1>1, <1>2, <1>3, <1>5, <1>6, <1>7, PutIn
<1>9. InsertAt(s, i, p) = Append(s, p)
  BY <1>1, <1>3, AppendInserts
<1>10. [t \in Queue |-> List(t)]' = [[t \in Queue |-> List(t)] EXCEPT ![q] = Append(List(q), p)]
  BY <1>1, <1>8, <1>9, OneList
<1>11. [x \in Proc |-> queuetab[x].qkey]' = [x \in Proc |-> queuetab[x].qkey]
  BY <1>5, <1>6, TableFacts DEF SameKeys
<1>12. ~Lists!Queued(p)
  BY <1>2, NotQueued
<1> QED BY <1>2, <1>8, <1>10, <1>11, <1>12 DEF Lists!Enqueue, Lists!Call, Call, listsBar, keysBar

LEMMA InsertLists ==
  ASSUME TableSound, NEW p \in Proc, NEW q \in Queue, NEW key \in Prios, Insertp(p, q, key)
  PROVE  TableSound' /\ Lists!InsertKey(p, q, key)
<1>1. PICK s, ks, i :
        s = List(q) /\ ks = [x \in Proc |-> queuetab[x].qkey] /\ i = InsertPosition(s, ks, key)
  OBVIOUS
<1>2. PICK prev, next, mid :
        /\ prev = NodeOf(q, s, i-1) /\ next = NodeOf(q, s, i)
        /\ mid = Linkin(p, queuetab[next].qprev, next)
  OBVIOUS
<1>3. /\ q < nextqid /\ inqueue[p] = EMPTY /\ inqueue' = [inqueue EXCEPT ![p] = q]
      /\ call' = Call("insert", q, p) /\ nextqid' = nextqid
  BY DEF Insertp, Given
<1>4. /\ s \in Seq(Proc) /\ IsInjective(s) /\ Links(queuetab, q, s)
      /\ queuetab[q + 1].qkey = MINKEY
  BY <1>1, <1>3, ListsFacts
<1>5. key \in Int /\ MINKEY < key
  BY TableSizes
<1>6. i \in 1 .. Len(s)+1 /\ Loop(PassKeys(key), firstid(q))[NPROC] = next
  BY <1>1, <1>2, <1>4, <1>5, InsertStops DEF TableSound
<1>7. queuetab' = [mid EXCEPT ![p].qkey = key]
  BY <1>2, <1>6 DEF Insertp
<1>8. /\ mid \in Tables /\ LinkedIn(queuetab, mid, prev, p, next) /\ prev \in Node /\ next \in Node
      /\ SameKeys(queuetab, mid)
  <2>1. i \in 1 .. Len(List(q))+1
    BY <1>1, <1>6
  <2>2. PlacedIn(q, i, p, mid)
    <3>1. PlacedIn(q, i, p, Linkin(p, queuetab[NodeOf(q, List(q), i)].qprev,
                                   NodeOf(q, List(q), i)))
      BY <1>3, <2>1, PlaceIn
    <3> QED BY <1>1, <1>2, <3>1
  <2> QED BY <1>1, <1>2, <2>2 DEF PlacedIn
<1>9. p \in Node
  BY TableFacts
<1>10. /\ queuetab' \in Tables /\ SameLinks(mid, queuetab')
       /\ \A n \in Node : queuetab'[n].qkey = IF n = p THEN key ELSE mid[n].qkey
  <2>1. KeyIsSet(mid, queuetab', p, key)
    BY <1>5, <1>7, <1>8, <1>9, KeySet, Zenon
  <2> QED BY <2>1 DEF KeyIsSet
<1>11. LinkedIn(queuetab, queuetab', prev, p, next)
  BY <1>8, <1>9, <1>10, StillLinkedIn
<1>12. SameEnds(queuetab, queuetab')
  BY <1>8, <1>9, <1>10 DEF SameEnds, SameKeys
<1>13. /\ TableSound' /\ List(q)' = InsertAt(s, i, p)
       /\ \A t \in Queue : t # q => List(t)' = List(t)
  BY <1>1, <1>2, <1>3, <1>6, <1>10, <1>11, <1>12, PutIn
<1>14. InsertAt(s, i, p) = Insert(s, ks, p, key)
  BY <1>1 DEF Insert
<1>15. [t \in Queue |-> List(t)]'
         = [[t \in Queue |-> List(t)] EXCEPT ![q] = Lists!Insert(List(q), ks, p, key)]
  BY <1>1, <1>13, <1>14, OneList, ListOperators
<1>16. [x \in Proc |-> queuetab[x].qkey]' = [ks EXCEPT ![p] = key]
  BY <1>1, <1>8, <1>10, TableFacts DEF SameKeys
<1>17. ~Lists!Queued(p)
  BY <1>3, NotQueued
<1> QED BY <1>1, <1>3, <1>13, <1>15, <1>16, <1>17 DEF Lists!InsertKey, Lists!Call, Call, listsBar, keysBar

LEMMA InsertdLists ==
  ASSUME TableSound, NEW p \in Proc, NEW q \in Queue, NEW delay \in Delays, Insertdp(p, q, delay)
  PROVE  TableSound' /\ Lists!InsertDelay(p, q, delay)
<1>1. PICK s, ks, i, rest :
        /\ s = List(q) /\ ks = [x \in Proc |-> queuetab[x].qkey]
        /\ i = InsertdPosition(s, ks, delay) /\ rest = delay - Elapsed(s, ks)[i-1]
  OBVIOUS
<1>2. PICK prev, next, mid, linked :
        /\ prev = NodeOf(q, s, i-1) /\ next = NodeOf(q, s, i)
        /\ mid = Linkin(p, queuetab[next].qprev, next) /\ linked = [mid EXCEPT ![p].qkey = rest]
  OBVIOUS
<1>3. /\ q < nextqid /\ inqueue[p] = EMPTY /\ inqueue' = [inqueue EXCEPT ![p] = q]
      /\ call' = Call("insertd", q, p) /\ nextqid' = nextqid
  BY DEF Insertdp, Given
<1>4. /\ s \in Seq(Proc) /\ IsInjective(s) /\ Links(queuetab, q, s) /\ Len(s) \in Nat
      /\ Range(s) = {x \in Proc : inqueue[x] = q}
  BY <1>1, <1>3, ListsFacts, LenProperties
<1>5. delay \in Int
  BY TableSizes
<1>6. /\ i \in 1 .. Len(s)+1 /\ rest \in Int
      /\ Loop(PassDelays(q), [next |-> firstid(q), prev |-> queuehead(q), key |-> delay])[NPROC]
           = [next |-> next, prev |-> prev, key |-> rest]
  <2>1. /\ i \in 1 .. Len(s)+1 /\ Elapsed(s, ks)[i-1] \in Int
        /\ Loop(PassDelays(q), [next |-> firstid(q), prev |-> queuehead(q), key |-> delay])[NPROC]
             = [next |-> NodeOf(q, s, i), prev |-> NodeOf(q, s, i-1),
                key |-> delay - Elapsed(s, ks)[i-1]]
    <3>1. TableTypes
      BY DEF TableSound
    <3>2. StopsAtDelay(q, s, ks, delay, i)
      BY <1>1, <1>4, <1>5, <3>1, InsertdStops
    <3> QED BY <3>2 DEF StopsAtDelay
  <2>2. delay - Elapsed(s, ks)[i-1] \in Int
    BY <1>5, <2>1
  <2> QED BY <1>1, <1>2, <2>1, <2>2
<1>7. /\ mid \in Tables /\ LinkedIn(queuetab, mid, prev, p, next) /\ prev \in Node /\ next \in Node
      /\ queuetab[next].qprev = prev /\ next # p
      /\ SameKeys(queuetab, mid)
  <2>1. i \in 1 .. Len(List(q))+1
    BY <1>1, <1>6
  <2>2. PlacedIn(q, i, p, mid)
    <3>1. PlacedIn(q, i, p, Linkin(p, queuetab[NodeOf(q, List(q), i)].qprev,
                                   NodeOf(q, List(q), i)))
      BY <1>3, <2>1, PlaceIn
    <3> QED BY <1>1, <1>2, <3>1
  <2> QED BY <1>1, <1>2, <2>2 DEF PlacedIn
<1>8. queuetab' = IF next # queuetail(q) THEN [linked EXCEPT ![next].qkey = @ - rest] ELSE linked
  <2>1. PICK w : w = Loop(PassDelays(q),
                          [next |-> firstid(q), prev |-> queuehead(q), key |-> delay])[NPROC]
    OBVIOUS
  <2>2. w.next = next /\ w.prev = prev /\ w.key = rest
    BY <1>6, <2>1
  <2>3. linked = [Linkin(p, w.prev, w.next) EXCEPT ![p].qkey = w.key]
    BY <1>2, <1>7, <2>2
  <2>4. queuetab' = IF w.next # queuetail(q)
                    THEN [[Linkin(p, w.prev, w.next) EXCEPT ![p].qkey = w.key]
                            EXCEPT ![w.next].qkey = @ - w.key]
                    ELSE [Linkin(p, w.prev, w.next) EXCEPT ![p].qkey = w.key]
    BY <2>1, Zenon DEF Insertdp
  <2> QED BY <2>2, <2>3, <2>4
<1>9. p \in Node
  BY TableFacts
<1>10. /\ linked \in Tables /\ SameLinks(mid, linked)
       /\ \A n \in Node : linked[n].qkey = IF n = p THEN rest ELSE mid[n].qkey
  <2>1. KeyIsSet(mid, linked, p, rest)
    BY <1>2, <1>6, <1>7, <1>9, KeySet, Zenon
  <2> QED BY <2>1 DEF KeyIsSet
<1>11. next = queuetail(q) <=> i = Len(s)+1
  <2>1. i \in 0 .. Len(s)+1 /\ Len(s)+1 \in 0 .. Len(s)+1
    BY <1>4, <1>6
  <2> QED BY <1>2, <1>4, <2>1, NodeFacts DEF queuetail
<1>12. /\ queuetab' \in Tables /\ LinkedIn(queuetab, queuetab', prev, p, next)
       /\ SameEnds(queuetab, queuetab')
       /\ \A x \in Proc : queuetab'[x].qkey
            = IF x = p THEN rest
              ELSE IF i <= Len(s) /\ x = s[i] THEN queuetab[x].qkey - rest ELSE queuetab[x].qkey
  <2>1. CASE i = Len(s)+1
    <3>1. queuetab' = linked /\ ~(i <= Len(s))
      BY <1>4, <1>8, <1>11, <2>1
    <3>2. LinkedIn(queuetab, queuetab', prev, p, next)
      BY <1>7, <1>9, <1>10, <3>1, StillLinkedIn
    <3>3. SameEnds(queuetab, queuetab')
      BY <1>7, <1>9, <1>10, <3>1 DEF SameEnds, SameKeys
    <3> QED BY <1>7, <1>10, <3>1, <3>2, <3>3, TableFacts DEF SameKeys
  <2>2. CASE i \in 1 .. Len(s)
    <3>1. next = s[i] /\ next \in Proc /\ next \in Node /\ i <= Len(s) /\ i # Len(s)+1
      BY <1>2, <1>4, <2>2, NodeFacts, ListFacts, TableFacts
    <3>2. PICK key : key = linked[next].qkey - rest
      OBVIOUS
    <3>3. queuetab' = [linked EXCEPT ![next].qkey = key]
      BY <1>8, <1>11, <3>1, <3>2
    <3>4. queuetab[next].qkey \in Int /\ linked[next].qkey = queuetab[next].qkey
      BY <1>7, <1>10, <3>1, TableTyped DEF Tables, SameKeys
    <3>5. key \in Int /\ key = queuetab[next].qkey - rest
      BY <1>6, <3>2, <3>4
    <3>6. /\ queuetab' \in Tables /\ SameLinks(linked, queuetab')
          /\ \A n \in Node : queuetab'[n].qkey = IF n = next THEN key ELSE linked[n].qkey
      <4>1. KeyIsSet(linked, queuetab', next, key)
        BY <1>10, <3>1, <3>3, <3>5, KeySet, Zenon
      <4> QED BY <4>1 DEF KeyIsSet
    <3>7. LinkedIn(queuetab, linked, prev, p, next)
      BY <1>7, <1>9, <1>10, StillLinkedIn
    <3>8. LinkedIn(queuetab, queuetab', prev, p, next)
      BY <1>7, <1>9, <3>6, <3>7, StillLinkedIn
    <3>9. SameEnds(queuetab, queuetab')
      BY <1>7, <1>9, <1>10, <3>1, <3>6 DEF SameEnds, SameKeys
    <3>10. ASSUME NEW x \in Proc
           PROVE  queuetab'[x].qkey
                    = IF x = p THEN rest
                      ELSE IF i <= Len(s) /\ x = s[i] THEN queuetab[x].qkey - rest
                      ELSE queuetab[x].qkey
      <4>1. x \in Node
        BY TableFacts
      <4> QED BY <1>7, <1>10, <3>1, <3>5, <3>6, <4>1 DEF SameKeys
    <3> QED BY <3>6, <3>8, <3>9, <3>10
  <2> QED BY <1>4, <1>6, <2>1, <2>2
<1>13. /\ TableSound' /\ List(q)' = InsertAt(s, i, p)
       /\ \A t \in Queue : t # q => List(t)' = List(t)
  BY <1>1, <1>2, <1>3, <1>6, <1>12, PutIn
<1>14. InsertAt(s, i, p) = Insertd(s, ks, p, delay)
  BY <1>1 DEF Insertd
<1>15. [t \in Queue |-> List(t)]'
         = [[t \in Queue |-> List(t)] EXCEPT ![q] = Lists!Insertd(List(q), ks, p, delay)]
  BY <1>1, <1>13, <1>14, OneList, ListOperators
<1>16. [x \in Proc |-> queuetab[x].qkey]' = InsertdKeys(s, ks, p, delay)
  <2>1. [x \in Proc |-> queuetab[x].qkey]'
          = [x \in Proc |-> IF x = p THEN rest
                            ELSE IF i <= Len(s) /\ x = s[i] THEN queuetab[x].qkey - rest
                            ELSE queuetab[x].qkey]
    BY <1>12
  <2>2. InsertdKeys(s, ks, p, delay)
          = IF i <= Len(s) THEN [ks EXCEPT ![p] = rest, ![s[i]] = @ - rest]
            ELSE [ks EXCEPT ![p] = rest]
    BY <1>1, Zenon DEF InsertdKeys
  <2>3. CASE i <= Len(s)
    <3>1. s[i] \in Proc /\ s[i] # p
      <4>1. i \in 1 .. Len(s)
        BY <1>4, <1>6, <2>3
      <4>2. s[i] \in Range(s)
        BY <1>4, <4>1, ListFacts
      <4>3. EMPTY # q
        BY TableFacts
      <4> QED BY <1>3, <1>4, <4>2, <4>3
    <3>2. [ks EXCEPT ![p] = rest, ![s[i]] = @ - rest]
            = [x \in Proc |-> IF x = p THEN rest
                              ELSE IF x = s[i] THEN queuetab[x].qkey - rest
                              ELSE queuetab[x].qkey]
      BY <1>1, <3>1
    <3> QED BY <2>1, <2>2, <2>3, <3>2
  <2>4. CASE ~(i <= Len(s))
    <3>1. [ks EXCEPT ![p] = rest]
            = [x \in Proc |-> IF x = p THEN rest ELSE queuetab[x].qkey]
      BY <1>1
    <3> QED BY <2>1, <2>2, <2>4, <3>1
  <2> QED BY <2>3, <2>4
<1>17. [x \in Proc |-> queuetab[x].qkey]'
         = Lists!InsertdKeys([t \in Queue |-> List(t)][q], [x \in Proc |-> queuetab[x].qkey],
                             p, delay)
  BY <1>1, <1>16, ListOperators
<1>18. ~Lists!Queued(p)
  BY <1>3, NotQueued
<1> QED BY <1>1, <1>3, <1>13, <1>15, <1>17, <1>18 DEF Lists!InsertDelay, Lists!Call, Call, listsBar, keysBar

\* A call that links out entry i of q, whatever it does to the keys of processes.
LEMMA TakeLists ==
  ASSUME TableSound, NEW q \in Queue, NEW i \in 1 .. Len(List(q)), NEW p, p = List(q)[i],
         inqueue' = [inqueue EXCEPT ![p] = EMPTY], nextqid' = nextqid,
         NEW mid, PlacedOut(q, i, p, mid), queuetab' \in Tables,
         SameLinks(mid, queuetab'), SameEnds(mid, queuetab')
  PROVE  /\ TableSound' /\ List(q)' = RemoveAt(List(q), i)
         /\ [t \in Queue |-> List(t)]'
              = [[t \in Queue |-> List(t)] EXCEPT ![q] = RemoveAt(List(q), i)]
<1>1. PICK prev, next : prev = NodeOf(q, List(q), i-1) /\ next = NodeOf(q, List(q), i+1)
  OBVIOUS
<1>2. /\ p \in Node /\ prev \in Node /\ next \in Node
      /\ LinkedOut(queuetab, mid, prev, p, next) /\ SameKeys(queuetab, mid)
  BY <1>1 DEF PlacedOut
<1>3. LinkedOut(queuetab, queuetab', prev, p, next)
  BY <1>2, StillLinkedOut
<1>4. SameEnds(queuetab, queuetab')
  BY <1>2 DEF SameEnds, SameKeys
<1>5. LinkedOut(queuetab, queuetab', NodeOf(q, List(q), i-1), p, NodeOf(q, List(q), i+1))
  BY <1>1, <1>3
<1>6. /\ TableSound' /\ List(q)' = RemoveAt(List(q), i)
      /\ \A t \in Queue : t # q => List(t)' = List(t)
  BY <1>4, <1>5, TakeOut
<1> QED BY <1>6, OneList

\* The lists and the keys when nobody is taken.
LEMMA NobodyLists ==
  ASSUME TableSound, NEW q \in Queue, q < nextqid, NEW op, NobodyTaken(op, q)
  PROVE  TableSound' /\ Lists!TakeFirst(op, q)
<1>1. /\ isempty(q) /\ call' = Call(op, q, EMPTY)
      /\ queuetab' = queuetab /\ UNCHANGED <<inqueue, nextqid>>
  BY DEF NobodyTaken
<1>2. queuetab' \in Tables /\ SameLinks(queuetab, queuetab') /\ SameEnds(queuetab, queuetab')
  BY <1>1, TableTyped DEF SameLinks, SameEnds
<1>3. TableSound' /\ \A t \in Queue : List(t)' = List(t)
  BY <1>1, <1>2, NobodyMoves
<1>4. List(q) = <<>>
  BY <1>1, FirstFacts
<1>5. /\ [t \in Queue |-> List(t)]' = [t \in Queue |-> List(t)]
      /\ [x \in Proc |-> queuetab[x].qkey]' = [x \in Proc |-> queuetab[x].qkey]
  BY <1>1, <1>3
<1> QED BY <1>1, <1>3, <1>4, <1>5 DEF Lists!TakeFirst, Lists!Call, Call, listsBar, keysBar

\* The first process is taken out of a queue, and its links may be cleared.
LEMMA FirstTaken ==
  ASSUME TableSound, NEW q \in Queue, q < nextqid, NEW op, ~isempty(q),
         Taken(op, firstid(q), q), NEW p, p = firstid(q),
         queuetab' \in {Unlinked(p), [Unlinked(p) EXCEPT ![p].qnext = EMPTY, ![p].qprev = EMPTY]}
  PROVE  TableSound' /\ Lists!TakeFirst(op, q)
<1>1. PICK s, prev, next, mid :
        /\ s = List(q) /\ prev = NodeOf(q, s, 1-1) /\ next = NodeOf(q, s, 1+1)
        /\ mid = Unlinked(p)
  OBVIOUS
<1>2. s \in Seq(Proc) /\ s # <<>> /\ p = s[1] /\ p = Head(s) /\ 1 \in 1 .. Len(s)
  BY <1>1, FirstFacts, ListsFacts
<1>3. PlacedOut(q, 1, p, mid)
  <2>1. 1 \in 1 .. Len(List(q)) /\ p = List(q)[1]
    BY <1>1, <1>2
  <2>2. PlacedOut(q, 1, p, Unlinked(p))
    BY <2>1, PlaceOut
  <2> QED BY <1>1, <2>2
<1>4. /\ p \in Proc /\ p \in Node /\ prev # p /\ next # p /\ prev \in Node /\ next \in Node
      /\ mid \in Tables /\ LinkedOut(queuetab, mid, prev, p, next) /\ SameKeys(queuetab, mid)
  BY <1>1, <1>3 DEF PlacedOut
<1>5. /\ queuetab' \in Tables /\ LinkedOut(queuetab, queuetab', prev, p, next)
      /\ SameKeys(queuetab, queuetab')
  <2>1. CASE queuetab' = mid
    BY <1>4, <2>1
  <2>2. CASE queuetab' = [mid EXCEPT ![p].qnext = EMPTY, ![p].qprev = EMPTY]
    <3>1. /\ queuetab' \in Tables /\ \A n \in Node \ {p} : queuetab'[n] = mid[n]
          /\ \A n \in Node : queuetab'[n].qkey = mid[n].qkey
      BY <1>4, <2>2 DEF Tables
    <3> QED BY <1>4, <3>1 DEF LinkedOut, Relinked, SameKeys
  <2> QED BY <1>1, <2>1, <2>2
<1>6. SameEnds(queuetab, queuetab')
  BY <1>5 DEF SameEnds, SameKeys
<1>7. /\ inqueue' = [inqueue EXCEPT ![p] = EMPTY] /\ nextqid' = nextqid /\ call' = Call(op, q, p)
  BY DEF Taken
<1>8. /\ TableSound' /\ List(q)' = RemoveAt(List(q), 1)
      /\ \A t \in Queue : t # q => List(t)' = List(t)
  <2>1. 1 \in 1 .. Len(List(q)) /\ p = List(q)[1]
    BY <1>1, <1>2
  <2>2. LinkedOut(queuetab, queuetab', NodeOf(q, List(q), 1-1), p, NodeOf(q, List(q), 1+1))
    BY <1>1, <1>5
  <2> QED BY <1>5, <1>6, <1>7, <2>1, <2>2, TakeOut
<1>9. RemoveAt(s, 1) = Tail(s)
  BY <1>2, TailRemoves
<1>10. [t \in Queue |-> List(t)]' = [[t \in Queue |-> List(t)] EXCEPT ![q] = Tail(List(q))]
  BY <1>1, <1>8, <1>9, OneList
<1>11. [x \in Proc |-> queuetab[x].qkey]' = [x \in Proc |-> queuetab[x].qkey]
  BY <1>5, TableFacts DEF SameKeys
<1> QED BY <1>1, <1>2, <1>7, <1>8, <1>10, <1>11 DEF Lists!TakeFirst, Lists!Call, Call, listsBar, keysBar

LEMMA GetfirstLists ==
  ASSUME TableSound, NEW q \in Queue, Getfirst(q)
  PROVE  TableSound' /\ Lists!TakeFirst("getfirst", q)
<1>1. q < nextqid
  BY DEF Getfirst
<1>2. CASE NobodyTaken("getfirst", q)
  BY <1>1, <1>2, NobodyLists
<1>3. CASE /\ ~isempty(q) /\ Taken("getfirst", firstid(q), q)
           /\ queuetab' = Unlinked(firstid(q))
  BY <1>1, <1>3, FirstTaken
<1> QED BY <1>2, <1>3 DEF Getfirst

LEMMA DequeueLists ==
  ASSUME TableSound, NEW q \in Queue, Dequeue(q)
  PROVE  TableSound' /\ Lists!TakeFirst("dequeue", q)
<1>1. q < nextqid
  BY DEF Dequeue
<1>2. CASE NobodyTaken("dequeue", q)
  BY <1>1, <1>2, NobodyLists
<1>3. CASE /\ ~isempty(q) /\ Taken("dequeue", firstid(q), q)
           /\ queuetab' = [Unlinked(firstid(q)) EXCEPT ![firstid(q)].qnext = EMPTY,
                                                       ![firstid(q)].qprev = EMPTY]
  BY <1>1, <1>3, FirstTaken
<1> QED BY <1>2, <1>3 DEF Dequeue

\* Where a process is in its list.
LEMMA PlaceOf ==
  ASSUME TableSound, NEW q \in Queue, NEW p \in Proc, inqueue[p] = q
  PROVE  /\ p \in Range(List(q))
         /\ \E i \in 1 .. Len(List(q)) : List(q)[i] = p /\ Lists!Place(List(q), p) = i
<1>1. PICK s : s = List(q)
  OBVIOUS
<1>2. s \in Seq(Proc) /\ IsInjective(s) /\ p \in Range(s)
  BY <1>1, ListsFacts
<1>3. PICK i \in 1 .. Len(s) : s[i] = p
  BY <1>2, ListFacts
<1>4. \A j \in 1 .. Len(s) : s[j] = p => j = i
  BY <1>2, <1>3, ListFacts
<1>5. Lists!Place(s, p) = i
  BY <1>3, <1>4 DEF Lists!Place
<1> QED BY <1>1, <1>2, <1>3, <1>5

LEMMA GetitemLists ==
  ASSUME TableSound, NEW p \in Proc, Getitem(p)
  PROVE  TableSound' /\ \E q \in Queue : p \in Lists!Range(List(q)) /\ Lists!Getitem(q, p)
<1>1. PICK q \in Queue : inqueue[p] = q
  BY TableFacts DEF Getitem
<1>2. /\ queuetab' = Unlinked(p) /\ inqueue' = [inqueue EXCEPT ![p] = EMPTY]
      /\ nextqid' = nextqid /\ call' = Call("getitem", q, p)
  BY <1>1 DEF Getitem, Taken
<1>3. PICK i \in 1 .. Len(List(q)) : List(q)[i] = p /\ Lists!Place(List(q), p) = i
  BY <1>1, PlaceOf
<1>4. PlacedOut(q, i, p, Unlinked(p))
  BY <1>3, PlaceOut
<1>5. /\ Unlinked(p) \in Tables /\ SameKeys(queuetab, queuetab')
      /\ SameLinks(Unlinked(p), queuetab') /\ SameEnds(Unlinked(p), queuetab')
  BY <1>2, <1>4 DEF PlacedOut, SameLinks, SameEnds
<1>6. /\ TableSound'
      /\ [t \in Queue |-> List(t)]'
           = [[t \in Queue |-> List(t)] EXCEPT ![q] = RemoveAt(List(q), i)]
  BY <1>2, <1>3, <1>4, <1>5, TakeLists
<1>7. [x \in Proc |-> queuetab[x].qkey]' = [x \in Proc |-> queuetab[x].qkey]
  BY <1>5, TableFacts DEF SameKeys
<1>8. p \in Lists!Range(List(q))
  BY <1>1, PlaceOf, ListOperators
<1>9. RemoveAt(List(q), i) = Lists!RemoveAt(List(q), Lists!Place(List(q), p))
  BY <1>3, ListOperators
<1>10. Lists!Getitem(q, p)
  BY <1>2, <1>6, <1>7, <1>9 DEF Lists!Getitem, Lists!Leave, Lists!Call, Call, listsBar, keysBar
<1> QED BY <1>6, <1>8, <1>10

LEMMA UnsleepLists ==
  ASSUME TableSound, NEW p \in Proc, Unsleep(p)
  PROVE  TableSound' /\ p \in Lists!Range(List(sleepq)) /\ Lists!Unsleep(sleepq, p)
<1>0. PICK q \in Queue : q = sleepq
  BY TableFacts
<1>1. /\ inqueue[p] = q /\ inqueue' = [inqueue EXCEPT ![p] = EMPTY]
      /\ nextqid' = nextqid /\ call' = Call("unsleep", q, p)
  BY <1>0 DEF Unsleep, Taken
<1>2. PICK i \in 1 .. Len(List(q)) : List(q)[i] = p /\ Lists!Place(List(q), p) = i
  BY <1>1, PlaceOf
<1>3. PICK s, ks, next, mid :
        /\ s = List(q) /\ ks = [x \in Proc |-> queuetab[x].qkey]
        /\ next = NodeOf(q, s, i+1) /\ mid = Unlinked(p)
  OBVIOUS
<1>4. s \in Seq(Proc) /\ IsInjective(s) /\ Len(s) \in Nat /\ i \in 1 .. Len(s) /\ s[i] = p
  BY <1>2, <1>3, ListsFacts, LenProperties
<1>5. PlacedOut(q, i, p, mid)
  BY <1>2, <1>3, PlaceOut
<1>6. /\ mid \in Tables /\ SameKeys(queuetab, mid)
      /\ queuetab[p].qnext = next /\ next # p /\ next \in Node
  BY <1>3, <1>5 DEF PlacedOut
<1>7. queuetab' = IF next < NPROC
                  THEN [mid EXCEPT ![next].qkey = @ + queuetab[p].qkey] ELSE mid
  BY <1>3, <1>6 DEF Unsleep
<1>8. /\ queuetab' \in Tables /\ SameLinks(mid, queuetab') /\ SameEnds(mid, queuetab')
      /\ \A x \in Proc : queuetab'[x].qkey
           = IF i < Len(s) /\ x = s[i+1] THEN queuetab[x].qkey + queuetab[p].qkey
             ELSE queuetab[x].qkey
  <2>1. CASE i < Len(s)
    <3>1. i+1 \in 1 .. Len(s)
      BY <1>4, <2>1
    <3>2. next = s[i+1] /\ next \in Proc
      BY <1>3, <1>4, <3>1, NodeFacts, ListFacts
    <3>3. next < NPROC /\ next \in Node
      BY <3>2, TableFacts
    <3>4. PICK key : key = mid[next].qkey + queuetab[p].qkey
      OBVIOUS
    <3>5. /\ mid[next].qkey = queuetab[next].qkey /\ queuetab[next].qkey \in Int
          /\ queuetab[p].qkey \in Int
      BY <1>6, <3>3, TableTyped, TableFacts DEF Tables, SameKeys
    <3>6. key \in Int /\ key = queuetab[next].qkey + queuetab[p].qkey
      BY <3>4, <3>5
    <3>7. queuetab' = [mid EXCEPT ![next].qkey = key]
      BY <1>7, <3>3, <3>4
    <3>8. KeyIsSet(mid, queuetab', next, key)
      BY <1>6, <3>3, <3>6, <3>7, KeySet, Zenon
    <3>9. SameEnds(mid, queuetab')
      BY <3>2, <3>8 DEF KeyIsSet, SameEnds
    <3>10. ASSUME NEW x \in Proc
           PROVE  queuetab'[x].qkey
                    = IF i < Len(s) /\ x = s[i+1] THEN queuetab[x].qkey + queuetab[p].qkey
                      ELSE queuetab[x].qkey
      <4>1. x \in Node /\ mid[x].qkey = queuetab[x].qkey
        BY <1>6, TableFacts DEF SameKeys
      <4> QED BY <2>1, <3>2, <3>6, <3>8, <4>1 DEF KeyIsSet
    <3> QED BY <3>8, <3>9, <3>10 DEF KeyIsSet
  <2>2. CASE i = Len(s)
    <3>1. next = q + 1
      BY <1>3, <1>4, <2>2, NodeFacts
    <3>2. ~(next < NPROC)
      BY <3>1, QueueFacts, TableFacts
    <3>3. queuetab' = mid /\ ~(i < Len(s))
      BY <1>4, <1>7, <2>2, <3>2
    <3> QED BY <1>6, <3>3, TableFacts DEF SameLinks, SameEnds, SameKeys
  <2> QED BY <1>4, <2>1, <2>2
<1>9. /\ TableSound'
      /\ [t \in Queue |-> List(t)]'
           = [[t \in Queue |-> List(t)] EXCEPT ![q] = RemoveAt(List(q), i)]
  BY <1>1, <1>2, <1>5, <1>8, TakeLists
<1>10. [x \in Proc |-> queuetab[x].qkey]'
         = IF i < Len(s) THEN [ks EXCEPT ![s[i+1]] = @ + ks[p]] ELSE ks
  <2>1. [x \in Proc |-> queuetab[x].qkey]'
          = [x \in Proc |-> IF i < Len(s) /\ x = s[i+1] THEN queuetab[x].qkey + queuetab[p].qkey
                            ELSE queuetab[x].qkey]
    BY <1>8
  <2>2. CASE i < Len(s)
    <3>1. s[i+1] \in Proc
      <4>1. i+1 \in 1 .. Len(s)
        BY <1>4, <2>2
      <4> QED BY <1>4, <4>1, ListFacts
    <3>2. [ks EXCEPT ![s[i+1]] = @ + ks[p]]
            = [x \in Proc |-> IF x = s[i+1] THEN queuetab[x].qkey + queuetab[p].qkey
                              ELSE queuetab[x].qkey]
      BY <1>3, <3>1
    <3> QED BY <2>1, <2>2, <3>2
  <2>3. CASE ~(i < Len(s))
    BY <1>3, <2>1, <2>3
  <2> QED BY <2>2, <2>3
<1>11. p \in Lists!Range(List(q))
  BY <1>1, PlaceOf, ListOperators
<1>12. RemoveAt(List(q), i) = Lists!RemoveAt(List(q), Lists!Place(List(q), p))
  BY <1>2, ListOperators
<1>13. Lists!Leave("unsleep", q, p)
  BY <1>1, <1>9, <1>12 DEF Lists!Leave, Lists!Call, Call, listsBar, keysBar
<1>14. Lists!Place([t \in Queue |-> List(t)][q], p) = i /\ [t \in Queue |-> List(t)][q] = s
  BY <1>2, <1>3
<1>15. Lists!Unsleep(q, p)
  BY <1>3, <1>10, <1>13, <1>14 DEF Lists!Unsleep, listsBar, keysBar
<1> QED BY <1>0, <1>9, <1>11, <1>15

LEMMA DecrementLists ==
  ASSUME TableSound, Decrement
  PROVE  TableSound' /\ Lists!Decrement(sleepq)
<1>0. PICK q \in Queue : q = sleepq
  BY TableFacts
<1>1. PICK s, ks, p : s = List(q) /\ ks = [x \in Proc |-> queuetab[x].qkey] /\ p = firstid(q)
  OBVIOUS
<1>2. /\ q < nextqid /\ ~isempty(q) /\ call' = Call("clkhandler", q, p)
      /\ queuetab' = [queuetab EXCEPT ![p].qkey = @ - 1] /\ UNCHANGED <<nextqid, inqueue>>
  BY <1>0, <1>1 DEF Decrement
<1>3. s \in Seq(Proc) /\ IsInjective(s) /\ s # <<>> /\ p = Head(s) /\ p = s[1] /\ 1 \in 1 .. Len(s)
  BY <1>1, <1>2, FirstFacts, ListsFacts
<1>4. p \in Proc /\ p \in Node
  BY <1>3, ListFacts, TableFacts
<1>5. PICK key : key = queuetab[p].qkey - 1
  OBVIOUS
<1>6. queuetab \in Tables /\ key \in Int
  BY <1>4, <1>5, TableTyped DEF Tables
<1>7. KeyIsSet(queuetab, queuetab', p, key)
  <2>1. queuetab' = [queuetab EXCEPT ![p].qkey = key]
    BY <1>2, <1>5
  <2> QED BY <1>4, <1>6, <2>1, KeySet, Zenon
<1>8. queuetab' \in Tables /\ SameLinks(queuetab, queuetab') /\ SameEnds(queuetab, queuetab')
  BY <1>4, <1>7 DEF KeyIsSet, SameEnds
<1>9. TableSound' /\ \A t \in Queue : List(t)' = List(t)
  BY <1>2, <1>8, NobodyMoves
<1>10. [t \in Queue |-> List(t)]' = [t \in Queue |-> List(t)]
  BY <1>9
<1>11. [x \in Proc |-> queuetab[x].qkey]' = [ks EXCEPT ![p] = @ - 1]
  <2>1. \A x \in Proc : queuetab'[x].qkey = IF x = p THEN ks[p] - 1 ELSE ks[x]
    BY <1>1, <1>4, <1>5, <1>7, TableFacts DEF KeyIsSet
  <2> QED BY <1>1, <2>1
<1>12. [t \in Queue |-> List(t)][q] = s
  BY <1>1
<1>13. Lists!Decrement(q)
  BY <1>1, <1>2, <1>3, <1>10, <1>11, <1>12 DEF Lists!Decrement, Lists!Call, Call, listsBar, keysBar
<1> QED BY <1>0, <1>9, <1>13

\* The entries of newqueue: the queues two by two, until the table is full.
LEMMA NextQueue ==
  /\ NPROC \in Queue /\ \A q \in Queue : NPROC <= q
  /\ \A q \in Queue : q + 2 \in Queue \cup {NQENT}
  /\ \A q \in Queue : q <= sleepq
  /\ \A q, t \in Queue : t < q + 2 => t < q \/ t = q
<1>1. NPROC \in Nat \ {0} /\ NSEM \in Nat
  BY TableSizes
<1>2. /\ readylist = NPROC + 2*NSEM /\ sleepq = NPROC + 2*NSEM + 2
      /\ NQENT = NPROC + 2*NSEM + 4
  BY <1>1 DEF readylist, sleepq, NQENT
<1>3. NPROC \in Queue
  <2>1. CASE NSEM = 0
    BY <1>1, <1>2, <2>1 DEF Queue
  <2>2. CASE NSEM # 0
    <3>1. 0 \in 0 .. NSEM-1 /\ NPROC = NPROC + 2*0
      BY <1>1, <2>2
    <3> QED BY <3>1 DEF Queue, SemQueue
  <2> QED BY <2>1, <2>2
<1>4. \A q \in Queue : NPROC <= q
  BY QueueFacts
<1>5. ASSUME NEW q \in Queue PROVE q + 2 \in Queue \cup {NQENT} /\ q <= sleepq
  <2>1. CASE q = sleepq
    BY <1>1, <1>2, <2>1
  <2>2. CASE q = readylist
    BY <1>1, <1>2, <2>2 DEF Queue
  <2>3. CASE q \in SemQueue
    <3>1. PICK s \in 0 .. NSEM-1 : q = NPROC + 2*s
      BY <2>3 DEF SemQueue
    <3>2. q <= sleepq
      BY <1>1, <1>2, <3>1
    <3>3. CASE s = NSEM-1
      BY <1>1, <1>2, <3>1, <3>2, <3>3 DEF Queue
    <3>4. CASE s # NSEM-1
      <4>1. s+1 \in 0 .. NSEM-1 /\ q + 2 = NPROC + 2*(s+1)
        BY <1>1, <3>1, <3>4
      <4> QED BY <3>2, <4>1 DEF Queue, SemQueue
    <3> QED BY <3>3, <3>4
  <2> QED BY <2>1, <2>2, <2>3 DEF Queue
<1>6. \A q, t \in Queue : t < q + 2 => t < q \/ t = q
  <2> SUFFICES ASSUME NEW q \in Queue, NEW t \in Queue, t < q + 2, t # q PROVE t < q
    OBVIOUS
  <2>1. q \in Nat /\ t \in Nat /\ t # q + 1
    BY QueueFacts
  <2> QED BY <2>1
<1> QED BY <1>3, <1>4, <1>5, <1>6

\* A new queue has the empty list.
LEMMA NewqueueLists ==
  ASSUME TableSound, Newqueue
  PROVE  /\ TableSound' /\ call' = call
         /\ [t \in Queue |-> List(t)]' = [t \in Queue |-> List(t)]
         /\ [x \in Proc |-> queuetab[x].qkey]' = [x \in Proc |-> queuetab[x].qkey]
<1>1. PICK q \in Queue : q = nextqid
  <2>1. nextqid \in Queue \cup {NQENT} /\ nextqid < NQENT
    BY DEF TableSound, TableTypes, Newqueue
  <2>2. NQENT \in Nat
    BY TableFacts
  <2>3. nextqid \in Queue
    BY <2>1, <2>2
  <2> QED BY <2>3
<1>2. /\ queuetab' = [queuetab EXCEPT ![q] = Entry(MAXKEY, q + 1, EMPTY),
                                      ![q + 1] = Entry(MINKEY, EMPTY, q)]
      /\ nextqid' = q + 2 /\ inqueue' = inqueue /\ call' = call
  BY <1>1 DEF Newqueue, queuehead, queuetail
<1>3. /\ q \in Nat /\ q \in Node /\ q + 1 \in Node /\ q \notin Proc /\ q + 1 \notin Proc
      /\ q # q + 1 /\ MINKEY \in Int /\ MAXKEY \in Int /\ queuetab \in Tables
  BY QueueFacts, TableFacts, TableTyped
<1>4. /\ queuetab' \in Tables
      /\ queuetab'[q] = Entry(MAXKEY, q + 1, EMPTY) /\ queuetab'[q + 1] = Entry(MINKEY, EMPTY, q)
      /\ \A n \in Node \ {q, q + 1} : queuetab'[n] = queuetab[n]
  BY <1>2, <1>3 DEF Tables, Entry
<1>5. TableTypes'
  BY <1>2, <1>4, NextQueue, TableTyped DEF TableTypes, Tables
<1>6. List(q) = <<>> /\ {p \in Proc : inqueue[p] = q} = {}
  <2>1. PICK s : s = List(q)
    OBVIOUS
  <2>2. s = <<>> /\ s \in Seq(Proc) /\ IsInjective(s) /\ Range(s) = {p \in Proc : inqueue[p] = q}
    BY <1>1, <1>3, <2>1, ListsFacts
  <2>3. Range(s) = {}
    <3>1. Len(s) = 0 /\ DOMAIN s = 1 .. Len(s)
      BY <2>2, LenProperties
    <3>2. DOMAIN s = {}
      BY <3>1
    <3> QED BY <3>2 DEF Range
  <2> QED BY <2>1, <2>2, <2>3
<1>7. HoldsNext(q, <<>>)
  <2>1. PICK s : s = List(q)
    OBVIOUS
  <2>2. s \in Seq(Proc) /\ IsInjective(s) /\ Range(s) = {p \in Proc : inqueue[p] = q} /\ s = <<>>
    BY <1>6, <2>1, ListsFacts
  <2>3. Len(s) = 0
    BY <2>2
  <2>4. Links(queuetab', q, s)
    <3>1. NodeOf(q, s, 0) = q /\ NodeOf(q, s, 0+1) = q + 1
      BY <2>3 DEF NodeOf, queuehead, queuetail
    <3>2. queuetab'[q].qnext = q + 1 /\ queuetab'[q + 1].qprev = q
      BY <1>4 DEF Entry
    <3>3. \A i \in 0 .. Len(s) : i = 0
      BY <2>3
    <3> QED BY <3>1, <3>2, <3>3 DEF Links
  <2>5. queuetab'[q].qkey = MAXKEY /\ queuetab'[q + 1].qkey = MINKEY
    BY <1>4 DEF Entry
  <2>6. HoldsNext(q, s)
    BY <1>2, <2>2, <2>4, <2>5 DEF HoldsNext, Holds
  <2> QED BY <2>2, <2>6
<1>8. ASSUME NEW t \in Queue, t # q PROVE HoldsNext(t, List(t))
  <2>1. PICK u : u = List(t)
    OBVIOUS
  <2>2. /\ u \in Seq(Proc) /\ IsInjective(u) /\ Range(u) = {x \in Proc : inqueue[x] = t}
        /\ t < nextqid => /\ Links(queuetab, t, u)
                          /\ queuetab[t].qkey = MAXKEY /\ queuetab[t + 1].qkey = MINKEY
        /\ ~(t < nextqid) => u = <<>>
    BY <2>1, ListsFacts
  <2>3. t < nextqid' <=> t < nextqid
    <3>1. t \in Nat
      BY QueueFacts
    <3>2. t < q + 2 => t < q
      BY <1>8, NextQueue
    <3> QED BY <1>1, <1>2, <1>3, <3>1, <3>2
  <2>4. \A i \in 0 .. Len(u)+1 : NodeOf(t, u, i) \in Node \ {q, q + 1}
    <3> SUFFICES ASSUME NEW i \in 0 .. Len(u)+1 PROVE NodeOf(t, u, i) \in Node \ {q, q + 1}
      OBVIOUS
    <3>1. Len(u) \in Nat
      BY <2>2, LenProperties
    <3>2. i = 0 \/ i = Len(u)+1 \/ i \in 1 .. Len(u)
      BY <3>1
    <3>3. NodeOf(t, u, i) \in Node
      BY <2>2, NodeFacts
    <3>4. t # q + 1 /\ t + 1 # q /\ t + 1 # q + 1
      BY <1>8, QueueFacts
    <3>5. CASE i = 0
      BY <1>8, <2>2, <3>3, <3>4, <3>5, NodeFacts
    <3>6. CASE i = Len(u)+1
      BY <2>2, <3>3, <3>4, <3>6, NodeFacts
    <3>7. CASE i \in 1 .. Len(u)
      <4>1. NodeOf(t, u, i) \in Proc
        BY <2>2, <3>7, NodeFacts, ListFacts
      <4> QED BY <1>3, <3>3, <4>1
    <3> QED BY <3>2, <3>5, <3>6, <3>7
  <2>5. Links(queuetab, t, u) => Links(queuetab', t, u)
    <3> SUFFICES ASSUME Links(queuetab, t, u), NEW i \in 0 .. Len(u)
                 PROVE  /\ queuetab'[NodeOf(t, u, i)].qnext = NodeOf(t, u, i+1)
                        /\ queuetab'[NodeOf(t, u, i+1)].qprev = NodeOf(t, u, i)
      BY DEF Links
    <3>1. i \in 0 .. Len(u)+1 /\ i+1 \in 0 .. Len(u)+1
      BY <2>2, LenProperties
    <3>2. /\ queuetab'[NodeOf(t, u, i)] = queuetab[NodeOf(t, u, i)]
          /\ queuetab'[NodeOf(t, u, i+1)] = queuetab[NodeOf(t, u, i+1)]
      BY <1>4, <2>4, <3>1
    <3> QED BY <3>2 DEF Links
  <2>6. queuetab'[t].qkey = queuetab[t].qkey /\ queuetab'[t + 1].qkey = queuetab[t + 1].qkey
    <3>1. t \in Node \ {q, q + 1} /\ t + 1 \in Node \ {q, q + 1}
      BY <1>8, QueueFacts
    <3> QED BY <1>4, <3>1
  <2>7. HoldsNext(t, u)
    BY <1>2, <2>2, <2>3, <2>5, <2>6 DEF HoldsNext, Holds
  <2> QED BY <2>1, <2>7
<1>9. PICK new : new = [t \in Queue |-> List(t)]
  OBVIOUS
<1>10. \A t \in Queue : new[t] = List(t)
  BY <1>9
<1>11. \A t \in Queue : HoldsNext(t, new[t])
  <2> SUFFICES ASSUME NEW t \in Queue PROVE HoldsNext(t, new[t])
    OBVIOUS
  <2>1. CASE t = q
    BY <1>6, <1>7, <1>10, <2>1
  <2>2. CASE t # q
    BY <1>8, <1>10, <2>2
  <2> QED BY <2>1, <2>2
<1>12. TableSound' /\ \A t \in Queue : List(t)' = new[t]
  BY <1>5, <1>11, NewLists
<1>13. [t \in Queue |-> List(t)]' = [t \in Queue |-> List(t)]
  BY <1>10, <1>12
<1>14. [x \in Proc |-> queuetab[x].qkey]' = [x \in Proc |-> queuetab[x].qkey]
  <2>1. \A x \in Proc : queuetab'[x] = queuetab[x]
    BY <1>3, <1>4, TableFacts
  <2> QED BY <2>1
<1> QED BY <1>2, <1>12, <1>13, <1>14

\* Before newqueue is called, no queue holds anything.
LEMMA InitLists ==
  ASSUME TabInit
  PROVE  TableSound /\ Lists!Init
<1>1. /\ queuetab = [n \in Node |-> Entry(0, 0, 0)] /\ nextqid = NPROC
      /\ inqueue = [p \in Proc |-> EMPTY] /\ call = Call("none", EMPTY, EMPTY)
  BY DEF TabInit
<1>2. 0 \in Node
  BY TableSizes DEF Node, NQENT
<1>3. TableTypes
  BY <1>1, <1>2, NextQueue DEF TableTypes, Entry
<1>4. ASSUME NEW q \in Queue PROVE ~(q < nextqid) /\ List(q) = <<>>
  <2>1. ~(q < nextqid)
    BY <1>1, NextQueue, QueueFacts, TableFacts
  <2> QED BY <2>1 DEF List
<1>5. ASSUME NEW q \in Queue PROVE QueueSound(q, <<>>)
  <2>1. {p \in Proc : inqueue[p] = q} = {}
    BY <1>1, TableFacts
  <2>2. <<>> \in Seq(Proc) /\ Range(<<>>) = {} /\ IsInjective(<<>>)
    BY EmptySeq DEF Range, IsInjective
  <2> QED BY <1>4, <2>1, <2>2 DEF QueueSound
<1>6. TableSound
  BY <1>3, <1>4, <1>5 DEF TableSound
<1>7. [q \in Queue |-> List(q)] = [q \in Queue |-> <<>>]
  BY <1>4
<1>8. [p \in Proc |-> queuetab[p].qkey] \in [Proc -> Int]
  BY <1>3, KeyFacts
<1> QED BY <1>1, <1>6, <1>7, <1>8 DEF Lists!Init, Lists!Call, Call, listsBar, keysBar

\* Each step of the table is a step of the lists, or leaves them as they are.
LEMMA StepLists ==
  ASSUME TableSound, TabNext
  PROVE  /\ TableSound'
         /\ \/ Lists!Next
            \/ UNCHANGED <<[t \in Queue |-> List(t)], [x \in Proc |-> queuetab[x].qkey], call>>
<1>0. SemQueue \subseteq Queue /\ readylist \in Queue /\ sleepq \in Queue
  BY TableFacts
<1>1. CASE Newqueue
  BY <1>1, NewqueueLists
<1>2. ASSUME NEW p \in Proc, NEW q \in SemQueue, Enqueue(p, q)
      PROVE  TableSound' /\ Lists!Next
  <2>1. q \in Queue
    BY <1>0
  <2>2. TableSound' /\ Lists!Enqueue(p, q)
    BY <1>2, <2>1, EnqueueLists
  <2> QED BY <2>1, <2>2 DEF Lists!Next, listsBar, keysBar
<1>3. ASSUME NEW p \in Proc, NEW key \in Prios, Insertp(p, readylist, key)
      PROVE  TableSound' /\ Lists!Next
  <2>1. TableSound' /\ Lists!InsertKey(p, readylist, key)
    BY <1>0, <1>3, InsertLists
  <2> QED BY <1>0, <2>1 DEF Lists!Next, listsBar, keysBar
<1>4. ASSUME NEW p \in Proc, NEW delay \in Delays, Insertdp(p, sleepq, delay)
      PROVE  TableSound' /\ Lists!Next
  <2>1. TableSound' /\ Lists!InsertDelay(p, sleepq, delay)
    BY <1>0, <1>4, InsertdLists
  <2> QED BY <1>0, <2>1 DEF Lists!Next, listsBar, keysBar
<1>5. ASSUME NEW p \in Proc, Getitem(p) PROVE TableSound' /\ Lists!Next
  <2>1. TableSound' /\ \E q \in Queue : p \in Lists!Range(List(q)) /\ Lists!Getitem(q, p)
    BY <1>5, GetitemLists
  <2> QED BY <2>1 DEF Lists!Next, listsBar, keysBar
<1>6. ASSUME NEW p \in Proc, Unsleep(p) PROVE TableSound' /\ Lists!Next
  <2>1. TableSound' /\ p \in Lists!Range(List(sleepq)) /\ Lists!Unsleep(sleepq, p)
    BY <1>6, UnsleepLists
  <2> QED BY <1>0, <2>1 DEF Lists!Next, listsBar, keysBar
<1>7. ASSUME NEW q \in SemQueue, Getfirst(q) PROVE TableSound' /\ Lists!Next
  <2>1. q \in Queue
    BY <1>0
  <2>2. TableSound' /\ Lists!TakeFirst("getfirst", q)
    BY <1>7, <2>1, GetfirstLists
  <2> QED BY <2>1, <2>2 DEF Lists!Next, listsBar, keysBar
<1>8. ASSUME NEW q \in Queue, Dequeue(q) PROVE TableSound' /\ Lists!Next
  <2>1. TableSound' /\ Lists!TakeFirst("dequeue", q)
    BY <1>8, DequeueLists
  <2> QED BY <2>1 DEF Lists!Next, listsBar, keysBar
<1>9. CASE \E q \in SemQueue \cup {readylist} : Dequeue(q)
  BY <1>0, <1>8, <1>9
<1>10. CASE Wakeup
  BY <1>0, <1>8, <1>10 DEF Wakeup
<1>11. CASE Decrement
  <2>1. TableSound' /\ Lists!Decrement(sleepq)
    BY <1>11, DecrementLists
  <2> QED BY <1>0, <2>1 DEF Lists!Next, listsBar, keysBar
<1> QED BY <1>1, <1>2, <1>3, <1>4, <1>5, <1>6, <1>7, <1>9, <1>10, <1>11 DEF TabNext

\* Nothing happens.
LEMMA StutterLists ==
  ASSUME TableSound, UNCHANGED tabVars
  PROVE  /\ TableSound'
         /\ UNCHANGED <<[t \in Queue |-> List(t)], [x \in Proc |-> queuetab[x].qkey], call>>
<1>1. queuetab' = queuetab /\ UNCHANGED <<inqueue, nextqid>> /\ call' = call
  BY DEF tabVars
<1>2. queuetab' \in Tables /\ SameLinks(queuetab, queuetab') /\ SameEnds(queuetab, queuetab')
  BY <1>1, TableTyped DEF SameLinks, SameEnds
<1>3. TableSound' /\ \A t \in Queue : List(t)' = List(t)
  BY <1>1, <1>2, NobodyMoves
<1> QED BY <1>1, <1>3
-----------------------------------------------------------------------------
\* The links are those of lists, at all times: whatever routines are called in whatever
\* order, the entries of a queue lead to each of its processes once and back, and to no
\* other, and all queues fit into the table (queue.c, insert.c, insertd.c, getitem.c,
\* newqueue.c, unsleep.c).
THEOREM TableAlwaysSound == TabSpec => []TableSound
<1>1. TabInit => TableSound
  BY InitLists
<1>2. TableSound /\ [TabNext]_tabVars => TableSound'
  BY StepLists, StutterLists
<1> QED BY <1>1, <1>2, PTL DEF TabSpec

\* So the table implements sequences of processes: each routine changes the list and the
\* keys as module Kernel assumes, and returns the process it takes out.
THEOREM QueuesImplementLists == TabSpec => QueuesAreLists
<1>1. TabInit => Lists!Init
  BY InitLists
<1>2. TableSound /\ [TabNext]_tabVars
        => [Lists!Next]_<<listsBar, keysBar, call>>
  BY StepLists, StutterLists DEF listsBar, keysBar
<1>3. TabInit => TableSound
  BY InitLists
<1>4. TableSound /\ [TabNext]_tabVars => TableSound'
  BY StepLists, StutterLists
<1> QED BY <1>1, <1>2, <1>3, <1>4, PTL DEF TabSpec, QueuesAreLists, Lists!Spec
=============================================================================
