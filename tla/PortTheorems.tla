---------------------------- MODULE PortTheorems ----------------------------
(***************************************************************************)
(* Ports of every number and size, used by every number of processes: no   *)
(* message node is lost or shared, a port in limbo is cleared by one       *)
(* process, the two semaphores of a port agree with its list, a port       *)
(* implements a bounded first-in first-out queue, and the nodes run out    *)
(* only if the ports were created for more messages than there are.        *)
(***************************************************************************)
EXTENDS Ports, SequenceLemmas, FiniteSetTheorems
-----------------------------------------------------------------------------
(* The message nodes: H are the ports that hold their lists, L the lists,  *)
(* F the free list.                                                        *)

Conserved(H, L, F) ==
  /\ Range(F) \cup UNION {Range(L[i]) : i \in H} = Node
  /\ IsInjective(F)
  /\ \A i \in H : IsInjective(L[i]) /\ Range(L[i]) \cap Range(F) = {}
  /\ \A i, j \in H : i # j => Range(L[i]) \cap Range(L[j]) = {}

\* Two lists without repetitions and without common elements, one behind the other.
LEMMA ConcatRange ==
  ASSUME NEW S, NEW q \in Seq(S), NEW r \in Seq(S), IsInjective(q), IsInjective(r),
         Range(q) \cap Range(r) = {}
  PROVE  /\ q \o r \in Seq(S) /\ Len(q \o r) = Len(q) + Len(r)
         /\ IsInjective(q \o r) /\ Range(q \o r) = Range(q) \cup Range(r)
<1> DEFINE c == q \o r
           m == Len(q)
           n == Len(r)
<1>1. /\ m \in Nat /\ n \in Nat /\ DOMAIN q = 1..m /\ DOMAIN r = 1..n
  BY LenProperties
<1>2. /\ c \in Seq(S) /\ Len(c) = m + n
      /\ \A j \in 1..m+n : c[j] = IF j <= m THEN q[j] ELSE r[j-m]
  BY ConcatProperties
<1>3. DOMAIN c = 1..m+n
  BY <1>2, LenProperties
<1> HIDE DEF c, m, n
<1>4. \A j \in 1..m : j \in 1..m+n /\ c[j] = q[j]
  BY <1>1, <1>2
<1>5. \A j \in 1..n : m+j \in 1..m+n /\ c[m+j] = r[j]
  <2>1. SUFFICES ASSUME NEW j \in 1..n PROVE m+j \in 1..m+n /\ c[m+j] = r[j]
    OBVIOUS
  <2>2. j \in Int /\ m+j \in 1..m+n /\ ~(m+j <= m) /\ (m+j)-m = j
    BY <1>1
  <2>3. QED
    BY <1>2, <2>2
<1>6. \A j \in 1..m+n : \/ j \in 1..m /\ c[j] = q[j]
                        \/ j-m \in 1..n /\ c[j] = r[j-m]
  BY <1>1, <1>2
<1>7. Range(c) = Range(q) \cup Range(r)
  <2>1. \A x \in Range(c) : x \in Range(q) \cup Range(r)
    BY <1>1, <1>3, <1>6 DEF Range
  <2>2. \A x \in Range(q) : x \in Range(c)
    BY <1>1, <1>3, <1>4 DEF Range
  <2>3. \A x \in Range(r) : x \in Range(c)
    <3>1. SUFFICES ASSUME NEW x \in Range(r) PROVE x \in Range(c)
      OBVIOUS
    <3>2. PICK j \in 1..n : x = r[j]
      BY <1>1 DEF Range
    <3>3. m+j \in DOMAIN c /\ c[m+j] = x
      BY <1>3, <1>5, <3>2
    <3>4. QED
      BY <3>3 DEF Range
  <2>4. QED
    BY <2>1, <2>2, <2>3
<1>8. IsInjective(c)
  <2>1. SUFFICES ASSUME NEW a \in 1..m+n, NEW b \in 1..m+n, c[a] = c[b] PROVE a = b
    BY <1>3 DEF IsInjective
  <2>2. a \in Int /\ b \in Int
    BY <1>1
  <2>3. CASE a \in 1..m /\ b \in 1..m
    BY <1>1, <1>4, <2>1, <2>3 DEF IsInjective
  <2>4. CASE a \notin 1..m /\ b \notin 1..m
    <3>1. a-m \in 1..n /\ b-m \in 1..n /\ r[a-m] = r[b-m]
      BY <1>6, <2>1, <2>4
    <3>2. a-m = b-m
      BY <1>1, <3>1 DEF IsInjective
    <3>3. QED
      BY <1>1, <2>2, <3>2
  <2>5. ASSUME NEW x \in 1..m, NEW y \in 1..m+n, y \notin 1..m PROVE c[x] # c[y]
    <3>1. c[x] \in Range(q)
      BY <1>1, <1>4 DEF Range
    <3>2. c[y] \in Range(r)
      BY <1>1, <1>6, <2>5 DEF Range
    <3>3. QED
      BY <3>1, <3>2
  <2>6. CASE a \in 1..m /\ b \notin 1..m
    BY <2>1, <2>5, <2>6
  <2>7. CASE b \in 1..m /\ a \notin 1..m
    BY <2>1, <2>5, <2>7
  <2>8. QED
    BY <2>3, <2>4, <2>6, <2>7
<1>9. QED
  BY <1>2, <1>7, <1>8 DEF c, m, n

\* The lists in use and the free list have not changed.
LEMMA NodesLeft ==
  ASSUME NEW H \in SUBSET Port, NEW L, NEW F, Conserved(H, L, F),
         NEW M, \A i \in H : M[i] = L[i]
  PROVE  Conserved(H, M, F)
<1>1. {Range(L[i]) : i \in H} = {Range(M[i]) : i \in H}
  OBVIOUS
<1>2. QED
  BY <1>1 DEF Conserved

\* A port gets an empty list.
LEMMA NodesAdded ==
  ASSUME NEW H \in SUBSET Port, NEW L, NEW F, Conserved(H, L, F),
         NEW M, NEW i \in Port, i \notin H, M[i] = <<>>, \A j \in H : M[j] = L[j]
  PROVE  Conserved(H \cup {i}, M, F)
<1>1. Range(M[i]) = {} /\ IsInjective(M[i])
  BY DEF Range, IsInjective
<1>2. UNION {Range(M[j]) : j \in H \cup {i}} = UNION {Range(L[j]) : j \in H}
  <2>1. \A j \in H : Range(M[j]) = Range(L[j])
    OBVIOUS
  <2>2. QED
    BY <1>1, <2>1
<1>3. QED
  BY <1>1, <1>2 DEF Conserved

\* The first free node becomes the last one of a list.
LEMMA NodeTaken ==
  ASSUME NEW H \in SUBSET Port, NEW L \in [Port -> Seq(Node)], NEW F \in Seq(Node),
         Conserved(H, L, F), NEW i \in H, F # <<>>
  PROVE  /\ Conserved(H, [L EXCEPT ![i] = Append(L[i], Head(F))], Tail(F))
         /\ Append(L[i], Head(F)) \in Seq(Node)
         /\ Tail(F) \in Seq(Node) /\ Head(F) \in Node
<1> DEFINE M == [L EXCEPT ![i] = Append(L[i], Head(F))]
           G == Tail(F)
<1>1. /\ IsInjective(F) /\ L[i] \in Seq(Node) /\ IsInjective(L[i])
      /\ Range(L[i]) \cap Range(F) = {}
  BY DEF Conserved
<1>2. /\ Head(F) \in Node /\ Head(F) \in Range(F) /\ G \in Seq(Node)
      /\ IsInjective(G) /\ Range(G) = Range(F) \ {Head(F)}
  BY <1>1, TailRange
<1>3. Head(F) \notin Range(L[i])
  BY <1>1, <1>2
<1>4. /\ M[i] = Append(L[i], Head(F)) /\ M[i] \in Seq(Node) /\ IsInjective(M[i])
      /\ Range(M[i]) = Range(L[i]) \cup {Head(F)}
  <2>1. i \in Port
    OBVIOUS
  <2>2. M[i] = Append(L[i], Head(F))
    BY <2>1
  <2>3. QED
    BY <1>1, <1>2, <1>3, <2>2, AppendRange
<1>5. \A j \in H : j # i => M[j] = L[j]
  OBVIOUS
<1> HIDE DEF M, G
<1>6. Range(G) \cup UNION {Range(M[j]) : j \in H} = Range(F) \cup UNION {Range(L[j]) : j \in H}
  <2>1. \A n : (\E j \in H : n \in Range(M[j])) <=>
               n = Head(F) \/ \E j \in H : n \in Range(L[j])
    BY <1>4, <1>5
  <2>2. QED
    BY <1>2, <2>1
<1>7. IsInjective(G)
  BY <1>2
<1>8. \A j \in H : IsInjective(M[j]) /\ Range(M[j]) \cap Range(G) = {}
  BY <1>1, <1>2, <1>4, <1>5 DEF Conserved
<1>9. \A j, k \in H : j # k => Range(M[j]) \cap Range(M[k]) = {}
  <2>1. \A j \in H : Head(F) \notin Range(L[j])
    BY <1>2 DEF Conserved
  <2>2. \A j, k \in H : j # k => Range(L[j]) \cap Range(L[k]) = {}
    BY DEF Conserved
  <2>3. ASSUME NEW j \in H, NEW k \in H, j # k PROVE Range(M[j]) \cap Range(M[k]) = {}
    <3>1. CASE j = i
      BY <1>4, <1>5, <2>1, <2>2, <2>3, <3>1
    <3>2. CASE k = i
      BY <1>4, <1>5, <2>1, <2>2, <2>3, <3>2
    <3>3. CASE j # i /\ k # i
      BY <1>5, <2>2, <2>3, <3>3
    <3>4. QED
      BY <3>1, <3>2, <3>3
  <2>4. QED
    BY <2>3
<1>10. Conserved(H, M, G)
  <2>1. Range(G) \cup UNION {Range(M[j]) : j \in H} = Node
    BY <1>6 DEF Conserved
  <2>2. QED
    BY <1>7, <1>8, <1>9, <2>1 DEF Conserved
<1>11. QED
  BY <1>2, <1>4, <1>10 DEF M, G

\* The first node of a list becomes the first free one.
LEMMA NodeReturned ==
  ASSUME NEW H \in SUBSET Port, NEW L \in [Port -> Seq(Node)], NEW F \in Seq(Node),
         Conserved(H, L, F), NEW i \in H, L[i] # <<>>
  PROVE  /\ Conserved(H, [L EXCEPT ![i] = Tail(L[i])], <<Head(L[i])>> \o F)
         /\ Tail(L[i]) \in Seq(Node)
         /\ <<Head(L[i])>> \o F \in Seq(Node)
<1> DEFINE M == [L EXCEPT ![i] = Tail(L[i])]
           h == Head(L[i])
           G == <<h>> \o F
<1>1. /\ IsInjective(F) /\ L[i] \in Seq(Node) /\ IsInjective(L[i])
      /\ Range(L[i]) \cap Range(F) = {}
  BY DEF Conserved
<1>2. /\ h \in Node /\ h \in Range(L[i]) /\ Tail(L[i]) \in Seq(Node)
      /\ IsInjective(Tail(L[i])) /\ Range(Tail(L[i])) = Range(L[i]) \ {h}
  BY <1>1, TailRange
<1>3. M[i] = Tail(L[i])
  <2>1. i \in Port
    OBVIOUS
  <2>2. QED
    BY <2>1
<1>4. \A j \in H : j # i => M[j] = L[j]
  OBVIOUS
<1>5. /\ G \in Seq(Node) /\ IsInjective(G) /\ Range(G) = {h} \cup Range(F)
  <2> DEFINE q == <<h>>
  <2>1. q \in Seq(Node) /\ IsInjective(q) /\ Range(q) = {h}
    BY <1>2 DEF IsInjective, Range
  <2>2. Range(q) \cap Range(F) = {}
    BY <1>1, <1>2, <2>1
  <2>3. q \o F \in Seq(Node) /\ IsInjective(q \o F) /\ Range(q \o F) = Range(q) \cup Range(F)
    <3> HIDE DEF q
    <3> QED BY <1>1, <2>1, <2>2, ConcatRange
  <2>4. QED
    BY <2>1, <2>3
<1> HIDE DEF M, h, G
<1>6. Range(G) \cup UNION {Range(M[j]) : j \in H} = Range(F) \cup UNION {Range(L[j]) : j \in H}
  <2>1. \A n : n = h \/ (\E j \in H : n \in Range(M[j])) <=> \E j \in H : n \in Range(L[j])
    BY <1>2, <1>3, <1>4
  <2>2. ASSUME NEW n
        PROVE  /\ n \in UNION {Range(M[j]) : j \in H} <=> \E j \in H : n \in Range(M[j])
               /\ n \in UNION {Range(L[j]) : j \in H} <=> \E j \in H : n \in Range(L[j])
    OBVIOUS
  <2>3. \A n : n \in Range(G) <=> n = h \/ n \in Range(F)
    BY <1>5
  <2>4. SUFFICES ASSUME NEW n
                 PROVE  n \in Range(G) \/ n \in UNION {Range(M[j]) : j \in H}
                          <=> n \in Range(F) \/ n \in UNION {Range(L[j]) : j \in H}
    OBVIOUS
  <2>5. QED
    BY <2>1, <2>2, <2>3
<1>7. \A j \in H : IsInjective(M[j]) /\ Range(M[j]) \cap Range(G) = {}
  <2>1. SUFFICES ASSUME NEW j \in H
                 PROVE  IsInjective(M[j]) /\ Range(M[j]) \cap Range(G) = {}
    OBVIOUS
  <2>2. Range(L[j]) \cap Range(F) = {} /\ IsInjective(L[j])
    BY DEF Conserved
  <2>3. CASE j = i
    BY <1>2, <1>3, <1>5, <2>2, <2>3
  <2>4. CASE j # i
    <3>1. Range(L[j]) \cap Range(L[i]) = {}
      BY <2>4 DEF Conserved
    <3>2. QED
      BY <1>2, <1>4, <1>5, <2>2, <2>4, <3>1
  <2>5. QED
    BY <2>3, <2>4
<1>8. \A j, k \in H : j # k => Range(M[j]) \cap Range(M[k]) = {}
  <2>1. \A j, k \in H : j # k => Range(L[j]) \cap Range(L[k]) = {}
    BY DEF Conserved
  <2>2. QED
    BY <1>2, <1>3, <1>4, <2>1
<1>9. Conserved(H, M, G)
  <2>1. Range(G) \cup UNION {Range(M[j]) : j \in H} = Node
    BY <1>6 DEF Conserved
  <2>2. QED
    BY <1>5, <1>7, <1>8, <2>1 DEF Conserved
<1>10. QED
  BY <1>2, <1>5, <1>9 DEF M, G, h

\* A whole list goes in front of the free list.
LEMMA NodesGiven ==
  ASSUME NEW H \in SUBSET Port, NEW L \in [Port -> Seq(Node)], NEW F \in Seq(Node),
         Conserved(H, L, F), NEW i \in H, NEW M, \A j \in H \ {i} : M[j] = L[j]
  PROVE  /\ Conserved(H \ {i}, M, L[i] \o F)
         /\ L[i] \o F \in Seq(Node)
<1> DEFINE G == L[i] \o F
           K == H \ {i}
<1>1. /\ IsInjective(F) /\ L[i] \in Seq(Node) /\ IsInjective(L[i])
      /\ Range(L[i]) \cap Range(F) = {}
  BY DEF Conserved
<1>2. G \in Seq(Node) /\ IsInjective(G) /\ Range(G) = Range(L[i]) \cup Range(F)
  BY <1>1, ConcatRange
<1> HIDE DEF G
<1>3. Range(G) \cup UNION {Range(M[j]) : j \in K} = Range(F) \cup UNION {Range(L[j]) : j \in H}
  <2>1. \A n : n \in Range(L[i]) \/ (\E j \in K : n \in Range(M[j]))
                 <=> \E j \in H : n \in Range(L[j])
    OBVIOUS
  <2>2. QED
    BY <1>2, <2>1
<1>4. \A j \in K : IsInjective(M[j]) /\ Range(M[j]) \cap Range(G) = {}
  BY <1>2 DEF Conserved
<1>5. \A j, k \in K : j # k => Range(M[j]) \cap Range(M[k]) = {}
  BY DEF Conserved
<1>6. Conserved(K, M, G)
  <2>1. Range(G) \cup UNION {Range(M[j]) : j \in K} = Node
    BY <1>3 DEF Conserved
  <2>2. QED
    BY <1>2, <1>4, <1>5, <2>1 DEF Conserved
<1>7. QED
  BY <1>2, <1>6 DEF G
-----------------------------------------------------------------------------
(* Who clears which port.                                                  *)

\* What a call in progress carries, and how far a process has cleared its port.
ArgSound(p) == frame[p].at = "ptsend" => frame[p].arg \in Msg
ClearSound(p) ==
  LET f == frame[p] IN
  f.at \in Clearing =>
    /\ f.arg \in {"FREE", "ALLOC"} /\ ptstate[f.port] = "LIMBO"
    /\ f.at = "walk" => f.walk <= Len(ptlist[f.port])
    /\ f.at # "walk" /\ f.arg = "ALLOC" => ptlist[f.port] = <<>>

Clears(p, i) == frame[p].at \in Clearing /\ frame[p].port = i
OneClearer ==
  /\ \A i \in Port : \A p, q \in Proc : Clears(p, i) /\ Clears(q, i) => p = q
  /\ \A i \in Port : ptstate[i] = "LIMBO" => \E p \in Proc : Clears(p, i)

PortInv ==
  /\ TypeOK
  /\ \A p \in Proc : ArgSound(p) /\ ClearSound(p)
  /\ OneClearer
  /\ NodesConserved

LEMMA HoldingAre ==
  ASSUME TRUE
  PROVE  Holding = {i \in Port : \/ ptstate[i] = "ALLOC"
                                 \/ \E p \in Proc : frame[p].at = "walk" /\ frame[p].port = i}
BY DEF Holding, Clearers, Clearing

LEMMA NodesAre ==
  ASSUME TRUE
  PROVE  NodesConserved <=> Conserved(Holding, ptlist, ptfree)
BY DEF NodesConserved, Conserved

\* Frames and what the routines make of them.
LEMMA FramesTyped ==
  /\ User \in FrameSet /\ User.at = "user"
  /\ \A at \in Routine, i \in Port, n \in Nat, arg \in Arg, w \in 0..PT_MSGS :
       [at |-> at, port |-> i, seq |-> n, arg |-> arg, walk |-> w] \in FrameSet
  /\ \A f \in FrameSet :
       /\ f.at \in Routine /\ f.port \in Port /\ f.seq \in Nat /\ f.arg \in Arg
       /\ f.walk \in 0..PT_MSGS
       /\ \A r \in Routine :
            LET g == [f EXCEPT !.at = r] IN
            /\ g \in FrameSet /\ g.at = r /\ g.port = f.port /\ g.seq = f.seq
            /\ g.arg = f.arg /\ g.walk = f.walk
<1>1. 0 \in Port /\ 0 \in 0..PT_MSGS /\ "user" \in Routine /\ "FREE" \in Arg
  BY PortSizes DEF Port, Routine, Arg
<1>2. User \in FrameSet /\ User.at = "user"
  BY <1>1 DEF FrameSet, User
<1>3. ASSUME NEW at \in Routine, NEW i \in Port, NEW n \in Nat, NEW arg \in Arg,
             NEW w \in 0..PT_MSGS
      PROVE  [at |-> at, port |-> i, seq |-> n, arg |-> arg, walk |-> w] \in FrameSet
  BY DEF FrameSet
<1>4. ASSUME NEW f \in FrameSet
      PROVE  /\ f.at \in Routine /\ f.port \in Port /\ f.seq \in Nat /\ f.arg \in Arg
             /\ f.walk \in 0..PT_MSGS
  BY DEF FrameSet
<1>5. ASSUME NEW f \in FrameSet, NEW r \in Routine
      PROVE  LET g == [f EXCEPT !.at = r] IN
             /\ g \in FrameSet /\ g.at = r /\ g.port = f.port /\ g.seq = f.seq
             /\ g.arg = f.arg /\ g.walk = f.walk
  BY DEF FrameSet
<1>6. QED
  BY <1>2, <1>3, <1>4, <1>5

LEMMA GotoFrames ==
  ASSUME frame \in [Proc -> FrameSet], NEW p \in Proc, NEW f \in FrameSet, Goto(p, f)
  PROVE  /\ frame' \in [Proc -> FrameSet] /\ frame'[p] = f
         /\ \A q \in Proc : q # p => frame'[q] = frame[q]
BY DEF Goto

\* The semaphores of ports keep their types, whatever is done to one of them.
LEMMA SemaphoreTypes ==
  ASSUME PortSemTypes, NEW s \in Sem, NEW p \in Proc,
         \/ Semaphores!Acquire(s, p) \/ Semaphores!Release(s)
         \/ \E n \in DOMAIN waiters[s] : Semaphores!Withdraw(s, n)
  PROVE  permits' \in [Sem -> Nat] /\ waiters' \in [Sem -> Seq(Proc)]
<1>1. permits[s] \in Nat /\ waiters[s] \in Seq(Proc)
  BY DEF PortSemTypes
<1>2. CASE Semaphores!Acquire(s, p)
  <2>1. CASE permits[s] > 0 /\ permits' = [permits EXCEPT ![s] = @ - 1] /\ UNCHANGED waiters
    BY <1>1, <2>1 DEF PortSemTypes
  <2>2. CASE waiters' = [waiters EXCEPT ![s] = Append(@, p)] /\ UNCHANGED permits
    <3>1. Append(waiters[s], p) \in Seq(Proc)
      BY <1>1
    <3>2. QED
      BY <2>2, <3>1 DEF PortSemTypes
  <2>3. QED
    BY <1>2, <2>1, <2>2 DEF Semaphores!Acquire
<1>3. CASE Semaphores!Release(s)
  <2>1. CASE waiters[s] # <<>> /\ waiters' = [waiters EXCEPT ![s] = Tail(@)] /\ UNCHANGED permits
    <3>1. Tail(waiters[s]) \in Seq(Proc)
      BY <1>1, <2>1
    <3>2. QED
      BY <2>1, <3>1 DEF PortSemTypes
  <2>2. CASE permits' = [permits EXCEPT ![s] = @ + 1] /\ UNCHANGED waiters
    BY <1>1, <2>2 DEF PortSemTypes
  <2>3. QED
    BY <1>3, <2>1, <2>2 DEF Semaphores!Release
<1>4. ASSUME NEW n \in DOMAIN waiters[s], Semaphores!Withdraw(s, n)
      PROVE  permits' \in [Sem -> Nat] /\ waiters' \in [Sem -> Seq(Proc)]
  <2>1. n \in 1..Len(waiters[s])
    BY <1>1, LenProperties
  <2>2. RemoveAt(waiters[s], n) \in Seq(Proc)
    BY <1>1, <2>1, RemoveAtRemoves, Zenon
  <2>3. waiters' = [waiters EXCEPT ![s] = RemoveAt(waiters[s], n)] /\ UNCHANGED permits
    BY <1>4 DEF Semaphores!Withdraw, Semaphores!RemoveAt, RemoveAt
  <2>4. waiters' \in [Sem -> Seq(Proc)]
    BY <2>2, <2>3 DEF PortSemTypes
  <2>5. QED
    BY <2>3, <2>4 DEF PortSemTypes
<1>5. QED
  BY <1>2, <1>3, <1>4

LEMMA SemaphoresOf ==
  ASSUME NEW i \in Port
  PROVE  /\ SendSem(i) \in Sem /\ RecvSem(i) \in Sem
         /\ \A j \in Port : /\ SendSem(i) # RecvSem(j)
                            /\ SendSem(i) = SendSem(j) => i = j
                            /\ RecvSem(i) = RecvSem(j) => i = j
BY DEF SendSem, RecvSem, Sem

\* A step that leaves clearing processes, ports in limbo and their lists alone.
LEMMA ClearersLeft ==
  ASSUME PortTypes, CallTypes, \A p \in Proc : ClearSound(p), OneClearer,
         \A p \in Proc : frame[p].at \in Clearing \/ frame'[p].at \in Clearing
                           => frame'[p] = frame[p],
         \A i \in Port : ptstate'[i] = "LIMBO" <=> ptstate[i] = "LIMBO",
         \A i \in Port : ptstate[i] = "LIMBO" => ptlist'[i] = ptlist[i]
  PROVE  OneClearer' /\ \A p \in Proc : ClearSound(p)'
<1>1. \A p \in Proc : frame[p].port \in Port
  BY FramesTyped DEF CallTypes
<1>2. \A p \in Proc : ClearSound(p)'
  BY <1>1 DEF ClearSound
<1>3. \A i \in Port, p \in Proc : Clears(p, i)' <=> Clears(p, i)
  BY DEF Clears
<1>4. QED
  BY <1>2, <1>3 DEF OneClearer

\* A step of a call that does nothing to a port or a node.
LEMMA PortsLeft ==
  ASSUME PortInv, TypeOK', UNCHANGED <<ptstate, ptlist, ptfree>>,
         NEW p \in Proc, NEW f \in FrameSet, Goto(p, f),
         frame[p].at \notin Clearing, f.at \notin Clearing, f.at = "ptsend" => f.arg \in Msg
  PROVE  PortInv'
<1>1. /\ frame'[p] = f /\ \A q \in Proc : q # p => frame'[q] = frame[q]
  BY GotoFrames DEF PortInv, TypeOK, CallTypes
<1>2. \A q \in Proc : ArgSound(q)'
  BY <1>1 DEF PortInv, ArgSound
<1>3. OneClearer' /\ \A q \in Proc : ClearSound(q)'
  BY <1>1, ClearersLeft DEF PortInv, TypeOK
<1>4. Holding' = Holding
  <2>1. \A q \in Proc : frame[q].at = "walk" \/ frame'[q].at = "walk" => frame'[q] = frame[q]
    BY <1>1 DEF Clearing
  <2>2. Holding' = {i \in Port : \/ ptstate'[i] = "ALLOC"
                                 \/ \E q \in Proc : frame'[q].at = "walk" /\ frame'[q].port = i}
    BY DEF Holding, Clearers, Clearing
  <2>3. QED
    BY <2>1, <2>2, HoldingAre
<1>5. NodesConserved'
  BY <1>4, NodesAre DEF NodesConserved, PortInv
<1>6. QED
  BY <1>2, <1>3, <1>5 DEF PortInv
-----------------------------------------------------------------------------
(* One lemma for each routine: it preserves the invariant.                 *)

LEMMA CreateKeeps ==
  ASSUME PortInv, NEW p \in Proc, NEW count \in Counts, Ptcreate(p, count)
  PROVE  PortInv'
<1>1. PICK i \in Port :
        /\ IsNextFree(i) /\ ptnextid' = NextPort(i)
        /\ ptstate' = [ptstate EXCEPT ![i] = "ALLOC"]
        /\ semused' = semused \cup Semcreated(i)
        /\ permits' = [permits EXCEPT ![SendSem(i)] = count, ![RecvSem(i)] = 0]
        /\ lost' = [lost EXCEPT ![SendSem(i)] = 0, ![RecvSem(i)] = 0]
        /\ ptlist' = [ptlist EXCEPT ![i] = <<>>]
        /\ ptseq' = [ptseq EXCEPT ![i] = @ + 1]
        /\ ptmaxcnt' = [ptmaxcnt EXCEPT ![i] = count % UINT16]
  BY DEF Ptcreate
<1>2. UNCHANGED <<waiters, ptfree, ptmsg, cpu, frame, handed>>
  BY DEF Ptcreate
<1>3. ptstate[i] = "FREE"
  BY <1>1 DEF IsNextFree
<1>4. PortTypes'
  <2>1. NextPort(i) \in Port
    BY PortSizes DEF Port, NextPort
  <2>2. count % UINT16 \in 0 .. UINT16-1
    BY PortSizes
  <2>3. ptseq[i] + 1 \in Nat
    BY DEF PortInv, TypeOK, PortTypes
  <2>4. QED
    BY <1>1, <2>1, <2>2, <2>3 DEF PortInv, TypeOK, PortTypes
<1>5. NodeTypes'
  BY <1>1, <1>2 DEF PortInv, TypeOK, NodeTypes
<1>6. PortSemTypes'
  <2>1. Semcreated(i) \subseteq Sem
    BY SemaphoresOf DEF Semcreated
  <2>2. count \in Nat
    BY PortSizes
  <2>3. QED
    BY <1>1, <1>2, <2>1, <2>2 DEF PortInv, TypeOK, PortSemTypes
<1>7. CallTypes'
  BY <1>2 DEF PortInv, TypeOK, CallTypes
<1>8. \A j \in Port : j # i => ptstate'[j] = ptstate[j] /\ ptlist'[j] = ptlist[j]
  BY <1>1 DEF PortInv, TypeOK, PortTypes, NodeTypes
<1>9. ptstate'[i] = "ALLOC" /\ ptlist'[i] = <<>>
  BY <1>1 DEF PortInv, TypeOK, PortTypes, NodeTypes
<1>10. OneClearer' /\ \A q \in Proc : ClearSound(q)'
  BY <1>2, <1>3, <1>8, <1>9, ClearersLeft DEF PortInv, TypeOK
<1>11. Holding' = Holding \cup {i}
  <2>1. Holding' = {j \in Port : \/ ptstate'[j] = "ALLOC"
                                 \/ \E q \in Proc : frame[q].at = "walk" /\ frame[q].port = j}
    BY <1>2 DEF Holding, Clearers, Clearing
  <2>2. QED
    BY <1>8, <1>9, <2>1, HoldingAre
<1>12. i \notin Holding
  BY <1>3 DEF PortInv, ClearSound, Holding, Clearers
<1>13. Conserved(Holding \cup {i}, ptlist', ptfree)
  <2>1. Holding \in SUBSET Port /\ \A j \in Holding : ptlist'[j] = ptlist[j]
    BY <1>8, <1>12 DEF Holding
  <2>2. Conserved(Holding, ptlist, ptfree)
    BY NodesAre DEF PortInv
  <2>3. QED
    BY <1>9, <1>12, <2>1, <2>2, NodesAdded
<1>14. NodesConserved'
  BY <1>2, <1>11, <1>13 DEF NodesConserved, Conserved
<1>15. \A q \in Proc : ArgSound(q)'
  BY <1>2 DEF PortInv, ArgSound
<1>16. QED
  BY <1>4, <1>5, <1>6, <1>7, <1>10, <1>14, <1>15 DEF PortInv, TypeOK

\* The wait that ptsend and ptrecv begin with.
LEMMA WaitKeeps ==
  ASSUME PortInv, NEW p \in Proc, frame[p].at = "user", NEW s \in Sem, NEW f \in FrameSet,
         WaitIn(p, s, f), f.at \notin Clearing, f.at = "ptsend" => f.arg \in Msg
  PROVE  PortInv'
<1>1. /\ Semaphores!Acquire(s, p) /\ Goto(p, f) /\ cpu' \in {p, NoProc}
      /\ UNCHANGED <<portVars, nodeVars, semused, lost>>
  BY DEF WaitIn
<1>2. permits' \in [Sem -> Nat] /\ waiters' \in [Sem -> Seq(Proc)]
  BY <1>1, SemaphoreTypes DEF PortInv, TypeOK
<1>3. PortTypes' /\ NodeTypes' /\ PortSemTypes'
  BY <1>1, <1>2
     DEF PortInv, TypeOK, PortTypes, NodeTypes, PortSemTypes, portVars, nodeVars
<1>4. CallTypes'
  BY <1>1, GotoFrames DEF PortInv, TypeOK, CallTypes
<1>5. frame[p].at \notin Clearing
  BY DEF Clearing
<1>6. UNCHANGED <<ptstate, ptlist, ptfree>>
  BY <1>1 DEF portVars, nodeVars
<1>7. QED
  BY <1>1, <1>3, <1>4, <1>5, <1>6, PortsLeft DEF TypeOK

LEMMA SendStartKeeps ==
  ASSUME PortInv, NEW p \in Proc, NEW i \in Port, NEW m \in Msg, PtsendStart(p, i, m)
  PROVE  PortInv'
<1> DEFINE f == Frame("ptsend", i, m)
<1>1. WaitIn(p, SendSem(i), f) /\ frame[p].at = "user" /\ SendSem(i) \in Sem
  BY SemaphoresOf DEF PtsendStart, CallFor, Call, At
<1>2. f \in FrameSet /\ f.at = "ptsend" /\ f.arg = m
  <2>1. "ptsend" \in Routine /\ m \in Arg /\ ptseq[i] \in Nat /\ 0 \in 0..PT_MSGS
    BY PortSizes DEF Routine, Arg, PortInv, TypeOK, PortTypes
  <2>2. QED
    BY <2>1, FramesTyped DEF Frame
<1>3. "ptsend" \notin Clearing
  BY DEF Clearing
<1> HIDE DEF f
<1>4. QED
  BY <1>1, <1>2, <1>3, WaitKeeps

LEMMA RecvStartKeeps ==
  ASSUME PortInv, NEW p \in Proc, NEW i \in Port, PtrecvStart(p, i)
  PROVE  PortInv'
<1> DEFINE f == Frame("ptrecv", i, "FREE")
<1>1. WaitIn(p, RecvSem(i), f) /\ frame[p].at = "user" /\ RecvSem(i) \in Sem
  BY SemaphoresOf DEF PtrecvStart, CallFor, Call, At
<1>2. f \in FrameSet /\ f.at = "ptrecv"
  <2>1. "ptrecv" \in Routine /\ "FREE" \in Arg /\ ptseq[i] \in Nat /\ 0 \in 0..PT_MSGS
    BY PortSizes DEF Routine, Arg, PortInv, TypeOK, PortTypes
  <2>2. QED
    BY <2>1, FramesTyped DEF Frame
<1>3. "ptrecv" \notin Clearing
  BY DEF Clearing
<1> HIDE DEF f
<1>4. QED
  BY <1>1, <1>2, <1>3, WaitKeeps

LEMMA FailedKeeps ==
  ASSUME PortInv, NEW p \in Proc, PtFailed(p)
  PROVE  PortInv'
<1>1. Goto(p, User) /\ cpu' = NoProc /\ UNCHANGED <<portVars, nodeVars, semVars>>
  BY DEF PtFailed, Return
<1>2. frame[p].at \notin Clearing /\ User \in FrameSet /\ User.at = "user"
  BY FramesTyped DEF PtFailed, At, Clearing
<1>3. TypeOK'
  BY <1>1, <1>2, GotoFrames DEF PortInv, TypeOK, CallTypes, PortTypes, NodeTypes,
                                PortSemTypes, portVars, nodeVars, semVars
<1>4. UNCHANGED <<ptstate, ptlist, ptfree>>
  BY <1>1 DEF portVars, nodeVars
<1>5. User.at \notin Clearing /\ User.at # "ptsend"
  BY <1>2 DEF Clearing
<1>6. QED
  BY <1>1, <1>2, <1>3, <1>4, <1>5, PortsLeft

LEMMA PanicKeeps ==
  ASSUME PortInv, NEW p \in Proc, PtsendPanic(p)
  PROVE  PortInv'
<1> DEFINE f == [frame[p] EXCEPT !.at = "panic"]
<1>1. Goto(p, f) /\ cpu' = p /\ UNCHANGED <<portVars, nodeVars, semVars>>
  BY DEF PtsendPanic
<1>2. frame[p].at \notin Clearing /\ "panic" \notin Clearing /\ "panic" \in Routine
  BY DEF PtsendPanic, At, Clearing, Routine
<1>3. f \in FrameSet /\ f.at = "panic"
  BY <1>2, FramesTyped DEF PortInv, TypeOK, CallTypes
<1> HIDE DEF f
<1>4. TypeOK'
  BY <1>1, <1>3, GotoFrames DEF PortInv, TypeOK, CallTypes, PortTypes, NodeTypes,
                                PortSemTypes, portVars, nodeVars, semVars
<1>5. UNCHANGED <<ptstate, ptlist, ptfree>>
  BY <1>1 DEF portVars, nodeVars
<1>6. QED
  BY <1>1, <1>2, <1>3, <1>4, <1>5, PortsLeft

LEMMA KillKeeps ==
  ASSUME PortInv, NEW p \in Proc, Kill(p)
  PROVE  PortInv'
<1>1. Goto(p, User) /\ UNCHANGED <<portVars, nodeVars, semused, cpu>>
  BY DEF Kill
<1>2. frame[p].at \notin Clearing /\ User \in FrameSet /\ User.at = "user"
  BY FramesTyped, PortSizes DEF Kill, Clearing
<1>3. permits' \in [Sem -> Nat] /\ waiters' \in [Sem -> Seq(Proc)] /\ lost' \in [Sem -> Nat]
  <2>1. CASE \E s \in Sem : \E n \in DOMAIN waiters[s] :
               waiters[s][n] = p /\ Semaphores!Withdraw(s, n) /\ UNCHANGED lost
    <3>1. PICK s \in Sem : \E n \in DOMAIN waiters[s] : Semaphores!Withdraw(s, n)
      BY <2>1
    <3>2. permits' \in [Sem -> Nat] /\ waiters' \in [Sem -> Seq(Proc)]
      BY <3>1, SemaphoreTypes DEF PortInv, TypeOK
    <3>3. QED
      BY <2>1, <3>2 DEF PortInv, TypeOK, PortSemTypes
  <2>2. CASE /\ lost' = IF StillValid(frame[p])
                        THEN [lost EXCEPT ![WaitedFor(frame[p])] = @ + 1] ELSE lost
             /\ UNCHANGED <<permits, waiters>>
    <3>1. WaitedFor(frame[p]) \in Sem
      BY FramesTyped, SemaphoresOf DEF WaitedFor, PortInv, TypeOK, CallTypes
    <3>2. QED
      BY <2>2, <3>1 DEF PortInv, TypeOK, PortSemTypes
  <2>3. QED
    BY <2>1, <2>2 DEF Kill
<1>4. TypeOK'
  BY <1>1, <1>2, <1>3, GotoFrames DEF PortInv, TypeOK, CallTypes, PortTypes, NodeTypes,
                                      PortSemTypes, portVars, nodeVars
<1>5. UNCHANGED <<ptstate, ptlist, ptfree>>
  BY <1>1 DEF portVars, nodeVars
<1>6. User.at \notin Clearing /\ User.at # "ptsend"
  BY <1>2 DEF Clearing
<1>7. QED
  BY <1>1, <1>2, <1>4, <1>5, <1>6, PortsLeft

\* A signal at the end of a call, which neither semaphore may have.
LEMMA SignalTypes ==
  ASSUME PortSemTypes, NEW s \in Sem, NEW p \in Proc, SignalOf(s)
  PROVE  permits' \in [Sem -> Nat] /\ waiters' \in [Sem -> Seq(Proc)]
<1>1. CASE Semaphores!Release(s)
  BY <1>1, SemaphoreTypes
<1>2. CASE UNCHANGED <<permits, waiters>>
  BY <1>2 DEF PortSemTypes
<1>3. QED
  BY <1>1, <1>2 DEF SignalOf

\* The end of ptsend or ptrecv on port i, whose list it changes.
LEMMA FinishKeeps ==
  ASSUME PortInv, NEW p \in Proc, NEW i \in Port, frame[p].port = i, frame[p].at \notin Clearing,
         ptstate[i] = "ALLOC", UNCHANGED <<portVars, semused, lost>>, Return(p),
         permits' \in [Sem -> Nat], waiters' \in [Sem -> Seq(Proc)], NodeTypes',
         \A j \in Port : j # i => ptlist'[j] = ptlist[j],
         Conserved(Holding, ptlist', ptfree')
  PROVE  PortInv'
<1>1. Goto(p, User) /\ cpu' = NoProc /\ User \in FrameSet /\ User.at = "user"
  BY FramesTyped DEF Return
<1>2. TypeOK'
  BY <1>1, GotoFrames DEF PortInv, TypeOK, PortTypes, PortSemTypes, CallTypes, portVars
<1>3. frame'[p] = User /\ \A q \in Proc : q # p => frame'[q] = frame[q]
  BY <1>1, GotoFrames DEF PortInv, TypeOK, CallTypes
<1>4. User.at \notin Clearing
  BY <1>1 DEF Clearing
<1>5. \A q \in Proc : frame[q].at \in Clearing \/ frame'[q].at \in Clearing
                        => frame'[q] = frame[q]
  BY <1>3, <1>4
<1>6. ptstate' = ptstate
  BY DEF portVars
<1>7. OneClearer' /\ \A q \in Proc : ClearSound(q)'
  <2>1. \A j \in Port : ptstate[j] = "LIMBO" => ptlist'[j] = ptlist[j]
    OBVIOUS
  <2>2. QED
    BY <1>5, <1>6, <2>1, ClearersLeft DEF PortInv, TypeOK
<1>8. \A q \in Proc : ArgSound(q)'
  BY <1>1, <1>3 DEF PortInv, ArgSound
<1>9. Holding' = Holding
  <2>1. Holding' = {j \in Port : \/ ptstate'[j] = "ALLOC"
                                 \/ \E q \in Proc : frame'[q].at = "walk" /\ frame'[q].port = j}
    BY DEF Holding, Clearers, Clearing
  <2>2. \A q \in Proc : frame[q].at = "walk" \/ frame'[q].at = "walk" => frame'[q] = frame[q]
    BY <1>5 DEF Clearing
  <2>3. QED
    BY <1>6, <2>1, <2>2, HoldingAre
<1>10. NodesConserved'
  BY <1>9 DEF NodesConserved, Conserved
<1>11. QED
  BY <1>2, <1>7, <1>8, <1>10 DEF PortInv

LEMMA SendFinishKeeps ==
  ASSUME PortInv, NEW p \in Proc, PtsendFinish(p)
  PROVE  PortInv'
<1> DEFINE f == frame[p]
           i == frame[p].port
<1>1. /\ f.at = "ptsend" /\ ptstate[i] = "ALLOC" /\ ptfree # <<>>
      /\ ptfree' = Tail(ptfree)
      /\ ptmsg' = [ptmsg EXCEPT ![Head(ptfree)] = f.arg]
      /\ ptlist' = [ptlist EXCEPT ![i] = Append(ptlist[i], Head(ptfree))]
      /\ SignalOf(RecvSem(i)) /\ Return(p)
      /\ UNCHANGED <<portVars, semused, lost>>
  BY DEF PtsendFinish, At, StillValid
<1>2. i \in Port /\ f.arg \in Msg /\ RecvSem(i) \in Sem
  BY <1>1, FramesTyped, SemaphoresOf DEF PortInv, TypeOK, CallTypes, ArgSound
<1>3. i \in Holding /\ Holding \in SUBSET Port
  BY <1>1, <1>2 DEF Holding
<1>4. Conserved(Holding, ptlist, ptfree)
  BY NodesAre DEF PortInv
<1>5. ptlist \in [Port -> Seq(Node)] /\ ptfree \in Seq(Node) /\ ptmsg \in [Node -> Msg]
  BY DEF PortInv, TypeOK, NodeTypes
<1> HIDE DEF i, f
<1>6. /\ Conserved(Holding, [ptlist EXCEPT ![i] = Append(ptlist[i], Head(ptfree))], Tail(ptfree))
      /\ Append(ptlist[i], Head(ptfree)) \in Seq(Node)
      /\ Tail(ptfree) \in Seq(Node) /\ Head(ptfree) \in Node
  BY <1>1, <1>3, <1>4, <1>5, NodeTaken
<1>7. NodeTypes'
  BY <1>1, <1>2, <1>5, <1>6 DEF NodeTypes
<1>8. permits' \in [Sem -> Nat] /\ waiters' \in [Sem -> Seq(Proc)]
  BY <1>1, <1>2, SignalTypes DEF PortInv, TypeOK
<1>9. \A j \in Port : j # i => ptlist'[j] = ptlist[j]
  BY <1>1, <1>5
<1>10. frame[p].at \notin Clearing
  BY <1>1 DEF f, Clearing
<1>11. Conserved(Holding, ptlist', ptfree')
  BY <1>1, <1>6
<1>12. QED
  BY <1>1, <1>2, <1>7, <1>8, <1>9, <1>10, <1>11, FinishKeeps DEF i

LEMMA RecvFinishKeeps ==
  ASSUME PortInv, NEW p \in Proc, PtrecvFinish(p)
  PROVE  PortInv'
<1> DEFINE f == frame[p]
           i == frame[p].port
<1>1. /\ f.at = "ptrecv" /\ ptstate[i] = "ALLOC" /\ ptlist[i] # <<>>
      /\ ptlist' = [ptlist EXCEPT ![i] = Tail(ptlist[i])]
      /\ ptfree' = <<Head(ptlist[i])>> \o ptfree
      /\ SignalOf(SendSem(i)) /\ Return(p)
      /\ UNCHANGED <<portVars, semused, lost, ptmsg>>
  BY DEF PtrecvFinish, At, StillValid
<1>2. i \in Port /\ SendSem(i) \in Sem
  BY FramesTyped, SemaphoresOf DEF PortInv, TypeOK, CallTypes
<1>3. i \in Holding /\ Holding \in SUBSET Port
  BY <1>1, <1>2 DEF Holding
<1>4. Conserved(Holding, ptlist, ptfree)
  BY NodesAre DEF PortInv
<1>5. ptlist \in [Port -> Seq(Node)] /\ ptfree \in Seq(Node) /\ ptmsg \in [Node -> Msg]
  BY DEF PortInv, TypeOK, NodeTypes
<1> HIDE DEF i, f
<1>6. /\ Conserved(Holding, [ptlist EXCEPT ![i] = Tail(ptlist[i])], <<Head(ptlist[i])>> \o ptfree)
      /\ Tail(ptlist[i]) \in Seq(Node)
      /\ <<Head(ptlist[i])>> \o ptfree \in Seq(Node)
  BY <1>1, <1>3, <1>4, <1>5, NodeReturned
<1>7. NodeTypes'
  BY <1>1, <1>2, <1>5, <1>6 DEF NodeTypes
<1>8. permits' \in [Sem -> Nat] /\ waiters' \in [Sem -> Seq(Proc)]
  BY <1>1, <1>2, SignalTypes DEF PortInv, TypeOK
<1>9. \A j \in Port : j # i => ptlist'[j] = ptlist[j]
  BY <1>1, <1>5
<1>10. frame[p].at \notin Clearing
  BY <1>1 DEF f, Clearing
<1>11. Conserved(Holding, ptlist', ptfree')
  BY <1>1, <1>6
<1>12. QED
  BY <1>1, <1>2, <1>7, <1>8, <1>9, <1>10, <1>11, FinishKeeps DEF i
-----------------------------------------------------------------------------
LEMMA ClearStartKeeps ==
  ASSUME PortInv, NEW p \in Proc, NEW i \in Port, NEW newstate \in {"FREE", "ALLOC"},
         PtclearStart(p, i, newstate)
  PROVE  PortInv'
<1> DEFINE f == Frame("walk", i, newstate)
<1>1. /\ frame[p].at = "user" /\ ptstate[i] = "ALLOC"
      /\ ptstate' = [ptstate EXCEPT ![i] = "LIMBO"]
      /\ ptseq' = [ptseq EXCEPT ![i] = @ + 1]
      /\ Goto(p, f) /\ cpu' = p
      /\ UNCHANGED <<ptmaxcnt, ptnextid, nodeVars, semVars>>
  BY DEF PtclearStart, CallFor, Call, At
<1>2. f \in FrameSet /\ f.at = "walk" /\ f.arg = newstate /\ f.port = i /\ f.walk = 0
  <2>1. "walk" \in Routine /\ newstate \in Arg /\ ptseq[i] \in Nat /\ 0 \in 0..PT_MSGS
    BY PortSizes DEF Routine, Clearing, Arg, PortInv, TypeOK, PortTypes
  <2>2. QED
    BY <2>1, FramesTyped DEF Frame
<1> HIDE DEF f
<1>3. frame'[p] = f /\ \A q \in Proc : q # p => frame'[q] = frame[q]
  BY <1>1, <1>2, GotoFrames DEF PortInv, TypeOK, CallTypes
<1>4. TypeOK'
  <2>1. ptseq[i] + 1 \in Nat
    BY DEF PortInv, TypeOK, PortTypes
  <2>2. PortTypes'
    BY <1>1, <2>1 DEF PortInv, TypeOK, PortTypes
  <2>3. NodeTypes' /\ PortSemTypes'
    BY <1>1 DEF PortInv, TypeOK, NodeTypes, PortSemTypes, nodeVars, semVars
  <2>4. CallTypes'
    BY <1>1, <1>2, GotoFrames DEF PortInv, TypeOK, CallTypes
  <2>5. QED
    BY <2>2, <2>3, <2>4 DEF TypeOK
<1>5. /\ ptstate'[i] = "LIMBO" /\ \A j \in Port : j # i => ptstate'[j] = ptstate[j]
      /\ ptlist' = ptlist /\ ptfree' = ptfree
  BY <1>1 DEF PortInv, TypeOK, PortTypes, nodeVars
<1>6. "walk" \in Clearing /\ "user" \notin Clearing /\ "walk" # "ptsend"
  BY DEF Clearing
<1>7. \A q \in Proc : ArgSound(q)'
  BY <1>2, <1>3, <1>6 DEF PortInv, ArgSound
<1>8. \A q \in Proc : ~Clears(q, i)
  BY <1>1 DEF PortInv, ClearSound, Clears
<1>9. \A q \in Proc : ClearSound(q)'
  <2>1. ClearSound(p)'
    <3>1. Len(ptlist[i]) \in Nat
      BY LenProperties DEF PortInv, TypeOK, NodeTypes
    <3>2. QED
      BY <1>2, <1>3, <1>5, <3>1 DEF ClearSound
  <2>2. ASSUME NEW q \in Proc, q # p PROVE ClearSound(q)'
    <3>1. frame[q].port \in Port /\ frame'[q] = frame[q]
      BY <1>3, <2>2, FramesTyped DEF PortInv, TypeOK, CallTypes
    <3>2. frame[q].at \in Clearing => frame[q].port # i
      BY <1>8 DEF Clears
    <3>3. QED
      BY <1>5, <3>1, <3>2 DEF PortInv, ClearSound
  <2>3. QED
    BY <2>1, <2>2
<1>10. OneClearer'
  <2>1. \A j \in Port, q \in Proc : Clears(q, j)' <=> Clears(q, j) \/ (q = p /\ j = i)
    BY <1>1, <1>2, <1>3, <1>6 DEF Clears
  <2>2. QED
    BY <1>5, <1>8, <2>1 DEF PortInv, OneClearer
<1>11. Holding' = Holding
  <2>1. Holding' = {j \in Port : \/ ptstate'[j] = "ALLOC"
                                 \/ \E q \in Proc : frame'[q].at = "walk" /\ frame'[q].port = j}
    BY DEF Holding, Clearers, Clearing
  <2>2. \A j \in Port : (\E q \in Proc : frame'[q].at = "walk" /\ frame'[q].port = j)
                        <=> j = i \/ \E q \in Proc : frame[q].at = "walk" /\ frame[q].port = j
    BY <1>1, <1>2, <1>3
  <2>3. QED
    BY <1>1, <1>5, <2>1, <2>2, HoldingAre
<1>12. NodesConserved'
  BY <1>5, <1>11, NodesAre DEF NodesConserved, PortInv
<1>13. QED
  BY <1>4, <1>7, <1>9, <1>10, <1>12 DEF PortInv

\* A step of _ptclear that goes on with the same port: whether it holds its list
\* still is said by H.
LEMMA ClearingKeeps ==
  ASSUME PortInv, NEW p \in Proc, NEW f \in FrameSet, Goto(p, f), TypeOK',
         frame[p].at \in Clearing, f.at \in Clearing, f.port = frame[p].port,
         f.arg = frame[p].arg, ptstate' = ptstate,
         \A j \in Port : j # f.port => ptlist'[j] = ptlist[j],
         f.at = "walk" => f.walk <= Len(ptlist'[f.port]),
         f.at # "walk" /\ f.arg = "ALLOC" => ptlist'[f.port] = <<>>,
         Conserved({j \in Holding : j # f.port \/ f.at = "walk"}, ptlist', ptfree'),
         f.at = "walk" => frame[p].at = "walk"
  PROVE  PortInv'
<1> DEFINE i == f.port
<1>1. frame'[p] = f /\ \A q \in Proc : q # p => frame'[q] = frame[q]
  BY GotoFrames DEF PortInv, TypeOK, CallTypes
<1>2. i \in Port /\ \A q \in Proc : frame[q].port \in Port
  BY FramesTyped DEF PortInv, TypeOK, CallTypes
<1>3. Clears(p, i) /\ ptstate[i] = "LIMBO" /\ f.arg \in {"FREE", "ALLOC"}
  BY DEF Clears, PortInv, ClearSound
<1>4. \A q \in Proc : q # p => ~Clears(q, i)
  BY <1>2, <1>3 DEF PortInv, OneClearer
<1>5. \A q \in Proc : ArgSound(q)'
  BY <1>1 DEF PortInv, ArgSound, Clearing
<1>6. \A q \in Proc : ClearSound(q)'
  <2>1. ClearSound(p)'
    BY <1>1, <1>3 DEF ClearSound
  <2>2. ASSUME NEW q \in Proc, q # p PROVE ClearSound(q)'
    <3>1. frame[q].at \in Clearing => frame[q].port # i
      BY <1>4, <2>2 DEF Clears
    <3>2. QED
      BY <1>1, <1>2, <2>2, <3>1 DEF PortInv, ClearSound
  <2>3. QED
    BY <2>1, <2>2
<1>7. OneClearer'
  <2>1. \A j \in Port, q \in Proc : Clears(q, j)' <=> Clears(q, j)
    BY <1>1 DEF Clears
  <2>2. QED
    BY <2>1 DEF PortInv, OneClearer
<1>8. Holding' = {j \in Holding : j # i \/ f.at = "walk"}
  <2>1. Holding' = {j \in Port : \/ ptstate'[j] = "ALLOC"
                                 \/ \E q \in Proc : frame'[q].at = "walk" /\ frame'[q].port = j}
    BY DEF Holding, Clearers, Clearing
  <2>2. \A j \in Port : j # i =>
          ((\E q \in Proc : frame'[q].at = "walk" /\ frame'[q].port = j)
             <=> \E q \in Proc : frame[q].at = "walk" /\ frame[q].port = j)
    BY <1>1
  <2>3. (\E q \in Proc : frame'[q].at = "walk" /\ frame'[q].port = i)
          <=> f.at = "walk"
    <3>1. \A q \in Proc : q # p => ~(frame[q].at = "walk" /\ frame[q].port = i)
      BY <1>4 DEF Clears, Clearing
    <3>2. QED
      BY <1>1, <3>1
  <2>4. f.at = "walk" => i \in Holding
    BY <1>2, HoldingAre
  <2>5. i \notin {j \in Port : ptstate[j] = "ALLOC"}
    BY <1>3
  <2>6. QED
    BY <1>2, <2>1, <2>2, <2>3, <2>4, <2>5, HoldingAre
<1>9. NodesConserved'
  BY <1>8 DEF NodesConserved, Conserved
<1>10. QED
  BY <1>5, <1>6, <1>7, <1>9 DEF PortInv

LEMMA DisposeKeeps ==
  ASSUME PortInv, NEW p \in Proc, PtclearDispose(p)
  PROVE  PortInv'
<1> DEFINE i == frame[p].port
           g == [frame[p] EXCEPT !.walk = @ + 1]
<1>1. /\ frame[p].at = "walk" /\ frame[p].walk < Len(ptlist[i])
      /\ Goto(p, g) /\ cpu' \in {p, NoProc}
      /\ UNCHANGED <<portVars, ptlist, ptfree, ptmsg, semVars>>
  BY DEF PtclearDispose, At, KeepCpu
<1>2. i \in Port /\ frame[p] \in FrameSet
  BY FramesTyped DEF PortInv, TypeOK, CallTypes
<1>3. ptlist[i] \in Seq(Node) /\ Len(ptlist[i]) \in Nat
  BY <1>2, LenProperties DEF PortInv, TypeOK, NodeTypes
<1>4. Len(ptlist[i]) <= PT_MSGS
  <2>1. IsInjective(ptlist[i])
    BY <1>1, <1>2 DEF PortInv, NodesConserved, Holding, Clearers, Clearing
  <2>2. IsFiniteSet(Range(ptlist[i])) /\ Cardinality(Range(ptlist[i])) = Len(ptlist[i])
    BY <1>3, <2>1, ListCounted
  <2>3. Range(ptlist[i]) \subseteq Node
    <3>1. \A j \in 1..Len(ptlist[i]) : ptlist[i][j] \in Node
      BY <1>3, ElementOfSeq
    <3>2. DOMAIN ptlist[i] = 1..Len(ptlist[i])
      BY <1>3, LenProperties
    <3>3. QED
      BY <3>1, <3>2 DEF Range
  <2>4. IsFiniteSet(Node) /\ Cardinality(Node) = PT_MSGS
    <3>1. IsFiniteSet(1..PT_MSGS) /\ Cardinality(1..PT_MSGS) = IF 1 > PT_MSGS THEN 0 ELSE PT_MSGS-1+1
      BY FS_Interval, PortSizes
    <3>2. QED
      BY <3>1, PortSizes DEF Node
  <2>5. Cardinality(Range(ptlist[i])) <= Cardinality(Node)
    BY <2>3, <2>4, FS_Subset
  <2>6. QED
    BY <2>2, <2>4, <2>5
<1>5. /\ g \in FrameSet /\ g.at = "walk" /\ g.port = i /\ g.arg = frame[p].arg
      /\ g.walk = frame[p].walk + 1 /\ g.walk <= Len(ptlist[i])
  <2>1. frame[p].walk \in Nat /\ frame[p].walk + 1 \in 0..PT_MSGS
    BY <1>1, <1>2, <1>3, <1>4, PortSizes DEF FrameSet
  <2>2. QED
    BY <1>1, <1>2, <1>3, <2>1 DEF FrameSet
<1> HIDE DEF g
<1>6. TypeOK'
  BY <1>1, <1>5, GotoFrames DEF PortInv, TypeOK, CallTypes, PortTypes, NodeTypes,
                                PortSemTypes, portVars, semVars
<1>7. ptstate' = ptstate /\ ptlist' = ptlist /\ ptfree' = ptfree
  BY <1>1 DEF portVars
<1>8. "walk" \in Clearing
  BY DEF Clearing
<1>9. Conserved({j \in Holding : j # g.port \/ g.at = "walk"}, ptlist', ptfree')
  <2>1. {j \in Holding : j # g.port \/ g.at = "walk"} = Holding
    BY <1>5
  <2>2. QED
    BY <1>7, <2>1, NodesAre DEF PortInv
<1>10. QED
  BY <1>1, <1>5, <1>6, <1>7, <1>8, <1>9, ClearingKeeps

LEMMA ClearNodesKeeps ==
  ASSUME PortInv, NEW p \in Proc, PtclearNodes(p)
  PROVE  PortInv'
<1> DEFINE i == frame[p].port
           g == [frame[p] EXCEPT !.at = "clear_ptssem"]
<1>1. /\ frame[p].at = "walk" /\ Goto(p, g) /\ cpu' \in {p, NoProc}
      /\ ptfree' = ptlist[i] \o ptfree
      /\ ptlist' = IF frame[p].arg = "ALLOC" THEN [ptlist EXCEPT ![i] = <<>>] ELSE ptlist
      /\ UNCHANGED <<portVars, semVars, ptmsg>>
  BY DEF PtclearNodes, At, KeepCpu
<1>2. i \in Port /\ "clear_ptssem" \in Routine /\ "clear_ptssem" \in Clearing
  BY FramesTyped DEF PortInv, TypeOK, CallTypes, Routine, Clearing
<1>3. g \in FrameSet /\ g.at = "clear_ptssem" /\ g.port = i /\ g.arg = frame[p].arg
  BY <1>2, FramesTyped DEF PortInv, TypeOK, CallTypes
<1> HIDE DEF g
<1>4. ptlist \in [Port -> Seq(Node)] /\ ptfree \in Seq(Node)
  BY DEF PortInv, TypeOK, NodeTypes
<1>5. i \in Holding /\ Holding \in SUBSET Port
  BY <1>1, <1>2, HoldingAre
<1>6. \A j \in Port : j # i => ptlist'[j] = ptlist[j]
  BY <1>1, <1>4
<1>7. Conserved(Holding \ {i}, ptlist', ptlist[i] \o ptfree) /\ ptlist[i] \o ptfree \in Seq(Node)
  <2>1. \A j \in Holding \ {i} : ptlist'[j] = ptlist[j]
    BY <1>5, <1>6
  <2>2. Conserved(Holding, ptlist, ptfree)
    BY NodesAre DEF PortInv
  <2>3. QED
    BY <1>4, <1>5, <2>1, <2>2, NodesGiven
<1>8. Conserved({j \in Holding : j # g.port \/ g.at = "walk"}, ptlist', ptfree')
  <2>1. {j \in Holding : j # g.port \/ g.at = "walk"} = Holding \ {i}
    BY <1>3
  <2>2. QED
    BY <1>1, <1>7, <2>1
<1>9. ptlist' \in [Port -> Seq(Node)]
  <2>1. <<>> \in Seq(Node)
    OBVIOUS
  <2>2. QED
    BY <1>1, <1>4, <2>1
<1>10. TypeOK'
  BY <1>1, <1>3, <1>7, <1>9, GotoFrames DEF PortInv, TypeOK, CallTypes, PortTypes, NodeTypes,
                                PortSemTypes, portVars, semVars
<1>11. g.arg = "ALLOC" => ptlist'[i] = <<>>
  BY <1>1, <1>2, <1>3, <1>4
<1>12. frame[p].at \in Clearing /\ ptstate' = ptstate
  BY <1>1 DEF Clearing, portVars
<1>13. QED
  BY <1>1, <1>2, <1>3, <1>6, <1>8, <1>10, <1>11, <1>12, ClearingKeeps

LEMMA ClearSemKeeps ==
  ASSUME PortInv, NEW p \in Proc, NEW s \in Sem, NEW count \in Nat,
         NEW next \in {"clear_ptrsem", "clear_done"}, ClearSem(p, s, count, next),
         frame[p].at \in Clearing, frame[p].at # "walk"
  PROVE  PortInv'
<1> DEFINE i == frame[p].port
           g == [frame[p] EXCEPT !.at = next]
<1>1. /\ waiters' = [waiters EXCEPT ![s] = <<>>]
      /\ permits' = IF s \in semused THEN [permits EXCEPT ![s] = count] ELSE permits
      /\ lost' = [lost EXCEPT ![s] = 0]
      /\ semused' = IF frame[p].arg = "ALLOC" THEN semused ELSE semused \ {s}
      /\ Goto(p, g) /\ cpu' \in {p, NoProc}
      /\ UNCHANGED <<portVars, nodeVars>>
  BY DEF ClearSem, KeepCpu
<1>2. i \in Port /\ next \in Routine /\ next \in Clearing /\ next # "walk"
  BY FramesTyped DEF PortInv, TypeOK, CallTypes, Routine, Clearing
<1>3. g \in FrameSet /\ g.at = next /\ g.port = i /\ g.arg = frame[p].arg
  BY <1>2, FramesTyped DEF PortInv, TypeOK, CallTypes
<1> HIDE DEF g
<1>4. PortSemTypes'
  <2>1. <<>> \in Seq(Proc)
    OBVIOUS
  <2>2. QED
    BY <1>1, <2>1 DEF PortInv, TypeOK, PortSemTypes
<1>5. TypeOK'
  BY <1>1, <1>3, <1>4, GotoFrames DEF PortInv, TypeOK, CallTypes, PortTypes, NodeTypes,
                                      portVars, nodeVars
<1>6. ptstate' = ptstate /\ ptlist' = ptlist /\ ptfree' = ptfree
  BY <1>1 DEF portVars, nodeVars
<1>7. g.arg = "ALLOC" => ptlist[i] = <<>>
  BY <1>3 DEF PortInv, ClearSound
<1>8. i \notin Holding
  <2>1. ptstate[i] = "LIMBO" /\ Clears(p, i)
    BY DEF PortInv, ClearSound, Clears
  <2>2. \A q \in Proc : ~(frame[q].at = "walk" /\ frame[q].port = i)
    BY <1>2, <2>1 DEF PortInv, OneClearer, Clears, Clearing
  <2>3. QED
    BY <2>1, <2>2, HoldingAre
<1>9. Conserved({j \in Holding : j # g.port \/ g.at = "walk"}, ptlist', ptfree')
  <2>1. {j \in Holding : j # g.port \/ g.at = "walk"} = Holding
    BY <1>3, <1>8
  <2>2. QED
    BY <1>6, <2>1, NodesAre DEF PortInv
<1>10. QED
  BY <1>1, <1>2, <1>3, <1>5, <1>6, <1>7, <1>9, ClearingKeeps

LEMMA ClearSendSemKeeps ==
  ASSUME PortInv, NEW p \in Proc, PtclearSendSem(p)
  PROVE  PortInv'
<1>1. frame[p].port \in Port
  BY FramesTyped DEF PortInv, TypeOK, CallTypes
<1>2. SendSem(frame[p].port) \in Sem /\ ptmaxcnt[frame[p].port] \in Nat
  BY <1>1, SemaphoresOf, PortSizes DEF PortInv, TypeOK, PortTypes
<1>3. frame[p].at \in Clearing /\ frame[p].at # "walk"
  BY DEF PtclearSendSem, At, Clearing
<1>4. QED
  BY <1>2, <1>3, ClearSemKeeps DEF PtclearSendSem

LEMMA ClearRecvSemKeeps ==
  ASSUME PortInv, NEW p \in Proc, PtclearRecvSem(p)
  PROVE  PortInv'
<1>1. frame[p].port \in Port
  BY FramesTyped DEF PortInv, TypeOK, CallTypes
<1>2. RecvSem(frame[p].port) \in Sem
  BY <1>1, SemaphoresOf
<1>3. frame[p].at \in Clearing /\ frame[p].at # "walk"
  BY DEF PtclearRecvSem, At, Clearing
<1>4. QED
  BY <1>2, <1>3, ClearSemKeeps DEF PtclearRecvSem

LEMMA DoneKeeps ==
  ASSUME PortInv, NEW p \in Proc, PtclearDone(p)
  PROVE  PortInv'
<1> DEFINE i == frame[p].port
           new == frame[p].arg
<1>1. /\ frame[p].at = "clear_done" /\ ptstate' = [ptstate EXCEPT ![i] = new]
      /\ ptnextid' = IF new = "FREE" THEN i ELSE ptnextid
      /\ Goto(p, User) /\ cpu' = NoProc
      /\ UNCHANGED <<ptseq, ptmaxcnt, nodeVars, semVars>>
  BY DEF PtclearDone, At, Return
<1>2. i \in Port /\ User \in FrameSet /\ User.at = "user"
  BY FramesTyped DEF PortInv, TypeOK, CallTypes
<1>3. "clear_done" \in Clearing /\ "clear_done" # "walk" /\ "user" \notin Clearing
  BY DEF Clearing
<1>4. /\ new \in {"FREE", "ALLOC"} /\ ptstate[i] = "LIMBO" /\ Clears(p, i)
      /\ new = "ALLOC" => ptlist[i] = <<>>
  BY <1>1, <1>3 DEF PortInv, ClearSound, Clears
<1>5. \A q \in Proc : q # p => ~Clears(q, i)
  BY <1>2, <1>4 DEF PortInv, OneClearer
<1>6. frame'[p] = User /\ \A q \in Proc : q # p => frame'[q] = frame[q]
  BY <1>1, <1>2, GotoFrames DEF PortInv, TypeOK, CallTypes
<1>7. /\ ptstate'[i] = new /\ \A j \in Port : j # i => ptstate'[j] = ptstate[j]
      /\ ptlist' = ptlist /\ ptfree' = ptfree
  BY <1>1, <1>2 DEF PortInv, TypeOK, PortTypes, nodeVars
<1>8. TypeOK'
  <2>1. PortTypes'
    BY <1>1, <1>2, <1>4 DEF PortInv, TypeOK, PortTypes
  <2>2. NodeTypes' /\ PortSemTypes'
    BY <1>1 DEF PortInv, TypeOK, NodeTypes, PortSemTypes, nodeVars, semVars
  <2>3. CallTypes'
    BY <1>1, <1>2, GotoFrames DEF PortInv, TypeOK, CallTypes
  <2>4. QED
    BY <2>1, <2>2, <2>3 DEF TypeOK
<1>9. \A q \in Proc : ArgSound(q)'
  BY <1>2, <1>6 DEF PortInv, ArgSound
<1>10. \A q \in Proc : ClearSound(q)'
  <2>1. ClearSound(p)'
    BY <1>2, <1>3, <1>6 DEF ClearSound
  <2>2. ASSUME NEW q \in Proc, q # p PROVE ClearSound(q)'
    <3>1. frame[q].port \in Port /\ frame'[q] = frame[q]
      BY <1>6, <2>2, FramesTyped DEF PortInv, TypeOK, CallTypes
    <3>2. frame[q].at \in Clearing => frame[q].port # i
      BY <1>5, <2>2 DEF Clears
    <3>3. QED
      BY <1>7, <3>1, <3>2 DEF PortInv, ClearSound
  <2>3. QED
    BY <2>1, <2>2
<1>11. OneClearer'
  <2>1. \A j \in Port, q \in Proc : Clears(q, j)' <=> Clears(q, j) /\ q # p
    BY <1>2, <1>3, <1>6 DEF Clears
  <2>2. \A j \in Port : ptstate'[j] = "LIMBO" => ptstate[j] = "LIMBO" /\ j # i
    BY <1>4, <1>7
  <2>3. \A j \in Port : Clears(p, j) => j = i
    BY DEF Clears
  <2>4. QED
    BY <2>1, <2>2, <2>3 DEF PortInv, OneClearer
<1>12. \A q \in Proc : frame'[q].at = "walk" <=> frame[q].at = "walk"
  BY <1>1, <1>2, <1>6
<1>13. Holding' = {j \in Port : j \in Holding \/ (j = i /\ new = "ALLOC")}
  <2>1. Holding' = {j \in Port : \/ ptstate'[j] = "ALLOC"
                                 \/ \E q \in Proc : frame'[q].at = "walk" /\ frame'[q].port = j}
    BY DEF Holding, Clearers, Clearing
  <2>2. \A j \in Port : (\E q \in Proc : frame'[q].at = "walk" /\ frame'[q].port = j)
                        <=> \E q \in Proc : frame[q].at = "walk" /\ frame[q].port = j
    BY <1>6, <1>12, <1>1, <1>2
  <2>3. \A j \in Port : ptstate'[j] = "ALLOC" <=>
                        ptstate[j] = "ALLOC" \/ (j = i /\ new = "ALLOC")
    BY <1>4, <1>7
  <2>4. QED
    BY <2>1, <2>2, <2>3, HoldingAre
<1>14. i \notin Holding
  <2>1. \A q \in Proc : ~(frame[q].at = "walk" /\ frame[q].port = i)
    BY <1>1, <1>5 DEF Clears, Clearing
  <2>2. QED
    BY <1>4, <2>1, HoldingAre
<1>15. NodesConserved'
  <2>1. Conserved(Holding, ptlist, ptfree) /\ Holding \in SUBSET Port
    BY NodesAre DEF PortInv, Holding
  <2>2. CASE new = "ALLOC"
    <3>1. Holding' = Holding \cup {i}
      BY <1>2, <1>13, <2>1, <2>2
    <3>2. Conserved(Holding \cup {i}, ptlist, ptfree)
      BY <1>2, <1>4, <1>14, <2>1, <2>2, NodesAdded
    <3>3. QED
      BY <1>7, <3>1, <3>2 DEF NodesConserved, Conserved
  <2>3. CASE new # "ALLOC"
    <3>1. Holding' = Holding
      BY <1>13, <2>1, <2>3
    <3>2. QED
      BY <1>7, <3>1 DEF NodesConserved, PortInv
  <2>4. QED
    BY <2>2, <2>3
<1>16. QED
  BY <1>8, <1>9, <1>10, <1>11, <1>15 DEF PortInv

LEMMA UnchangedKeeps ==
  ASSUME PortInv, UNCHANGED vars
  PROVE  PortInv'
<1>1. UNCHANGED <<ptstate, ptseq, ptmaxcnt, ptnextid, ptlist, ptfree, ptmsg, semused, permits,
                  waiters, lost, cpu, frame>>
  BY DEF vars, portVars, nodeVars, semVars
<1>2. TypeOK'
  BY <1>1 DEF PortInv, TypeOK, PortTypes, NodeTypes, PortSemTypes, CallTypes
<1>3. (\A p \in Proc : ArgSound(p)' /\ ClearSound(p)') /\ OneClearer'
  BY <1>1 DEF PortInv, ArgSound, ClearSound, OneClearer, Clears
<1>4. NodesConserved'
  BY <1>1 DEF PortInv, NodesConserved, Holding, Clearers
<1>5. QED
  BY <1>2, <1>3, <1>4 DEF PortInv

LEMMA PortStepKeeps == PortInv /\ [Next]_vars => PortInv'
<1>1. SUFFICES ASSUME PortInv, [Next]_vars PROVE PortInv'
  OBVIOUS
<1>2. CASE UNCHANGED vars
  BY <1>1, <1>2, UnchangedKeeps
<1>3. ASSUME NEW p \in Proc, \E count \in Counts : Ptcreate(p, count) PROVE PortInv'
  BY <1>1, <1>3, CreateKeeps
<1>4. ASSUME NEW p \in Proc, NEW i \in Port,
             PtrecvStart(p, i) \/ \E m \in Msg : PtsendStart(p, i, m)
      PROVE  PortInv'
  BY <1>1, <1>4, RecvStartKeeps, SendStartKeeps
<1>5. ASSUME NEW p \in Proc, NEW i \in Port, NEW newstate \in {"FREE", "ALLOC"},
             PtclearStart(p, i, newstate)
      PROVE  PortInv'
  BY <1>1, <1>5, ClearStartKeeps
<1>6. ASSUME NEW p \in Proc,
             PtFailed(p) \/ PtsendPanic(p) \/ PtsendFinish(p) \/ PtrecvFinish(p) \/ Kill(p)
      PROVE  PortInv'
  BY <1>1, <1>6, FailedKeeps, PanicKeeps, SendFinishKeeps, RecvFinishKeeps, KillKeeps
<1>7. ASSUME NEW p \in Proc,
             \/ PtclearDispose(p) \/ PtclearNodes(p) \/ PtclearSendSem(p) \/ PtclearRecvSem(p)
             \/ PtclearDone(p)
      PROVE  PortInv'
  BY <1>1, <1>7, DisposeKeeps, ClearNodesKeeps, ClearSendSemKeeps, ClearRecvSemKeeps, DoneKeeps
<1>8. ASSUME NEW p \in Proc, Halted(p) PROVE PortInv'
  BY <1>1, <1>8, UnchangedKeeps DEF Halted
<1>9. QED
  BY <1>1, <1>2, <1>3, <1>4, <1>5, <1>6, <1>7, <1>8 DEF Next

LEMMA PortInitially == Init => PortInv
<1>1. SUFFICES ASSUME Init PROVE PortInv
  OBVIOUS
<1>2. 0 \in Port /\ 0 \in 0..UINT16-1 /\ User \in FrameSet /\ User.at = "user"
  BY FramesTyped, PortSizes DEF Port
<1>3. /\ ptfree = [n \in 1..PT_MSGS |-> n] /\ ptfree \in Seq(Node) /\ Range(ptfree) = Node
      /\ IsInjective(ptfree)
  <2>1. ptfree = [n \in 1..PT_MSGS |-> n]
    BY <1>1 DEF Init, Node
  <2>2. QED
    BY <2>1, PortSizes DEF Node, Range, IsInjective
<1>4. TypeOK
  BY <1>1, <1>2, <1>3 DEF Init, Semaphores!Init, TypeOK, PortTypes, NodeTypes, PortSemTypes,
                          CallTypes
<1>5. \A p \in Proc : frame[p].at = "user" /\ frame[p].at \notin Clearing
  BY <1>1, <1>2 DEF Init, Clearing
<1>6. \A p \in Proc : ArgSound(p) /\ ClearSound(p)
  BY <1>5 DEF ArgSound, ClearSound
<1>7. OneClearer
  BY <1>1, <1>5 DEF Init, OneClearer, Clears
<1>8. Holding = {}
  BY <1>1, <1>5 DEF Init, Holding, Clearers
<1>9. NodesConserved
  BY <1>3, <1>8 DEF NodesConserved
<1>10. QED
  BY <1>4, <1>6, <1>7, <1>9 DEF PortInv

LEMMA PortInvAlways == Spec => []PortInv
<1>1. Init => PortInv
  BY PortInitially
<1>2. PortInv /\ [Next]_vars => PortInv'
  BY PortStepKeeps
<1>3. QED
  BY <1>1, <1>2, PTL DEF Spec

\* The variables of the ports always have the types of their C counterparts.
THEOREM PortsStayTyped == Spec => []TypeOK
<1>1. PortInv => TypeOK
  BY DEF PortInv
<1>2. QED
  BY <1>1, PortInvAlways, PTL

\* A port is in limbo exactly while one process clears it.
THEOREM LimboIsCleared == Spec => []LimboHasClearer
<1>1. PortInv => LimboHasClearer
  <2>1. SUFFICES ASSUME PortInv, NEW i \in Port
                 PROVE  Cardinality(Clearers(i)) = IF ptstate[i] = "LIMBO" THEN 1 ELSE 0
    BY DEF LimboHasClearer
  <2>2. CASE ptstate[i] = "LIMBO"
    <3>1. PICK p \in Proc : Clears(p, i)
      BY <2>1, <2>2 DEF PortInv, OneClearer
    <3>2. Clearers(i) = {p}
      BY <2>1, <3>1 DEF PortInv, OneClearer, Clearers, Clears
    <3>3. QED
      BY <2>2, <3>2, FS_Singleton
  <2>3. CASE ptstate[i] # "LIMBO"
    <3>1. Clearers(i) = {}
      BY <2>1, <2>3 DEF PortInv, ClearSound, Clearers
    <3>2. QED
      BY <2>3, <3>1, FS_EmptySet
  <2>4. QED
    BY <2>2, <2>3
<1>2. QED
  BY <1>1, PortInvAlways, PTL

\* Every message node is in the free list or in the list of one port, once, however
\* sends, receives, resets and deletes of any number of processes interleave.
THEOREM NoNodeIsLost == Spec => []NodesConserved
<1>1. PortInv => NodesConserved
  BY DEF PortInv
<1>2. QED
  BY <1>1, PortInvAlways, PTL
-----------------------------------------------------------------------------
(* The semaphores of a port agree with its list.                           *)

InCall == {"ptsend", "ptrecv", "panic"}

\* The routines that go on with a permit of semaphore s.
Serves(s) == IF s[2] = "ptssem" THEN {"ptsend", "panic"} ELSE {"ptrecv"}

\* A call remembers a sequence number of its port that is not from the future, and
\* one from the past while the port is in limbo; the semaphore it waited for exists
\* as long as the port is as it found it.
CallSound(p) ==
  LET f == frame[p] IN
  f.at \in InCall => /\ f.seq <= ptseq[f.port]
                     /\ ptstate[f.port] = "LIMBO" => f.seq < ptseq[f.port]
                     /\ f.at # "panic" /\ StillValid(f) => WaitedFor(f) \in semused

\* Whoever waits for s is inside the call that waits for it, of a port not deleted
\* since, nor reset and open again.
WaitsSoundly(p, s) ==
  LET f == frame[p] IN
  /\ f.at \in {"ptsend", "ptrecv"} /\ WaitedFor(f) = s
  /\ ptstate[f.port] # "FREE"
  /\ ptstate[f.port] = "ALLOC" => f.seq = ptseq[f.port]
WaitersSound(s) ==
  /\ IsInjective(waiters[s])
  /\ \A p \in Range(waiters[s]) : WaitsSoundly(p, s)

\* What _ptclear has done with the semaphores so far.
Cleared(s, count, reset) ==
  /\ waiters[s] = <<>> /\ lost[s] = 0
  /\ reset /\ s \in semused => permits[s] = count
SemsSound(p) ==
  LET f == frame[p]
      i == f.port IN
  /\ f.at \in {"clear_ptrsem", "clear_done"} => Cleared(SendSem(i), ptmaxcnt[i], f.arg = "ALLOC")
  /\ f.at = "clear_done" => Cleared(RecvSem(i), 0, f.arg = "ALLOC")

ClaimsOn(s) == Claims(s, s[1], Serves(s))
Accounted(i) ==
  ptstate[i] = "ALLOC" =>
    /\ SendSem(i) \in semused => ClaimsOn(SendSem(i)) + Len(ptlist[i]) = ptmaxcnt[i]
    /\ RecvSem(i) \in semused => ClaimsOn(RecvSem(i)) = Len(ptlist[i])

PermitInv ==
  /\ PortInv
  /\ \A p \in Proc : CallSound(p) /\ SemsSound(p)
  /\ \A s \in Sem : WaitersSound(s)
  /\ \A i \in Port : Accounted(i)

LEMMA SemaphoreOf ==
  /\ \A i \in Port : /\ SendSem(i)[1] = i /\ Serves(SendSem(i)) = {"ptsend", "panic"}
                     /\ RecvSem(i)[1] = i /\ Serves(RecvSem(i)) = {"ptrecv"}
  /\ \A s \in Sem : s[1] \in Port /\ s \in {SendSem(s[1]), RecvSem(s[1])}
  /\ \A s \in Sem : Serves(s) \subseteq InCall
BY DEF SendSem, RecvSem, Sem, Serves, InCall

LEMMA WaiterIsProc ==
  ASSUME PermitInv, NEW s \in Sem
  PROVE  waiters[s] \in Seq(Proc) /\ Range(waiters[s]) \subseteq Proc /\ IsInjective(waiters[s])
<1>1. waiters[s] \in Seq(Proc) /\ IsInjective(waiters[s])
  BY DEF PermitInv, PortInv, TypeOK, PortSemTypes, WaitersSound
<1>2. QED
  BY <1>1, RangeOfSeq

\* What a blocked process waits for.
LEMMA WhoWaits ==
  ASSUME PermitInv, NEW q \in Proc
  PROVE  /\ \A s \in Sem : q \in Range(waiters[s]) =>
              /\ frame[q].at \in {"ptsend", "ptrecv"} /\ s = WaitedFor(frame[q])
              /\ frame[q].port = s[1] /\ frame[q].at \in Serves(s)
         /\ frame[q].at \notin {"ptsend", "ptrecv"} => ~Blocked(q)
<1>1. ASSUME NEW s \in Sem, q \in Range(waiters[s])
      PROVE  /\ frame[q].at \in {"ptsend", "ptrecv"} /\ s = WaitedFor(frame[q])
             /\ frame[q].port = s[1] /\ frame[q].at \in Serves(s)
  <2>1. frame[q].at \in {"ptsend", "ptrecv"} /\ s = WaitedFor(frame[q])
    BY <1>1 DEF PermitInv, WaitersSound, WaitsSoundly
  <2>2. frame[q].port \in Port
    BY FramesTyped DEF PermitInv, PortInv, TypeOK, CallTypes
  <2>3. QED
    BY <2>1, <2>2, SemaphoreOf DEF WaitedFor
<1>2. QED
  BY <1>1 DEF Blocked

\* Claims that are finite: the processes that hold one can be counted.
LEMMA GrantedCounted ==
  ASSUME NEW i, NEW r
  PROVE  IsFiniteSet(Granted(i, r)) /\ Cardinality(Granted(i, r)) \in Nat
<1>1. Granted(i, r) \in SUBSET Proc
  BY DEF Granted
<1>2. IsFiniteSet(Granted(i, r))
  BY <1>1, FS_Subset, PortSizes
<1>3. QED
  BY <1>2, FS_CardinalityType

\* Process q has a claim on port i inside one of the routines r after the step if
\* and only if it had one before.
SameClaim(q, i, r) ==
  \/ frame'[q] = frame[q] /\ (Blocked(q)' <=> Blocked(q))
  \/ /\ frame[q].port = i => frame[q].at \notin r \/ Blocked(q) \/ ~StillValid(frame[q])
     /\ frame'[q].port = i => frame'[q].at \notin r \/ Blocked(q)'

LEMMA GrantedMember ==
  ASSUME NEW i \in Port, ptstate'[i] = ptstate[i], ptseq'[i] = ptseq[i], NEW r,
         NEW q \in Proc, SameClaim(q, i, r)
  PROVE  q \in Granted(i, r)' <=> q \in Granted(i, r)
BY DEF SameClaim, Granted, StillValid

LEMMA GrantedLeft ==
  ASSUME NEW i \in Port, ptstate'[i] = ptstate[i], ptseq'[i] = ptseq[i],
         NEW r, \A q \in Proc : SameClaim(q, i, r)
  PROVE  Granted(i, r)' = Granted(i, r)
<1>1. \A q \in Proc : q \in Granted(i, r)' <=> q \in Granted(i, r)
  BY GrantedMember
<1>2. Granted(i, r)' \subseteq Proc /\ Granted(i, r) \subseteq Proc
  BY DEF Granted
<1>3. QED
  BY <1>1, <1>2

\* One process gains a claim.
LEMMA GrantedGains ==
  ASSUME NEW i \in Port, ptstate'[i] = ptstate[i], ptseq'[i] = ptseq[i],
         NEW r, NEW p \in Proc, \A q \in Proc : q # p => SameClaim(q, i, r),
         p \notin Granted(i, r), p \in Granted(i, r)'
  PROVE  Cardinality(Granted(i, r)') = Cardinality(Granted(i, r)) + 1
<1>1. \A q \in Proc : q # p => (q \in Granted(i, r)' <=> q \in Granted(i, r))
  BY GrantedMember
<1>2. Granted(i, r)' \subseteq Proc /\ Granted(i, r) \subseteq Proc
  BY DEF Granted
<1>3. Granted(i, r)' = Granted(i, r) \cup {p}
  BY <1>1, <1>2
<1>4. QED
  BY <1>3, GrantedCounted, FS_AddElement

\* One process loses its claim.
LEMMA GrantedLoses ==
  ASSUME NEW i \in Port, ptstate'[i] = ptstate[i], ptseq'[i] = ptseq[i],
         NEW r, NEW p \in Proc, \A q \in Proc : q # p => SameClaim(q, i, r),
         p \in Granted(i, r), p \notin Granted(i, r)'
  PROVE  Cardinality(Granted(i, r)') = Cardinality(Granted(i, r)) - 1
<1>1. \A q \in Proc : q # p => (q \in Granted(i, r)' <=> q \in Granted(i, r))
  BY GrantedMember
<1>2. Granted(i, r)' \subseteq Proc /\ Granted(i, r) \subseteq Proc
  BY DEF Granted
<1>3. Granted(i, r)' = Granted(i, r) \ {p}
  BY <1>1, <1>2
<1>4. QED
  BY <1>3, GrantedCounted, FS_RemoveElement

\* A port that a step does not touch.
LEMMA AccountedLeft ==
  ASSUME NEW i \in Port, Accounted(i), ptstate'[i] = ptstate[i], ptseq'[i] = ptseq[i],
         ptmaxcnt'[i] = ptmaxcnt[i], ptlist'[i] = ptlist[i],
         \A s \in {SendSem(i), RecvSem(i)} : /\ permits'[s] = permits[s] /\ lost'[s] = lost[s]
                                             /\ s \in semused' => s \in semused,
         \A q \in Proc : SameClaim(q, i, InCall)
  PROVE  Accounted(i)'
<1>1. ASSUME NEW s \in {SendSem(i), RecvSem(i)} PROVE ClaimsOn(s)' = ClaimsOn(s)
  <2>1. s[1] = i /\ Serves(s) \in SUBSET InCall
    BY SemaphoreOf DEF InCall
  <2>2. \A q \in Proc : SameClaim(q, i, Serves(s))
    BY <2>1 DEF SameClaim
  <2>3. Granted(i, Serves(s))' = Granted(i, Serves(s))
    BY <2>2, GrantedLeft
  <2>4. QED
    BY <2>1, <2>3 DEF ClaimsOn, Claims
<1>2. QED
  BY <1>1 DEF Accounted

\* A step of a call that works on semaphore s, if it does so as it should.
LEMMA CallKeepsPermits ==
  ASSUME PermitInv, PortInv', UNCHANGED <<ptstate, ptseq, ptmaxcnt, semused>>,
         NEW p \in Proc, NEW f \in FrameSet, Goto(p, f),
         frame[p].at \notin Clearing, f.at \notin Clearing,
         NEW s \in Sem,
         frame[p].at \in InCall => frame[p].port = s[1],
         f.at \in InCall => /\ f.port = s[1] /\ f.seq <= ptseq[f.port]
                            /\ ptstate[f.port] = "LIMBO" => f.seq < ptseq[f.port]
                            /\ f.at # "panic" => WaitedFor(f) \in semused,
         \A t \in Sem : t # s => waiters'[t] = waiters[t] /\ p \notin Range(waiters[t]),
         \A t \in Sem : t[1] # s[1] => permits'[t] = permits[t] /\ lost'[t] = lost[t],
         \A j \in Port : j # s[1] => ptlist'[j] = ptlist[j],
         ptstate[s[1]] = "LIMBO" => /\ waiters[s] = <<>> => waiters'[s] = <<>>
                                    /\ permits' = permits /\ lost' = lost,
         IsInjective(waiters'[s]), Range(waiters'[s]) \subseteq Range(waiters[s]) \cup {p},
         p \in Range(waiters'[s]) => WaitsSoundly(p, s)',
         Accounted(s[1])'
  PROVE  PermitInv'
<1>1. frame'[p] = f /\ \A q \in Proc : q # p => frame'[q] = frame[q]
  BY GotoFrames DEF PermitInv, PortInv, TypeOK, CallTypes
<1>2. ASSUME NEW q \in Proc PROVE CallSound(q)'
  <2>1. CASE q = p
    BY <1>1, <2>1 DEF CallSound, WaitedFor
  <2>2. CASE q # p
    BY <1>1, <2>2 DEF PermitInv, CallSound, StillValid, WaitedFor
  <2>3. QED
    BY <2>1, <2>2
<1>3. ASSUME NEW t \in Sem PROVE WaitersSound(t)'
  <2>1. ASSUME NEW q \in Range(waiters[t]), q # p PROVE WaitsSoundly(q, t)'
    <3>1. q \in Proc
      BY <2>1, WaiterIsProc
    <3>2. QED
      BY <1>1, <2>1, <3>1 DEF PermitInv, WaitersSound, WaitsSoundly
  <2>2. CASE t = s
    BY <2>1, <2>2 DEF WaitersSound
  <2>3. CASE t # s
    BY <2>1, <2>3 DEF PermitInv, WaitersSound
  <2>4. QED
    BY <2>2, <2>3
<1>4. ASSUME NEW q \in Proc PROVE SemsSound(q)'
  <2>1. CASE q = p
    BY <1>1, <2>1 DEF SemsSound, Clearing
  <2>2. CASE q # p /\ frame[q].at \in Clearing
    <3> DEFINE i == frame[q].port
    <3>1. frame'[q] = frame[q] /\ i \in Port /\ ptstate[i] = "LIMBO"
      BY <1>1, <2>2, FramesTyped DEF PermitInv, PortInv, TypeOK, CallTypes, ClearSound
    <3>2. ASSUME NEW t \in {SendSem(i), RecvSem(i)}
          PROVE  /\ waiters[t] = <<>> => waiters'[t] = <<>>
                 /\ permits'[t] = permits[t] /\ lost'[t] = lost[t]
      BY <3>1, SemaphoreOf, SemaphoresOf
    <3>3. QED
      BY <3>1, <3>2 DEF PermitInv, SemsSound, Cleared
  <2>3. CASE q # p /\ frame[q].at \notin Clearing
    BY <1>1, <2>3 DEF SemsSound, Clearing
  <2>4. QED
    BY <2>1, <2>2, <2>3
<1>5. ASSUME NEW j \in Port, j # s[1] PROVE Accounted(j)'
  <2>1. ASSUME NEW q \in Proc PROVE SameClaim(q, j, InCall)
    <3>1. CASE q = p
      BY <1>1, <1>5, <3>1 DEF SameClaim
    <3>2. CASE q # p /\ frame[q].port = j
      <4>1. q \notin Range(waiters[s]) /\ q \notin Range(waiters'[s])
        BY <1>5, <3>2, WhoWaits
      <4>2. Blocked(q)' <=> Blocked(q)
        BY <4>1 DEF Blocked
      <4>3. QED
        BY <1>1, <3>2, <4>2 DEF SameClaim
    <3>3. CASE q # p /\ frame[q].port # j
      BY <1>1, <3>3 DEF SameClaim
    <3>4. QED
      BY <3>1, <3>2, <3>3
  <2>2. \A t \in {SendSem(j), RecvSem(j)} : t \in Sem /\ t[1] # s[1]
    BY <1>5, SemaphoresOf, SemaphoreOf
  <2>3. Accounted(j)
    BY DEF PermitInv
  <2>4. QED
    BY <1>5, <2>1, <2>2, <2>3, AccountedLeft
<1>6. s[1] \in Port
  BY SemaphoreOf
<1>7. QED
  BY <1>2, <1>3, <1>4, <1>5, <1>6 DEF PermitInv

\* The semaphores of one port serve different routines.
LEMMA ServesApart ==
  ASSUME NEW s \in Sem, NEW t \in Sem, s # t, s[1] = t[1]
  PROVE  Serves(s) \cap Serves(t) = {}
<1>1. /\ s \in {SendSem(s[1]), RecvSem(s[1])} /\ t \in {SendSem(s[1]), RecvSem(s[1])}
      /\ s[1] \in Port
  BY SemaphoreOf
<1>2. QED
  BY <1>1, SemaphoreOf

\* Both semaphores of a port keep the same claims, and its list its length.
LEMMA AccountedAgain ==
  ASSUME NEW i \in Port, Accounted(i), ptstate'[i] = ptstate[i], ptmaxcnt'[i] = ptmaxcnt[i],
         ptlist'[i] = ptlist[i], semused' = semused,
         \A s \in Sem : s[1] = i => ClaimsOn(s)' = ClaimsOn(s)
  PROVE  Accounted(i)'
<1>1. /\ SendSem(i) \in Sem /\ SendSem(i)[1] = i
      /\ RecvSem(i) \in Sem /\ RecvSem(i)[1] = i
  BY SemaphoresOf, SemaphoreOf
<1>2. QED
  BY <1>1 DEF Accounted

LEMMA WaitKeepsPermits ==
  ASSUME PermitInv, PortInv', NEW p \in Proc, frame[p].at = "user", NEW s \in Sem,
         NEW f \in FrameSet, WaitIn(p, s, f), f.at \in {"ptsend", "ptrecv"}, WaitedFor(f) = s,
         ptstate[f.port] = "ALLOC", f.seq = ptseq[f.port]
  PROVE  PermitInv'
<1> DEFINE i == f.port
<1>1. /\ Semaphores!Acquire(s, p) /\ Goto(p, f)
      /\ UNCHANGED <<ptstate, ptseq, ptmaxcnt, semused, ptlist, lost>>
  BY DEF WaitIn, portVars, nodeVars
<1>2. /\ i \in Port /\ s[1] = i /\ f.at \in Serves(s) /\ f.at \in InCall /\ f.at \notin Clearing
      /\ f.seq \in Nat
  BY FramesTyped, SemaphoreOf DEF WaitedFor, InCall, Clearing
<1>3. (\A t \in Sem : p \notin Range(waiters[t])) /\ ~Blocked(p)
  BY WhoWaits
<1>4. frame'[p] = f /\ \A q \in Proc : q # p => frame'[q] = frame[q]
  BY <1>1, GotoFrames DEF PermitInv, PortInv, TypeOK, CallTypes
<1>5. /\ \A t \in Sem : permits[t] \in Nat /\ lost[t] \in Nat
      /\ permits \in [Sem -> Nat] /\ waiters \in [Sem -> Seq(Proc)]
  BY DEF PermitInv, PortInv, TypeOK, PortSemTypes
<1>6. waiters[s] \in Seq(Proc) /\ Range(waiters[s]) \subseteq Proc /\ IsInjective(waiters[s])
  BY WaiterIsProc
<1>7. Accounted(i)
  BY <1>2 DEF PermitInv
<1>8. /\ \A t \in Sem : t # s => waiters'[t] = waiters[t]
      /\ \A t \in Sem : t[1] # s[1] => permits'[t] = permits[t] /\ lost'[t] = lost[t]
      /\ IsInjective(waiters'[s]) /\ Range(waiters'[s]) \subseteq Range(waiters[s]) \cup {p}
      /\ Accounted(i)'
  <2>1. CASE permits[s] > 0 /\ permits' = [permits EXCEPT ![s] = @ - 1] /\ UNCHANGED waiters
    <3>1. \A q \in Proc : Blocked(q)' <=> Blocked(q)
      BY <2>1 DEF Blocked
    <3>2. permits'[s] = permits[s] - 1 /\ \A t \in Sem : t # s => permits'[t] = permits[t]
      BY <1>5, <2>1
    <3>3. ClaimsOn(s)' = ClaimsOn(s)
      <4>1. p \notin Granted(i, Serves(s))
        <5>1. "user" \notin Serves(s)
          BY SemaphoreOf DEF InCall
        <5>2. QED
          BY <5>1 DEF Granted
      <4>2. p \in Granted(i, Serves(s))'
        BY <1>1, <1>2, <1>3, <1>4, <3>1 DEF Granted, StillValid
      <4>3. \A q \in Proc : q # p => SameClaim(q, i, Serves(s))
        BY <1>4, <3>1 DEF SameClaim
      <4>4. Cardinality(Granted(i, Serves(s))') = Cardinality(Granted(i, Serves(s))) + 1
        BY <1>1, <1>2, <4>1, <4>2, <4>3, GrantedGains
      <4>5. Cardinality(Granted(i, Serves(s))) \in Nat
        BY GrantedCounted
      <4>6. QED
        BY <1>1, <1>2, <1>5, <3>2, <4>4, <4>5 DEF ClaimsOn, Claims
    <3>4. ASSUME NEW t \in Sem, t[1] = i, t # s PROVE ClaimsOn(t)' = ClaimsOn(t)
      <4>1. f.at \notin Serves(t)
        BY <1>2, <3>4, ServesApart
      <4>2. "user" \notin Serves(t)
        BY SemaphoreOf DEF InCall
      <4>3. \A q \in Proc : SameClaim(q, i, Serves(t))
        BY <1>4, <3>1, <4>1, <4>2 DEF SameClaim
      <4>4. Granted(i, Serves(t))' = Granted(i, Serves(t))
        BY <1>1, <1>2, <4>3, GrantedLeft
      <4>5. QED
        BY <1>1, <3>2, <3>4, <4>4 DEF ClaimsOn, Claims
    <3>5. Accounted(i)'
      BY <1>1, <1>2, <1>7, <3>3, <3>4, AccountedAgain
    <3>6. QED
      BY <1>1, <1>6, <2>1, <3>2, <3>5
  <2>2. CASE waiters' = [waiters EXCEPT ![s] = Append(@, p)] /\ UNCHANGED permits
    <3>1. waiters'[s] = Append(waiters[s], p) /\ \A t \in Sem : t # s => waiters'[t] = waiters[t]
      BY <1>5, <2>2
    <3>2. IsInjective(waiters'[s]) /\ Range(waiters'[s]) = Range(waiters[s]) \cup {p}
      BY <1>3, <1>6, <3>1, AppendRange
    <3>3. \A q \in Proc : q # p => (Blocked(q)' <=> Blocked(q))
      BY <3>1, <3>2 DEF Blocked
    <3>4. Blocked(p)'
      BY <3>2 DEF Blocked
    <3>5. \A q \in Proc : SameClaim(q, i, InCall)
      BY <1>4, <3>3, <3>4 DEF SameClaim, InCall
    <3>6. Accounted(i)'
      BY <1>1, <1>2, <1>7, <2>2, <3>5, AccountedLeft
    <3>7. QED
      BY <1>1, <2>2, <3>1, <3>2, <3>6
  <2>3. QED
    BY <1>1, <2>1, <2>2 DEF Semaphores!Acquire
<1>9. WaitsSoundly(p, s)'
  <2>1. ptstate'[f.port] = "ALLOC" /\ f.seq = ptseq'[f.port]
    BY <1>1
  <2>2. QED
    BY <1>4, <2>1 DEF WaitsSoundly, WaitedFor
<1>10. frame[p].at \notin Clearing /\ frame[p].at \notin InCall
  BY DEF Clearing, InCall
<1>11. \A j \in Port : ptlist'[j] = ptlist[j]
  BY <1>1
<1> HIDE DEF i
<1>12. f.port = s[1] /\ Accounted(s[1])' /\ f.seq <= ptseq[f.port] /\ ptstate[f.port] # "LIMBO"
       /\ ptstate[s[1]] # "LIMBO" /\ WaitedFor(f) \in semused
  BY <1>2, <1>8 DEF i, WaitIn
<1>13. QED
  BY <1>1, <1>2, <1>3, <1>8, <1>9, <1>10, <1>11, <1>12, CallKeepsPermits

LEMMA SendStartPermits ==
  ASSUME PermitInv, NEW p \in Proc, NEW i \in Port, NEW m \in Msg, PtsendStart(p, i, m)
  PROVE  PermitInv'
<1> DEFINE f == Frame("ptsend", i, m)
<1>1. /\ WaitIn(p, SendSem(i), f) /\ frame[p].at = "user" /\ SendSem(i) \in Sem
      /\ ptstate[i] = "ALLOC"
  BY SemaphoresOf DEF PtsendStart, CallFor, Call, At
<1>2. f \in FrameSet /\ f.at = "ptsend" /\ f.port = i /\ f.seq = ptseq[i]
  <2>1. "ptsend" \in Routine /\ m \in Arg /\ ptseq[i] \in Nat /\ 0 \in 0..PT_MSGS
    BY PortSizes DEF Routine, Arg, PermitInv, PortInv, TypeOK, PortTypes
  <2>2. QED
    BY <2>1, FramesTyped DEF Frame
<1>3. PortInv'
  BY SendStartKeeps DEF PermitInv
<1> HIDE DEF f
<1>4. WaitedFor(f) = SendSem(i)
  BY <1>2 DEF WaitedFor
<1>5. QED
  BY <1>1, <1>2, <1>3, <1>4, WaitKeepsPermits

LEMMA RecvStartPermits ==
  ASSUME PermitInv, NEW p \in Proc, NEW i \in Port, PtrecvStart(p, i)
  PROVE  PermitInv'
<1> DEFINE f == Frame("ptrecv", i, "FREE")
<1>1. /\ WaitIn(p, RecvSem(i), f) /\ frame[p].at = "user" /\ RecvSem(i) \in Sem
      /\ ptstate[i] = "ALLOC"
  BY SemaphoresOf DEF PtrecvStart, CallFor, Call, At
<1>2. f \in FrameSet /\ f.at = "ptrecv" /\ f.port = i /\ f.seq = ptseq[i]
  <2>1. "ptrecv" \in Routine /\ "FREE" \in Arg /\ ptseq[i] \in Nat /\ 0 \in 0..PT_MSGS
    BY PortSizes DEF Routine, Arg, PermitInv, PortInv, TypeOK, PortTypes
  <2>2. QED
    BY <2>1, FramesTyped DEF Frame
<1>3. PortInv'
  BY RecvStartKeeps DEF PermitInv
<1> HIDE DEF f
<1>4. WaitedFor(f) = RecvSem(i)
  BY <1>2 DEF WaitedFor
<1>5. QED
  BY <1>1, <1>2, <1>3, <1>4, WaitKeepsPermits

\* A step of a call that leaves the semaphores and lists alone.
LEMMA QuietKeepsPermits ==
  ASSUME PermitInv, PortInv', UNCHANGED <<portVars, ptlist, semused, permits, waiters>>,
         NEW p \in Proc, NEW f \in FrameSet, Goto(p, f), frame[p].at \in {"ptsend", "ptrecv"},
         ~Blocked(p), f.at \notin Clearing, NEW i \in Port, frame[p].port = i,
         f.at \in InCall => f.at = "panic" /\ f.port = i /\ f.seq = frame[p].seq,
         \A t \in Sem : t # WaitedFor(frame[p]) => lost'[t] = lost[t],
         ptstate[i] = "LIMBO" => lost' = lost,
         Accounted(i)'
  PROVE  PermitInv'
<1>1. PICK s : s = WaitedFor(frame[p])
  OBVIOUS
<1>2. s \in Sem /\ s[1] = i
  BY <1>1, SemaphoresOf, SemaphoreOf DEF WaitedFor
<1>3. frame[p].at \in InCall /\ frame[p].at \notin Clearing
  BY DEF InCall, Clearing
<1>4. CallSound(p) /\ IsInjective(waiters[s])
  BY <1>2, WaiterIsProc DEF PermitInv
<1>5. f.at \in InCall => /\ f.port = s[1] /\ f.seq <= ptseq[f.port]
                         /\ ptstate[f.port] = "LIMBO" => f.seq < ptseq[f.port]
                         /\ f.at = "panic"
  BY <1>2, <1>3, <1>4 DEF CallSound
<1>6. \A t \in Sem : p \notin Range(waiters[t])
  BY DEF Blocked
<1>7. UNCHANGED <<ptstate, ptseq, ptmaxcnt, semused, permits, waiters, ptlist>>
  BY DEF portVars
<1>8. ptstate[s[1]] = "LIMBO" => lost' = lost
  BY <1>2
<1>9. \A t \in Sem : t[1] # s[1] => lost'[t] = lost[t]
  BY <1>1
<1>10. Accounted(s[1])'
  BY <1>2
<1>11. QED
  BY <1>2, <1>3, <1>4, <1>5, <1>6, <1>7, <1>8, <1>9, <1>10, CallKeepsPermits

LEMMA FailedPermits ==
  ASSUME PermitInv, NEW p \in Proc, PtFailed(p)
  PROVE  PermitInv'
<1>0. PICK i : i = frame[p].port
  OBVIOUS
<1>1. /\ Goto(p, User) /\ UNCHANGED <<portVars, nodeVars, semVars>>
      /\ frame[p].at \in {"ptsend", "ptrecv"} /\ ~Blocked(p) /\ ~StillValid(frame[p])
  BY DEF PtFailed, Return, At
<1>2. User \in FrameSet /\ User.at = "user" /\ i \in Port
  BY <1>0, FramesTyped DEF PermitInv, PortInv, TypeOK, CallTypes
<1>3. "user" \notin Clearing /\ "user" \notin InCall
  BY DEF Clearing, InCall
<1>4. PortInv'
  BY FailedKeeps DEF PermitInv
<1>5. frame'[p] = User /\ \A q \in Proc : q # p => frame'[q] = frame[q]
  BY <1>1, <1>2, GotoFrames DEF PermitInv, PortInv, TypeOK, CallTypes
<1>6. UNCHANGED <<ptstate, ptseq, ptmaxcnt, ptlist, semused, permits, waiters, lost>>
  BY <1>1 DEF portVars, nodeVars, semVars
<1>7. \A q \in Proc : Blocked(q)' <=> Blocked(q)
  BY <1>6 DEF Blocked
<1>8. \A q \in Proc : SameClaim(q, i, InCall)
  BY <1>1, <1>2, <1>3, <1>5, <1>7 DEF SameClaim
<1>9. Accounted(i)'
  <2>1. Accounted(i)
    BY <1>2 DEF PermitInv
  <2>2. QED
    BY <1>2, <1>6, <1>8, <2>1, AccountedLeft
<1>10. QED
  BY <1>0, <1>1, <1>2, <1>3, <1>4, <1>6, <1>9, QuietKeepsPermits

LEMMA PanicPermits ==
  ASSUME PermitInv, NEW p \in Proc, PtsendPanic(p)
  PROVE  PermitInv'
<1> DEFINE f == [frame[p] EXCEPT !.at = "panic"]
<1>0. PICK i : i = frame[p].port
  OBVIOUS
<1>1. /\ Goto(p, f) /\ UNCHANGED <<portVars, nodeVars, semVars>>
      /\ frame[p].at = "ptsend" /\ ~Blocked(p)
  BY DEF PtsendPanic, At
<1>2. i \in Port /\ "panic" \in Routine /\ "panic" \notin Clearing
  BY <1>0, FramesTyped DEF PermitInv, PortInv, TypeOK, CallTypes, Routine, Clearing
<1>3. f \in FrameSet /\ f.at = "panic" /\ f.port = i /\ f.seq = frame[p].seq
  BY <1>0, <1>2, FramesTyped DEF PermitInv, PortInv, TypeOK, CallTypes
<1> HIDE DEF f
<1>4. PortInv'
  BY PanicKeeps DEF PermitInv
<1>5. frame'[p] = f /\ \A q \in Proc : q # p => frame'[q] = frame[q]
  BY <1>1, <1>3, GotoFrames DEF PermitInv, PortInv, TypeOK, CallTypes
<1>6. UNCHANGED <<ptstate, ptseq, ptmaxcnt, ptlist, semused, permits, waiters, lost>>
  BY <1>1 DEF portVars, nodeVars, semVars
<1>7. \A q \in Proc : Blocked(q)' <=> Blocked(q)
  BY <1>6 DEF Blocked
<1>8. ASSUME NEW s \in Sem, s[1] = i PROVE ClaimsOn(s)' = ClaimsOn(s)
  <2>1. "ptsend" \in Serves(s) <=> "panic" \in Serves(s)
    BY DEF Serves
  <2>2. ASSUME NEW q \in Proc PROVE q \in Granted(i, Serves(s))' <=> q \in Granted(i, Serves(s))
    <3>1. CASE q = p
      <4>1. /\ frame'[q].at \in Serves(s) <=> frame[q].at \in Serves(s)
            /\ frame'[q].port = frame[q].port 
            /\ StillValid(frame[q])' <=> StillValid(frame[q])
        BY <1>0, <1>1, <1>3, <1>5, <1>6, <2>1, <3>1 DEF StillValid
      <4>2. QED
        BY <1>7, <4>1 DEF Granted
    <3>2. CASE q # p
      BY <1>5, <1>6, <1>7, <3>2 DEF Granted, StillValid
    <3>3. QED
      BY <3>1, <3>2
  <2>3. Granted(i, Serves(s))' = Granted(i, Serves(s))
    BY <2>2 DEF Granted
  <2>4. QED
    BY <1>6, <1>8, <2>3 DEF ClaimsOn, Claims
<1>9. Accounted(i)'
  <2>1. Accounted(i)
    BY <1>2 DEF PermitInv
  <2>2. QED
    BY <1>2, <1>6, <1>8, <2>1, AccountedAgain
<1>10. QED
  BY <1>0, <1>1, <1>2, <1>3, <1>4, <1>6, <1>9, QuietKeepsPermits

\* A signal of semaphore s at the end of a call that is not about s.
LEMMA ReleaseBalances ==
  ASSUME PermitInv, UNCHANGED <<ptstate, ptseq>>, NEW s \in Sem, ptstate[s[1]] = "ALLOC",
         Semaphores!Release(s), lost' = lost,
         NEW p \in Proc, frame[p].port = s[1], StillValid(frame[p]), ~Blocked(p),
         frame[p].at \in InCall \ Serves(s), Goto(p, User)
  PROVE  /\ ClaimsOn(s)' = ClaimsOn(s) + 1
         /\ \A t \in Sem : t[1] = s[1] /\ frame[p].at \in Serves(t) => ClaimsOn(t)' = ClaimsOn(t) - 1
         /\ \A t \in Sem : t # s => waiters'[t] = waiters[t] /\ permits'[t] = permits[t]
         /\ IsInjective(waiters'[s]) /\ Range(waiters'[s]) \subseteq Range(waiters[s])
<1> DEFINE i == s[1]
<1>1. /\ \A t \in Sem : permits[t] \in Nat /\ lost[t] \in Nat
      /\ permits \in [Sem -> Nat] /\ waiters \in [Sem -> Seq(Proc)] /\ i \in Port
  BY SemaphoreOf DEF PermitInv, PortInv, TypeOK, PortSemTypes
<1>2. waiters[s] \in Seq(Proc) /\ Range(waiters[s]) \subseteq Proc /\ IsInjective(waiters[s])
  BY WaiterIsProc
<1>3. /\ frame'[p] = User /\ User.at = "user"
      /\ \A q \in Proc : q # p => frame'[q] = frame[q]
  BY FramesTyped, GotoFrames DEF PermitInv, PortInv, TypeOK, CallTypes
<1>4. "user" \notin InCall /\ \A t \in Sem : Serves(t) \subseteq InCall
  BY SemaphoreOf DEF InCall
<1>5. \A t \in Sem : p \notin Granted(i, Serves(t))'
  BY <1>3, <1>4 DEF Granted
<1>6. p \notin Granted(i, Serves(s))
  BY DEF Granted
<1>7. \A t \in Sem : frame[p].at \in Serves(t) => p \in Granted(i, Serves(t))
  BY DEF Granted
<1>8. \A t \in Sem : Cardinality(Granted(i, Serves(t))) \in Nat
  BY GrantedCounted
<1>9. CASE waiters[s] # <<>> /\ waiters' = [waiters EXCEPT ![s] = Tail(@)] /\ UNCHANGED permits
  <2>0. PICK h : h = Head(waiters[s])
    OBVIOUS
  <2>1. /\ waiters'[s] = Tail(waiters[s]) /\ \A t \in Sem : t # s => waiters'[t] = waiters[t]
    BY <1>1, <1>9
  <2>2. /\ h \in Range(waiters[s]) /\ h \in Proc /\ IsInjective(waiters'[s])
        /\ Range(waiters'[s]) = Range(waiters[s]) \ {h}
    BY <1>2, <1>9, <2>0, <2>1, TailRange
  <2>3. /\ frame[h].at \in Serves(s) /\ frame[h].port = i /\ Blocked(h) /\ h # p
        /\ frame[h].seq = ptseq[i] /\ \A t \in Sem : t # s => h \notin Range(waiters[t])
    <3>1. Blocked(h) /\ WaitsSoundly(h, s)
      BY <2>2 DEF Blocked, PermitInv, WaitersSound
    <3>2. QED
      BY <2>2, <3>1, WhoWaits DEF WaitsSoundly
  <2>4. ~Blocked(h)'
    BY <2>1, <2>2, <2>3 DEF Blocked
  <2>5. \A q \in Proc : q # h => (Blocked(q)' <=> Blocked(q))
    BY <2>1, <2>2 DEF Blocked
  <2>6. ClaimsOn(s)' = ClaimsOn(s) + 1
    <3>1. \A q \in Proc : q # h => SameClaim(q, i, Serves(s))
      BY <1>3, <1>4, <2>5 DEF SameClaim
    <3>2. h \notin Granted(i, Serves(s))
      BY <2>3 DEF Granted
    <3>3. h \in Granted(i, Serves(s))'
      BY <1>3, <2>2, <2>3, <2>4 DEF Granted, StillValid
    <3>4. Cardinality(Granted(i, Serves(s))') = Cardinality(Granted(i, Serves(s))) + 1
      BY <1>1, <2>2, <3>1, <3>2, <3>3, GrantedGains
    <3>5. QED
      BY <1>1, <1>8, <1>9, <3>4 DEF ClaimsOn, Claims
  <2>7. ASSUME NEW t \in Sem, t[1] = i, frame[p].at \in Serves(t)
        PROVE  ClaimsOn(t)' = ClaimsOn(t) - 1
    <3>1. frame[h].at \notin Serves(t)
      BY <2>3, <2>7, ServesApart
    <3>2. ASSUME NEW q \in Proc, q # p PROVE SameClaim(q, i, Serves(t))
      <4>1. CASE q = h
        BY <1>3, <2>3, <3>1, <3>2, <4>1 DEF SameClaim
      <4>2. CASE q # h
        BY <1>3, <2>5, <3>2, <4>2 DEF SameClaim
      <4>3. QED
        BY <4>1, <4>2
    <3>3. Cardinality(Granted(i, Serves(t))') = Cardinality(Granted(i, Serves(t))) - 1
      BY <1>1, <1>5, <1>7, <2>7, <3>2, GrantedLoses
    <3>4. QED
      BY <1>1, <1>8, <1>9, <2>7, <3>3 DEF ClaimsOn, Claims
  <2>8. QED
    BY <1>9, <2>1, <2>2, <2>6, <2>7
<1>10. CASE permits' = [permits EXCEPT ![s] = @ + 1] /\ UNCHANGED waiters
  <2>1. permits'[s] = permits[s] + 1 /\ \A t \in Sem : t # s => permits'[t] = permits[t]
    BY <1>1, <1>10
  <2>2. \A q \in Proc : Blocked(q)' <=> Blocked(q)
    BY <1>10 DEF Blocked
  <2>3. ClaimsOn(s)' = ClaimsOn(s) + 1
    <3>1. \A q \in Proc : SameClaim(q, i, Serves(s))
      BY <1>3, <1>4, <2>2 DEF SameClaim
    <3>2. Granted(i, Serves(s))' = Granted(i, Serves(s))
      BY <1>1, <3>1, GrantedLeft
    <3>3. QED
      BY <1>1, <1>8, <2>1, <3>2 DEF ClaimsOn, Claims
  <2>4. ASSUME NEW t \in Sem, t[1] = i, frame[p].at \in Serves(t)
        PROVE  ClaimsOn(t)' = ClaimsOn(t) - 1
    <3>1. \A q \in Proc : q # p => SameClaim(q, i, Serves(t))
      BY <1>3, <2>2 DEF SameClaim
    <3>2. Cardinality(Granted(i, Serves(t))') = Cardinality(Granted(i, Serves(t))) - 1
      BY <1>1, <1>5, <1>7, <2>4, <3>1, GrantedLoses
    <3>3. t # s
      BY <2>4
    <3>4. QED
      BY <1>1, <1>8, <2>1, <2>4, <3>2, <3>3 DEF ClaimsOn, Claims
  <2>5. QED
    BY <1>2, <1>10, <2>1, <2>3, <2>4
<1>11. QED
  BY <1>9, <1>10 DEF Semaphores!Release

\* The end of ptsend or ptrecv on port i: one claim is given up for a message in the
\* list or taken from it, the other one gained.
LEMMA FinishKeepsPermits ==
  ASSUME PermitInv, PortInv', NEW p \in Proc, NEW i \in Port, frame[p].port = i,
         NEW s \in Sem, s[1] = i, NEW t \in Sem, t[1] = i, frame[p].at \in Serves(t), s # t,
         frame[p].at \in {"ptsend", "ptrecv"}, StillValid(frame[p]), ~Blocked(p),
         SignalOf(s), Goto(p, User), UNCHANGED <<portVars, semused, lost>>,
         \A j \in Port : j # i => ptlist'[j] = ptlist[j],
         Len(ptlist[i]) \in Nat,
         Len(ptlist'[i]) = IF t = SendSem(i) THEN Len(ptlist[i]) + 1 ELSE Len(ptlist[i]) - 1
  PROVE  PermitInv'
<1>1. UNCHANGED <<ptstate, ptseq, ptmaxcnt, semused, lost>>
  BY DEF portVars
<1>2. ptstate[i] = "ALLOC" /\ frame[p].at \notin Serves(s) /\ frame[p].at \in InCall \ Serves(s)
  BY ServesApart DEF StillValid, InCall
<1>3. /\ frame'[p] = User /\ User.at = "user" /\ User \in FrameSet
      /\ \A q \in Proc : q # p => frame'[q] = frame[q]
  BY FramesTyped, GotoFrames DEF PermitInv, PortInv, TypeOK, CallTypes
<1>4. /\ ClaimsOn(t)' = ClaimsOn(t) - 1
      /\ s \in semused => ClaimsOn(s)' = ClaimsOn(s) + 1
      /\ \A u \in Sem : u # s => waiters'[u] = waiters[u] /\ permits'[u] = permits[u]
      /\ IsInjective(waiters'[s]) /\ Range(waiters'[s]) \subseteq Range(waiters[s])
  <2>1. CASE s \in semused
    <3>1. Semaphores!Release(s)
      BY <2>1 DEF SignalOf
    <3>2. UNCHANGED <<ptstate, ptseq>> /\ lost' = lost
      BY <1>1
    <3>3. ptstate[s[1]] = "ALLOC" /\ frame[p].port = s[1] /\ frame[p].at \in InCall \ Serves(s)
      BY <1>2
    <3>4. /\ ClaimsOn(s)' = ClaimsOn(s) + 1
          /\ \A x \in Sem : x[1] = s[1] /\ frame[p].at \in Serves(x) => ClaimsOn(x)' = ClaimsOn(x) - 1
          /\ \A x \in Sem : x # s => waiters'[x] = waiters[x] /\ permits'[x] = permits[x]
          /\ IsInjective(waiters'[s]) /\ Range(waiters'[s]) \subseteq Range(waiters[s])
      BY <3>1, <3>2, <3>3, ReleaseBalances
    <3>5. QED
      BY <3>4
  <2>2. CASE s \notin semused
    <3>1. UNCHANGED <<permits, waiters>>
      BY <2>2 DEF SignalOf
    <3>2. \A q \in Proc : Blocked(q)' <=> Blocked(q)
      BY <3>1 DEF Blocked
    <3>3. \A q \in Proc : q # p => SameClaim(q, i, Serves(t))
      BY <1>3, <3>2 DEF SameClaim
    <3>4. p \in Granted(i, Serves(t))
      BY DEF Granted
    <3>5. p \notin Granted(i, Serves(t))'
      <4>1. "user" \notin Serves(t)
        BY SemaphoreOf DEF InCall
      <4>2. QED
        BY <1>3, <4>1 DEF Granted
    <3>6. Cardinality(Granted(i, Serves(t))') = Cardinality(Granted(i, Serves(t))) - 1
      BY <1>1, <3>3, <3>4, <3>5, GrantedLoses
    <3>7. permits[t] \in Nat /\ lost[t] \in Nat /\ Cardinality(Granted(i, Serves(t))) \in Nat
      BY GrantedCounted DEF PermitInv, PortInv, TypeOK, PortSemTypes
    <3>8. ClaimsOn(t)' = ClaimsOn(t) - 1
      BY <1>1, <3>1, <3>6, <3>7 DEF ClaimsOn, Claims
    <3>9. QED
      BY <2>2, <3>1, <3>8, WaiterIsProc
  <2>3. QED
    BY <2>1, <2>2
<1>5. Accounted(i)'
  <2>1. \A u \in Sem : ClaimsOn(u) \in Int
    <3>1. \A u \in Sem : /\ permits[u] \in Nat /\ lost[u] \in Nat
                         /\ Cardinality(Granted(u[1], Serves(u))) \in Nat
      BY GrantedCounted DEF PermitInv, PortInv, TypeOK, PortSemTypes
    <3>2. QED
      BY <3>1 DEF ClaimsOn, Claims
  <2>2. Accounted(i) /\ ptmaxcnt[i] \in Int
    BY PortSizes DEF PermitInv, PortInv, TypeOK, PortTypes
  <2>3. s \in {SendSem(i), RecvSem(i)} /\ t \in {SendSem(i), RecvSem(i)} /\ SendSem(i) # RecvSem(i)
    BY SemaphoreOf, SemaphoresOf
  <2>4. CASE t = SendSem(i)
    <3>1. s = RecvSem(i)
      BY <2>3, <2>4
    <3>2. s \in semused => ClaimsOn(s)' = Len(ptlist'[i])
      BY <1>2, <1>4, <2>1, <2>2, <2>4, <3>1 DEF Accounted
    <3>3. t \in semused => ClaimsOn(t)' + Len(ptlist'[i]) = ptmaxcnt[i]
      <4>1. t \in semused => ClaimsOn(t) + Len(ptlist[i]) = ptmaxcnt[i]
        BY <1>2, <2>2, <2>4 DEF Accounted
      <4>2. ClaimsOn(t) \in Int
        BY <2>1
      <4>3. QED
        BY <1>4, <2>2, <2>4, <4>1, <4>2
    <3>4. QED
      BY <1>1, <2>4, <3>1, <3>2, <3>3 DEF Accounted
  <2>5. CASE t = RecvSem(i)
    <3>1. s = SendSem(i) /\ t # SendSem(i)
      BY <2>3, <2>5
    <3>2. t \in semused => ClaimsOn(t)' = Len(ptlist'[i])
      BY <1>2, <1>4, <2>1, <2>2, <2>5, <3>1 DEF Accounted
    <3>3. s \in semused => ClaimsOn(s)' + Len(ptlist'[i]) = ptmaxcnt[i]
      <4>1. s \in semused => ClaimsOn(s) + Len(ptlist[i]) = ptmaxcnt[i]
        BY <1>2, <2>2, <3>1 DEF Accounted
      <4>2. ClaimsOn(s) \in Int
        BY <2>1
      <4>3. QED
        BY <1>4, <2>2, <3>1, <4>1, <4>2
    <3>4. QED
      BY <1>1, <2>5, <3>1, <3>2, <3>3 DEF Accounted
  <2>6. QED
    BY <2>3, <2>4, <2>5
<1>6. User.at \notin Clearing /\ User.at \notin InCall /\ frame[p].at \notin Clearing
  BY <1>3 DEF Clearing, InCall
<1>7. (\A u \in Sem : p \notin Range(waiters[u])) /\ p \notin Range(waiters'[s])
  BY <1>4 DEF Blocked
<1>8. /\ ptstate[s[1]] # "LIMBO" /\ Accounted(s[1])'
      /\ frame[p].port = s[1] /\ \A j \in Port : j # s[1] => ptlist'[j] = ptlist[j]
      /\ \A u \in Sem : u[1] # s[1] => permits'[u] = permits[u] /\ lost'[u] = lost[u]
  BY <1>1, <1>2, <1>4, <1>5
<1>9. QED
  BY <1>1, <1>3, <1>4, <1>6, <1>7, <1>8, CallKeepsPermits

LEMMA SendFinishPermits ==
  ASSUME PermitInv, NEW p \in Proc, PtsendFinish(p)
  PROVE  PermitInv'
<1>0. PICK i : i = frame[p].port
  OBVIOUS
<1>1. /\ frame[p].at = "ptsend" /\ ~Blocked(p) /\ StillValid(frame[p]) /\ ptfree # <<>>
      /\ ptlist' = [ptlist EXCEPT ![i] = Append(ptlist[i], Head(ptfree))]
      /\ SignalOf(RecvSem(i)) /\ Goto(p, User)
      /\ UNCHANGED <<portVars, semused, lost>>
  BY <1>0 DEF PtsendFinish, At, Return
<1>2. i \in Port
  BY <1>0, FramesTyped DEF PermitInv, PortInv, TypeOK, CallTypes
<1>3. ptlist \in [Port -> Seq(Node)] /\ ptlist[i] \in Seq(Node)
  BY <1>2 DEF PermitInv, PortInv, TypeOK, NodeTypes
<1>4. Len(ptlist[i]) \in Nat /\ Len(ptlist'[i]) = Len(ptlist[i]) + 1
  <2>1. ptfree \in Seq(Node)
    BY DEF PermitInv, PortInv, TypeOK, NodeTypes
  <2>2. Head(ptfree) \in Node
    BY <1>1, <2>1
  <2>3. ptlist'[i] = Append(ptlist[i], Head(ptfree))
    BY <1>1, <1>2, <1>3
  <2>4. QED
    BY <1>3, <2>2, <2>3, LenProperties
<1>5. \A j \in Port : j # i => ptlist'[j] = ptlist[j]
  BY <1>1, <1>3
<1>6. PortInv'
  BY SendFinishKeeps DEF PermitInv
<1>7. /\ SendSem(i) \in Sem /\ RecvSem(i) \in Sem /\ SendSem(i) # RecvSem(i)
      /\ SendSem(i)[1] = i /\ RecvSem(i)[1] = i /\ frame[p].at \in Serves(SendSem(i))
  BY <1>1, <1>2, SemaphoresOf, SemaphoreOf
<1>8. QED
  BY <1>0, <1>1, <1>2, <1>4, <1>5, <1>6, <1>7, FinishKeepsPermits

LEMMA RecvFinishPermits ==
  ASSUME PermitInv, NEW p \in Proc, PtrecvFinish(p)
  PROVE  PermitInv'
<1>0. PICK i : i = frame[p].port
  OBVIOUS
<1>1. /\ frame[p].at = "ptrecv" /\ ~Blocked(p) /\ StillValid(frame[p]) /\ ptlist[i] # <<>>
      /\ ptlist' = [ptlist EXCEPT ![i] = Tail(ptlist[i])]
      /\ SignalOf(SendSem(i)) /\ Goto(p, User)
      /\ UNCHANGED <<portVars, semused, lost>>
  BY <1>0 DEF PtrecvFinish, At, Return
<1>2. i \in Port
  BY <1>0, FramesTyped DEF PermitInv, PortInv, TypeOK, CallTypes
<1>3. ptlist \in [Port -> Seq(Node)] /\ ptlist[i] \in Seq(Node)
  BY <1>2 DEF PermitInv, PortInv, TypeOK, NodeTypes
<1>4. Len(ptlist[i]) \in Nat /\ Len(ptlist'[i]) = Len(ptlist[i]) - 1
  <2>1. ptlist'[i] = Tail(ptlist[i])
    BY <1>1, <1>2, <1>3
  <2>2. QED
    BY <1>1, <1>3, <2>1, LenProperties, HeadTailProperties
<1>5. \A j \in Port : j # i => ptlist'[j] = ptlist[j]
  BY <1>1, <1>3
<1>6. PortInv'
  BY RecvFinishKeeps DEF PermitInv
<1>7. /\ SendSem(i) \in Sem /\ RecvSem(i) \in Sem /\ SendSem(i) # RecvSem(i)
      /\ SendSem(i)[1] = i /\ RecvSem(i)[1] = i /\ frame[p].at \in Serves(RecvSem(i))
  BY <1>1, <1>2, SemaphoresOf, SemaphoreOf
<1>8. QED
  BY <1>0, <1>1, <1>2, <1>4, <1>5, <1>6, <1>7, FinishKeepsPermits

\* A killed process that waited takes no permit with it.
LEMMA KillWaiterPermits ==
  ASSUME PermitInv, PortInv', NEW p \in Proc, frame[p].at \in {"ptsend", "ptrecv"}, Goto(p, User),
         UNCHANGED <<portVars, nodeVars, semused, lost>>,
         NEW s \in Sem, NEW n \in DOMAIN waiters[s], waiters[s][n] = p, Semaphores!Withdraw(s, n)
  PROVE  PermitInv'
<1> DEFINE i == s[1]
<1>1. UNCHANGED <<ptstate, ptseq, ptmaxcnt, ptlist, semused, lost, permits>>
  BY DEF portVars, nodeVars, Semaphores!Withdraw
<1>2. waiters[s] \in Seq(Proc) /\ IsInjective(waiters[s]) /\ i \in Port
  BY WaiterIsProc, SemaphoreOf
<1>3. n \in 1..Len(waiters[s]) /\ p \in Range(waiters[s])
  BY <1>2, LenProperties DEF Range
<1>4. waiters' = [waiters EXCEPT ![s] = RemoveAt(waiters[s], n)]
  BY DEF Semaphores!Withdraw, Semaphores!RemoveAt, RemoveAt
<1>5. waiters \in [Sem -> Seq(Proc)]
  BY DEF PermitInv, PortInv, TypeOK, PortSemTypes
<1>6. /\ waiters'[s] = RemoveAt(waiters[s], n)
      /\ \A t \in Sem : t # s => waiters'[t] = waiters[t]
  BY <1>4, <1>5
<1>7. IsInjective(waiters'[s]) /\ Range(waiters'[s]) = Range(waiters[s]) \ {p}
  BY <1>2, <1>3, <1>6, RemoveAtRange
<1>8. /\ frame[p].port = i /\ \A t \in Sem : t # s => p \notin Range(waiters[t])
  BY <1>3, WhoWaits
<1>9. /\ frame'[p] = User /\ User.at = "user" /\ User \in FrameSet
      /\ \A q \in Proc : q # p => frame'[q] = frame[q]
  BY FramesTyped, GotoFrames DEF PermitInv, PortInv, TypeOK, CallTypes
<1>10. User.at \notin Clearing /\ User.at \notin InCall /\ frame[p].at \notin Clearing
  BY <1>9 DEF Clearing, InCall
<1>11. \A q \in Proc : q # p => (Blocked(q)' <=> Blocked(q))
  BY <1>6, <1>7 DEF Blocked
<1>12. Blocked(p)
  BY <1>3 DEF Blocked
<1>13. \A q \in Proc : SameClaim(q, i, InCall)
  BY <1>9, <1>10, <1>11, <1>12 DEF SameClaim
<1>14. Accounted(i)'
  <2>1. Accounted(i)
    BY <1>2 DEF PermitInv
  <2>2. QED
    BY <1>1, <1>2, <1>13, <2>1, AccountedLeft
<1>15. waiters[s] # <<>>
  BY <1>2, <1>3
<1>16. p \notin Range(waiters'[s]) /\ Range(waiters'[s]) \subseteq Range(waiters[s]) \cup {p}
  BY <1>7
<1>17. QED
  BY <1>1, <1>6, <1>7, <1>8, <1>9, <1>10, <1>14, <1>15, <1>16, CallKeepsPermits

\* A killed process that was ready loses the permit it had been given.
LEMMA KillReadyPermits ==
  ASSUME PermitInv, PortInv', NEW p \in Proc, frame[p].at \in {"ptsend", "ptrecv"}, Goto(p, User),
         UNCHANGED <<portVars, nodeVars, semused, permits, waiters>>, ~Blocked(p),
         lost' = IF StillValid(frame[p]) THEN [lost EXCEPT ![WaitedFor(frame[p])] = @ + 1] ELSE lost
  PROVE  PermitInv'
<1>0. PICK i : i = frame[p].port
  OBVIOUS
<1>1. UNCHANGED <<ptstate, ptseq, ptmaxcnt, ptlist, semused, permits, waiters>>
  BY DEF portVars, nodeVars
<1>2. /\ User \in FrameSet /\ User.at = "user" /\ i \in Port
      /\ frame'[p] = User /\ \A q \in Proc : q # p => frame'[q] = frame[q]
  BY <1>0, FramesTyped, GotoFrames DEF PermitInv, PortInv, TypeOK, CallTypes
<1>3. "user" \notin Clearing /\ "user" \notin InCall /\ \A t \in Sem : Serves(t) \subseteq InCall
  BY SemaphoreOf DEF Clearing, InCall
<1>4. \A q \in Proc : Blocked(q)' <=> Blocked(q)
  BY <1>1 DEF Blocked
<1>5. PICK s : s = WaitedFor(frame[p])
  OBVIOUS
<1>6. s \in Sem /\ s[1] = i /\ frame[p].at \in Serves(s)
  BY <1>0, <1>2, <1>5, SemaphoresOf, SemaphoreOf DEF WaitedFor
<1>7. Accounted(i)
  BY <1>2 DEF PermitInv
<1>8. (\A t \in Sem : t # s => lost'[t] = lost[t]) /\ (ptstate[i] = "LIMBO" => lost' = lost)
  BY <1>0, <1>5, <1>6 DEF PermitInv, PortInv, TypeOK, PortSemTypes, StillValid
<1>9. Accounted(i)'
  <2>1. CASE StillValid(frame[p])
    <3>1. lost' = [lost EXCEPT ![s] = @ + 1] /\ lost[s] \in Nat /\ permits[s] \in Nat
      BY <1>5, <1>6, <2>1 DEF PermitInv, PortInv, TypeOK, PortSemTypes
    <3>2. lost'[s] = lost[s] + 1
      BY <1>6, <3>1 DEF PermitInv, PortInv, TypeOK, PortSemTypes
    <3>3. \A q \in Proc : q # p => SameClaim(q, i, Serves(s))
      BY <1>2, <1>4 DEF SameClaim
    <3>4. p \in Granted(i, Serves(s)) /\ p \notin Granted(i, Serves(s))'
      BY <1>0, <1>2, <1>3, <1>6, <2>1 DEF Granted
    <3>5. Cardinality(Granted(i, Serves(s))') = Cardinality(Granted(i, Serves(s))) - 1
      BY <1>1, <1>2, <3>3, <3>4, GrantedLoses
    <3>6. Cardinality(Granted(i, Serves(s))) \in Nat
      BY GrantedCounted
    <3>7. ClaimsOn(s)' = ClaimsOn(s)
      BY <1>1, <1>6, <3>1, <3>2, <3>5, <3>6 DEF ClaimsOn, Claims
    <3>8. ASSUME NEW t \in Sem, t[1] = i, t # s PROVE ClaimsOn(t)' = ClaimsOn(t)
      <4>1. frame[p].at \notin Serves(t)
        BY <1>6, <3>8, ServesApart
      <4>2. \A q \in Proc : SameClaim(q, i, Serves(t))
        BY <1>2, <1>3, <1>4, <4>1 DEF SameClaim
      <4>3. Granted(i, Serves(t))' = Granted(i, Serves(t))
        BY <1>1, <1>2, <4>2, GrantedLeft
      <4>4. QED
        BY <1>1, <1>8, <3>8, <4>3 DEF ClaimsOn, Claims
    <3>9. QED
      BY <1>1, <1>2, <1>7, <3>7, <3>8, AccountedAgain
  <2>2. CASE ~StillValid(frame[p])
    <3>1. \A q \in Proc : SameClaim(q, i, InCall)
      BY <1>2, <1>3, <1>4, <2>2 DEF SameClaim
    <3>2. lost' = lost
      BY <2>2
    <3>3. QED
      BY <1>1, <1>2, <1>7, <3>1, <3>2, AccountedLeft
  <2>3. QED
    BY <2>1, <2>2
<1>10. UNCHANGED <<portVars, ptlist, semused, permits, waiters>>
  BY DEF nodeVars
<1>11. QED
  BY <1>0, <1>2, <1>3, <1>5, <1>8, <1>9, <1>10, QuietKeepsPermits

LEMMA KillPermits ==
  ASSUME PermitInv, NEW p \in Proc, Kill(p)
  PROVE  PermitInv'
<1>1. /\ Goto(p, User) /\ UNCHANGED <<portVars, nodeVars, semused>>
      /\ frame[p].at \in {"ptsend", "ptrecv"}
  BY PortSizes DEF Kill
<1>2. PortInv'
  BY KillKeeps DEF PermitInv
<1>3. CASE \E s \in Sem : \E n \in DOMAIN waiters[s] :
             waiters[s][n] = p /\ Semaphores!Withdraw(s, n) /\ UNCHANGED lost
  BY <1>1, <1>2, <1>3, KillWaiterPermits
<1>4. CASE /\ ~Blocked(p)
           /\ lost' = IF StillValid(frame[p])
                      THEN [lost EXCEPT ![WaitedFor(frame[p])] = @ + 1] ELSE lost
           /\ UNCHANGED <<permits, waiters>>
  BY <1>1, <1>2, <1>4, KillReadyPermits
<1>5. QED
  BY <1>3, <1>4 DEF Kill
-----------------------------------------------------------------------------
\* A step that opens, closes or clears port i.
LEMMA ClearingKeepsPermits ==
  ASSUME PermitInv, PortInv', NEW p \in Proc, NEW f \in FrameSet, NEW i \in Port, Goto(p, f),
         frame[p].at \notin InCall, f.at \notin InCall,
         \A j \in Port : j # i => /\ ptstate'[j] = ptstate[j] /\ ptseq'[j] = ptseq[j]
                                  /\ ptmaxcnt'[j] = ptmaxcnt[j] /\ ptlist'[j] = ptlist[j],
         \A t \in Sem : t[1] # i => /\ permits'[t] = permits[t] /\ lost'[t] = lost[t]
                                    /\ waiters'[t] = waiters[t] /\ (t \in semused' <=> t \in semused),
         \/ ptseq'[i] = ptseq[i] + 1
         \/ ptseq'[i] = ptseq[i] /\ ptstate[i] = "LIMBO",
         \A t \in Sem : t[1] = i =>
           waiters'[t] = <<>> \/ (waiters'[t] = waiters[t] /\ ptstate'[i] = "LIMBO"),
         \A q \in Proc : q # p => ~Clears(q, i),
         SemsSound(p)', Accounted(i)'
  PROVE  PermitInv'
<1>1. /\ frame'[p] = f /\ \A q \in Proc : q # p => frame'[q] = frame[q]
      /\ \A q \in Proc : frame[q] \in FrameSet /\ frame[q].port \in Port /\ frame[q].seq \in Nat
  BY GotoFrames, FramesTyped DEF PermitInv, PortInv, TypeOK, CallTypes
<1>2. ptseq[i] \in Nat
  BY DEF PermitInv, PortInv, TypeOK, PortTypes
<1>3. ASSUME NEW q \in Proc PROVE CallSound(q)'
  <2>1. CASE q = p
    BY <1>1, <2>1 DEF CallSound
  <2>2. CASE q # p /\ frame[q].port # i
    <3>1. WaitedFor(frame[q]) \in Sem /\ WaitedFor(frame[q])[1] # i
      BY <1>1, <2>2, SemaphoresOf, SemaphoreOf DEF WaitedFor
    <3>2. frame'[q] = frame[q]
      BY <1>1, <2>2
    <3>3. PICK t : t = WaitedFor(frame[q])
      OBVIOUS
    <3>4. t \in semused' <=> t \in semused
      BY <3>1, <3>3
    <3>5. PICK j \in Port : j = frame[q].port
      BY <1>1
    <3>6. ptstate'[j] = ptstate[j] /\ ptseq'[j] = ptseq[j]
      BY <2>2, <3>5
    <3>7. WaitedFor(frame'[q]) = t
      BY <3>2, <3>3
    <3>8. CallSound(q)
      BY DEF PermitInv
    <3>9. QED
      BY <3>2, <3>3, <3>4, <3>5, <3>6, <3>7, <3>8 DEF CallSound, StillValid, WaitedFor
  <2>3. CASE q # p /\ frame[q].port = i
    <3>1. PICK n : n = frame[q].seq
      OBVIOUS
    <3>2. n \in Nat /\ frame'[q] = frame[q]
      BY <1>1, <2>3, <3>1
    <3>3. SUFFICES ASSUME frame[q].at \in InCall PROVE CallSound(q)'
      BY <3>2 DEF CallSound
    <3>4. CallSound(q)
      BY DEF PermitInv
    <3>5. n <= ptseq[i] /\ (ptstate[i] = "LIMBO" => n < ptseq[i])
      BY <2>3, <3>1, <3>3, <3>4 DEF CallSound
    <3>6. ptseq'[i] \in Nat /\ n < ptseq'[i]
      <4>1. CASE ptseq'[i] = ptseq[i] + 1
        BY <1>2, <3>2, <3>5, <4>1
      <4>2. CASE ptseq'[i] = ptseq[i] /\ ptstate[i] = "LIMBO"
        BY <1>2, <3>5, <4>2
      <4>3. QED
        BY <4>1, <4>2
    <3>7. n <= ptseq'[i] /\ ptseq'[i] # n
      BY <3>2, <3>6
    <3>8. QED
      BY <2>3, <3>1, <3>2, <3>6, <3>7 DEF CallSound, StillValid
  <2>4. QED
    BY <2>1, <2>2, <2>3
<1>4. ASSUME NEW q \in Proc PROVE SemsSound(q)'
  <2>1. CASE q = p
    BY <2>1
  <2>2. CASE q # p /\ frame[q].at \in Clearing
    <3>1. PICK j : j = frame[q].port
      OBVIOUS
    <3>2. /\ frame'[q] = frame[q] /\ j \in Port /\ j # i
      BY <1>1, <2>2, <3>1 DEF Clears
    <3>3. ASSUME NEW t \in {SendSem(j), RecvSem(j)}
          PROVE  /\ waiters'[t] = waiters[t] /\ permits'[t] = permits[t] /\ lost'[t] = lost[t]
                 /\ t \in semused' => t \in semused
      BY <3>2, SemaphoreOf, SemaphoresOf
    <3>4. ptmaxcnt'[j] = ptmaxcnt[j]
      BY <3>2
    <3>5. QED
      BY <3>1, <3>2, <3>3, <3>4 DEF PermitInv, SemsSound, Cleared
  <2>3. CASE q # p /\ frame[q].at \notin Clearing
    BY <1>1, <2>3 DEF SemsSound, Clearing
  <2>4. QED
    BY <2>1, <2>2, <2>3
<1>5. ASSUME NEW t \in Sem PROVE WaitersSound(t)'
  <2>1. waiters[t] \in Seq(Proc) /\ Range(waiters[t]) \subseteq Proc /\ IsInjective(waiters[t])
    BY WaiterIsProc
  <2>2. ASSUME NEW q \in Range(waiters[t]), waiters'[t] = waiters[t] PROVE WaitsSoundly(q, t)'
    <3>1. q \in Proc /\ WaitsSoundly(q, t) /\ frame[q].port = t[1] /\ frame[q].at \in InCall
      BY <2>1, WhoWaits DEF PermitInv, WaitersSound, InCall
    <3>2. frame'[q] = frame[q]
      BY <1>1, <3>1
    <3>3. CASE t[1] # i
      BY <1>1, <3>1, <3>2, <3>3 DEF WaitsSoundly
    <3>4. CASE t[1] = i
      <4>1. ptstate'[i] = "LIMBO"
        <5>1. waiters[t] # <<>>
          BY <2>2 DEF Range
        <5>2. QED
          BY <2>2, <3>4, <5>1
      <4>2. QED
        BY <3>1, <3>2, <3>4, <4>1 DEF WaitsSoundly
    <3>5. QED
      BY <3>3, <3>4
  <2>3. CASE waiters'[t] = <<>>
    BY <2>3 DEF WaitersSound, IsInjective, Range
  <2>4. CASE waiters'[t] = waiters[t]
    BY <2>1, <2>2, <2>4 DEF WaitersSound
  <2>5. QED
    BY <2>3, <2>4
<1>6. ASSUME NEW j \in Port, j # i PROVE Accounted(j)'
  <2>1. ASSUME NEW q \in Proc PROVE SameClaim(q, j, InCall)
    <3>1. CASE q = p
      BY <1>1, <3>1 DEF SameClaim
    <3>2. CASE q # p /\ frame[q].port = j
      <4>1. ASSUME NEW t \in Sem PROVE q \in Range(waiters'[t]) <=> q \in Range(waiters[t])
        <5>1. CASE t[1] # i
          BY <5>1
        <5>2. CASE t[1] = i
          <6>1. q \notin Range(waiters[t])
            BY <1>6, <3>2, <5>2, WhoWaits
          <6>2. q \notin Range(<<>>)
            BY DEF Range
          <6>3. QED
            BY <5>2, <6>1, <6>2
        <5>3. QED
          BY <5>1, <5>2
      <4>2. Blocked(q)' <=> Blocked(q)
        BY <4>1 DEF Blocked
      <4>3. QED
        BY <1>1, <3>2, <4>2 DEF SameClaim
    <3>3. CASE q # p /\ frame[q].port # j
      BY <1>1, <3>3 DEF SameClaim
    <3>4. QED
      BY <3>1, <3>2, <3>3
  <2>2. \A t \in {SendSem(j), RecvSem(j)} : t \in Sem /\ t[1] # i
    BY <1>6, SemaphoresOf, SemaphoreOf
  <2>3. Accounted(j)
    BY DEF PermitInv
  <2>4. QED
    BY <1>6, <2>1, <2>2, <2>3, AccountedLeft
<1>7. QED
  BY <1>3, <1>4, <1>5, <1>6 DEF PermitInv

\* Nobody has a claim on a port whose sequence number is new to everyone.
LEMMA NoClaims ==
  ASSUME NEW i \in Port, NEW r \in SUBSET InCall, ptseq'[i] \in Nat,
         \A q \in Proc : frame'[q].at \in InCall /\ frame'[q].port = i =>
                           frame'[q].seq \in Nat /\ frame'[q].seq < ptseq'[i]
  PROVE  Cardinality(Granted(i, r)') = 0
<1>1. \A q \in Proc : q \notin Granted(i, r)'
  BY DEF Granted, StillValid
<1>2. Granted(i, r)' = {}
  BY <1>1 DEF Granted
<1>3. QED
  BY <1>2, FS_EmptySet

\* A port that is open from this step on, with as many permits as places.
LEMMA AccountedAfresh ==
  ASSUME NEW i \in Port, ptlist'[i] = <<>>, ptmaxcnt'[i] \in Nat, ptseq'[i] \in Nat,
         \A q \in Proc : frame'[q].at \in InCall /\ frame'[q].port = i =>
                           frame'[q].seq \in Nat /\ frame'[q].seq < ptseq'[i],
         lost'[SendSem(i)] = 0, lost'[RecvSem(i)] = 0,
         SendSem(i) \in semused' => permits'[SendSem(i)] = ptmaxcnt'[i],
         RecvSem(i) \in semused' => permits'[RecvSem(i)] = 0
  PROVE  Accounted(i)'
<1>1. /\ SendSem(i)[1] = i /\ Serves(SendSem(i)) \in SUBSET InCall
      /\ RecvSem(i)[1] = i /\ Serves(RecvSem(i)) \in SUBSET InCall
  BY SemaphoreOf DEF InCall
<1>2. /\ Cardinality(Granted(i, Serves(SendSem(i)))') = 0
      /\ Cardinality(Granted(i, Serves(RecvSem(i)))') = 0
  BY <1>1, NoClaims
<1>3. Len(ptlist'[i]) = 0
  OBVIOUS
<1>4. SendSem(i) \in semused' => ClaimsOn(SendSem(i))' = ptmaxcnt'[i]
  BY <1>1, <1>2 DEF ClaimsOn, Claims
<1>5. RecvSem(i) \in semused' => ClaimsOn(RecvSem(i))' = 0
  BY <1>1, <1>2 DEF ClaimsOn, Claims
<1>6. QED
  BY <1>3, <1>4, <1>5 DEF Accounted

LEMMA CreatePermits ==
  ASSUME PermitInv, NEW p \in Proc, NEW count \in Counts, count < UINT16, Ptcreate(p, count)
  PROVE  PermitInv'
<1>1. PICK i \in Port :
        /\ IsNextFree(i)
        /\ ptstate' = [ptstate EXCEPT ![i] = "ALLOC"]
        /\ semused' = semused \cup Semcreated(i)
        /\ permits' = [permits EXCEPT ![SendSem(i)] = count, ![RecvSem(i)] = 0]
        /\ lost' = [lost EXCEPT ![SendSem(i)] = 0, ![RecvSem(i)] = 0]
        /\ ptlist' = [ptlist EXCEPT ![i] = <<>>]
        /\ ptseq' = [ptseq EXCEPT ![i] = @ + 1]
        /\ ptmaxcnt' = [ptmaxcnt EXCEPT ![i] = count % UINT16]
  BY DEF Ptcreate
<1>2. UNCHANGED <<waiters, frame>> /\ frame[p].at = "user" /\ frame[p] \in FrameSet
  BY DEF Ptcreate, Call, At, PermitInv, PortInv, TypeOK, CallTypes
<1>3. ptstate[i] = "FREE"
  BY <1>1 DEF IsNextFree
<1>4. count \in Nat /\ count % UINT16 = count
  <2>1. count \in Nat /\ UINT16 \in Nat \ {0}
    BY PortSizes
  <2>2. QED
    BY <2>1
<1>5. /\ PortTypes /\ NodeTypes /\ PortSemTypes
      /\ SendSem(i) \in Sem /\ RecvSem(i) \in Sem /\ SendSem(i) # RecvSem(i)
  BY SemaphoresOf DEF PermitInv, PortInv, TypeOK
<1>6. /\ ptseq[i] \in Nat /\ ptseq'[i] = ptseq[i] + 1 /\ ptmaxcnt'[i] = count /\ ptlist'[i] = <<>>
      /\ permits'[SendSem(i)] = count /\ permits'[RecvSem(i)] = 0
      /\ lost'[SendSem(i)] = 0 /\ lost'[RecvSem(i)] = 0
  BY <1>1, <1>4, <1>5 DEF PortTypes, NodeTypes, PortSemTypes
<1>7. \A j \in Port : j # i => /\ ptstate'[j] = ptstate[j] /\ ptseq'[j] = ptseq[j]
                               /\ ptmaxcnt'[j] = ptmaxcnt[j] /\ ptlist'[j] = ptlist[j]
  BY <1>1, <1>5 DEF PortTypes, NodeTypes
<1>8. \A t \in Sem : t[1] # i => /\ permits'[t] = permits[t] /\ lost'[t] = lost[t]
                                 /\ waiters'[t] = waiters[t] /\ (t \in semused' <=> t \in semused)
  BY <1>1, <1>2, <1>5, SemaphoreOf DEF PortSemTypes, Semcreated
<1>9. ASSUME NEW t \in Sem, t[1] = i PROVE waiters'[t] = <<>>
  <2>1. waiters[t] \in Seq(Proc) /\ Range(waiters[t]) \subseteq Proc
    BY WaiterIsProc
  <2>2. \A q \in Range(waiters[t]) : FALSE
    BY <1>3, <1>9, <2>1, WhoWaits DEF PermitInv, WaitersSound, WaitsSoundly
  <2>3. \A n \in 1..Len(waiters[t]) : waiters[t][n] \in Range(waiters[t])
    BY <2>1, LenProperties DEF Range
  <2>4. Len(waiters[t]) = 0
    BY <2>1, <2>2, <2>3, LenProperties
  <2>5. QED
    BY <1>2, <2>1, <2>4, EmptySeq
<1>10. \A q \in Proc : ~Clears(q, i)
  BY <1>3 DEF PermitInv, PortInv, ClearSound, Clears
<1>11. frame[p].at \notin InCall /\ SemsSound(p)'
  BY <1>2 DEF InCall, SemsSound
<1>12. Goto(p, frame[p])
  BY <1>2 DEF PermitInv, PortInv, TypeOK, CallTypes, Goto
<1>13. \A q \in Proc : frame'[q].at \in InCall /\ frame'[q].port = i =>
                         frame'[q].seq \in Nat /\ frame'[q].seq < ptseq'[i]
  <2>1. \A q \in Proc : frame[q].seq \in Nat
    BY FramesTyped DEF PermitInv, PortInv, TypeOK, CallTypes
  <2>2. QED
    BY <1>2, <1>6, <2>1 DEF PermitInv, CallSound
<1>14. Accounted(i)'
  BY <1>4, <1>6, <1>13, AccountedAfresh
<1>15. PortInv'
  BY CreateKeeps DEF PermitInv
<1>16. QED
  BY <1>2, <1>6, <1>7, <1>8, <1>9, <1>10, <1>11, <1>12, <1>14, <1>15, ClearingKeepsPermits

LEMMA ClearStartPermits ==
  ASSUME PermitInv, NEW p \in Proc, NEW i \in Port, NEW newstate \in {"FREE", "ALLOC"},
         PtclearStart(p, i, newstate)
  PROVE  PermitInv'
<1> DEFINE f == Frame("walk", i, newstate)
<1>1. /\ frame[p].at = "user" /\ ptstate[i] = "ALLOC"
      /\ ptstate' = [ptstate EXCEPT ![i] = "LIMBO"]
      /\ ptseq' = [ptseq EXCEPT ![i] = @ + 1]
      /\ Goto(p, f) /\ UNCHANGED <<ptmaxcnt, nodeVars, semVars>>
  BY DEF PtclearStart, CallFor, Call, At
<1>2. f \in FrameSet /\ f.at = "walk"
  <2>1. "walk" \in Routine /\ newstate \in Arg /\ ptseq[i] \in Nat /\ 0 \in 0..PT_MSGS
    BY PortSizes DEF Routine, Clearing, Arg, PermitInv, PortInv, TypeOK, PortTypes
  <2>2. QED
    BY <2>1, FramesTyped DEF Frame
<1> HIDE DEF f
<1>3. UNCHANGED <<ptmaxcnt, ptlist, semused, permits, waiters, lost>>
  BY <1>1 DEF nodeVars, semVars
<1>4. /\ ptstate'[i] = "LIMBO" /\ ptseq'[i] = ptseq[i] + 1
      /\ \A j \in Port : j # i => ptstate'[j] = ptstate[j] /\ ptseq'[j] = ptseq[j]
  BY <1>1 DEF PermitInv, PortInv, TypeOK, PortTypes
<1>5. \A q \in Proc : ~Clears(q, i)
  BY <1>1 DEF PermitInv, PortInv, ClearSound, Clears
<1>6. frame'[p] = f
  BY <1>1, <1>2, GotoFrames DEF PermitInv, PortInv, TypeOK, CallTypes
<1>7. frame[p].at \notin InCall /\ f.at \notin InCall /\ SemsSound(p)'
  BY <1>1, <1>2, <1>6 DEF InCall, SemsSound
<1>8. Accounted(i)'
  BY <1>4 DEF Accounted
<1>9. PortInv'
  BY ClearStartKeeps DEF PermitInv
<1>10. QED
  BY <1>1, <1>2, <1>3, <1>4, <1>5, <1>7, <1>8, <1>9, ClearingKeepsPermits

\* A step of _ptclear that changes neither state nor sequence number of its port.
LEMMA ClearStepPermits ==
  ASSUME PermitInv, PortInv', NEW p \in Proc, NEW f \in FrameSet, NEW i \in Port, Goto(p, f),
         Clears(p, i), f.at \in Clearing, UNCHANGED portVars,
         \A j \in Port : j # i => ptlist'[j] = ptlist[j],
         \A t \in Sem : t[1] # i => /\ permits'[t] = permits[t] /\ lost'[t] = lost[t]
                                    /\ waiters'[t] = waiters[t] /\ (t \in semused' <=> t \in semused),
         \A t \in Sem : t[1] = i => waiters'[t] = <<>> \/ waiters'[t] = waiters[t],
         SemsSound(p)'
  PROVE  PermitInv'
<1>1. UNCHANGED <<ptstate, ptseq, ptmaxcnt>>
  BY DEF portVars
<1>2. ptstate[i] = "LIMBO"
  BY DEF PermitInv, PortInv, ClearSound, Clears
<1>3. \A q \in Proc : q # p => ~Clears(q, i)
  BY DEF PermitInv, PortInv, OneClearer
<1>4. frame[p].at \notin InCall /\ f.at \notin InCall
  BY DEF InCall, Clearing, Clears
<1>5. Accounted(i)'
  BY <1>1, <1>2 DEF Accounted
<1>6. QED
  BY <1>1, <1>2, <1>3, <1>4, <1>5, ClearingKeepsPermits

LEMMA DisposePermits ==
  ASSUME PermitInv, NEW p \in Proc, PtclearDispose(p)
  PROVE  PermitInv'
<1> DEFINE g == [frame[p] EXCEPT !.walk = @ + 1]
<1>0. PICK i : i = frame[p].port
  OBVIOUS
<1>1. /\ frame[p].at = "walk" /\ Goto(p, g) /\ UNCHANGED <<portVars, ptlist, semVars>>
  BY DEF PtclearDispose, At
<1>2. PortInv'
  BY DisposeKeeps DEF PermitInv
<1>3. i \in Port /\ frame \in [Proc -> FrameSet]
  BY <1>0, FramesTyped DEF PermitInv, PortInv, TypeOK, CallTypes
<1>4. frame'[p] = g /\ g \in FrameSet
  <2>1. frame'[p] = g
    BY <1>1, <1>3 DEF Goto
  <2>2. QED
    BY <1>2, <2>1 DEF PortInv, TypeOK, CallTypes
<1>5. g.at = "walk"
  BY <1>1, <1>3 DEF FrameSet
<1> HIDE DEF g
<1>6. Clears(p, i) /\ g.at \in Clearing /\ SemsSound(p)'
  BY <1>0, <1>1, <1>4, <1>5 DEF Clears, Clearing, SemsSound
<1>7. UNCHANGED <<semused, permits, waiters, lost, ptlist, portVars>>
  BY <1>1 DEF semVars
<1>8. QED
  BY <1>1, <1>2, <1>3, <1>4, <1>6, <1>7, ClearStepPermits

LEMMA ClearNodesPermits ==
  ASSUME PermitInv, NEW p \in Proc, PtclearNodes(p)
  PROVE  PermitInv'
<1> DEFINE g == [frame[p] EXCEPT !.at = "clear_ptssem"]
<1>0. PICK i : i = frame[p].port
  OBVIOUS
<1>1. /\ frame[p].at = "walk" /\ Goto(p, g) /\ UNCHANGED <<portVars, semVars>>
      /\ ptlist' = IF frame[p].arg = "ALLOC" THEN [ptlist EXCEPT ![i] = <<>>] ELSE ptlist
  BY <1>0 DEF PtclearNodes, At
<1>2. PortInv'
  BY ClearNodesKeeps DEF PermitInv
<1>3. i \in Port /\ frame \in [Proc -> FrameSet] /\ "clear_ptssem" \in Routine
  BY <1>0, FramesTyped DEF PermitInv, PortInv, TypeOK, CallTypes, Routine, Clearing
<1>4. g \in FrameSet /\ g.at = "clear_ptssem"
  BY <1>3, FramesTyped
<1> HIDE DEF g
<1>5. frame'[p] = g
  BY <1>1, <1>3, <1>4, GotoFrames
<1>6. Clears(p, i) /\ g.at \in Clearing /\ SemsSound(p)'
  BY <1>0, <1>1, <1>4, <1>5 DEF Clears, Clearing, SemsSound
<1>7. UNCHANGED <<semused, permits, waiters, lost, portVars>>
  BY <1>1 DEF semVars
<1>8. \A j \in Port : j # i => ptlist'[j] = ptlist[j]
  BY <1>1 DEF PermitInv, PortInv, TypeOK, NodeTypes
<1>9. QED
  BY <1>1, <1>2, <1>3, <1>4, <1>6, <1>7, <1>8, ClearStepPermits

\* What semreset and semdelete of one semaphore do.
LEMMA ClearSemStep ==
  ASSUME PermitInv, NEW p \in Proc, NEW i, i = frame[p].port, NEW s \in Sem, s[1] = i,
         NEW count, NEW next \in {"clear_ptrsem", "clear_done"}, ClearSem(p, s, count, next),
         NEW g, g = [frame[p] EXCEPT !.at = next]
  PROVE  /\ i \in Port /\ g \in FrameSet /\ g.at = next /\ g.at \in Clearing
         /\ g.port = i /\ g.arg = frame[p].arg /\ Goto(p, g) /\ frame'[p] = g
         /\ UNCHANGED <<portVars, ptlist>>
         /\ \A t \in Sem : t # s => /\ permits'[t] = permits[t] /\ lost'[t] = lost[t]
                                    /\ waiters'[t] = waiters[t] /\ (t \in semused' <=> t \in semused)
         /\ Cleared(s, count, g.arg = "ALLOC")'
<1>1. /\ waiters' = [waiters EXCEPT ![s] = <<>>]
      /\ permits' = IF s \in semused THEN [permits EXCEPT ![s] = count] ELSE permits
      /\ lost' = [lost EXCEPT ![s] = 0]
      /\ semused' = IF frame[p].arg = "ALLOC" THEN semused ELSE semused \ {s}
      /\ Goto(p, g) /\ UNCHANGED <<portVars, nodeVars>>
  BY DEF ClearSem
<1>2. i \in Port /\ next \in Routine /\ next \in Clearing /\ frame \in [Proc -> FrameSet]
  <2>1. i \in Port
    BY SemaphoreOf
  <2>2. next \in Routine /\ next \in Clearing
    BY DEF Routine, Clearing
  <2>3. QED
    BY <2>1, <2>2 DEF PermitInv, PortInv, TypeOK, CallTypes
<1>3. g \in FrameSet /\ g.at = next /\ g.port = i /\ g.arg = frame[p].arg
  BY <1>2, FramesTyped
<1>4. frame'[p] = g
  BY <1>1, <1>2, <1>3, GotoFrames
<1>5. PortSemTypes
  BY DEF PermitInv, PortInv, TypeOK
<1>6. \A t \in Sem : t # s => /\ permits'[t] = permits[t] /\ lost'[t] = lost[t]
                              /\ waiters'[t] = waiters[t] /\ (t \in semused' <=> t \in semused)
  BY <1>1, <1>5 DEF PortSemTypes
<1>7. waiters'[s] = <<>> /\ lost'[s] = 0
  BY <1>1, <1>5 DEF PortSemTypes
<1>8. g.arg = "ALLOC" /\ s \in semused' => permits'[s] = count
  BY <1>1, <1>3, <1>5 DEF PortSemTypes
<1>9. Cleared(s, count, g.arg = "ALLOC")'
  BY <1>7, <1>8 DEF Cleared
<1>10. UNCHANGED <<portVars, ptlist>>
  BY <1>1 DEF nodeVars
<1>11. QED
  BY <1>1, <1>2, <1>3, <1>4, <1>6, <1>9, <1>10

LEMMA ClearSendSemPermits ==
  ASSUME PermitInv, NEW p \in Proc, PtclearSendSem(p)
  PROVE  PermitInv'
<1>1. PICK i : i = frame[p].port
  OBVIOUS
<1>2. PICK g : g = [frame[p] EXCEPT !.at = "clear_ptrsem"]
  OBVIOUS
<1>3. i \in Port
  BY <1>1, FramesTyped DEF PermitInv, PortInv, TypeOK, CallTypes
<1>4. PICK s : s = SendSem(i)
  OBVIOUS
<1>5. PICK count : count = ptmaxcnt[i]
  OBVIOUS
<1>6. /\ ClearSem(p, s, count, "clear_ptrsem") /\ s \in Sem /\ s[1] = i
      /\ frame[p].at = "clear_ptssem"
  BY <1>1, <1>3, <1>4, <1>5, SemaphoresOf, SemaphoreOf DEF PtclearSendSem, At
<1>7. /\ i \in Port /\ g \in FrameSet /\ g.at = "clear_ptrsem" /\ g.at \in Clearing
      /\ g.port = i /\ g.arg = frame[p].arg /\ Goto(p, g) /\ frame'[p] = g
      /\ UNCHANGED <<portVars, ptlist>>
      /\ \A t \in Sem : t # s => /\ permits'[t] = permits[t] /\ lost'[t] = lost[t]
                                 /\ waiters'[t] = waiters[t] /\ (t \in semused' <=> t \in semused)
      /\ Cleared(s, count, g.arg = "ALLOC")'
  BY <1>1, <1>2, <1>6, ClearSemStep
<1>8. PortInv'
  BY ClearSendSemKeeps DEF PermitInv
<1>9. SemsSound(p)'
  <2>1. ptmaxcnt'[i] = count
    BY <1>5, <1>7 DEF portVars
  <2>2. QED
    BY <1>4, <1>7, <2>1 DEF SemsSound, Cleared
<1>10. Clears(p, i)
  BY <1>1, <1>6 DEF Clears, Clearing
<1>11. \A t \in Sem : waiters'[t] = <<>> \/ waiters'[t] = waiters[t]
  BY <1>7 DEF Cleared
<1>12. QED
  BY <1>6, <1>7, <1>8, <1>9, <1>10, <1>11, ClearStepPermits

LEMMA ClearRecvSemPermits ==
  ASSUME PermitInv, NEW p \in Proc, PtclearRecvSem(p)
  PROVE  PermitInv'
<1>1. PICK i : i = frame[p].port
  OBVIOUS
<1>2. PICK g : g = [frame[p] EXCEPT !.at = "clear_done"]
  OBVIOUS
<1>3. i \in Port
  BY <1>1, FramesTyped DEF PermitInv, PortInv, TypeOK, CallTypes
<1>4. PICK s : s = RecvSem(i)
  OBVIOUS
<1>5. /\ ClearSem(p, s, 0, "clear_done") /\ s \in Sem /\ s[1] = i
      /\ frame[p].at = "clear_ptrsem"
  BY <1>1, <1>3, <1>4, SemaphoresOf, SemaphoreOf DEF PtclearRecvSem, At
<1>6. /\ i \in Port /\ g \in FrameSet /\ g.at = "clear_done" /\ g.at \in Clearing
      /\ g.port = i /\ g.arg = frame[p].arg /\ Goto(p, g) /\ frame'[p] = g
      /\ UNCHANGED <<portVars, ptlist>>
      /\ \A t \in Sem : t # s => /\ permits'[t] = permits[t] /\ lost'[t] = lost[t]
                                 /\ waiters'[t] = waiters[t] /\ (t \in semused' <=> t \in semused)
      /\ Cleared(s, 0, g.arg = "ALLOC")'
  BY <1>1, <1>2, <1>5, ClearSemStep
<1>7. PortInv'
  BY ClearRecvSemKeeps DEF PermitInv
<1>8. SemsSound(p)'
  <2>1. PICK c : c = ptmaxcnt[i]
    OBVIOUS
  <2>2. ptmaxcnt'[i] = c
    BY <1>6, <2>1 DEF portVars
  <2>3. Cleared(SendSem(i), c, g.arg = "ALLOC")
    BY <1>1, <1>5, <1>6, <2>1 DEF PermitInv, SemsSound
  <2>4. SendSem(i) \in Sem /\ SendSem(i) # s
    BY <1>3, <1>4, SemaphoresOf
  <2>5. Cleared(SendSem(i), c, g.arg = "ALLOC")'
    BY <1>6, <2>3, <2>4 DEF Cleared
  <2>6. QED
    BY <1>4, <1>6, <2>2, <2>5 DEF SemsSound, Cleared
<1>9. Clears(p, i)
  BY <1>1, <1>5 DEF Clears, Clearing
<1>10. \A t \in Sem : waiters'[t] = <<>> \/ waiters'[t] = waiters[t]
  BY <1>6 DEF Cleared
<1>11. QED
  BY <1>5, <1>6, <1>7, <1>8, <1>9, <1>10, ClearStepPermits

LEMMA DonePermits ==
  ASSUME PermitInv, NEW p \in Proc, PtclearDone(p)
  PROVE  PermitInv'
<1>1. PICK i : i = frame[p].port
  OBVIOUS
<1>2. PICK new : new = frame[p].arg
  OBVIOUS
<1>3. /\ frame[p].at = "clear_done" /\ ptstate' = [ptstate EXCEPT ![i] = new]
      /\ Goto(p, User) /\ UNCHANGED <<ptseq, ptmaxcnt, nodeVars, semVars>>
  BY <1>1, <1>2 DEF PtclearDone, At, Return
<1>4. i \in Port /\ User \in FrameSet /\ User.at = "user"
  BY <1>1, FramesTyped DEF PermitInv, PortInv, TypeOK, CallTypes
<1>5. frame'[p] = User /\ \A q \in Proc : q # p => frame'[q] = frame[q]
  BY <1>3, <1>4, GotoFrames DEF PermitInv, PortInv, TypeOK, CallTypes
<1>6. UNCHANGED <<ptseq, ptmaxcnt, ptlist, semused, permits, waiters, lost>>
  BY <1>3 DEF nodeVars, semVars
<1>7. ptstate'[i] = new /\ \A j \in Port : j # i => ptstate'[j] = ptstate[j]
  BY <1>3, <1>4 DEF PermitInv, PortInv, TypeOK, PortTypes
<1>8. Clears(p, i) /\ ptstate[i] = "LIMBO" /\ (new = "ALLOC" => ptlist[i] = <<>>)
  BY <1>1, <1>2, <1>3 DEF PermitInv, PortInv, ClearSound, Clears, Clearing
<1>9. \A q \in Proc : q # p => ~Clears(q, i)
  BY <1>4, <1>8 DEF PermitInv, PortInv, OneClearer
<1>10. /\ Cleared(SendSem(i), ptmaxcnt[i], new = "ALLOC")
       /\ Cleared(RecvSem(i), 0, new = "ALLOC")
  BY <1>1, <1>2, <1>3 DEF PermitInv, SemsSound
<1>11. \A t \in Sem : t[1] = i => waiters'[t] = <<>>
  BY <1>6, <1>10, SemaphoreOf DEF Cleared
<1>12. frame[p].at \notin InCall /\ User.at \notin InCall /\ SemsSound(p)'
  BY <1>3, <1>4, <1>5 DEF InCall, SemsSound
<1>13. Accounted(i)'
  <2>1. CASE new = "ALLOC"
    <3>1. ptmaxcnt[i] \in Nat /\ ptseq[i] \in Nat
      BY <1>4, PortSizes DEF PermitInv, PortInv, TypeOK, PortTypes
    <3>2. \A q \in Proc : frame'[q].at \in InCall /\ frame'[q].port = i =>
                            frame'[q].seq \in Nat /\ frame'[q].seq < ptseq'[i]
      <4>1. \A q \in Proc : frame[q].seq \in Nat
        BY FramesTyped DEF PermitInv, PortInv, TypeOK, CallTypes
      <4>2. QED
        BY <1>5, <1>6, <1>8, <1>12, <4>1 DEF PermitInv, CallSound
    <3>3. /\ ptlist'[i] = <<>> /\ ptmaxcnt'[i] \in Nat /\ ptseq'[i] \in Nat
          /\ lost'[SendSem(i)] = 0 /\ lost'[RecvSem(i)] = 0
          /\ SendSem(i) \in semused' => permits'[SendSem(i)] = ptmaxcnt'[i]
          /\ RecvSem(i) \in semused' => permits'[RecvSem(i)] = 0
      BY <1>6, <1>8, <1>10, <2>1, <3>1 DEF Cleared
    <3>4. QED
      BY <1>4, <3>2, <3>3, AccountedAfresh
  <2>2. CASE new # "ALLOC"
    BY <1>7, <2>2 DEF Accounted
  <2>3. QED
    BY <2>1, <2>2
<1>14. PortInv'
  BY DoneKeeps DEF PermitInv
<1>15. QED
  BY <1>3, <1>4, <1>6, <1>7, <1>8, <1>9, <1>11, <1>12, <1>13, <1>14, ClearingKeepsPermits

LEMMA UnchangedPermits ==
  ASSUME PermitInv, UNCHANGED vars
  PROVE  PermitInv'
<1>1. UNCHANGED <<ptstate, ptseq, ptmaxcnt, ptlist, semused, permits, waiters, lost, frame>>
  BY DEF vars, portVars, nodeVars, semVars
<1>2. PortInv'
  BY UnchangedKeeps DEF PermitInv
<1>3. \A p \in Proc : CallSound(p)' /\ SemsSound(p)'
  <2>1. \A p \in Proc : CallSound(p)'
    BY <1>1 DEF PermitInv, CallSound, StillValid, WaitedFor
  <2>2. \A p \in Proc : SemsSound(p)'
    BY <1>1 DEF PermitInv, SemsSound, Cleared
  <2>3. QED
    BY <2>1, <2>2
<1>4. \A s \in Sem : WaitersSound(s)'
  BY <1>1 DEF PermitInv, WaitersSound, WaitsSoundly
<1>5. \A i \in Port : Accounted(i)'
  <2>1. \A q \in Proc : Blocked(q)' <=> Blocked(q)
    BY <1>1 DEF Blocked
  <2>2. \A q \in Proc, i \in Port : SameClaim(q, i, InCall)
    BY <1>1, <2>1 DEF SameClaim
  <2>3. QED
    BY <1>1, <2>2, AccountedLeft DEF PermitInv
<1>6. QED
  BY <1>2, <1>3, <1>4, <1>5 DEF PermitInv

LEMMA PermitStepKeeps ==
  ASSUME \A count \in Counts : count < UINT16
  PROVE  PermitInv /\ [Next]_vars => PermitInv'
<1>1. SUFFICES ASSUME PermitInv, [Next]_vars PROVE PermitInv'
  OBVIOUS
<1>2. CASE UNCHANGED vars
  BY <1>1, <1>2, UnchangedPermits
<1>3. ASSUME NEW p \in Proc, \E count \in Counts : Ptcreate(p, count) PROVE PermitInv'
  BY <1>1, <1>3, CreatePermits
<1>4. ASSUME NEW p \in Proc, NEW i \in Port,
             PtrecvStart(p, i) \/ \E m \in Msg : PtsendStart(p, i, m)
      PROVE  PermitInv'
  BY <1>1, <1>4, RecvStartPermits, SendStartPermits
<1>5. ASSUME NEW p \in Proc, NEW i \in Port, NEW newstate \in {"FREE", "ALLOC"},
             PtclearStart(p, i, newstate)
      PROVE  PermitInv'
  BY <1>1, <1>5, ClearStartPermits
<1>6. ASSUME NEW p \in Proc,
             PtFailed(p) \/ PtsendPanic(p) \/ PtsendFinish(p) \/ PtrecvFinish(p) \/ Kill(p)
      PROVE  PermitInv'
  BY <1>1, <1>6, FailedPermits, PanicPermits, SendFinishPermits, RecvFinishPermits, KillPermits
<1>7. ASSUME NEW p \in Proc,
             \/ PtclearDispose(p) \/ PtclearNodes(p) \/ PtclearSendSem(p) \/ PtclearRecvSem(p)
             \/ PtclearDone(p)
      PROVE  PermitInv'
  BY <1>1, <1>7, DisposePermits, ClearNodesPermits, ClearSendSemPermits, ClearRecvSemPermits,
     DonePermits
<1>8. ASSUME NEW p \in Proc, Halted(p) PROVE PermitInv'
  BY <1>1, <1>8, UnchangedPermits DEF Halted
<1>9. QED
  BY <1>1, <1>2, <1>3, <1>4, <1>5, <1>6, <1>7, <1>8 DEF Next

LEMMA PermitInitially == Init => PermitInv
<1>1. SUFFICES ASSUME Init PROVE PermitInv
  OBVIOUS
<1>2. PortInv
  BY <1>1, PortInitially
<1>3. \A p \in Proc : frame[p].at = "user"
  BY <1>1, FramesTyped DEF Init
<1>4. \A p \in Proc : CallSound(p) /\ SemsSound(p)
  BY <1>3 DEF CallSound, SemsSound, InCall
<1>5. \A s \in Sem : WaitersSound(s)
  BY <1>1 DEF Init, Semaphores!Init, WaitersSound, IsInjective, Range
<1>6. \A i \in Port : Accounted(i)
  BY <1>1 DEF Init, Accounted
<1>7. QED
  BY <1>2, <1>4, <1>5, <1>6 DEF PermitInv

LEMMA PermitInvAlways ==
  ASSUME \A count \in Counts : count < UINT16
  PROVE  Spec => []PermitInv
<1>1. Init => PermitInv
  BY PermitInitially
<1>2. PermitInv /\ [Next]_vars => PermitInv'
  BY PermitStepKeeps
<1>3. QED
  BY <1>1, <1>2, PTL DEF Spec

\* The two semaphores of a port agree with its list: every place is free, promised to
\* a sender or taken, and every receiver that goes on finds a message.  The counts that
\* ports are created with fit the field ptmaxcnt.
THEOREM PermitsAgree ==
  ASSUME \A count \in Counts : count < UINT16
  PROVE  Spec => []PermitsAccounted
<1>1. PermitInv => PermitsAccounted
  <2>1. SUFFICES ASSUME PermitInv, NEW i \in Port, ptstate[i] = "ALLOC"
                 PROVE  /\ SendSem(i) \in semused =>
                             Claims(SendSem(i), i, {"ptsend", "panic"}) + Len(ptlist[i]) = ptmaxcnt[i]
                        /\ RecvSem(i) \in semused => Claims(RecvSem(i), i, {"ptrecv"}) = Len(ptlist[i])
    BY DEF PermitsAccounted, PlacesAccounted, MessagesAccounted
  <2>2. Accounted(i)
    BY <2>1 DEF PermitInv
  <2>3. QED
    BY <2>1, <2>2, SemaphoreOf DEF Accounted, ClaimsOn
<1>2. QED
  BY <1>1, PermitInvAlways, PTL
-----------------------------------------------------------------------------
(* Ports implement bounded first-in first-out queues.                      *)

openBar == [i \in Port |-> ptstate[i] = "ALLOC"]
contentsBar == [i \in Port |-> Contents(i)]
fifoVars == <<openBar, ptmaxcnt, contentsBar, handed>>

Messages(i) == [n \in DOMAIN ptlist[i] |-> ptmsg[ptlist[i][n]]]
Walks(p, i) == frame[p].at = "walk" /\ frame[p].port = i
Rest(m, w) == SubSeq(m, w + 1, Len(m))

\* The messages of a port, in the three situations it can be in.
ContentsSound ==
  PortInv => \A i \in Port :
    /\ ptstate[i] = "ALLOC" => Contents(i) = Messages(i)
    /\ \A p \in Proc : Walks(p, i) => Contents(i) = Rest(Messages(i), frame[p].walk)
    /\ i \notin Holding => Contents(i) = <<>>

LEMMA ContentsAre == ContentsSound
<1>1. SUFFICES ASSUME PortInv, NEW i \in Port
               PROVE  /\ ptstate[i] = "ALLOC" => Contents(i) = Messages(i)
                      /\ \A p \in Proc : Walks(p, i) => Contents(i) = Rest(Messages(i), frame[p].walk)
                      /\ i \notin Holding => Contents(i) = <<>>
  BY DEF ContentsSound
<1>2. ptstate[i] = "ALLOC" => Contents(i) = Messages(i)
  BY DEF Contents, Messages
<1>3. ASSUME NEW p \in Proc, Walks(p, i)
      PROVE  Contents(i) = Rest(Messages(i), frame[p].walk)
  <2> DEFINE walkers == {q \in Clearers(i) : frame[q].at = "walk"}
  <2>1. walkers = {p}
    BY <1>1, <1>3 DEF PortInv, OneClearer, Clears, Clearers, Walks, Clearing
  <2>2. ptstate[i] # "ALLOC"
    BY <1>1, <1>3 DEF PortInv, ClearSound, Walks, Clearing
  <2>3. walkers # {} /\ (CHOOSE q \in walkers : TRUE) = p
    BY <2>1
  <2>4. Contents(i) = SubSeq(Messages(i), frame[CHOOSE q \in walkers : TRUE].walk + 1, Len(Messages(i)))
    BY <2>2, <2>3 DEF Contents, Messages
  <2>5. QED
    BY <2>3, <2>4 DEF Rest
<1>4. ASSUME i \notin Holding PROVE Contents(i) = <<>>
  <2>1. {q \in Clearers(i) : frame[q].at = "walk"} = {} /\ ptstate[i] # "ALLOC"
    BY <1>1, <1>4 DEF Holding
  <2>2. QED
    BY <2>1 DEF Contents
<1>5. QED
  BY <1>2, <1>3, <1>4

\* The same after a step.
LEMMA ContentsNext == ContentsSound'
BY ContentsAre, PTL

\* The messages of a port as a sequence.
LEMMA MessagesAre ==
  ASSUME NodeTypes, NEW i \in Port
  PROVE  /\ Messages(i) \in Seq(Msg) /\ Len(Messages(i)) = Len(ptlist[i])
         /\ \A n \in 1..Len(ptlist[i]) : Messages(i)[n] = ptmsg[ptlist[i][n]]
<1>1. ptlist[i] \in Seq(Node) /\ ptmsg \in [Node -> Msg]
  BY DEF NodeTypes
<1>2. /\ Len(ptlist[i]) \in Nat /\ DOMAIN ptlist[i] = 1..Len(ptlist[i])
      /\ \A n \in 1..Len(ptlist[i]) : ptlist[i][n] \in Node
  BY <1>1, LenProperties, ElementOfSeq
<1>3. Messages(i) = [n \in 1..Len(ptlist[i]) |-> ptmsg[ptlist[i][n]]]
  BY <1>2 DEF Messages
<1>4. \A n \in 1..Len(ptlist[i]) : ptmsg[ptlist[i][n]] \in Msg
  BY <1>1, <1>2
<1>5. QED
  BY <1>2, <1>3, <1>4

\* What is left of a sequence: first element and the rest.
LEMMA RestStep ==
  ASSUME NEW S, NEW m \in Seq(S), NEW w \in Nat
  PROVE  /\ Rest(m, 0) = m
         /\ w = Len(m) => Rest(m, w) = <<>>
         /\ w < Len(m) => /\ Rest(m, w) # <<>> /\ Head(Rest(m, w)) = m[w + 1]
                          /\ Tail(Rest(m, w)) = Rest(m, w + 1)
<1>1. Len(m) \in Nat /\ \A n \in 1..Len(m) : m[n] \in S
  BY LenProperties, ElementOfSeq
<1>2. ASSUME NEW v \in Nat, v <= Len(m)
      PROVE  /\ Rest(m, v) \in Seq(S) /\ Len(Rest(m, v)) = Len(m) - v
             /\ \A n \in 1..Len(m)-v : Rest(m, v)[n] = m[v + n]
  <2>1. v + 1 \in Int /\ \A n \in v+1 .. Len(m) : m[n] \in S
    BY <1>1
  <2>2. /\ SubSeq(m, v+1, Len(m)) \in Seq(S)
        /\ Len(SubSeq(m, v+1, Len(m))) = IF v+1 <= Len(m) THEN Len(m)-(v+1)+1 ELSE 0
        /\ \A n \in 1..Len(m)-(v+1)+1 : SubSeq(m, v+1, Len(m))[n] = m[v+1+n-1]
    BY <1>1, <2>1, SubSeqProperties
  <2>3. Len(m)-(v+1)+1 = Len(m)-v /\ \A n \in 1..Len(m)-v : v+1+n-1 = v+n
    BY <1>1
  <2>4. Len(Rest(m, v)) = Len(m) - v
    BY <1>1, <1>2, <2>2 DEF Rest
  <2>5. ASSUME NEW n \in 1..Len(m)-v PROVE Rest(m, v)[n] = m[v + n]
    <3>1. n \in 1..Len(m)-(v+1)+1 /\ v+1+n-1 = v+n
      BY <1>1, <2>3
    <3>2. QED
      BY <2>2, <3>1 DEF Rest
  <2>6. QED
    BY <2>2, <2>4, <2>5 DEF Rest
<1>3. Rest(m, 0) = m
  BY <1>1, <1>2, SeqEqual
<1>4. w = Len(m) => Rest(m, w) = <<>>
  <2>1. SUFFICES ASSUME w = Len(m) PROVE Rest(m, w) = <<>>
    OBVIOUS
  <2>2. Rest(m, w) \in Seq(S) /\ Len(Rest(m, w)) = 0
    BY <1>1, <1>2, <2>1
  <2>3. QED
    BY <2>2, EmptySeq
<1>5. ASSUME w < Len(m)
      PROVE  /\ Rest(m, w) # <<>> /\ Head(Rest(m, w)) = m[w + 1]
             /\ Tail(Rest(m, w)) = Rest(m, w + 1)
  <2> DEFINE r == Rest(m, w)
             t == Rest(m, w + 1)
  <2>0. w <= Len(m)
    BY <1>1, <1>5
  <2>1. /\ r \in Seq(S) /\ Len(r) = Len(m) - w /\ \A n \in 1..Len(m)-w : r[n] = m[w + n]
    BY <1>2, <2>0
  <2>2. w + 1 \in Nat /\ w + 1 <= Len(m)
    BY <1>1, <1>5
  <2>3. /\ t \in Seq(S) /\ Len(t) = Len(m) - (w + 1)
        /\ \A n \in 1..Len(m)-(w+1) : t[n] = m[w + 1 + n]
    BY <1>2, <2>2
  <2> HIDE DEF r, t
  <2>4. Len(r) > 0 /\ r # <<>>
    BY <1>1, <1>5, <2>1
  <2>5. Head(r) = r[1] /\ r[1] = m[w + 1]
    BY <1>1, <1>5, <2>1, <2>4
  <2>6. /\ Tail(r) \in Seq(S) /\ Len(Tail(r)) = Len(r)-1
        /\ \A n \in 1..Len(Tail(r)) : Tail(r)[n] = r[n+1]
    BY <2>1, <2>4, HeadTailProperties
  <2>7. Len(Tail(r)) = Len(t)
    BY <1>1, <2>1, <2>3, <2>6
  <2>8. ASSUME NEW n \in 1..Len(Tail(r)) PROVE Tail(r)[n] = t[n]
    <3>1. n \in Int /\ n+1 \in 1..Len(m)-w /\ n \in 1..Len(m)-(w+1) /\ w+(n+1) = w+1+n
      BY <1>1, <2>1, <2>6
    <3>2. QED
      BY <2>1, <2>3, <2>6, <3>1
  <2>9. Tail(r) = t
    BY <2>3, <2>6, <2>7, <2>8, SeqEqual
  <2>10. QED
    BY <2>4, <2>5, <2>9 DEF r, t
<1>6. QED
  BY <1>3, <1>4, <1>5

\* A port whose messages a step leaves as they are.
LEMMA ContentsLeft ==
  ASSUME PortInv, PortInv', NEW i \in Port,
         ptstate'[i] = "ALLOC" <=> ptstate[i] = "ALLOC",
         \A p \in Proc : /\ Walks(p, i)' <=> Walks(p, i)
                         /\ Walks(p, i) => frame'[p].walk = frame[p].walk,
         i \in Holding => Messages(i)' = Messages(i)
  PROVE  Contents(i)' = Contents(i)
<1>1. CASE ptstate[i] = "ALLOC"
  <2>1. Contents(i) = Messages(i) /\ Contents(i)' = Messages(i)'
    BY <1>1, ContentsAre, ContentsNext DEF ContentsSound
  <2>2. i \in Holding
    BY <1>1 DEF Holding
  <2>3. QED
    BY <2>1, <2>2
<1>2. ASSUME NEW p \in Proc, Walks(p, i) PROVE Contents(i)' = Contents(i)
  <2>1. i \in Holding
    BY <1>2, HoldingAre DEF Walks
  <2>2. Contents(i) = Rest(Messages(i), frame[p].walk)
    BY <1>2, ContentsAre DEF ContentsSound
  <2>3. Contents(i)' = Rest(Messages(i)', frame'[p].walk)
    <3>1. Walks(p, i)'
      BY <1>2
    <3>2. QED
      BY <3>1, ContentsNext DEF ContentsSound, Rest
  <2>4. QED
    BY <1>2, <2>1, <2>2, <2>3
<1>3. CASE ptstate[i] # "ALLOC" /\ \A p \in Proc : ~Walks(p, i)
  <2>1. i \notin Holding /\ i \notin Holding'
    BY <1>3 DEF Holding, Clearers, Walks
  <2>2. QED
    BY <2>1, ContentsAre, ContentsNext DEF ContentsSound
<1>4. QED
  BY <1>1, <1>2, <1>3

\* A step that leaves all ports as they are is a step that the queues do not see.
LEMMA FifosLeft ==
  ASSUME PortInv, PortInv', UNCHANGED <<ptmaxcnt, handed>>,
         \A i \in Port : ptstate'[i] = "ALLOC" <=> ptstate[i] = "ALLOC",
         \A i \in Port : Contents(i)' = Contents(i)
  PROVE  UNCHANGED fifoVars
<1>1. openBar' = openBar
  BY DEF openBar
<1>2. contentsBar' = contentsBar
  BY DEF contentsBar
<1>3. QED
  BY <1>1, <1>2 DEF fifoVars

\* Messages that a step leaves in their nodes.
LEMMA MessagesLeft ==
  ASSUME NodeTypes, NEW i \in Port, ptlist'[i] = ptlist[i],
         \A n \in Range(ptlist[i]) : ptmsg'[n] = ptmsg[n]
  PROVE  Messages(i)' = Messages(i)
<1>1. \A n \in DOMAIN ptlist[i] : ptlist[i][n] \in Range(ptlist[i])
  BY DEF Range
<1>2. QED
  BY <1>1 DEF Messages

\* A port that no process clears and that is not allocated is empty.
LEMMA EmptyUnheld ==
  ASSUME PortInv, NEW i \in Port, ptstate[i] # "ALLOC", \A p \in Proc : ~Walks(p, i)
  PROVE  Contents(i) = <<>>
<1>1. i \notin Holding
  BY HoldingAre DEF Walks
<1>2. QED
  BY <1>1, ContentsAre DEF ContentsSound

\* What a step that opens, closes, fills or empties one queue looks like in the ports.
LEMMA OpenChanges ==
  ASSUME NEW i \in Port, NEW b \in BOOLEAN, (ptstate'[i] = "ALLOC") <=> b,
         \A j \in Port : j # i => (ptstate'[j] = "ALLOC" <=> ptstate[j] = "ALLOC")
  PROVE  openBar' = [openBar EXCEPT ![i] = b]
<1>1. \A j \in Port : j # i => (ptstate'[j] = "ALLOC") = (ptstate[j] = "ALLOC")
  OBVIOUS
<1>2. (ptstate'[i] = "ALLOC") = b
  OBVIOUS
<1>3. QED
  BY <1>1, <1>2, Zenon DEF openBar

LEMMA ContentsChange ==
  ASSUME NEW i \in Port, \A j \in Port : j # i => Contents(j)' = Contents(j)
  PROVE  contentsBar' = [contentsBar EXCEPT ![i] = Contents(i)']
BY Zenon DEF contentsBar

\* Each kind of step of the queues, as it is seen in the ports.
LEMMA FifoOpens ==
  ASSUME NEW i \in Port, NEW c \in 0..UINT16-1,
         ptstate[i] # "ALLOC", ptstate'[i] = "ALLOC", ptmaxcnt' = [ptmaxcnt EXCEPT ![i] = c],
         \A j \in Port : j # i => (ptstate'[j] = "ALLOC" <=> ptstate[j] = "ALLOC"),
         Contents(i) = <<>>, \A j \in Port : Contents(j)' = Contents(j), handed' = handed
  PROVE  Fifos!Next
<1>1. openBar' = [openBar EXCEPT ![i] = TRUE]
  BY OpenChanges
<1>2. contentsBar' = contentsBar
  BY DEF contentsBar
<1>3. ~openBar[i] /\ contentsBar[i] = <<>>
  BY DEF openBar, contentsBar
<1>4. Fifos!Open(i, c)
  BY <1>1, <1>2, <1>3 DEF Fifos!Open, openBar, contentsBar
<1>5. QED
  BY <1>4 DEF Fifos!Next

LEMMA FifoCloses ==
  ASSUME NEW i \in Port, ptstate[i] = "ALLOC", ptstate'[i] # "ALLOC", ptmaxcnt' = ptmaxcnt,
         \A j \in Port : j # i => (ptstate'[j] = "ALLOC" <=> ptstate[j] = "ALLOC"),
         \A j \in Port : Contents(j)' = Contents(j), handed' = handed
  PROVE  Fifos!Next
<1>1. openBar' = [openBar EXCEPT ![i] = FALSE]
  BY OpenChanges
<1>2. contentsBar' = contentsBar /\ openBar[i]
  BY DEF openBar, contentsBar
<1>3. Fifos!Close(i)
  BY <1>1, <1>2 DEF Fifos!Close, openBar, contentsBar
<1>4. QED
  BY <1>3 DEF Fifos!Next

LEMMA FifoPuts ==
  ASSUME NEW i \in Port, NEW m \in Msg, ptstate[i] = "ALLOC", UNCHANGED <<ptstate, ptmaxcnt, handed>>,
         Len(Contents(i)) < ptmaxcnt[i], Contents(i)' = Append(Contents(i), m),
         \A j \in Port : j # i => Contents(j)' = Contents(j)
  PROVE  Fifos!Next
<1>1. contentsBar' = [contentsBar EXCEPT ![i] = Append(contentsBar[i], m)]
  BY ContentsChange DEF contentsBar
<1>2. openBar[i] /\ openBar' = openBar /\ Len(contentsBar[i]) < ptmaxcnt[i]
  BY DEF openBar, contentsBar
<1>3. Fifos!Put(i, m)
  BY <1>1, <1>2 DEF Fifos!Put, openBar, contentsBar
<1>4. QED
  BY <1>3 DEF Fifos!Next

LEMMA FifoHandsOver ==
  ASSUME NEW i \in Port, UNCHANGED <<ptstate, ptmaxcnt>>, Contents(i) # <<>>,
         handed' = <<IF ptstate[i] = "ALLOC" THEN "receiver" ELSE "dispose", i, Head(Contents(i))>>,
         Contents(i)' = Tail(Contents(i)), \A j \in Port : j # i => Contents(j)' = Contents(j)
  PROVE  Fifos!Next
<1>1. contentsBar' = [contentsBar EXCEPT ![i] = Tail(contentsBar[i])]
  BY ContentsChange DEF contentsBar
<1>2. openBar' = openBar /\ contentsBar[i] = Contents(i)
  BY DEF openBar, contentsBar
<1>3. CASE ptstate[i] = "ALLOC"
  <2>1. openBar[i] /\ handed' = <<"receiver", i, Head(contentsBar[i])>>
    BY <1>2, <1>3 DEF openBar
  <2>2. Fifos!Take(i)
    BY <1>1, <1>2, <2>1 DEF Fifos!Take, Fifos!HandOver, openBar, contentsBar
  <2>3. QED
    BY <2>2 DEF Fifos!Next
<1>4. CASE ptstate[i] # "ALLOC"
  <2>1. ~openBar[i] /\ handed' = <<"dispose", i, Head(contentsBar[i])>>
    BY <1>2, <1>4 DEF openBar
  <2>2. Fifos!Dispose(i)
    BY <1>1, <1>2, <2>1 DEF Fifos!Dispose, Fifos!HandOver, openBar, contentsBar
  <2>3. QED
    BY <2>2 DEF Fifos!Next
<1>5. QED
  BY <1>3, <1>4
-----------------------------------------------------------------------------
(* One lemma for each routine: what it does to the queues.                 *)

\* A step of a call that touches neither a port nor a node.
LEMMA QuietFifo ==
  ASSUME PortInv, PortInv', UNCHANGED <<ptstate, ptmaxcnt, ptlist, ptmsg, handed>>,
         NEW p \in Proc, NEW f \in FrameSet, Goto(p, f), frame[p].at # "walk", f.at # "walk"
  PROVE  UNCHANGED fifoVars
<1>1. frame'[p] = f /\ \A q \in Proc : q # p => frame'[q] = frame[q]
  BY GotoFrames DEF PortInv, TypeOK, CallTypes
<1>2. ASSUME NEW i \in Port PROVE Contents(i)' = Contents(i)
  <2>1. \A q \in Proc : /\ Walks(q, i)' <=> Walks(q, i)
                        /\ Walks(q, i) => frame'[q].walk = frame[q].walk
    BY <1>1 DEF Walks
  <2>2. Messages(i)' = Messages(i)
    BY DEF Messages
  <2>3. QED
    BY <2>1, <2>2, ContentsLeft
<1>3. QED
  BY <1>2, FifosLeft

LEMMA CreateFifo ==
  ASSUME PortInv, PortInv', NEW p \in Proc, NEW count \in Counts, Ptcreate(p, count)
  PROVE  Fifos!Next
<1>1. PICK i \in Port :
        /\ ptstate[i] = "FREE" /\ ptstate' = [ptstate EXCEPT ![i] = "ALLOC"]
        /\ ptlist' = [ptlist EXCEPT ![i] = <<>>]
        /\ ptmaxcnt' = [ptmaxcnt EXCEPT ![i] = count % UINT16]
  BY DEF Ptcreate, IsNextFree
<1>2. UNCHANGED <<ptmsg, frame, handed>>
  BY DEF Ptcreate
<1>3. /\ ptstate'[i] = "ALLOC" /\ ptlist'[i] = <<>>
      /\ \A j \in Port : j # i => ptstate'[j] = ptstate[j] /\ ptlist'[j] = ptlist[j]
  BY <1>1 DEF PortInv, TypeOK, PortTypes, NodeTypes
<1>4. count % UINT16 \in 0 .. UINT16-1
  BY PortSizes
<1>5. \A q \in Proc : ~Walks(q, i)
  BY <1>1 DEF PortInv, ClearSound, Walks, Clearing
<1>6. Contents(i) = <<>>
  BY <1>1, <1>5, EmptyUnheld
<1>7. Contents(i)' = <<>>
  <2>1. Contents(i)' = Messages(i)'
    BY <1>3, ContentsNext DEF ContentsSound
  <2>2. Messages(i)' = <<>>
    BY <1>3 DEF Messages
  <2>3. QED
    BY <2>1, <2>2
<1>8. ASSUME NEW j \in Port, j # i PROVE Contents(j)' = Contents(j)
  <2>1. \A q \in Proc : /\ Walks(q, j)' <=> Walks(q, j)
                        /\ Walks(q, j) => frame'[q].walk = frame[q].walk
    BY <1>2 DEF Walks
  <2>2. Messages(j)' = Messages(j)
    BY <1>2, <1>3, <1>8 DEF Messages
  <2>3. QED
    BY <1>3, <1>8, <2>1, <2>2, ContentsLeft
<1>9. QED
  <2>1. \A j \in Port : Contents(j)' = Contents(j)
    BY <1>6, <1>7, <1>8
  <2>2. \A j \in Port : j # i => (ptstate'[j] = "ALLOC" <=> ptstate[j] = "ALLOC")
    BY <1>3
  <2>3. QED
    BY <1>1, <1>2, <1>3, <1>4, <1>6, <2>1, <2>2, FifoOpens

\* A sender whose wait is over finds a place for its message.
LEMMA RoomForSend ==
  ASSUME PermitInv, NEW p \in Proc,
         frame[p].at = "ptsend", ~Blocked(p), StillValid(frame[p])
  PROVE  Len(ptlist[frame[p].port]) < ptmaxcnt[frame[p].port]
<1>0. PICK i : i = frame[p].port
  OBVIOUS
<1>1. i \in Port /\ ptstate[i] = "ALLOC"
  BY <1>0, FramesTyped DEF PermitInv, PortInv, TypeOK, CallTypes, StillValid
<1>2. SendSem(i) \in semused
  BY <1>0 DEF PermitInv, CallSound, InCall, WaitedFor
<1>3. p \in Granted(i, {"ptsend", "panic"})
  BY <1>0 DEF Granted
<1>4. Cardinality(Granted(i, {"ptsend", "panic"})) \in Nat \ {0}
  BY <1>3, GrantedCounted, FS_EmptySet
<1>5. ClaimsOn(SendSem(i)) + Len(ptlist[i]) = ptmaxcnt[i]
  BY <1>1, <1>2 DEF PermitInv, Accounted
<1>6. ClaimsOn(SendSem(i)) = permits[SendSem(i)] + Cardinality(Granted(i, {"ptsend", "panic"}))
                             + lost[SendSem(i)]
  BY <1>1, SemaphoreOf DEF ClaimsOn, Claims
<1>7. permits[SendSem(i)] \in Nat /\ lost[SendSem(i)] \in Nat
  BY <1>1, SemaphoresOf DEF PermitInv, PortInv, TypeOK, PortSemTypes
<1>8. Len(ptlist[i]) \in Nat
  BY <1>1, LenProperties DEF PermitInv, PortInv, TypeOK, NodeTypes
<1>9. QED
  BY <1>0, <1>4, <1>5, <1>6, <1>7, <1>8

LEMMA SendFinishFifo ==
  ASSUME PermitInv, PortInv', NEW p \in Proc, PtsendFinish(p)
  PROVE  Fifos!Next
<1> DEFINE f == frame[p]
           n0 == Head(ptfree)
<1>0. PICK i : i = frame[p].port
  OBVIOUS
<1>1. /\ f.at = "ptsend" /\ ~Blocked(p) /\ StillValid(f) /\ ptstate[i] = "ALLOC"
      /\ ptfree # <<>> /\ ptmsg' = [ptmsg EXCEPT ![n0] = f.arg]
      /\ ptlist' = [ptlist EXCEPT ![i] = Append(@, n0)]
      /\ Return(p) /\ UNCHANGED <<portVars, handed>>
  BY <1>0 DEF PtsendFinish, At, StillValid
<1>2. i \in Port /\ f.arg \in Msg /\ PortInv
  BY <1>0, <1>1, FramesTyped DEF PermitInv, PortInv, TypeOK, CallTypes, ArgSound
<1>3. UNCHANGED <<ptstate, ptmaxcnt, handed>>
  BY <1>1 DEF portVars
<1>4. /\ ptlist \in [Port -> Seq(Node)] /\ ptfree \in Seq(Node) /\ ptmsg \in [Node -> Msg]
      /\ NodeTypes /\ NodeTypes'
  BY <1>2 DEF PortInv, TypeOK, NodeTypes
<1>5. n0 \in Node /\ n0 \in Range(ptfree)
  <2>1. Len(ptfree) \in Nat /\ Len(ptfree) > 0
    BY <1>1, <1>4, LenProperties, EmptySeq
  <2>2. n0 = ptfree[1] /\ 1 \in DOMAIN ptfree /\ 1 \in 1..Len(ptfree)
    BY <1>4, <2>1, LenProperties
  <2>3. QED
    BY <1>4, <2>2, ElementOfSeq DEF Range
<1> HIDE DEF f, n0
<1>6. ASSUME NEW j \in Holding PROVE n0 \notin Range(ptlist[j])
  BY <1>2, <1>5 DEF PortInv, NodesConserved
<1>7. i \in Holding
  BY <1>1, <1>2 DEF Holding
<1>8. /\ ptlist'[i] = Append(ptlist[i], n0) /\ ptmsg'[n0] = f.arg
      /\ \A n \in Node : n # n0 => ptmsg'[n] = ptmsg[n]
      /\ \A j \in Port : j # i => ptlist'[j] = ptlist[j]
  BY <1>1, <1>2, <1>4, <1>5
<1>9. frame'[p] = User /\ \A q \in Proc : q # p => frame'[q] = frame[q]
  BY <1>1, <1>2, GotoFrames, FramesTyped DEF Return, PortInv, TypeOK, CallTypes
<1>10. ASSUME NEW j \in Port, j # i PROVE Contents(j)' = Contents(j)
  <2>1. \A q \in Proc : /\ Walks(q, j)' <=> Walks(q, j)
                        /\ Walks(q, j) => frame'[q].walk = frame[q].walk
    BY <1>1, <1>9, FramesTyped DEF Walks, f
  <2>2. ASSUME j \in Holding PROVE Messages(j)' = Messages(j)
    <3>1. Range(ptlist[j]) \subseteq Node
      BY <1>4, RangeOfSeq
    <3>2. \A n \in Range(ptlist[j]) : ptmsg'[n] = ptmsg[n]
      BY <1>6, <1>8, <2>2, <3>1
    <3>3. QED
      BY <1>4, <1>8, <1>10, <3>2, MessagesLeft
  <2>3. QED
    BY <1>2, <1>3, <2>1, <2>2, ContentsLeft
<1>11. Contents(i) = Messages(i) /\ Contents(i)' = Messages(i)'
  BY <1>1, <1>2, <1>3, ContentsAre, ContentsNext DEF ContentsSound
<1>12. Messages(i)' = Append(Messages(i), f.arg)
  <2> DEFINE m == Messages(i)
             a == Append(Messages(i), f.arg)
  <2>1. /\ m \in Seq(Msg) /\ Len(m) = Len(ptlist[i])
        /\ \A n \in 1..Len(ptlist[i]) : m[n] = ptmsg[ptlist[i][n]]
    BY <1>2, <1>4, MessagesAre
  <2>2. /\ Len(ptlist'[i]) = Len(ptlist[i]) + 1
        /\ \A n \in 1..Len(ptlist[i]) : ptlist'[i][n] = ptlist[i][n]
        /\ ptlist'[i][Len(ptlist[i]) + 1] = n0 /\ Len(ptlist[i]) \in Nat
    BY <1>2, <1>4, <1>5, <1>8, AppendProperties, LenProperties
  <2> HIDE DEF m
  <2>3. /\ a \in Seq(Msg) /\ Len(a) = Len(m) + 1 /\ a[Len(m) + 1] = f.arg
        /\ \A n \in 1..Len(m) : a[n] = m[n]
    BY <1>2, <2>1, AppendProperties DEF m
  <2>4. DOMAIN ptlist'[i] = 1..Len(ptlist'[i])
    BY <1>2, <1>4, LenProperties DEF NodeTypes
  <2>5. Messages(i)' = [n \in 1..Len(ptlist[i])+1 |-> ptmsg'[ptlist'[i][n]]]
    BY <2>2, <2>4 DEF Messages
  <2>6. ASSUME NEW n \in 1..Len(ptlist[i])+1 PROVE ptmsg'[ptlist'[i][n]] = a[n]
    <3>1. CASE n = Len(ptlist[i]) + 1
      BY <1>8, <2>1, <2>2, <2>3, <3>1
    <3>2. CASE n # Len(ptlist[i]) + 1
      <4>1. n \in 1..Len(ptlist[i]) /\ n \in DOMAIN ptlist[i]
        BY <1>2, <1>4, <2>2, <3>2, LenProperties
      <4>2. ptlist[i][n] \in Range(ptlist[i]) /\ ptlist[i][n] \in Node
        BY <1>2, <1>4, <4>1, ElementOfSeq DEF Range
      <4>3. ptlist[i][n] # n0
        BY <1>6, <1>7, <4>2
      <4>4. ptmsg'[ptlist'[i][n]] = ptmsg[ptlist[i][n]]
        BY <1>8, <2>2, <4>1, <4>2, <4>3
      <4>5. QED
        BY <2>1, <2>3, <4>1, <4>4
    <3>3. QED
      BY <3>1, <3>2
  <2>7. a = [n \in 1..Len(ptlist[i])+1 |-> a[n]]
    BY <2>1, <2>3, LenProperties
  <2>8. QED
    BY <2>5, <2>6, <2>7
<1>13. Len(Contents(i)) < ptmaxcnt[i]
  <2>1. Len(ptlist[i]) < ptmaxcnt[i]
    BY <1>0, <1>1, RoomForSend DEF f
  <2>2. Len(Contents(i)) = Len(ptlist[i])
    BY <1>2, <1>4, <1>11, MessagesAre
  <2>3. QED
    BY <2>1, <2>2
<1>14. QED
  BY <1>1, <1>2, <1>3, <1>10, <1>11, <1>12, <1>13, FifoPuts

LEMMA RecvFinishFifo ==
  ASSUME PortInv, PortInv', NEW p \in Proc, PtrecvFinish(p)
  PROVE  Fifos!Next
<1>0. PICK i : i = frame[p].port
  OBVIOUS
<1>1. /\ frame[p].at = "ptrecv" /\ ptstate[i] = "ALLOC" /\ ptlist[i] # <<>>
      /\ handed' = <<"receiver", i, ptmsg[Head(ptlist[i])]>>
      /\ ptlist' = [ptlist EXCEPT ![i] = Tail(@)]
      /\ Return(p) /\ UNCHANGED <<portVars, ptmsg>>
  BY <1>0 DEF PtrecvFinish, At, StillValid
<1>2. i \in Port
  BY <1>0, FramesTyped DEF PortInv, TypeOK, CallTypes
<1>3. UNCHANGED <<ptstate, ptmaxcnt, ptmsg>>
  BY <1>1 DEF portVars
<1>4. ptlist \in [Port -> Seq(Node)] /\ NodeTypes /\ NodeTypes'
  BY DEF PortInv, TypeOK, NodeTypes
<1>5. ptlist'[i] = Tail(ptlist[i]) /\ \A j \in Port : j # i => ptlist'[j] = ptlist[j]
  BY <1>1, <1>2, <1>4
<1>6. frame'[p] = User /\ \A q \in Proc : q # p => frame'[q] = frame[q]
  BY <1>1, GotoFrames, FramesTyped DEF Return, PortInv, TypeOK, CallTypes
<1>7. ASSUME NEW j \in Port, j # i PROVE Contents(j)' = Contents(j)
  <2>1. \A q \in Proc : /\ Walks(q, j)' <=> Walks(q, j)
                        /\ Walks(q, j) => frame'[q].walk = frame[q].walk
    BY <1>1, <1>6, FramesTyped DEF Walks
  <2>2. Messages(j)' = Messages(j)
    BY <1>3, <1>5, <1>7 DEF Messages
  <2>3. QED
    BY <1>3, <2>1, <2>2, ContentsLeft
<1>8. Contents(i) = Messages(i) /\ Contents(i)' = Messages(i)'
  BY <1>1, <1>2, <1>3, ContentsAre, ContentsNext DEF ContentsSound
<1>9. /\ Messages(i) # <<>> /\ Head(Messages(i)) = ptmsg[Head(ptlist[i])]
      /\ Messages(i)' = Tail(Messages(i))
  <2> DEFINE m == Messages(i)
             l == ptlist[i]
  <2>1. /\ m \in Seq(Msg) /\ Len(m) = Len(l) /\ l \in Seq(Node) /\ Len(l) \in Nat
        /\ \A n \in 1..Len(l) : m[n] = ptmsg[l[n]]
    BY <1>2, <1>4, MessagesAre, LenProperties
  <2> HIDE DEF m, l
  <2>2. Len(l) > 0
    BY <1>1, <2>1, EmptySeq DEF l
  <2>3. m # <<>> /\ Head(m) = ptmsg[Head(l)]
    <3>1. Head(m) = m[1] /\ Head(l) = l[1] /\ 1 \in 1..Len(l) /\ m # <<>>
      BY <2>1, <2>2
    <3>2. QED
      BY <2>1, <3>1
  <2>4. /\ Tail(m) \in Seq(Msg) /\ Len(Tail(m)) = Len(m) - 1
        /\ \A n \in 1..Len(Tail(m)) : Tail(m)[n] = m[n+1]
    BY <2>1, <2>2, <2>3, HeadTailProperties
  <2>5. /\ Tail(l) \in Seq(Node) /\ Len(Tail(l)) = Len(l) - 1
        /\ \A n \in 1..Len(Tail(l)) : Tail(l)[n] = l[n+1]
    BY <1>1, <2>1, HeadTailProperties DEF l
  <2>6. Messages(i)' = [n \in 1..Len(l)-1 |-> ptmsg[Tail(l)[n]]]
    <3>1. DOMAIN Tail(l) = 1..Len(l)-1
      BY <2>5, LenProperties
    <3>2. QED
      BY <1>3, <1>5, <3>1 DEF Messages, l
  <2>7. ASSUME NEW n \in 1..Len(l)-1 PROVE ptmsg[Tail(l)[n]] = Tail(m)[n]
    <3>1. n+1 \in 1..Len(l) /\ n \in 1..Len(Tail(l)) /\ n \in 1..Len(Tail(m))
      BY <2>1, <2>4, <2>5
    <3>2. QED
      BY <2>1, <2>4, <2>5, <3>1
  <2>8. Tail(m) = [n \in 1..Len(l)-1 |-> Tail(m)[n]]
    BY <2>1, <2>4, LenProperties
  <2>9. QED
    BY <2>3, <2>6, <2>7, <2>8 DEF m, l
<1>10. QED
  BY <1>1, <1>2, <1>3, <1>7, <1>8, <1>9, FifoHandsOver

LEMMA ClearStartFifo ==
  ASSUME PortInv, PortInv', NEW p \in Proc, NEW i \in Port, NEW newstate \in {"FREE", "ALLOC"},
         PtclearStart(p, i, newstate)
  PROVE  Fifos!Next
<1> DEFINE f == Frame("walk", i, newstate)
<1>1. /\ frame[p].at = "user" /\ ptstate[i] = "ALLOC"
      /\ ptstate' = [ptstate EXCEPT ![i] = "LIMBO"]
      /\ Goto(p, f) /\ UNCHANGED <<ptmaxcnt, nodeVars>>
  BY DEF PtclearStart, CallFor, Call, At
<1>2. UNCHANGED <<ptmaxcnt, ptlist, ptmsg, handed>>
  BY <1>1 DEF nodeVars
<1>3. f.at = "walk" /\ f.port = i /\ f.walk = 0 /\ f.arg = newstate
  BY DEF Frame
<1> HIDE DEF f
<1>4. frame'[p] = f /\ \A q \in Proc : q # p => frame'[q] = frame[q]
  BY <1>1 DEF Goto, PortInv, TypeOK, CallTypes
<1>5. ptstate'[i] = "LIMBO" /\ \A j \in Port : j # i => ptstate'[j] = ptstate[j]
  BY <1>1 DEF PortInv, TypeOK, PortTypes
<1>6. \A j \in Port : Messages(j)' = Messages(j)
  BY <1>2 DEF Messages
<1>7. Contents(i)' = Contents(i)
  <2>1. Contents(i) = Messages(i)
    BY <1>1, ContentsAre DEF ContentsSound
  <2>2. Walks(p, i)'
    BY <1>3, <1>4 DEF Walks
  <2>3. Contents(i)' = Rest(Messages(i)', frame'[p].walk)
    BY <2>2, ContentsNext DEF ContentsSound, Rest
  <2>4. frame'[p].walk = 0
    BY <1>3, <1>4
  <2>5. Messages(i) \in Seq(Msg)
    BY MessagesAre DEF PortInv, TypeOK
  <2>6. Rest(Messages(i), 0) = Messages(i)
    BY <2>5, RestStep
  <2>7. QED
    BY <1>6, <2>1, <2>3, <2>4, <2>6
<1>8. ASSUME NEW j \in Port, j # i PROVE Contents(j)' = Contents(j)
  <2>1. \A q \in Proc : /\ Walks(q, j)' <=> Walks(q, j)
                        /\ Walks(q, j) => frame'[q].walk = frame[q].walk
    BY <1>1, <1>3, <1>4, <1>8 DEF Walks
  <2>2. QED
    BY <1>5, <1>6, <1>8, <2>1, ContentsLeft
<1>9. QED
  <2>1. \A j \in Port : Contents(j)' = Contents(j)
    BY <1>7, <1>8
  <2>2. \A j \in Port : j # i => (ptstate'[j] = "ALLOC" <=> ptstate[j] = "ALLOC")
    BY <1>5
  <2>3. QED
    BY <1>1, <1>2, <1>5, <2>1, <2>2, FifoCloses

LEMMA DisposeFifo ==
  ASSUME PortInv, PortInv', NEW p \in Proc, PtclearDispose(p)
  PROVE  Fifos!Next
<1>0. PICK i : i = frame[p].port
  OBVIOUS
<1>w. PICK w : w = frame[p].walk
  OBVIOUS
<1>1. /\ frame[p].at = "walk" /\ w < Len(ptlist[i])
      /\ handed' = <<"dispose", i, ptmsg[ptlist[i][w + 1]]>>
      /\ Goto(p, [frame[p] EXCEPT !.walk = @ + 1]) /\ UNCHANGED <<portVars, ptlist, ptmsg>>
  BY <1>0, <1>w DEF PtclearDispose, At
<1>2. i \in Port /\ w \in Nat /\ frame[p] \in FrameSet
  BY <1>0, <1>w DEF PortInv, TypeOK, CallTypes, FrameSet
<1>3. UNCHANGED <<ptstate, ptmaxcnt, ptlist, ptmsg>>
  BY <1>1 DEF portVars
<1>4. /\ frame'[p].at = "walk" /\ frame'[p].port = i /\ frame'[p].walk = w + 1
      /\ \A q \in Proc : q # p => frame'[q] = frame[q]
  BY <1>0, <1>w, <1>1, <1>2 DEF Goto, PortInv, TypeOK, CallTypes, FrameSet
<1>5. Walks(p, i) /\ Walks(p, i)'
  BY <1>0, <1>1, <1>4 DEF Walks
<1>6. ptstate[i] # "ALLOC"
  BY <1>0, <1>1 DEF PortInv, ClearSound, Clearing
<1>7. \A j \in Port : Messages(j)' = Messages(j)
  BY <1>3 DEF Messages
<1>8. Contents(i) = Rest(Messages(i), w) /\ Contents(i)' = Rest(Messages(i), w + 1)
  <2>1. Contents(i) = Rest(Messages(i), w)
    BY <1>2, <1>5, <1>w, ContentsAre DEF ContentsSound
  <2>2. Contents(i)' = Rest(Messages(i)', frame'[p].walk)
    BY <1>2, <1>5, ContentsNext DEF ContentsSound, Rest
  <2>3. QED
    BY <1>2, <1>4, <1>7, <2>1, <2>2
<1>9. /\ Contents(i) # <<>> /\ Head(Contents(i)) = ptmsg[ptlist[i][w + 1]]
      /\ Contents(i)' = Tail(Contents(i))
  <2>1. /\ Messages(i) \in Seq(Msg) /\ Len(Messages(i)) = Len(ptlist[i])
        /\ \A n \in 1..Len(ptlist[i]) : Messages(i)[n] = ptmsg[ptlist[i][n]]
    BY <1>2, MessagesAre DEF PortInv, TypeOK
  <2>2. Len(ptlist[i]) \in Nat
    BY <1>2, LenProperties DEF PortInv, TypeOK, NodeTypes
  <2>3. w + 1 \in 1..Len(ptlist[i])
    BY <1>1, <1>2, <2>2
  <2>4. /\ Rest(Messages(i), w) # <<>> /\ Head(Rest(Messages(i), w)) = Messages(i)[w + 1]
        /\ Tail(Rest(Messages(i), w)) = Rest(Messages(i), w + 1)
    BY <1>1, <1>2, <2>1, RestStep
  <2>5. QED
    BY <1>8, <2>1, <2>3, <2>4
<1>10. ASSUME NEW j \in Port, j # i PROVE Contents(j)' = Contents(j)
  <2>1. \A q \in Proc : /\ Walks(q, j)' <=> Walks(q, j)
                        /\ Walks(q, j) => frame'[q].walk = frame[q].walk
    BY <1>0, <1>4, <1>10 DEF Walks
  <2>2. QED
    BY <1>3, <1>7, <2>1, ContentsLeft
<1>11. QED
  BY <1>1, <1>2, <1>3, <1>6, <1>9, <1>10, FifoHandsOver

LEMMA ClearNodesFifo ==
  ASSUME PortInv, PortInv', NEW p \in Proc, PtclearNodes(p)
  PROVE  UNCHANGED fifoVars
<1>0. PICK i : i = frame[p].port
  OBVIOUS
<1>1. /\ frame[p].at = "walk" /\ frame[p].walk = Len(ptlist[i])
      /\ ptlist' = IF frame[p].arg = "ALLOC" THEN [ptlist EXCEPT ![i] = <<>>] ELSE ptlist
      /\ Goto(p, [frame[p] EXCEPT !.at = "clear_ptssem"])
      /\ UNCHANGED <<portVars, ptmsg, handed>>
  BY <1>0 DEF PtclearNodes, At
<1>2. i \in Port /\ frame[p] \in FrameSet
  BY <1>0 DEF PortInv, TypeOK, CallTypes, FrameSet
<1>3. UNCHANGED <<ptstate, ptmaxcnt, ptmsg, handed>>
  BY <1>1 DEF portVars
<1>4. /\ frame'[p].at = "clear_ptssem" /\ frame'[p].port = i
      /\ \A q \in Proc : q # p => frame'[q] = frame[q]
  BY <1>0, <1>1, <1>2 DEF Goto, PortInv, TypeOK, CallTypes, FrameSet
<1>5. \A j \in Port : j # i => ptlist'[j] = ptlist[j]
  BY <1>1, <1>2 DEF PortInv, TypeOK, NodeTypes
<1>6. Walks(p, i) /\ ptstate[i] # "ALLOC"
  BY <1>0, <1>1 DEF Walks, PortInv, ClearSound, Clearing
<1>7. Contents(i) = <<>>
  <2>1. Contents(i) = Rest(Messages(i), frame[p].walk)
    BY <1>2, <1>6, ContentsAre DEF ContentsSound
  <2>2. Messages(i) \in Seq(Msg) /\ Len(Messages(i)) = Len(ptlist[i])
    BY <1>2, MessagesAre DEF PortInv, TypeOK
  <2>3. Len(ptlist[i]) \in Nat
    BY <1>2, LenProperties DEF PortInv, TypeOK, NodeTypes
  <2>4. QED
    BY <1>1, <2>1, <2>2, <2>3, RestStep
<1>8. Contents(i)' = <<>>
  <2>1. \A q \in Proc : q # p => ~Walks(q, i)
    BY <1>2, <1>6 DEF PortInv, OneClearer, Clears, Walks, Clearing
  <2>2. \A q \in Proc : ~Walks(q, i)'
    BY <1>4, <2>1 DEF Walks
  <2>3. i \notin Holding'
    BY <1>3, <1>6, <2>2 DEF Holding, Clearers, Walks
  <2>4. QED
    BY <1>2, <2>3, ContentsNext DEF ContentsSound
<1>9. ASSUME NEW j \in Port, j # i PROVE Contents(j)' = Contents(j)
  <2>1. \A q \in Proc : /\ Walks(q, j)' <=> Walks(q, j)
                        /\ Walks(q, j) => frame'[q].walk = frame[q].walk
    BY <1>0, <1>4, <1>9 DEF Walks
  <2>2. Messages(j)' = Messages(j)
    BY <1>3, <1>5, <1>9 DEF Messages
  <2>3. QED
    BY <1>3, <2>1, <2>2, ContentsLeft
<1>10. QED
  BY <1>3, <1>7, <1>8, <1>9, FifosLeft

LEMMA ClearSemFifo ==
  ASSUME PortInv, PortInv', NEW p \in Proc, PtclearSendSem(p) \/ PtclearRecvSem(p)
  PROVE  UNCHANGED fifoVars
<1>1. PICK next \in {"clear_ptrsem", "clear_done"} :
        Goto(p, [frame[p] EXCEPT !.at = next]) /\ UNCHANGED <<portVars, nodeVars>>
  BY DEF PtclearSendSem, PtclearRecvSem, ClearSem
<1>2. frame[p].at # "walk" /\ next # "walk" /\ next \in Routine
  BY DEF PtclearSendSem, PtclearRecvSem, At, Routine, Clearing
<1>3. PICK g : g = [frame[p] EXCEPT !.at = next]
  OBVIOUS
<1>4. g \in FrameSet /\ g.at = next
  BY <1>2, <1>3, FramesTyped DEF PortInv, TypeOK, CallTypes
<1>5. UNCHANGED <<ptstate, ptmaxcnt, ptlist, ptmsg, handed>>
  BY <1>1 DEF portVars, nodeVars
<1>6. QED
  BY <1>1, <1>2, <1>3, <1>4, <1>5, QuietFifo

LEMMA DoneFifo ==
  ASSUME PortInv, PortInv', NEW p \in Proc, PtclearDone(p)
  PROVE  Fifos!Next \/ UNCHANGED fifoVars
<1>0. PICK i : i = frame[p].port
  OBVIOUS
<1>n. PICK new : new = frame[p].arg
  OBVIOUS
<1>1. /\ frame[p].at = "clear_done" /\ ptstate' = [ptstate EXCEPT ![i] = new]
      /\ Return(p) /\ UNCHANGED <<ptmaxcnt, nodeVars>>
  BY <1>0, <1>n DEF PtclearDone, At
<1>2. i \in Port /\ new \in {"FREE", "ALLOC"} /\ ptstate[i] = "LIMBO"
      /\ (new = "ALLOC" => ptlist[i] = <<>>)
  BY <1>0, <1>n, <1>1, FramesTyped DEF PortInv, TypeOK, CallTypes, ClearSound, Clearing
<1>3. UNCHANGED <<ptmaxcnt, ptlist, ptmsg, handed>>
  BY <1>1 DEF nodeVars
<1>4. frame'[p] = User /\ \A q \in Proc : q # p => frame'[q] = frame[q]
  BY <1>1, GotoFrames, FramesTyped DEF Return, PortInv, TypeOK, CallTypes
<1>5. ptstate'[i] = new /\ \A j \in Port : j # i => ptstate'[j] = ptstate[j]
  BY <1>1, <1>2 DEF PortInv, TypeOK, PortTypes
<1>6. ASSUME NEW j \in Port
      PROVE  \A q \in Proc : /\ Walks(q, j)' <=> Walks(q, j)
                             /\ Walks(q, j) => frame'[q].walk = frame[q].walk
  BY <1>1, <1>4, FramesTyped DEF Walks
<1>7. \A j \in Port : Messages(j)' = Messages(j)
  BY <1>3 DEF Messages
<1>8. ASSUME NEW j \in Port, j # i PROVE Contents(j)' = Contents(j)
  BY <1>5, <1>6, <1>7, <1>8, ContentsLeft
<1>9. CASE new = "FREE"
  <2>1. ptstate'[i] = "ALLOC" <=> ptstate[i] = "ALLOC"
    BY <1>2, <1>5, <1>9
  <2>2. Contents(i)' = Contents(i)
    BY <1>2, <1>6, <1>7, <2>1, ContentsLeft
  <2>3. QED
    BY <1>3, <1>5, <1>8, <2>1, <2>2, FifosLeft
<1>10. CASE new = "ALLOC"
  <2>1. \A q \in Proc : ~Walks(q, i)
    <3>1. Clears(p, i) /\ ~Walks(p, i)
      BY <1>0, <1>1 DEF Clears, Walks, Clearing
    <3>2. \A q \in Proc : Walks(q, i) => Clears(q, i)
      BY DEF Clears, Walks, Clearing
    <3>3. QED
      BY <1>2, <3>1, <3>2 DEF PortInv, OneClearer
  <2>2. Contents(i) = <<>>
    BY <1>2, <2>1, EmptyUnheld
  <2>3. Contents(i)' = <<>>
    <3>1. Contents(i)' = Messages(i)'
      BY <1>2, <1>5, <1>10, ContentsNext DEF ContentsSound
    <3>2. Messages(i)' = <<>>
      BY <1>2, <1>3, <1>10 DEF Messages
    <3>3. QED
      BY <3>1, <3>2
  <2>4. ptmaxcnt[i] \in 0..UINT16-1 /\ ptmaxcnt' = [ptmaxcnt EXCEPT ![i] = ptmaxcnt[i]]
    BY <1>2, <1>3 DEF PortInv, TypeOK, PortTypes
  <2>5. \A j \in Port : Contents(j)' = Contents(j)
    BY <1>8, <2>2, <2>3
  <2>6. \A j \in Port : j # i => (ptstate'[j] = "ALLOC" <=> ptstate[j] = "ALLOC")
    BY <1>5
  <2>7. Fifos!Next
    BY <1>2, <1>3, <1>5, <1>10, <2>2, <2>4, <2>5, <2>6, FifoOpens
  <2>8. QED
    BY <2>7
<1>11. QED
  BY <1>2, <1>9, <1>10

LEMMA CallFifo ==
  ASSUME PortInv, PortInv', NEW p \in Proc,
         \/ \E i \in Port : PtrecvStart(p, i) \/ \E m \in Msg : PtsendStart(p, i, m)
         \/ PtFailed(p) \/ PtsendPanic(p) \/ Kill(p)
  PROVE  UNCHANGED fifoVars
<1>1. CASE \E i \in Port : PtrecvStart(p, i) \/ \E m \in Msg : PtsendStart(p, i, m)
  <2>1. PICK i \in Port, at \in {"ptsend", "ptrecv"}, arg \in Arg :
          /\ frame[p].at = "user" /\ Goto(p, Frame(at, i, arg)) /\ UNCHANGED <<portVars, nodeVars>>
    BY <1>1 DEF PtrecvStart, PtsendStart, CallFor, Call, At, WaitIn, Arg
  <2>2. PICK f : f = Frame(at, i, arg)
    OBVIOUS
  <2>3. at \in Routine /\ ptseq[i] \in Nat /\ 0 \in 0..PT_MSGS
    BY PortSizes DEF Routine, PortInv, TypeOK, PortTypes
  <2>4. f \in FrameSet /\ f.at = at
    BY <2>2, <2>3, FramesTyped DEF Frame
  <2>5. UNCHANGED <<ptstate, ptmaxcnt, ptlist, ptmsg, handed>>
    BY <2>1 DEF portVars, nodeVars
  <2>6. QED
    BY <2>1, <2>2, <2>4, <2>5, QuietFifo
<1>2. CASE PtFailed(p) \/ Kill(p)
  <2>1. Goto(p, User) /\ UNCHANGED <<portVars, nodeVars>> /\ frame[p].at # "walk"
    BY <1>2, PortSizes DEF PtFailed, Return, Kill, At
  <2>2. User \in FrameSet /\ User.at # "walk"
    BY FramesTyped
  <2>3. UNCHANGED <<ptstate, ptmaxcnt, ptlist, ptmsg, handed>>
    BY <2>1 DEF portVars, nodeVars
  <2>4. QED
    BY <2>1, <2>2, <2>3, QuietFifo
<1>3. CASE PtsendPanic(p)
  <2>1. PICK f : f = [frame[p] EXCEPT !.at = "panic"]
    OBVIOUS
  <2>2. Goto(p, f) /\ UNCHANGED <<portVars, nodeVars>> /\ frame[p].at # "walk"
    BY <1>3, <2>1 DEF PtsendPanic, At
  <2>3. "panic" \in Routine
    BY DEF Routine
  <2>4. f \in FrameSet /\ f.at # "walk"
    BY <2>1, <2>3, FramesTyped DEF PortInv, TypeOK, CallTypes
  <2>5. UNCHANGED <<ptstate, ptmaxcnt, ptlist, ptmsg, handed>>
    BY <2>2 DEF portVars, nodeVars
  <2>6. QED
    BY <2>2, <2>4, <2>5, QuietFifo
<1>4. QED
  BY <1>1, <1>2, <1>3

LEMMA FifoStep ==
  ASSUME PermitInv, PortInv', [Next]_vars
  PROVE  Fifos!Next \/ UNCHANGED fifoVars
<1>0. PortInv
  BY DEF PermitInv
<1>1. CASE UNCHANGED vars
  <2>1. UNCHANGED <<ptstate, ptmaxcnt, ptlist, ptmsg, handed, frame>>
    BY <1>1 DEF vars, portVars, nodeVars
  <2>2. QED
    BY <2>1 DEF fifoVars, openBar, contentsBar, Contents, Clearers
<1>2. ASSUME NEW p \in Proc, \E count \in Counts : Ptcreate(p, count) PROVE Fifos!Next
  BY <1>0, <1>2, CreateFifo
<1>3. ASSUME NEW p \in Proc, NEW i \in Port,
             PtrecvStart(p, i) \/ \E m \in Msg : PtsendStart(p, i, m)
      PROVE  UNCHANGED fifoVars
  BY <1>0, <1>3, CallFifo
<1>4. ASSUME NEW p \in Proc, NEW i \in Port, NEW newstate \in {"FREE", "ALLOC"},
             PtclearStart(p, i, newstate)
      PROVE  Fifos!Next
  BY <1>0, <1>4, ClearStartFifo
<1>5. ASSUME NEW p \in Proc,
             PtFailed(p) \/ PtsendPanic(p) \/ PtsendFinish(p) \/ PtrecvFinish(p) \/ Kill(p)
      PROVE  Fifos!Next \/ UNCHANGED fifoVars
  BY <1>0, <1>5, CallFifo, SendFinishFifo, RecvFinishFifo
<1>6. ASSUME NEW p \in Proc,
             \/ PtclearDispose(p) \/ PtclearNodes(p) \/ PtclearSendSem(p) \/ PtclearRecvSem(p)
             \/ PtclearDone(p)
      PROVE  Fifos!Next \/ UNCHANGED fifoVars
  BY <1>0, <1>6, DisposeFifo, ClearNodesFifo, ClearSemFifo, DoneFifo
<1>7. QED
  BY <1>1, <1>2, <1>3, <1>4, <1>5, <1>6 DEF Next, Halted

LEMMA FifoInitially == Init => Fifos!Init
<1>1. SUFFICES ASSUME Init PROVE Fifos!Init
  OBVIOUS
<1>2. PortInv
  BY <1>1, PortInitially
<1>3. \A i \in Port : ptstate[i] = "FREE" /\ \A p \in Proc : ~Walks(p, i)
  BY <1>1 DEF Init, Walks, User
<1>4. \A i \in Port : Contents(i) = <<>>
  BY <1>2, <1>3, EmptyUnheld
<1>5. openBar = [i \in Port |-> FALSE] /\ contentsBar = [i \in Port |-> <<>>]
  BY <1>3, <1>4 DEF openBar, contentsBar
<1>6. QED
  BY <1>1, <1>5 DEF Init, Fifos!Init, openBar, contentsBar

\* ptsend, ptrecv, ptreset and ptdelete implement bounded first-in first-out queues:
\* each message is received or disposed of, once and in order, and no port holds more
\* messages than it was created for.
THEOREM PortsBehaveAsFifos ==
  ASSUME \A count \in Counts : count < UINT16
  PROVE  Spec => PortsAreFifo
<1>1. Init => Fifos!Init
  BY FifoInitially
<1>2. PermitInv /\ PermitInv' /\ [Next]_vars => [Fifos!Next]_fifoVars
  BY FifoStep DEF PermitInv
<1>3. Spec => []PermitInv
  BY PermitInvAlways
<1>4. Spec => Init /\ [][Fifos!Next]_fifoVars
  BY <1>2, <1>3, PTL DEF Spec
<1>5. QED
  BY <1>1, <1>4, PTL DEF PortsAreFifo, Fifos!Spec, fifoVars, openBar, contentsBar
-----------------------------------------------------------------------------
(* The nodes run out only if the ports may hold more messages than nodes.  *)

\* No list is longer than its port was created for, and once a sender has found no
\* free node nothing moves any more: there is still the place it was promised.
Bounded == \A i \in Holding : Len(ptlist[i]) <= ptmaxcnt[i]
PanicSound(p) ==
  LET i == frame[p].port IN
  frame[p].at = "panic" =>
    cpu = p /\ ptfree = <<>> /\ ptstate[i] = "ALLOC" /\ Len(ptlist[i]) < ptmaxcnt[i]
NodeInv == PermitInv /\ Bounded /\ \A p \in Proc : PanicSound(p)

LEMMA PanicStops ==
  ASSUME NodeInv, NEW p \in Proc, frame[p].at = "panic", [Next]_vars
  PROVE  UNCHANGED vars
<1>1. cpu = p /\ cpu # NoProc
  BY PortSizes DEF NodeInv, PanicSound
<1>2. \A q \in Proc : ~Call(q) /\ ~Kill(q)
  BY <1>1 DEF Call, Kill
<1>3. \A q \in Proc, r \in Routine \ {"panic"} : ~At(q, r)
  BY <1>1 DEF At
<1>4. {"ptsend", "ptrecv", "walk", "clear_ptssem", "clear_ptrsem", "clear_done"}
        \subseteq Routine \ {"panic"}
  BY DEF Routine, Clearing
<1>5. ASSUME NEW q \in Proc, PtFailed(q) \/ PtsendPanic(q) \/ PtsendFinish(q) \/ PtrecvFinish(q)
      PROVE  FALSE
  BY <1>3, <1>4, <1>5 DEF PtFailed, PtsendPanic, PtsendFinish, PtrecvFinish
<1>6. ASSUME NEW q \in Proc, \/ PtclearDispose(q) \/ PtclearNodes(q) \/ PtclearSendSem(q)
                             \/ PtclearRecvSem(q) \/ PtclearDone(q)
      PROVE  FALSE
  BY <1>3, <1>4, <1>6
     DEF PtclearDispose, PtclearNodes, PtclearSendSem, PtclearRecvSem, PtclearDone
<1>7. ASSUME NEW q \in Proc,
             \/ \E count \in Counts : Ptcreate(q, count)
             \/ \E i \in Port : PtrecvStart(q, i) \/ (\E m \in Msg : PtsendStart(q, i, m))
             \/ \E i \in Port, newstate \in {"FREE", "ALLOC"} : PtclearStart(q, i, newstate)
      PROVE  FALSE
  BY <1>2, <1>7 DEF Ptcreate, PtrecvStart, PtsendStart, PtclearStart, CallFor
<1>8. QED
  BY <1>2, <1>5, <1>6, <1>7 DEF Next, Halted

\* Steps that create no list and make none longer.
LEMMA BoundedLeft ==
  ASSUME NodeInv, PortInv', Holding' \subseteq Holding, UNCHANGED ptmaxcnt,
         \A i \in Holding' : ptlist'[i] = ptlist[i]
  PROVE  Bounded'
BY DEF NodeInv, Bounded

\* Who holds nodes after a step in which the state of a port or a frame changes.
LEMMA HoldingShrinks ==
  ASSUME \A i \in Port : ptstate'[i] = "ALLOC" => ptstate[i] = "ALLOC",
         \A p \in Proc : frame'[p].at = "walk" =>
           frame[p].at = "walk" /\ frame'[p].port = frame[p].port
  PROVE  Holding' \subseteq Holding
BY HoldingAre DEF Holding, Clearers, Clearing

\* A step of a call that touches neither a port nor a node, as in QuietFifo.
LEMMA QuietNodes ==
  ASSUME NodeInv, PortInv', \A q \in Proc : frame[q].at # "panic",
         UNCHANGED <<ptstate, ptmaxcnt, ptlist>>,
         NEW p \in Proc, NEW f \in FrameSet, Goto(p, f),
         f.at = "walk" => frame[p].at = "walk" /\ f.port = frame[p].port, f.at # "panic"
  PROVE  Bounded' /\ \A q \in Proc : PanicSound(q)'
<1>1. /\ frame \in [Proc -> FrameSet]
      /\ frame'[p] = f /\ \A q \in Proc : q # p => frame'[q] = frame[q]
  BY GotoFrames DEF NodeInv, PermitInv, PortInv, TypeOK, CallTypes
<1>2. Holding' \subseteq Holding
  BY <1>1, HoldingShrinks
<1>3. \A q \in Proc : PanicSound(q)'
  BY <1>1 DEF PanicSound
<1>4. QED
  BY <1>2, <1>3, BoundedLeft

\* A routine that does not begin a panic.
LEMMA NoPanicBegins ==
  ASSUME PortInv, \A q \in Proc : frame[q].at # "panic",
         NEW p \in Proc, NEW f \in FrameSet, Goto(p, f), f.at # "panic"
  PROVE  \A q \in Proc : PanicSound(q)'
<1>1. frame'[p] = f /\ \A q \in Proc : q # p => frame'[q] = frame[q]
  BY GotoFrames DEF PortInv, TypeOK, CallTypes
<1>2. QED
  BY <1>1 DEF PanicSound

LEMMA PanicNodes ==
  ASSUME NodeInv, PortInv', \A q \in Proc : frame[q].at # "panic",
         NEW p \in Proc, PtsendPanic(p)
  PROVE  Bounded' /\ \A q \in Proc : PanicSound(q)'
<1> DEFINE f == [frame[p] EXCEPT !.at = "panic"]
<1>1. /\ frame[p].at = "ptsend" /\ ~Blocked(p) /\ StillValid(frame[p]) /\ ptfree = <<>>
      /\ Goto(p, f) /\ cpu' = p /\ UNCHANGED <<portVars, nodeVars>>
  BY DEF PtsendPanic, At
<1>2. "panic" \in Routine /\ PortInv
  BY DEF Routine, NodeInv, PermitInv
<1>3. f \in FrameSet /\ f.at = "panic" /\ f.port = frame[p].port
  BY <1>2, FramesTyped DEF PortInv, TypeOK, CallTypes
<1> HIDE DEF f
<1>4. frame'[p] = f /\ \A q \in Proc : q # p => frame'[q] = frame[q]
  BY <1>1, <1>2, <1>3, GotoFrames DEF PortInv, TypeOK, CallTypes
<1>5. UNCHANGED <<ptstate, ptmaxcnt, ptlist, ptfree>>
  BY <1>1 DEF portVars, nodeVars
<1>6. Holding' \subseteq Holding
  BY <1>3, <1>4, <1>5, HoldingShrinks
<1>7. Len(ptlist[frame[p].port]) < ptmaxcnt[frame[p].port]
  BY <1>1, RoomForSend DEF NodeInv
<1>8. PanicSound(p)'
  BY <1>1, <1>3, <1>4, <1>5, <1>7 DEF PanicSound, StillValid
<1>9. \A q \in Proc : PanicSound(q)'
  BY <1>4, <1>8 DEF PanicSound
<1>10. QED
  BY <1>5, <1>6, <1>9, BoundedLeft

LEMMA SendFinishNodes ==
  ASSUME NodeInv, PortInv', \A q \in Proc : frame[q].at # "panic",
         NEW p \in Proc, PtsendFinish(p)
  PROVE  Bounded' /\ \A q \in Proc : PanicSound(q)'
<1>0. PICK i : i = frame[p].port
  OBVIOUS
<1>1. /\ frame[p].at = "ptsend" /\ ~Blocked(p) /\ StillValid(frame[p]) /\ ptfree # <<>>
      /\ ptlist' = [ptlist EXCEPT ![i] = Append(ptlist[i], Head(ptfree))]
      /\ Goto(p, User) /\ UNCHANGED portVars
  BY <1>0 DEF PtsendFinish, At, Return
<1>2. PortInv /\ i \in Port
  BY <1>0, FramesTyped DEF NodeInv, PermitInv, PortInv, TypeOK, CallTypes
<1>3. User \in FrameSet /\ User.at = "user"
  BY FramesTyped
<1>4. frame'[p] = User /\ \A q \in Proc : q # p => frame'[q] = frame[q]
  BY <1>1, <1>2, <1>3, GotoFrames DEF PortInv, TypeOK, CallTypes
<1>5. Holding' \subseteq Holding
  BY <1>1, <1>3, <1>4, HoldingShrinks DEF portVars
<1>6. Len(ptlist[i]) < ptmaxcnt[i]
  BY <1>0, <1>1, RoomForSend DEF NodeInv
<1>7. /\ ptlist \in [Port -> Seq(Node)] /\ Head(ptfree) \in Node /\ ptmaxcnt[i] \in Nat
      /\ Len(ptlist[i]) \in Nat
  BY <1>1, <1>2, LenProperties, PortSizes DEF PortInv, TypeOK, NodeTypes, PortTypes
<1>8. Len(Append(ptlist[i], Head(ptfree))) = Len(ptlist[i]) + 1
  BY <1>2, <1>7, AppendProperties
<1>9. Len(ptlist'[i]) <= ptmaxcnt[i]
  BY <1>1, <1>2, <1>6, <1>7, <1>8
<1>10. Bounded'
  <2>1. \A j \in Port : j # i => ptlist'[j] = ptlist[j]
    BY <1>1, <1>7
  <2>2. ptmaxcnt' = ptmaxcnt /\ \A j \in Holding : Len(ptlist[j]) <= ptmaxcnt[j]
    BY <1>1 DEF portVars, NodeInv, Bounded
  <2>3. QED
    BY <1>5, <1>9, <2>1, <2>2 DEF Bounded, Holding
<1>11. QED
  BY <1>1, <1>2, <1>3, <1>10, NoPanicBegins

LEMMA RecvFinishNodes ==
  ASSUME NodeInv, PortInv', \A q \in Proc : frame[q].at # "panic",
         NEW p \in Proc, PtrecvFinish(p)
  PROVE  Bounded' /\ \A q \in Proc : PanicSound(q)'
<1>0. PICK i : i = frame[p].port
  OBVIOUS
<1>1. /\ frame[p].at = "ptrecv" /\ ptlist[i] # <<>>
      /\ ptlist' = [ptlist EXCEPT ![i] = Tail(ptlist[i])]
      /\ Goto(p, User) /\ UNCHANGED portVars
  BY <1>0 DEF PtrecvFinish, At, Return
<1>2. PortInv /\ i \in Port
  BY <1>0, FramesTyped DEF NodeInv, PermitInv, PortInv, TypeOK, CallTypes
<1>3. User \in FrameSet /\ User.at = "user"
  BY FramesTyped
<1>4. frame'[p] = User /\ \A q \in Proc : q # p => frame'[q] = frame[q]
  BY <1>1, <1>2, <1>3, GotoFrames DEF PortInv, TypeOK, CallTypes
<1>5. Holding' \subseteq Holding
  BY <1>1, <1>3, <1>4, HoldingShrinks DEF portVars
<1>6. ptlist \in [Port -> Seq(Node)] /\ ptmaxcnt[i] \in Nat /\ Len(ptlist[i]) \in Nat
  BY <1>2, LenProperties, PortSizes DEF PortInv, TypeOK, NodeTypes, PortTypes
<1>7. Len(Tail(ptlist[i])) = Len(ptlist[i]) - 1
  BY <1>1, <1>2, <1>6, HeadTailProperties
<1>8. i \in Holding => Len(ptlist'[i]) <= ptmaxcnt[i]
  BY <1>1, <1>2, <1>6, <1>7 DEF NodeInv, Bounded
<1>9. Bounded'
  <2>1. \A j \in Port : j # i => ptlist'[j] = ptlist[j]
    BY <1>1, <1>6
  <2>2. ptmaxcnt' = ptmaxcnt /\ \A j \in Holding : Len(ptlist[j]) <= ptmaxcnt[j]
    BY <1>1 DEF portVars, NodeInv, Bounded
  <2>3. QED
    BY <1>5, <1>8, <2>1, <2>2 DEF Bounded, Holding
<1>10. QED
  BY <1>1, <1>2, <1>3, <1>9, NoPanicBegins

LEMMA CreateNodes ==
  ASSUME NodeInv, PortInv', \A q \in Proc : frame[q].at # "panic",
         NEW p \in Proc, NEW count \in Counts, Ptcreate(p, count)
  PROVE  Bounded' /\ \A q \in Proc : PanicSound(q)'
<1>1. PICK i \in Port :
        /\ ptstate' = [ptstate EXCEPT ![i] = "ALLOC"]
        /\ ptlist' = [ptlist EXCEPT ![i] = <<>>]
        /\ ptmaxcnt' = [ptmaxcnt EXCEPT ![i] = count % UINT16]
  BY DEF Ptcreate
<1>2. frame' = frame
  BY DEF Ptcreate
<1>3. PortInv
  BY DEF NodeInv, PermitInv
<1>4. /\ ptlist'[i] = <<>> /\ ptmaxcnt'[i] \in Nat
      /\ \A j \in Port : j # i => /\ ptstate'[j] = ptstate[j] /\ ptlist'[j] = ptlist[j]
                                  /\ ptmaxcnt'[j] = ptmaxcnt[j]
  BY <1>1, <1>3, PortSizes DEF PortInv, TypeOK, PortTypes, NodeTypes
<1>5. Len(ptlist'[i]) <= ptmaxcnt'[i]
  BY <1>4, EmptySeq
<1>6. \A j \in Holding' : j # i => j \in Holding
  BY <1>2, <1>4 DEF Holding, Clearers
<1>7. Bounded'
  BY <1>4, <1>5, <1>6 DEF NodeInv, Bounded, Holding
<1>8. \A q \in Proc : PanicSound(q)'
  BY <1>2 DEF PanicSound
<1>9. QED
  BY <1>7, <1>8

LEMMA ClearStartNodes ==
  ASSUME NodeInv, PortInv', \A q \in Proc : frame[q].at # "panic",
         NEW p \in Proc, NEW i \in Port, NEW newstate \in {"FREE", "ALLOC"},
         PtclearStart(p, i, newstate)
  PROVE  Bounded' /\ \A q \in Proc : PanicSound(q)'
<1> DEFINE f == Frame("walk", i, newstate)
<1>1. /\ ptstate[i] = "ALLOC" /\ ptstate' = [ptstate EXCEPT ![i] = "LIMBO"]
      /\ Goto(p, f) /\ UNCHANGED <<ptmaxcnt, nodeVars>>
  BY DEF PtclearStart, CallFor
<1>2. PortInv /\ f.at = "walk" /\ f.port = i
  BY DEF NodeInv, PermitInv, Frame
<1>3. f \in FrameSet
  <2>1. "walk" \in Routine /\ newstate \in Arg /\ ptseq[i] \in Nat /\ 0 \in 0..PT_MSGS
    BY <1>2, PortSizes DEF Routine, Clearing, Arg, PortInv, TypeOK, PortTypes
  <2>2. QED
    BY <2>1, FramesTyped DEF Frame
<1> HIDE DEF f
<1>4. frame'[p] = f /\ \A q \in Proc : q # p => frame'[q] = frame[q]
  BY <1>1, <1>2, <1>3, GotoFrames DEF PortInv, TypeOK, CallTypes
<1>5. i \in Holding /\ \A j \in Port : j # i => ptstate'[j] = ptstate[j]
  BY <1>1, <1>2 DEF Holding, PortInv, TypeOK, PortTypes
<1>6. Holding' \subseteq Holding
  BY <1>2, <1>4, <1>5 DEF Holding, Clearers
<1>7. UNCHANGED <<ptmaxcnt, ptlist>>
  BY <1>1 DEF nodeVars
<1>8. Bounded'
  BY <1>6, <1>7, BoundedLeft
<1>9. QED
  BY <1>1, <1>2, <1>3, <1>8, NoPanicBegins

LEMMA ClearNodesNodes ==
  ASSUME NodeInv, PortInv', \A q \in Proc : frame[q].at # "panic",
         NEW p \in Proc, PtclearNodes(p)
  PROVE  Bounded' /\ \A q \in Proc : PanicSound(q)'
<1>0. PICK i : i = frame[p].port
  OBVIOUS
<1> DEFINE f == [frame[p] EXCEPT !.at = "clear_ptssem"]
<1>1. /\ frame[p].at = "walk" /\ Goto(p, f) /\ UNCHANGED portVars
      /\ ptlist' = IF frame[p].arg = "ALLOC" THEN [ptlist EXCEPT ![i] = <<>>] ELSE ptlist
  BY <1>0 DEF PtclearNodes, At
<1>2. PortInv /\ "clear_ptssem" \in Routine
  BY DEF NodeInv, PermitInv, Routine, Clearing
<1>3. f \in FrameSet /\ f.at = "clear_ptssem" /\ i \in Port
  BY <1>0, <1>2, FramesTyped DEF PortInv, TypeOK, CallTypes
<1> HIDE DEF f
<1>4. frame'[p] = f /\ \A q \in Proc : q # p => frame'[q] = frame[q]
  BY <1>1, <1>2, <1>3, GotoFrames DEF PortInv, TypeOK, CallTypes
<1>5. Holding' \subseteq Holding
  BY <1>1, <1>3, <1>4, HoldingShrinks DEF portVars
<1>6. i \notin Holding'
  <2>1. Walks(p, i) /\ ptstate[i] # "ALLOC"
    BY <1>0, <1>1, <1>2 DEF Walks, PortInv, ClearSound, Clearing
  <2>2. \A q \in Proc : q # p => ~Walks(q, i)
    BY <1>2, <1>3, <2>1 DEF PortInv, OneClearer, Clears, Walks, Clearing
  <2>3. \A q \in Proc : ~Walks(q, i)'
    BY <1>3, <1>4, <2>2 DEF Walks
  <2>4. QED
    BY <1>1, <2>1, <2>3 DEF portVars, Holding, Clearers, Walks
<1>7. \A j \in Holding' : ptlist'[j] = ptlist[j]
  BY <1>1, <1>2, <1>6 DEF Holding, PortInv, TypeOK, NodeTypes
<1>8. Bounded'
  BY <1>1, <1>5, <1>7, BoundedLeft DEF portVars
<1>9. QED
  BY <1>1, <1>2, <1>3, <1>8, NoPanicBegins

LEMMA DoneNodes ==
  ASSUME NodeInv, PortInv', \A q \in Proc : frame[q].at # "panic",
         NEW p \in Proc, PtclearDone(p)
  PROVE  Bounded' /\ \A q \in Proc : PanicSound(q)'
<1>0. PICK i : i = frame[p].port
  OBVIOUS
<1>1. /\ frame[p].at = "clear_done" /\ ptstate' = [ptstate EXCEPT ![i] = frame[p].arg]
      /\ Goto(p, User) /\ UNCHANGED <<ptmaxcnt, nodeVars>>
  BY <1>0 DEF PtclearDone, At, Return
<1>2. PortInv /\ i \in Port /\ User \in FrameSet /\ User.at = "user"
  BY <1>0, FramesTyped DEF NodeInv, PermitInv, PortInv, TypeOK, CallTypes
<1>3. frame'[p] = User /\ \A q \in Proc : q # p => frame'[q] = frame[q]
  BY <1>1, <1>2, GotoFrames DEF PortInv, TypeOK, CallTypes
<1>4. /\ ptstate'[i] = frame[p].arg /\ \A j \in Port : j # i => ptstate'[j] = ptstate[j]
      /\ ptlist' = ptlist /\ ptmaxcnt' = ptmaxcnt
  BY <1>1, <1>2 DEF PortInv, TypeOK, PortTypes, nodeVars
<1>5. ptstate'[i] = "ALLOC" => ptlist[i] = <<>>
  BY <1>0, <1>1, <1>2, <1>4 DEF PortInv, ClearSound, Clearing
<1>6. \A j \in Holding' : j \in Holding \/ (j = i /\ ptstate'[i] = "ALLOC")
  BY <1>2, <1>3, <1>4 DEF Holding, Clearers, Clearing
<1>7. ptmaxcnt[i] \in Nat /\ Len(<<>>) = 0
  BY <1>2, PortSizes DEF PortInv, TypeOK, PortTypes
<1>8. Bounded'
  <2>1. \A j \in Holding : Len(ptlist[j]) <= ptmaxcnt[j]
    BY DEF NodeInv, Bounded
  <2>2. ptstate'[i] = "ALLOC" => Len(ptlist[i]) <= ptmaxcnt[i]
    BY <1>5, <1>7
  <2>3. QED
    BY <1>4, <1>6, <2>1, <2>2 DEF Bounded
<1>9. QED
  BY <1>1, <1>2, <1>8, NoPanicBegins

LEMMA CallNodes ==
  ASSUME NodeInv, PortInv', \A q \in Proc : frame[q].at # "panic", NEW p \in Proc,
         \/ \E i \in Port : PtrecvStart(p, i) \/ \E m \in Msg : PtsendStart(p, i, m)
         \/ PtFailed(p) \/ Kill(p)
  PROVE  Bounded' /\ \A q \in Proc : PanicSound(q)'
<1>0. PortInv
  BY DEF NodeInv, PermitInv
<1>1. CASE \E i \in Port : PtrecvStart(p, i) \/ \E m \in Msg : PtsendStart(p, i, m)
  <2>1. PICK i \in Port, at \in {"ptsend", "ptrecv"}, arg \in Arg :
          Goto(p, Frame(at, i, arg)) /\ UNCHANGED <<portVars, nodeVars>>
    BY <1>1 DEF PtrecvStart, PtsendStart, WaitIn, Arg
  <2>2. PICK f : f = Frame(at, i, arg)
    OBVIOUS
  <2>3. at \in Routine /\ ptseq[i] \in Nat /\ 0 \in 0..PT_MSGS
    BY <1>0, PortSizes DEF Routine, PortInv, TypeOK, PortTypes
  <2>4. f \in FrameSet /\ f.at = at
    BY <2>2, <2>3, FramesTyped DEF Frame
  <2>5. UNCHANGED <<ptstate, ptmaxcnt, ptlist>>
    BY <2>1 DEF portVars, nodeVars
  <2>6. QED
    BY <2>1, <2>2, <2>4, <2>5, QuietNodes
<1>2. CASE PtFailed(p) \/ Kill(p)
  <2>1. Goto(p, User) /\ UNCHANGED <<portVars, nodeVars>>
    BY <1>2 DEF PtFailed, Return, Kill
  <2>2. User \in FrameSet /\ User.at = "user"
    BY FramesTyped
  <2>3. UNCHANGED <<ptstate, ptmaxcnt, ptlist>>
    BY <2>1 DEF portVars, nodeVars
  <2>4. QED
    BY <2>1, <2>2, <2>3, QuietNodes
<1>3. QED
  BY <1>1, <1>2

LEMMA ClearNodesLeft ==
  ASSUME NodeInv, PortInv', \A q \in Proc : frame[q].at # "panic", NEW p \in Proc,
         PtclearDispose(p) \/ PtclearSendSem(p) \/ PtclearRecvSem(p)
  PROVE  Bounded' /\ \A q \in Proc : PanicSound(q)'
<1>0. PortInv
  BY DEF NodeInv, PermitInv
<1>1. frame[p] \in FrameSet /\ frame'[p] \in FrameSet /\ frame \in [Proc -> FrameSet]
  BY <1>0 DEF PortInv, TypeOK, CallTypes
<1>2. CASE PtclearDispose(p)
  <2>1. PICK f : f = [frame[p] EXCEPT !.walk = @ + 1]
    OBVIOUS
  <2>2. Goto(p, f) /\ frame[p].at = "walk" /\ UNCHANGED <<portVars, ptlist>>
    BY <1>2, <2>1 DEF PtclearDispose, At
  <2>3. f \in FrameSet /\ f.at = "walk" /\ f.port = frame[p].port
    BY <1>1, <2>1, <2>2 DEF Goto, FrameSet
  <2>4. UNCHANGED <<ptstate, ptmaxcnt, ptlist>>
    BY <2>2 DEF portVars
  <2>5. QED
    BY <2>2, <2>3, <2>4, QuietNodes
<1>3. CASE PtclearSendSem(p) \/ PtclearRecvSem(p)
  <2>1. PICK next \in {"clear_ptrsem", "clear_done"} :
          Goto(p, [frame[p] EXCEPT !.at = next]) /\ UNCHANGED <<portVars, nodeVars>>
    BY <1>3 DEF PtclearSendSem, PtclearRecvSem, ClearSem
  <2>2. PICK f : f = [frame[p] EXCEPT !.at = next]
    OBVIOUS
  <2>3. next \in Routine
    BY DEF Routine, Clearing
  <2>4. f \in FrameSet /\ f.at = next
    BY <1>1, <2>2, <2>3, FramesTyped
  <2>5. UNCHANGED <<ptstate, ptmaxcnt, ptlist>>
    BY <2>1 DEF portVars, nodeVars
  <2>6. QED
    BY <2>1, <2>2, <2>4, <2>5, QuietNodes
<1>4. QED
  BY <1>2, <1>3

LEMMA NodeStepKeeps ==
  ASSUME NodeInv, PermitInv', [Next]_vars
  PROVE  NodeInv'
<1> DEFINE Kept == Bounded' /\ \A q \in Proc : PanicSound(q)'
<1>1. PortInv'
  BY DEF PermitInv
<1>2. CASE UNCHANGED vars
  <2>1. UNCHANGED <<ptstate, ptmaxcnt, ptlist, ptfree, cpu, frame>>
    BY <1>2 DEF vars, portVars, nodeVars
  <2>2. Kept
    BY <2>1 DEF NodeInv, Bounded, PanicSound, Holding, Clearers
  <2>3. QED
    BY <2>2 DEF NodeInv
<1>3. CASE \E p \in Proc : frame[p].at = "panic"
  BY <1>2, <1>3, PanicStops
<1>4. CASE (\A p \in Proc : frame[p].at # "panic") /\ Next
  <2> HIDE DEF Kept
  <2>1. ASSUME NEW p \in Proc, \E count \in Counts : Ptcreate(p, count) PROVE Kept
    BY <1>1, <1>4, <2>1, CreateNodes DEF Kept
  <2>2. ASSUME NEW p \in Proc, NEW i \in Port,
               PtrecvStart(p, i) \/ \E m \in Msg : PtsendStart(p, i, m)
        PROVE  Kept
    BY <1>1, <1>4, <2>2, CallNodes DEF Kept
  <2>3. ASSUME NEW p \in Proc, NEW i \in Port, NEW newstate \in {"FREE", "ALLOC"},
               PtclearStart(p, i, newstate)
        PROVE  Kept
    BY <1>1, <1>4, <2>3, ClearStartNodes DEF Kept
  <2>4. ASSUME NEW p \in Proc,
               PtFailed(p) \/ PtsendPanic(p) \/ PtsendFinish(p) \/ PtrecvFinish(p) \/ Kill(p)
        PROVE  Kept
    BY <1>1, <1>4, <2>4, CallNodes, PanicNodes, SendFinishNodes, RecvFinishNodes DEF Kept
  <2>5. ASSUME NEW p \in Proc,
               \/ PtclearDispose(p) \/ PtclearNodes(p) \/ PtclearSendSem(p) \/ PtclearRecvSem(p)
               \/ PtclearDone(p)
        PROVE  Kept
    BY <1>1, <1>4, <2>5, ClearNodesLeft, ClearNodesNodes, DoneNodes DEF Kept
  <2>6. ASSUME NEW p \in Proc, Halted(p) PROVE Kept
    BY <1>4, <2>6 DEF Halted, At
  <2>7. Kept
    BY <1>4, <2>1, <2>2, <2>3, <2>4, <2>5, <2>6 DEF Next
  <2>8. QED
    BY <2>7 DEF NodeInv, Kept
<1>5. QED
  BY <1>2, <1>3, <1>4

\* The nodes of all lists are elements of lists that are no longer than the ports have
\* places, and one place is still owed to the process that found no node.
LEMMA PlacesExceedNodes ==
  ASSUME NodeInv, NEW p \in Proc, frame[p].at = "panic"
  PROVE  Cardinality(Places) > PT_MSGS
<1> DEFINE i0 == frame[p].port
           T == {place \in Port \X (1 .. UINT16) :
                   place[1] \in Holding /\ place[2] <= Len(ptlist[place[1]])}
           f == [place \in T |-> ptlist[place[1]][place[2]]]
           last == <<i0, ptmaxcnt[i0]>>
<1>1. PortInv /\ i0 \in Port
  BY FramesTyped DEF NodeInv, PermitInv, PortInv, TypeOK, CallTypes
<1>2. ptfree = <<>> /\ ptstate[i0] = "ALLOC" /\ Len(ptlist[i0]) < ptmaxcnt[i0]
  BY DEF NodeInv, PanicSound
<1>3. /\ \A i \in Port : ptlist[i] \in Seq(Node) /\ Len(ptlist[i]) \in Nat
                         /\ DOMAIN ptlist[i] = 1 .. Len(ptlist[i])
                         /\ \A n \in 1 .. Len(ptlist[i]) : ptlist[i][n] \in Node
      /\ \A i \in Port : ptmaxcnt[i] \in Nat /\ ptmaxcnt[i] < UINT16
      /\ UINT16 \in Nat /\ PT_MSGS \in Nat
  <2>1. \A i \in Port : ptlist[i] \in Seq(Node)
    BY <1>1 DEF PortInv, TypeOK, NodeTypes
  <2>2. \A i \in Port : ptmaxcnt[i] \in Nat /\ ptmaxcnt[i] < UINT16
    BY <1>1, PortSizes DEF PortInv, TypeOK, PortTypes
  <2>3. QED
    BY <2>1, <2>2, LenProperties, ElementOfSeq, PortSizes
<1>4. \A i \in Holding : i \in Port /\ ptstate[i] # "FREE" /\ Len(ptlist[i]) <= ptmaxcnt[i]
  BY <1>1 DEF Holding, Clearers, Clearing, PortInv, ClearSound, NodeInv, Bounded
<1>5. IsFiniteSet(Places)
  <2>1. IsFiniteSet(Port) /\ IsFiniteSet(1 .. UINT16)
    BY <1>3, PortSizes, FS_Interval DEF Port
  <2>2. IsFiniteSet(Port \X (1 .. UINT16))
    BY <2>1, FS_Product
  <2>3. Places \in SUBSET (Port \X (1 .. UINT16))
    BY DEF Places
  <2>4. QED
    BY <2>2, <2>3, FS_Subset
<1>6. T \subseteq Places
  BY <1>3, <1>4 DEF Places
<1>7. last \in Places /\ last \notin T
  BY <1>1, <1>2, <1>3 DEF Places
<1>8. f \in Surjection(T, Node)
  <2>1. ASSUME NEW place \in T PROVE ptlist[place[1]][place[2]] \in Node
    BY <1>3, <1>4
  <2>2. f \in [T -> Node]
    BY <2>1
  <2>3. ASSUME NEW n \in Node PROVE \E place \in T : f[place] = n
    <3>1. Range(ptfree) = {}
      BY <1>2 DEF Range
    <3>2. PICK i \in Holding : n \in Range(ptlist[i])
      BY <1>1, <3>1 DEF PortInv, NodesConserved
    <3>3. PICK k \in DOMAIN ptlist[i] : ptlist[i][k] = n
      BY <3>2 DEF Range
    <3>4. i \in Port /\ k \in 1 .. Len(ptlist[i]) /\ k \in 1 .. UINT16
      BY <1>3, <1>4
    <3>5. <<i, k>> \in T
      BY <3>4
    <3>6. QED
      BY <3>3, <3>5
  <2>4. QED
    BY <2>2, <2>3 DEF Surjection
<1> HIDE DEF T, f, last
<1>9. IsFiniteSet(T) /\ IsFiniteSet(Node) /\ Cardinality(Node) <= Cardinality(T)
  <2>1. IsFiniteSet(T)
    BY <1>5, <1>6, FS_Subset
  <2>2. QED
    BY <1>8, <2>1, FS_Surjection
<1>10. Cardinality(Node) = PT_MSGS
  <2>1. Cardinality(1 .. PT_MSGS) = IF 1 > PT_MSGS THEN 0 ELSE PT_MSGS - 1 + 1
    BY <1>3, FS_Interval
  <2>2. QED
    BY <2>1, PortSizes DEF Node
<1>11. Cardinality(T) <= Cardinality(Places) /\ Cardinality(T) # Cardinality(Places)
  BY <1>5, <1>6, <1>7, FS_Subset
<1>12. Cardinality(T) \in Nat /\ Cardinality(Places) \in Nat
  BY <1>5, <1>9, FS_CardinalityType
<1>13. QED
  BY <1>3, <1>9, <1>10, <1>11, <1>12

LEMMA NodeInitially == Init => NodeInv
<1>1. SUFFICES ASSUME Init PROVE NodeInv
  OBVIOUS
<1>2. PermitInv /\ PortInv
  BY <1>1, PermitInitially, PortInitially
<1>3. \A i \in Port : ptstate[i] = "FREE" /\ \A p \in Proc : frame[p].at = "user"
  BY <1>1 DEF Init, User
<1>4. Bounded
  BY <1>3, HoldingAre DEF Bounded
<1>5. \A p \in Proc : PanicSound(p)
  BY <1>1, FramesTyped DEF Init, PanicSound
<1>6. QED
  BY <1>2, <1>4, <1>5 DEF NodeInv

\* ptsend runs out of nodes, and panics, only if the ports that are in use were
\* created for more messages than there are nodes.
THEOREM PanicMeansOversubscribed ==
  ASSUME \A count \in Counts : count < UINT16
  PROVE  Spec => []PanicOnlyOversubscribed
<1>1. Init => NodeInv
  BY NodeInitially
<1>2. NodeInv /\ PermitInv' /\ [Next]_vars => NodeInv'
  BY NodeStepKeeps
<1>3. Spec => []PermitInv
  BY PermitInvAlways
<1>4. NodeInv => PanicOnlyOversubscribed
  BY PlacesExceedNodes DEF PanicOnlyOversubscribed
<1>5. QED
  BY <1>1, <1>2, <1>3, <1>4, PTL DEF Spec
=============================================================================
