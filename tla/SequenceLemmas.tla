--------------------------- MODULE SequenceLemmas ---------------------------
(***************************************************************************)
(* Least and greatest elements of sets of numbers, what inserting into a   *)
(* sequence and removing from it do to its elements, and the sums of the   *)
(* keys of a delta list.                                                   *)
(***************************************************************************)
EXTENDS Integers, Sequences, SequencesExt, Queues, FiniteSetsExt, TLAPS,
        SequenceTheorems, WellFoundedInduction, FiniteSetTheorems

\* Every non-empty set of naturals has a least element: the induction principle
\* of this development, in the one form that is not about a predicate.
LEMMA LeastNat ==
  ASSUME NEW S \in SUBSET Nat, S # {}
  PROVE  \E m \in S : \A n \in S : m <= n
<1> DEFINE R == OpToRel(<, Nat)
<1>1. IsWellFoundedOn(R, Nat)
  BY NatLessThanWellFounded
<1>2. \E m \in S : \A n \in S : <<n, m>> \notin R
  <2> HIDE DEF R
  <2> QED BY <1>1, WFMin
<1>3. \A m, n \in S : n < m => <<n, m>> \in R
  BY DEF OpToRel
<1>4. PICK m \in S : \A n \in S : <<n, m>> \notin R
  BY <1>2
<1>5. \A n \in S : ~(n < m)
  BY <1>3, <1>4
<1>6. QED
  BY <1>5

\* Min of a non-empty set of naturals is its least element.
LEMMA MinOfNats ==
  ASSUME NEW S \in SUBSET Nat, S # {}
  PROVE  Min(S) \in S /\ \A n \in S : Min(S) <= n
BY LeastNat DEF Min

\* Max of a non-empty set of numbers up to some natural is its greatest element.
LEMMA MaxOfNats ==
  ASSUME NEW k \in Nat, NEW S \in SUBSET (0..k), S # {}
  PROVE  Max(S) \in S /\ \A n \in S : Max(S) >= n
<1> DEFINE D == {k - x : x \in S}
<1>1. D \in SUBSET Nat /\ D # {}
  <2>1. \A x \in S : x \in Int /\ k - x \in Nat
    OBVIOUS
  <2>2. D \in SUBSET Nat
    BY <2>1
  <2>3. PICK x \in S : TRUE
    OBVIOUS
  <2>4. k - x \in D
    BY <2>3
  <2>5. QED
    BY <2>2, <2>4
<1>2. PICK d \in D : \A n \in D : d <= n
  <2> HIDE DEF D
  <2> QED BY <1>1, LeastNat
<1>3. PICK x \in S : d = k - x
  BY <1>2
<1>4. \A n \in S : x >= n
  <2>1. \A n \in S : k - n \in D
    OBVIOUS
  <2>2. SUFFICES ASSUME NEW n \in S PROVE x >= n
    OBVIOUS
  <2>3. k - x <= k - n
    BY <1>2, <1>3, <2>1
  <2>4. n \in Int /\ x \in Int
    OBVIOUS
  <2>5. QED
    BY <2>3, <2>4
<1>5. QED
  BY <1>4 DEF Max

\* InsertAt and RemoveAt, element by element: r is q with e at i, or without its
\* i-th element. As predicates, proofs can carry them about unexpanded.
Inserted(r, q, i, e) ==
  /\ Len(r) = Len(q) + 1
  /\ \A j \in 1..Len(q)+1 : r[j] = IF j < i THEN q[j] ELSE IF j = i THEN e ELSE q[j-1]

Removed(r, q, i) ==
  /\ Len(r) = Len(q) - 1
  /\ \A j \in 1..Len(q)-1 : r[j] = IF j < i THEN q[j] ELSE q[j+1]

LEMMA InsertAtInserts ==
  ASSUME NEW S, NEW q \in Seq(S), NEW i \in 1..Len(q)+1, NEW e \in S
  PROVE  InsertAt(q, i, e) \in Seq(S) /\ Inserted(InsertAt(q, i, e), q, i, e)
<1> DEFINE a == SubSeq(q, 1, i-1)
           b == SubSeq(q, i, Len(q))
           c == a \o <<e>>
           r == c \o b
<1>0. /\ Len(q) \in Nat /\ DOMAIN q = 1..Len(q) /\ i \in Int
      /\ \A j \in 1..Len(q) : q[j] \in S
  BY LenProperties, ElementOfSeq
<1>1. /\ a \in Seq(S) /\ Len(a) = i-1 /\ \A j \in 1..i-1 : a[j] = q[j]
  <2>1. \A j \in 1..i-1 : q[j] \in S
    BY <1>0
  <2>2. /\ a \in Seq(S) /\ Len(a) = IF 1 <= i-1 THEN i-1-1+1 ELSE 0
        /\ \A j \in 1..i-1-1+1 : a[j] = q[1+j-1]
    BY <1>0, <2>1, SubSeqProperties
  <2>3. QED
    BY <1>0, <2>2
<1>2. /\ b \in Seq(S) /\ Len(b) = Len(q)-i+1 /\ \A j \in 1..Len(q)-i+1 : b[j] = q[i+j-1]
  <2>1. \A j \in i..Len(q) : q[j] \in S
    BY <1>0
  <2>2. /\ b \in Seq(S) /\ Len(b) = IF i <= Len(q) THEN Len(q)-i+1 ELSE 0
        /\ \A j \in 1..Len(q)-i+1 : b[j] = q[i+j-1]
    BY <1>0, <2>1, SubSeqProperties
  <2>3. QED
    BY <1>0, <2>2
<1>3. <<e>> \in Seq(S) /\ Len(<<e>>) = 1 /\ <<e>>[1] = e
  OBVIOUS
<1> HIDE DEF a, b
<1>4. /\ c \in Seq(S) /\ Len(c) = i
      /\ \A j \in 1..i : c[j] = IF j = i THEN e ELSE q[j]
  <2>1. /\ c \in Seq(S) /\ Len(c) = i-1+1
        /\ \A j \in 1..i-1+1 : c[j] = IF j <= i-1 THEN a[j] ELSE <<e>>[j-(i-1)]
    BY <1>0, <1>1, <1>3, ConcatProperties
  <2>2. \A j \in 1..i : (j <= i-1) <=> (j # i)
    BY <1>0
  <2>3. /\ i-1+1 = i
        /\ <<e>>[i-(i-1)] = e
    BY <1>0, <1>3
  <2>4. ASSUME NEW j \in 1..i PROVE c[j] = IF j = i THEN e ELSE q[j]
    <3>1. CASE j = i
      BY <2>1, <2>2, <2>3, <3>1
    <3>2. CASE j # i
      <4>1. j \in 1..i-1
        BY <1>0, <3>2
      <4>2. QED
        BY <1>1, <2>1, <2>2, <2>3, <3>2, <4>1
    <3>3. QED
      BY <3>1, <3>2
  <2>5. QED
    BY <2>1, <2>3, <2>4
<1> HIDE DEF c
<1>5. /\ r \in Seq(S) /\ Len(r) = Len(q)+1
      /\ \A j \in 1..Len(q)+1 : r[j] = IF j < i THEN q[j] ELSE IF j = i THEN e ELSE q[j-1]
  <2>1. /\ r \in Seq(S) /\ Len(r) = i+(Len(q)-i+1)
        /\ \A j \in 1..i+(Len(q)-i+1) : r[j] = IF j <= i THEN c[j] ELSE b[j-i]
    <3>1. /\ c \o b \in Seq(S) /\ Len(c \o b) = Len(c)+Len(b)
          /\ \A j \in 1..Len(c)+Len(b) :
               (c \o b)[j] = IF j <= Len(c) THEN c[j] ELSE b[j-Len(c)]
      <4>1. c \in Seq(S) /\ b \in Seq(S)
        BY <1>2, <1>4
      <4>2. QED
        BY <4>1, ConcatProperties
    <3>2. Len(c) = i /\ Len(b) = Len(q)-i+1
      BY <1>2, <1>4
    <3>3. QED
      BY <3>1, <3>2
  <2> HIDE DEF r
  <2>2. i+(Len(q)-i+1) = Len(q)+1
    BY <1>0
  <2>3. ASSUME NEW j \in 1..Len(q)+1
        PROVE  r[j] = IF j < i THEN q[j] ELSE IF j = i THEN e ELSE q[j-1]
    <3>1. CASE j <= i
      BY <1>0, <1>4, <2>1, <2>2, <3>1
    <3>2. CASE j > i
      <4>1. j-i \in 1..Len(q)-i+1 /\ i+(j-i)-1 = j-1
        BY <1>0, <3>2
      <4>2. b[j-i] = q[j-1]
        BY <1>2, <4>1
      <4>3. r[j] = b[j-i]
        BY <1>0, <2>1, <2>2, <3>2
      <4>4. QED
        BY <1>0, <3>2, <4>2, <4>3
    <3>3. QED
      BY <1>0, <3>1, <3>2
  <2>4. QED
    BY <2>1, <2>2, <2>3
<1>6. InsertAt(q, i, e) = r
  BY DEF InsertAt, a, b, c
<1> HIDE DEF r
<1>7. Inserted(r, q, i, e)
  BY <1>5 DEF Inserted
<1>8. QED
  BY <1>5, <1>6, <1>7

LEMMA RemoveAtRemoves ==
  ASSUME NEW S, NEW q \in Seq(S), NEW i \in 1..Len(q)
  PROVE  RemoveAt(q, i) \in Seq(S) /\ Removed(RemoveAt(q, i), q, i)
<1> DEFINE a == SubSeq(q, 1, i-1)
           b == SubSeq(q, i+1, Len(q))
           r == a \o b
<1>0. /\ Len(q) \in Nat /\ DOMAIN q = 1..Len(q) /\ i \in Int
      /\ \A j \in 1..Len(q) : q[j] \in S
  BY LenProperties, ElementOfSeq
<1>1. /\ a \in Seq(S) /\ Len(a) = i-1 /\ \A j \in 1..i-1 : a[j] = q[j]
  <2>1. \A j \in 1..i-1 : q[j] \in S
    BY <1>0
  <2>2. /\ a \in Seq(S) /\ Len(a) = IF 1 <= i-1 THEN i-1-1+1 ELSE 0
        /\ \A j \in 1..i-1-1+1 : a[j] = q[1+j-1]
    BY <1>0, <2>1, SubSeqProperties
  <2>3. QED
    BY <1>0, <2>2
<1>2. /\ b \in Seq(S) /\ Len(b) = Len(q)-i /\ \A j \in 1..Len(q)-i : b[j] = q[i+j]
  <2>1. \A j \in i+1..Len(q) : q[j] \in S
    BY <1>0
  <2>2. /\ b \in Seq(S) /\ Len(b) = IF i+1 <= Len(q) THEN Len(q)-(i+1)+1 ELSE 0
        /\ \A j \in 1..Len(q)-(i+1)+1 : b[j] = q[(i+1)+j-1]
    BY <1>0, <2>1, SubSeqProperties
  <2> HIDE DEF b
  <2>3. Len(q)-(i+1)+1 = Len(q)-i /\ \A j \in 1..Len(q)-i : (i+1)+j-1 = i+j
    BY <1>0
  <2>4. Len(b) = Len(q)-i
    <3>1. CASE i+1 <= Len(q)
      BY <2>2, <2>3, <3>1
    <3>2. CASE ~(i+1 <= Len(q))
      <4>1. Len(b) = 0
        BY <2>2, <3>2
      <4>2. i = Len(q)
        <5>1. i \in Int /\ Len(q) \in Int /\ i <= Len(q)
          BY <1>0
        <5>2. QED
          BY <3>2, <5>1
      <4>3. Len(q)-i = 0
        BY <1>0, <4>2
      <4>4. QED
        BY <4>1, <4>3
    <3>3. QED
      BY <3>1, <3>2
  <2>5. QED
    BY <2>2, <2>3, <2>4
<1> HIDE DEF a, b
<1>3. /\ r \in Seq(S) /\ Len(r) = Len(q)-1
      /\ \A j \in 1..Len(q)-1 : r[j] = IF j < i THEN q[j] ELSE q[j+1]
  <2>1. /\ r \in Seq(S) /\ Len(r) = Len(a)+Len(b)
        /\ \A j \in 1..Len(a)+Len(b) : r[j] = IF j <= Len(a) THEN a[j] ELSE b[j-Len(a)]
    BY <1>1, <1>2, ConcatProperties
  <2> HIDE DEF r
  <2>2. Len(a)+Len(b) = Len(q)-1
    BY <1>0, <1>1, <1>2
  <2>3. ASSUME NEW j \in 1..Len(q)-1 PROVE r[j] = IF j < i THEN q[j] ELSE q[j+1]
    <3>1. CASE j < i
      BY <1>0, <1>1, <2>1, <2>2, <3>1
    <3>2. CASE j >= i
      <4>1. j-(i-1) \in 1..Len(q)-i /\ i+(j-(i-1)) = j+1
        BY <1>0, <3>2
      <4>2. r[j] = b[j-(i-1)]
        <5>1. ~(j <= i-1) /\ Len(a) = i-1
          BY <1>0, <1>1, <3>2
        <5>2. j \in 1..Len(a)+Len(b)
          BY <2>2
        <5>3. QED
          BY <2>1, <5>1, <5>2
      <4>3. b[j-(i-1)] = q[j+1]
        BY <1>2, <4>1
      <4>4. ~(j < i)
        BY <1>0, <3>2
      <4>5. QED
        BY <4>2, <4>3, <4>4
    <3>3. QED
      BY <1>0, <3>1, <3>2
  <2>4. QED
    BY <2>1, <2>2, <2>3
<1>4. RemoveAt(q, i) = r
  BY DEF RemoveAt, a, b
<1> HIDE DEF r
<1>5. Removed(r, q, i)
  BY <1>3 DEF Removed
<1>6. QED
  BY <1>3, <1>4, <1>5

\* Inserting a new element into a sequence without repetition adds it.
LEMMA InsertAtRange ==
  ASSUME NEW S, NEW q \in Seq(S), NEW i \in 1..Len(q)+1, NEW e \in S,
         IsInjective(q), e \notin Range(q)
  PROVE  /\ InsertAt(q, i, e) \in Seq(S)
         /\ Len(InsertAt(q, i, e)) = Len(q) + 1
         /\ IsInjective(InsertAt(q, i, e)) /\ Range(InsertAt(q, i, e)) = Range(q) \cup {e}
<1>1. PICK r : r = InsertAt(q, i, e)
  OBVIOUS
<1>0. /\ Len(q) \in Nat /\ DOMAIN q = 1..Len(q) /\ i \in Int
      /\ \A j \in 1..Len(q) : q[j] \in S
  BY LenProperties, ElementOfSeq
<1>5. /\ r \in Seq(S) /\ Len(r) = Len(q)+1
      /\ \A j \in 1..Len(q)+1 : r[j] = IF j < i THEN q[j] ELSE IF j = i THEN e ELSE q[j-1]
  <2>1. r \in Seq(S) /\ Inserted(r, q, i, e)
    BY <1>1, InsertAtInserts, Zenon
  <2>2. QED
    BY <2>1 DEF Inserted
<1>6. InsertAt(q, i, e) = r
  BY <1>1
<1>7. DOMAIN r = 1..Len(q)+1
  BY <1>5, LenProperties
<1>8. Range(r) = Range(q) \cup {e}
  <2>1. \A x \in Range(r) : x \in Range(q) \cup {e}
    <3>1. ASSUME NEW j \in 1..Len(q)+1 PROVE r[j] = e \/ \E m \in 1..Len(q) : r[j] = q[m]
      BY <1>0, <1>5
    <3>2. \A m \in 1..Len(q) : q[m] \in Range(q)
      BY <1>0 DEF IsInjective, Range
    <3>3. QED
      BY <1>7, <3>1, <3>2 DEF Range
  <2>2. e \in Range(r)
    BY <1>0, <1>5, <1>7 DEF Range
  <2>3. ASSUME NEW x \in Range(q) PROVE x \in Range(r)
    <3>1. PICK j \in 1..Len(q) : q[j] = x
      BY <1>0 DEF IsInjective, Range
    <3>2. r[j] = x \/ r[j+1] = x
      BY <1>0, <1>5, <3>1
    <3>3. QED
      BY <1>0, <1>7, <3>2 DEF Range
  <2>4. QED
    BY <2>1, <2>2, <2>3
<1>9. ASSUME NEW j \in DOMAIN r, NEW k \in DOMAIN r, r[j] = r[k] PROVE j = k
  <2>1. \A m \in 1..Len(q) : q[m] # e
    BY <1>0 DEF IsInjective, Range
  <2>2. \A m, n \in 1..Len(q) : q[m] = q[n] => m = n
    BY <1>0 DEF IsInjective
  <2>3. \A m \in DOMAIN r :
          \/ m < i /\ m \in 1..Len(q) /\ r[m] = q[m]
          \/ m = i /\ r[m] = e
          \/ m > i /\ m-1 \in 1..Len(q) /\ r[m] = q[m-1]
    BY <1>0, <1>5, <1>7
  <2>4. j \in Int /\ k \in Int
    BY <1>7
  <2>5. CASE j < i
    BY <1>0, <1>9, <2>1, <2>2, <2>3, <2>4, <2>5
  <2>6. CASE j = i
    BY <1>0, <1>9, <2>1, <2>3, <2>4, <2>6
  <2>7. CASE j > i
    BY <1>0, <1>9, <2>1, <2>2, <2>3, <2>4, <2>7
  <2>8. QED
    BY <1>0, <2>4, <2>5, <2>6, <2>7
<1>10. QED
  BY <1>5, <1>6, <1>8, <1>9 DEF IsInjective

\* Removing an entry of such a sequence removes its element.
LEMMA RemoveAtRange ==
  ASSUME NEW S, NEW q \in Seq(S), NEW i \in 1..Len(q), IsInjective(q)
  PROVE  /\ RemoveAt(q, i) \in Seq(S)
         /\ Len(RemoveAt(q, i)) = Len(q) - 1
         /\ IsInjective(RemoveAt(q, i)) /\ Range(RemoveAt(q, i)) = Range(q) \ {q[i]}
<1> DEFINE r == RemoveAt(q, i)
<1>0. /\ Len(q) \in Nat /\ DOMAIN q = 1..Len(q) /\ i \in Int
      /\ \A j \in 1..Len(q) : q[j] \in S
  BY LenProperties, ElementOfSeq
<1>3. /\ r \in Seq(S) /\ Len(r) = Len(q)-1
      /\ \A j \in 1..Len(q)-1 : r[j] = IF j < i THEN q[j] ELSE q[j+1]
  BY RemoveAtRemoves DEF Removed
<1>4. RemoveAt(q, i) = r
  OBVIOUS
<1>5. DOMAIN r = 1..Len(q)-1
  BY <1>3, LenProperties
<1> HIDE DEF r
<1>6. Range(r) = Range(q) \ {q[i]}
  <2>1. ASSUME NEW j \in 1..Len(q)-1 PROVE \E m \in 1..Len(q) \ {i} : r[j] = q[m]
    <3>1. CASE j < i
      <4>1. j \in 1..Len(q) \ {i} /\ r[j] = q[j]
        BY <1>0, <1>3, <3>1
      <4>2. QED
        BY <4>1
    <3>2. CASE ~(j < i)
      <4>1. j+1 \in 1..Len(q) \ {i} /\ r[j] = q[j+1]
        BY <1>0, <1>3, <3>2
      <4>2. QED
        BY <4>1
    <3>3. QED
      BY <3>1, <3>2
  <2>2. \A m \in 1..Len(q) : q[m] \in Range(q) /\ (q[m] = q[i] => m = i)
    BY <1>0 DEF IsInjective, Range
  <2>3. ASSUME NEW x \in Range(q), x # q[i] PROVE x \in Range(r)
    <3>1. PICK j \in 1..Len(q) : q[j] = x
      BY <1>0 DEF IsInjective, Range
    <3>2. j # i
      BY <2>3, <3>1
    <3>3. \E m \in 1..Len(q)-1 : r[m] = x
      <4>1. CASE j < i
        BY <1>0, <1>3, <3>1, <4>1
      <4>2. CASE j > i
        <5>1. j-1 \in 1..Len(q)-1 /\ ~(j-1 < i) /\ (j-1)+1 = j
          BY <1>0, <4>2
        <5>2. r[j-1] = q[j]
          BY <1>3, <5>1
        <5>3. QED
          BY <3>1, <5>1, <5>2
      <4>3. QED
        BY <1>0, <3>2, <4>1, <4>2
    <3>4. QED
      BY <1>5, <3>3 DEF Range
  <2>4. \A x \in Range(r) : x \in Range(q) \ {q[i]}
    BY <1>5, <2>1, <2>2 DEF Range
  <2>5. QED
    BY <2>3, <2>4
<1>7. ASSUME NEW j \in DOMAIN r, NEW k \in DOMAIN r, r[j] = r[k] PROVE j = k
  <2>1. \A m, n \in 1..Len(q) : q[m] = q[n] => m = n
    BY <1>0 DEF IsInjective
  <2>2. QED
    BY <1>0, <1>3, <1>5, <1>7, <2>1
<1>8. QED
  BY <1>3, <1>4, <1>6, <1>7 DEF IsInjective

\* So does dropping its head.
LEMMA TailRange ==
  ASSUME NEW S, NEW q \in Seq(S), IsInjective(q), q # <<>>
  PROVE  /\ Head(q) \in S /\ Head(q) \in Range(q)
         /\ Tail(q) \in Seq(S)
         /\ Len(Tail(q)) = Len(q) - 1
         /\ IsInjective(Tail(q)) /\ Range(Tail(q)) = Range(q) \ {Head(q)}
<1>0. Len(q) \in Nat \ {0} /\ DOMAIN q = 1..Len(q) /\ Head(q) = q[1]
  BY LenProperties, EmptySeq
<1>1. /\ Tail(q) \in Seq(S) /\ Len(Tail(q)) = Len(q)-1
      /\ \A j \in 1..Len(q)-1 : Tail(q)[j] = q[j+1]
  BY HeadTailProperties
<1> DEFINE t == Tail(q)
<1> HIDE DEF t
<1>2. DOMAIN t = 1..Len(q)-1 /\ \A j \in 1..Len(q)-1 : t[j] = q[j+1]
  BY <1>1, LenProperties DEF t
<1>3. q[1] \in Range(q) /\ \A j \in 1..Len(q) : q[j] = q[1] => j = 1
  BY <1>0 DEF IsInjective, Range
<1>4. Range(t) = Range(q) \ {q[1]}
  <2>1. ASSUME NEW j \in 1..Len(q)-1 PROVE t[j] \in Range(q) \ {q[1]}
    <3>1. j+1 \in 1..Len(q) /\ j+1 # 1
      BY <1>0
    <3>2. QED
      BY <1>0, <1>2, <1>3, <3>1 DEF IsInjective, Range
  <2>2. ASSUME NEW x \in Range(q), x # q[1] PROVE x \in Range(t)
    <3>1. PICK j \in 1..Len(q) : q[j] = x
      BY <1>0 DEF IsInjective, Range
    <3>2. j-1 \in 1..Len(q)-1 /\ (j-1)+1 = j
      BY <1>0, <2>2, <3>1
    <3>3. t[j-1] = x
      BY <1>2, <3>1, <3>2
    <3>4. QED
      BY <1>2, <3>2, <3>3 DEF Range
  <2>3. \A x \in Range(t) : x \in Range(q) \ {q[1]}
    BY <1>2, <2>1 DEF Range
  <2>4. QED
    BY <2>2, <2>3
<1>5. ASSUME NEW j \in DOMAIN t, NEW k \in DOMAIN t, t[j] = t[k] PROVE j = k
  <2>1. j+1 \in 1..Len(q) /\ k+1 \in 1..Len(q) /\ q[j+1] = q[k+1]
    BY <1>0, <1>2, <1>5
  <2>2. j+1 = k+1
    BY <1>0, <2>1 DEF IsInjective
  <2>3. QED
    BY <1>0, <1>2, <2>2
<1>6. IsInjective(t) /\ Range(t) = Range(q) \ {q[1]}
  BY <1>4, <1>5 DEF IsInjective
<1>7. Head(q) \in S
  BY HeadTailProperties
<1>8. QED
  BY <1>0, <1>1, <1>3, <1>6, <1>7 DEF t

\* Appending a new element to such a sequence adds it.
LEMMA AppendRange ==
  ASSUME NEW S, NEW q \in Seq(S), IsInjective(q), NEW e \in S, e \notin Range(q)
  PROVE  /\ Append(q, e) \in Seq(S)
         /\ Len(Append(q, e)) = Len(q) + 1
         /\ IsInjective(Append(q, e)) /\ Range(Append(q, e)) = Range(q) \cup {e}
<1> DEFINE r == Append(q, e)
<1>0. Len(q) \in Nat /\ DOMAIN q = 1..Len(q)
  BY LenProperties
<1>1. /\ r \in Seq(S) /\ Len(r) = Len(q)+1
      /\ \A j \in 1..Len(q) : r[j] = q[j]
      /\ r[Len(q)+1] = e
  BY AppendProperties
<1> HIDE DEF r
<1>2. DOMAIN r = 1..Len(q)+1
  BY <1>1, LenProperties
<1>3. \A j \in 1..Len(q) : q[j] \in Range(q) /\ q[j] # e
  BY <1>0 DEF IsInjective, Range
<1>4. Range(r) = Range(q) \cup {e}
  <2>1. ASSUME NEW x \in Range(q) PROVE x \in Range(r)
    <3>1. PICK j \in 1..Len(q) : q[j] = x
      BY <1>0 DEF IsInjective, Range
    <3>2. j \in 1..Len(q)+1 /\ r[j] = x
      BY <1>0, <1>1, <3>1
    <3>3. QED
      BY <1>2, <3>2 DEF Range
  <2>2. e \in Range(r)
    <3>1. Len(q)+1 \in 1..Len(q)+1
      BY <1>0
    <3>2. QED
      BY <1>1, <1>2, <3>1 DEF Range
  <2>3. ASSUME NEW j \in 1..Len(q)+1 PROVE r[j] \in Range(q) \cup {e}
    <3>1. j \in 1..Len(q) \/ j = Len(q)+1
      BY <1>0
    <3>2. QED
      BY <1>1, <1>3, <3>1
  <2>4. QED
    BY <1>2, <2>1, <2>2, <2>3 DEF Range
<1>5. ASSUME NEW j \in DOMAIN r, NEW k \in DOMAIN r, r[j] = r[k] PROVE j = k
  <2>1. \A m, n \in 1..Len(q) : q[m] = q[n] => m = n
    BY <1>0 DEF IsInjective
  <2>2. /\ j \in 1..Len(q) \/ j = Len(q)+1
        /\ k \in 1..Len(q) \/ k = Len(q)+1
    BY <1>0, <1>2
  <2>3. QED
    BY <1>1, <1>3, <1>5, <2>1, <2>2
<1>6. QED
  BY <1>1, <1>4, <1>5 DEF IsInjective, r

\* A finite set and the set of the different values given to its elements, or to
\* which they are sent, have as many elements.
LEMMA ImageCounted ==
  ASSUME NEW S, NEW T, NEW f \in [S -> T], IsFiniteSet(S) \/ IsFiniteSet(T),
         \A x, y \in S : f[x] = f[y] => x = y, \A t \in T : \E x \in S : f[x] = t
  PROVE  IsFiniteSet(S) /\ IsFiniteSet(T) /\ Cardinality(T) = Cardinality(S)
<1>1. f \in Injection(S, T)
  BY DEF Injection, IsInjective
<1>2. f \in Surjection(S, T)
  BY DEF Surjection
<1>3. CASE IsFiniteSet(S)
  BY <1>1, <1>2, <1>3, FS_Surjection
<1>4. CASE IsFiniteSet(T)
  BY <1>1, <1>2, <1>4, FS_Injection
<1>5. QED
  BY <1>3, <1>4

\* A list without repetitions is as long as the set of its elements.
LEMMA ListCounted ==
  ASSUME NEW S, NEW q \in Seq(S), IsInjective(q)
  PROVE  IsFiniteSet(Range(q)) /\ Cardinality(Range(q)) = Len(q)
<1>1. Len(q) \in Nat /\ DOMAIN q = 1..Len(q) /\ q \in [1..Len(q) -> S]
  BY LenProperties
<1>2. IsFiniteSet(1..Len(q)) /\ Cardinality(1..Len(q)) = Len(q)
  BY <1>1, FS_Interval
<1>3. q \in [1..Len(q) -> Range(q)]
  BY <1>1 DEF Range
<1>4. /\ \A x, y \in 1..Len(q) : q[x] = q[y] => x = y
      /\ \A t \in Range(q) : \E x \in 1..Len(q) : q[x] = t
  BY <1>1 DEF Range, IsInjective
<1>5. /\ IsFiniteSet(1..Len(q)) /\ IsFiniteSet(Range(q))
      /\ Cardinality(Range(q)) = Cardinality(1..Len(q))
  BY <1>2, <1>3, <1>4, ImageCounted, Zenon
<1>6. QED
  BY <1>2, <1>5
-----------------------------------------------------------------------------
\* The sums of a delta list are defined by the recursion of Elapsed: a least
\* prefix for which no such function existed could be extended from the one
\* before it.
LEMMA ElapsedSums ==
  ASSUME NEW P, NEW q \in Seq(P), NEW ks \in [P -> Int]
  PROVE  /\ Elapsed(q, ks)[0] = 0
         /\ \A i \in 1..Len(q) : Elapsed(q, ks)[i] = Elapsed(q, ks)[i-1] + ks[q[i]]
         /\ \A i \in 0..Len(q) : Elapsed(q, ks)[i] \in Int
<1> DEFINE Sums(f, k) ==
             f = [i \in 0..k |-> IF i = 0 THEN 0 ELSE f[i-1] + ks[q[i]]]
<1>0. Len(q) \in Nat
  BY LenProperties
<1>1. \A i \in 1..Len(q) : ks[q[i]] \in Int
  BY ElementOfSeq
<1>2. \A k \in 0..Len(q) : \E f : Sums(f, k)
  <2> DEFINE Bad == {k \in 0..Len(q) : ~\E f : Sums(f, k)}
  <2>1. SUFFICES ASSUME Bad # {} PROVE FALSE
    OBVIOUS
  <2>2. Bad \in SUBSET Nat
    BY <1>0
  <2>3. PICK k \in Bad : \A n \in Bad : k <= n
    <3> HIDE DEF Bad
    <3> QED BY <2>1, <2>2, LeastNat
  <2>4. CASE k = 0
    <3> DEFINE f == [i \in 0..0 |-> 0]
    <3>1. Sums(f, 0)
      OBVIOUS
    <3>2. QED
      BY <2>4, <3>1
  <2>5. CASE k # 0
    <3>1. k \in 1..Len(q) /\ k-1 \in 0..Len(q) /\ k-1 \notin Bad
      <4>1. k \in Nat /\ k \in 0..Len(q)
        BY <2>2, <2>3
      <4>2. k \in 1..Len(q) /\ k-1 \in Nat /\ k-1 \in 0..Len(q) /\ ~(k <= k-1)
        BY <1>0, <2>5, <4>1
      <4>3. k-1 \notin Bad
        <5> HIDE DEF Bad
        <5> QED BY <2>3, <4>2
      <4>4. QED
        BY <4>2, <4>3
    <3>2. PICK f : Sums(f, k-1)
      BY <3>1
    <3> DEFINE g == [i \in 0..k |-> IF i = k THEN f[k-1] + ks[q[k]] ELSE f[i]]
    <3>3. ASSUME NEW i \in 0..k
          PROVE  g[i] = IF i = 0 THEN 0 ELSE g[i-1] + ks[q[i]]
      <4>1. CASE i = 0
        BY <3>1, <3>2, <4>1
      <4>2. CASE i # 0
        <5>1. i-1 \in 0..k /\ i-1 # k /\ g[i-1] = f[i-1]
          BY <3>1, <4>2
        <5>2. CASE i = k
          BY <4>2, <5>1, <5>2
        <5>3. CASE i # k
          <6>1. i \in 0..k-1
            BY <3>1, <5>3
          <6>2. f[i] = f[i-1] + ks[q[i]]
            BY <3>2, <4>2, <6>1
          <6>3. QED
            BY <4>2, <5>1, <5>3, <6>2
        <5>4. QED
          BY <5>2, <5>3
      <4>3. QED
        BY <4>1, <4>2
    <3>4. Sums(g, k)
      BY <3>3
    <3>5. QED
      BY <3>4
  <2>6. QED
    BY <2>4, <2>5
<1> DEFINE e == CHOOSE f : Sums(f, Len(q))
<1>3. Sums(e, Len(q))
  <2>1. \E f : Sums(f, Len(q))
    BY <1>0, <1>2
  <2>2. QED
    BY <2>1
<1>4. Elapsed(q, ks) = e
  BY DEF Elapsed
<1> HIDE DEF e
<1>5. e[0] = 0 /\ \A i \in 1..Len(q) : e[i] = e[i-1] + ks[q[i]]
  BY <1>0, <1>3
<1>6. \A i \in 0..Len(q) : e[i] \in Int
  <2> DEFINE Bad == {i \in 0..Len(q) : e[i] \notin Int}
  <2>1. SUFFICES ASSUME Bad # {} PROVE FALSE
    OBVIOUS
  <2>2. Bad \in SUBSET Nat
    BY <1>0
  <2>3. PICK k \in Bad : \A n \in Bad : k <= n
    <3> HIDE DEF Bad
    <3> QED BY <2>1, <2>2, LeastNat
  <2>4. k # 0
    BY <1>5
  <2>5. k \in 1..Len(q) /\ k-1 \in 0..Len(q) /\ k-1 \notin Bad
    BY <1>0, <2>2, <2>3, <2>4
  <2>6. e[k-1] \in Int /\ ks[q[k]] \in Int
    BY <1>1, <2>5
  <2>7. e[k] \in Int
    BY <1>5, <2>5, <2>6
  <2>8. QED
    BY <2>7
<1>7. QED
  BY <1>4, <1>5, <1>6
=============================================================================
