----------------------------- MODULE TtyTheorems -----------------------------
(***************************************************************************)
(* The terminal driver, for buffers of every length, every number of       *)
(* readers and writers and every load: the distance between the two ends   *)
(* of each buffer is what its semaphore counts and has promised, what was  *)
(* typed and what was written is read and sent in order, and the           *)
(* transmitter overtakes nobody but a writer that had been woken.          *)
(*                                                                         *)
(* The inductive invariant TtyInv speaks of Total(s), what semaphore s     *)
(* counts plus what it has promised to processes in the middle of a call:  *)
(* a signal adds to it, a process that goes on takes from it, and a wake-  *)
(* up leaves it alone.                                                     *)
(***************************************************************************)
EXTENDS Tty, SequenceLemmas
-----------------------------------------------------------------------------
(* The two semaphores.                                                     *)

\* The characters (the strings, of which the provers do not know these three to be some).
Char == STRING \cup {"NL", "CR", "EOF"}
Sema == {"tyisem", "tyosem"}
Frame == [at : {"user", "read", "nextc", "write"}, left : Int, cooked : BOOLEAN,
          first : BOOLEAN, text : Seq(Char)]

\* The calls that wait for a semaphore, and the processes in the middle of one.
Places(s) == IF s = "tyisem" THEN {"read", "nextc"} ELSE {"write"}
Callers(s) == {p \in Proc : call[p].at \in Places(s)}

\* What a semaphore counts and what it has promised.
Total(s) == Semcount(s) + Cardinality(Callers(s))

SemsOK ==
  /\ call \in [Proc -> Frame]
  /\ count \in [Sema -> Nat]
  /\ queue \in [Sema -> Seq(Proc)]
  /\ \A s \in Sema :
       /\ IsInjective(queue[s]) /\ Range(queue[s]) \subseteq Callers(s)
       /\ queue[s] = <<>> \/ count[s] = 0
  /\ \A p \in Callers("tyosem") : call[p].text # <<>>

\* The processes in the middle of a call are those that wait and those that were woken.
LEMMA CallersCounted ==
  ASSUME SemsOK, NEW s \in Sema
  PROVE  /\ IsFiniteSet(Callers(s)) /\ Cardinality(Callers(s)) \in Nat
         /\ Len(queue[s]) \in Nat /\ count[s] \in Nat
         /\ Total(s) \in Int
         /\ Cardinality({p \in Callers(s) : p \notin Range(queue[s])}) \in Nat
         /\ Total(s) = count[s] + Cardinality({p \in Callers(s) : p \notin Range(queue[s])})
<1>1. IsFiniteSet(Proc)
  BY TtySizes
<1>2. PICK C : C = Callers(s)
  OBVIOUS
<1>3. C \subseteq Proc /\ IsFiniteSet(C) /\ Cardinality(C) \in Nat
  BY <1>1, <1>2, FS_Subset, FS_CardinalityType DEF Callers
<1>4. PICK q : q = queue[s]
  OBVIOUS
<1>5. q \in Seq(Proc) /\ IsInjective(q) /\ Range(q) \subseteq C /\ Len(q) \in Nat /\ count[s] \in Nat
  BY <1>2, <1>4 DEF SemsOK
<1>6. IsFiniteSet(Range(q)) /\ Cardinality(Range(q)) = Len(q)
  BY <1>5, ListCounted
<1>7. C \cap Range(q) = Range(q)
  BY <1>5
<1>8. /\ IsFiniteSet(C \ Range(q))
      /\ Cardinality(C \ Range(q)) = Cardinality(C) - Cardinality(C \cap Range(q))
  BY <1>3, FS_Difference
<1>9. Cardinality(C \ Range(q)) \in Nat
  BY <1>8, FS_CardinalityType
<1>10. {p \in Callers(s) : p \notin Range(queue[s])} = C \ Range(q)
  BY <1>2, <1>4
<1>11. Total(s) = count[s] - Len(q) + Cardinality(C)
  BY <1>2, <1>4 DEF Total, Semcount
<1>12. Cardinality(C \ Range(q)) = Cardinality(C) - Len(q)
  BY <1>6, <1>7, <1>8
<1>15. Total(s) = count[s] + Cardinality(C \ Range(q)) /\ Total(s) \in Int
  BY <1>3, <1>5, <1>11, <1>12
<1> HIDE DEF Total, Callers
<1>13. PICK W : W = C \ Range(q)
  OBVIOUS
<1>14. {p \in Callers(s) : p \notin Range(queue[s])} = W
  BY <1>10, <1>13
<1> QED BY <1>2, <1>3, <1>4, <1>5, <1>9, <1>13, <1>14, <1>15

\* A process that is not in the middle of a call waits for nothing, and one that is
\* waits for the semaphore of its call.
LEMMA WhoWaits ==
  ASSUME SemsOK, NEW p \in Proc
  PROVE  /\ Free(p) => ~Waiting(p) /\ \A s \in Sema : p \notin Callers(s)
         /\ \A s \in Sema : p \in Callers(s) => (Waiting(p) <=> p \in Range(queue[s]))
BY DEF SemsOK, Free, Waiting, Callers, Places, Sema

\* What is promised is no less than what a process that runs can use.
LEMMA UsableBound ==
  ASSUME SemsOK, NEW s \in Sema, NEW p \in Proc, ~Waiting(p), Free(p) \/ p \in Callers(s)
  PROVE  Usable(p, s) \in Nat /\ Usable(p, s) <= Total(s)
<1> DEFINE W == {x \in Callers(s) : x \notin Range(queue[s])}
<1>1. /\ Total(s) = count[s] + Cardinality(W) /\ count[s] \in Nat /\ Cardinality(W) \in Nat
      /\ IsFiniteSet(W)
  BY CallersCounted, FS_Subset
<1>2. CASE Free(p)
  <2> HIDE DEF W
  <2> QED BY <1>1, <1>2 DEF Usable
<1>3. CASE ~Free(p)
  <2>1. p \in W
    BY <1>3, WhoWaits
  <2>2. Cardinality(W) # 0
    BY <2>1, <1>1, FS_EmptySet
  <2> HIDE DEF W
  <2> QED BY <1>1, <1>3, <2>2 DEF Usable
<1> QED BY <1>2, <1>3

\* A call waits for one semaphore.
LEMMA TwoSemaphores ==
  ASSUME NEW s \in Sema, NEW t \in Sema, s # t
  PROVE  Places(s) \cap Places(t) = {} /\ "user" \notin Places(s)
BY DEF Sema, Places

\* p goes on with its call, or waits: nobody else is concerned.
LEMMA CallersChange ==
  ASSUME SemsOK, NEW s \in Sema, NEW p \in Proc, Free(p) \/ p \in Callers(s),
         NEW f \in Frame, f = Idle \/ f.at \in Places(s), call' = [call EXCEPT ![p] = f]
  PROVE  /\ call' \in [Proc -> Frame]
         /\ f = Idle => Callers(s)' = Callers(s) \ {p}
         /\ f.at \in Places(s) => Callers(s)' = Callers(s) \cup {p}
         /\ \A t \in Sema \ {s} : Callers(t)' = Callers(t)
<1>1. call \in [Proc -> Frame] /\ call' \in [Proc -> Frame]
  BY DEF SemsOK
<1>2. \A x \in Proc : call'[x] = IF x = p THEN f ELSE call[x]
  BY <1>1
<1>3. Idle.at = "user"
  BY DEF Idle
<1>4. "user" \notin Places(s)
  BY DEF Places, Sema
<1>5. f = Idle => Callers(s)' = Callers(s) \ {p}
  BY <1>2, <1>3, <1>4 DEF Callers
<1>6. f.at \in Places(s) => Callers(s)' = Callers(s) \cup {p}
  BY <1>2 DEF Callers
<1>7. ASSUME NEW t \in Sema \ {s} PROVE Callers(t)' = Callers(t)
  <2>1. Places(s) \cap Places(t) = {} /\ "user" \notin Places(t)
    BY TwoSemaphores
  <2>2. call[p].at \notin Places(t)
    BY <2>1 DEF Free, Callers
  <2>3. f.at \notin Places(t)
    BY <2>1, <1>3
  <2> QED BY <1>2, <2>2, <2>3 DEF Callers
<1> QED BY <1>1, <1>5, <1>6, <1>7

\* A process uses n permits, and waits for one more if it is not done: whatever it
\* was doing, n permits are gone, and no promise is lost.
LEMMA ConsumeKeeps ==
  ASSUME SemsOK, NEW s \in Sema, NEW p \in Proc,
         ~Waiting(p), Free(p) \/ p \in Callers(s),
         NEW n \in 0..Usable(p, s), NEW done \in BOOLEAN, NEW frame,
         Free(p) \/ ~done \/ n > 0,
         done \/ /\ frame \in Frame /\ frame.at \in Places(s) /\ n = Usable(p, s)
                 /\ s = "tyosem" => frame.text # <<>>,
         Consume(p, s, n, done, frame)
  PROVE  /\ SemsOK'
         /\ Total(s)' = Total(s) - n
         /\ Semcount(s)' <= Semcount(s)
         /\ \A t \in Sema \ {s} : Total(t)' = Total(t) /\ Semcount(t)' = Semcount(t)
<1>1. PICK f : f = IF done THEN Idle ELSE frame
  OBVIOUS
<1>2. Idle \in Frame
  BY EmptySeq DEF Idle, Frame
<1>3. f \in Frame /\ (f = Idle \/ f.at \in Places(s)) /\ call' = [call EXCEPT ![p] = f]
  BY <1>1, <1>2 DEF Consume
<1>4. /\ call' \in [Proc -> Frame]
      /\ f = Idle => Callers(s)' = Callers(s) \ {p}
      /\ f.at \in Places(s) => Callers(s)' = Callers(s) \cup {p}
      /\ \A t \in Sema \ {s} : Callers(t)' = Callers(t)
  BY <1>3, CallersChange
<1>5. /\ count \in [Sema -> Nat] /\ queue \in [Sema -> Seq(Proc)]
      /\ Usable(p, s) \in Nat /\ Usable(p, s) - n \in Nat
  BY UsableBound DEF SemsOK
<1>6. count' = [count EXCEPT ![s] = Usable(p, s) - n] /\ count' \in [Sema -> Nat]
  BY <1>5 DEF Consume
<1>7. PICK C : C = Callers(s)
  OBVIOUS
<1>8. PICK D : D = Callers(s)'
  OBVIOUS
<1>9. PICK q : q = queue[s]
  OBVIOUS
<1>10. /\ q \in Seq(Proc) /\ IsInjective(q) /\ Range(q) \subseteq C /\ Len(q) \in Nat
       /\ IsFiniteSet(C) /\ Cardinality(C) \in Nat /\ count[s] \in Nat
  BY <1>7, <1>9, CallersCounted DEF SemsOK
<1>11. p \notin Range(q) /\ (p \in C <=> ~Free(p))
  <2>1. Free(p) => p \notin C
    BY <1>7, WhoWaits
  <2>2. p \in C => p \notin Range(q)
    BY <1>7, <1>9, WhoWaits
  <2> QED BY <2>1, <2>2, <1>7, <1>10
<1>12. Semcount(s) = count[s] - Len(q) /\ Total(s) = count[s] - Len(q) + Cardinality(C)
  BY <1>7, <1>9 DEF Semcount, Total
<1>21. PICK k \in {0, 1} : k = IF p \in C THEN 1 ELSE 0
  OBVIOUS
<1>13. Usable(p, s) = count[s] + k
  BY <1>10, <1>11, <1>21 DEF Usable
<1>14. PICK r : r = queue'[s]
  OBVIOUS
<1>15. /\ Semcount(s)' = (Usable(p, s) - n) - Len(r)
       /\ Total(s)' = (Usable(p, s) - n) - Len(r) + Cardinality(D)
  BY <1>5, <1>6, <1>8, <1>14 DEF Semcount, Total
<1>16. /\ queue' \in [Sema -> Seq(Proc)]
       /\ \A t \in Sema \ {s} : queue'[t] = queue[t] /\ count'[t] = count[t]
       /\ r \in Seq(Proc) /\ IsInjective(r) /\ Range(r) \subseteq D
       /\ r = <<>> \/ count'[s] = 0
       /\ Total(s)' = Total(s) - n
       /\ Semcount(s)' <= Semcount(s)
  <2>1. CASE done
    <3>1. queue' = queue /\ D = C \ {p} /\ r = q
      BY <2>1, <1>1, <1>4, <1>7, <1>8, <1>9, <1>14 DEF Consume
    <3>2. Cardinality(D) = Cardinality(C) - k
      <4>1. Cardinality(D) = IF p \in C THEN Cardinality(C)-1 ELSE Cardinality(C)
        BY <3>1, <1>10, FS_RemoveElement
      <4> QED BY <4>1, <1>10, <1>21
    <3>3. Total(s)' = Total(s) - n
      BY <3>1, <3>2, <1>10, <1>12, <1>13, <1>15
    <3>6. (Free(p) /\ k = 0) \/ (n > 0 /\ n \in Int)
      BY <2>1, <1>11, <1>21, <1>5
    <3>4. Semcount(s)' <= Semcount(s)
      BY <3>1, <3>6, <1>5, <1>10, <1>12, <1>13, <1>15
    <3>5. r = <<>> \/ count'[s] = 0
      <4>1. CASE q = <<>>
        BY <4>1, <3>1
      <4>2. CASE q # <<>>
        <5>1. count[s] = 0
          BY <4>2, <1>9 DEF SemsOK
        <5>2. Usable(p, s) - n = 0
          BY <5>1, <3>6, <1>13, <1>5
        <5> QED BY <5>2, <1>6, <1>5
      <4> QED BY <4>1, <4>2
    <3> QED BY <3>1, <3>3, <3>4, <3>5, <1>5, <1>6, <1>10, <1>11
  <2>2. CASE ~done
    <3>1. queue' = [queue EXCEPT ![s] = Append(@, p)] /\ n = Usable(p, s)
      BY <2>2 DEF Consume
    <3>2. r = Append(q, p) /\ D = C \cup {p}
      BY <3>1, <2>2, <1>1, <1>3, <1>4, <1>5, <1>7, <1>8, <1>9, <1>14 DEF Idle, Places
    <3>3. /\ r \in Seq(Proc) /\ Len(r) = Len(q) + 1
          /\ IsInjective(r) /\ Range(r) = Range(q) \cup {p}
      BY <3>2, <1>10, <1>11, AppendRange
    <3>4. Cardinality(D) = Cardinality(C) + 1 - k
      <4>1. Cardinality(D) = IF p \in C THEN Cardinality(C) ELSE Cardinality(C)+1
        BY <3>2, <1>10, FS_AddElement
      <4> QED BY <4>1, <1>10, <1>21
    <3>5. Total(s)' = Total(s) - n
      <4>1. Total(s)' = (Usable(p, s) - n) - (Len(q) + 1) + (Cardinality(C) + 1 - k)
        BY <3>3, <3>4, <1>15
      <4>2. n \in Int /\ k \in Int
        BY <1>5, <1>21
      <4>3. PICK c \in Nat, l \in Nat, m \in Nat : c = count[s] /\ l = Len(q) /\ m = Cardinality(C)
        BY <1>10
      <4>4. Total(s) = c - l + m
        BY <4>3, <1>12
      <4>5. Total(s)' = (c + k - n) - (l + 1) + (m + 1 - k)
        BY <4>1, <4>3, <1>13
      <4>6. (c + k - n) - (l + 1) + (m + 1 - k) = (c - l + m) - n
        BY <4>2
      <4> QED BY <4>4, <4>5, <4>6
    <3>6. Semcount(s)' <= Semcount(s)
      <4>1. Semcount(s)' = 0 - (Len(q) + 1)
        BY <3>1, <3>3, <1>5, <1>15
      <4> QED BY <4>1, <1>10, <1>12
    <3>7. count'[s] = 0
      BY <3>1, <1>5, <1>6
    <3> QED BY <3>1, <3>2, <3>3, <3>5, <3>6, <3>7, <1>5, <1>6, <1>10
  <2> QED BY <2>1, <2>2
<1>17. ASSUME NEW t \in Sema
       PROVE  /\ IsInjective(queue'[t]) /\ Range(queue'[t]) \subseteq Callers(t)'
              /\ queue'[t] = <<>> \/ count'[t] = 0
  <2>1. CASE t = s
    BY <2>1, <1>8, <1>14, <1>16
  <2>2. CASE t # s
    <3>1. /\ IsInjective(queue[t]) /\ Range(queue[t]) \subseteq Callers(t)
          /\ queue[t] = <<>> \/ count[t] = 0
      BY DEF SemsOK
    <3>2. queue'[t] = queue[t] /\ count'[t] = count[t] /\ Callers(t)' = Callers(t)
      BY <2>2, <1>4, <1>16
    <3> HIDE DEF Callers
    <3> QED BY <3>1, <3>2
  <2> QED BY <2>1, <2>2
<1>18. ASSUME NEW x \in Proc, call'[x].at \in Places("tyosem") PROVE call'[x].text # <<>>
  <2>1. call'[x] = IF x = p THEN f ELSE call[x]
    BY <1>3 DEF SemsOK
  <2>2. x # p => call[x].text # <<>>
    BY <1>18, <2>1 DEF SemsOK, Callers
  <2>3. ASSUME x = p PROVE f.text # <<>>
    <3>1. f.at \in Places("tyosem")
      BY <2>1, <2>3, <1>18
    <3>2. f # Idle /\ s = "tyosem"
      BY <3>1, <1>3 DEF Places, Idle, Sema
    <3> QED BY <3>2, <1>1
  <2> QED BY <2>1, <2>2, <2>3
<1>19. SemsOK'
  <2>1. \A x \in Callers("tyosem")' : call'[x].text # <<>>
    BY <1>18 DEF Callers
  <2> QED BY <1>4, <1>6, <1>16, <1>17, <2>1 DEF SemsOK
<1>20. \A t \in Sema \ {s} : Total(t)' = Total(t) /\ Semcount(t)' = Semcount(t)
  BY <1>4, <1>16 DEF Total, Semcount
<1> QED BY <1>16, <1>19, <1>20

\* Permits are announced: they are counted, or end that many waits.
LEMMA Signalled ==
  ASSUME SemsOK, NEW s \in Sema, NEW n \in Nat, Signaln(s, n)
  PROVE  /\ count' \in [Sema -> Nat] /\ queue' \in [Sema -> Seq(Proc)]
         /\ \A t \in Sema : /\ IsInjective(queue'[t]) /\ Range(queue'[t]) \subseteq Range(queue[t])
                            /\ queue'[t] = <<>> \/ count'[t] = 0
         /\ Semcount(s)' = Semcount(s) + n
         /\ \A t \in Sema \ {s} : queue'[t] = queue[t] /\ count'[t] = count[t]
<1>1. PICK q : q = queue[s]
  OBVIOUS
<1>2. /\ count \in [Sema -> Nat] /\ queue \in [Sema -> Seq(Proc)]
      /\ q \in Seq(Proc) /\ IsInjective(q) /\ Len(q) \in Nat
      /\ count[s] \in Nat /\ (q = <<>> \/ count[s] = 0)
  BY <1>1, LenProperties DEF SemsOK
<1>3. PICK w : w = Min({n, Len(q)})
  OBVIOUS
<1>4. w \in {n, Len(q)} /\ w <= n /\ w <= Len(q)
  BY <1>2, <1>3, MinOfNats
<1>5. w \in Nat
  BY <1>2, <1>4
<1>6. /\ count' = [count EXCEPT ![s] = @ + n - w]
      /\ queue' = [queue EXCEPT ![s] = SubSeq(@, w + 1, Len(@))]
  BY <1>1, <1>3 DEF Signaln
<1>7. PICK r : r = SubSeq(q, w + 1, Len(q))
  OBVIOUS
<1>8. r \in Seq(Proc) /\ Len(r) = Len(q) - w /\ \A i \in 1..Len(r) : r[i] = q[w+i]
  BY <1>2, <1>4, <1>5, <1>7, SubSeqProperties
<1>9. IsInjective(r) /\ Range(r) \subseteq Range(q)
  <2>1. DOMAIN r = 1..Len(r) /\ DOMAIN q = 1..Len(q) /\ Len(r) \in Nat
    BY <1>2, <1>8, LenProperties
  <2>2. \A i \in 1..Len(r) : w + i \in 1..Len(q)
    BY <1>2, <1>4, <1>5, <1>8
  <2>3. Range(r) \subseteq Range(q)
    BY <2>1, <2>2, <1>8 DEF Range
  <2>4. ASSUME NEW i \in 1..Len(r), NEW j \in 1..Len(r), r[i] = r[j] PROVE i = j
    <3>1. q[w+i] = q[w+j] /\ w+i \in 1..Len(q) /\ w+j \in 1..Len(q)
      BY <2>2, <2>4, <1>8
    <3>2. w + i = w + j
      BY <3>1, <2>1, <1>2 DEF IsInjective
    <3> QED BY <3>2, <1>5
  <2> QED BY <2>1, <2>3, <2>4 DEF IsInjective
<1>10. /\ count' \in [Sema -> Nat] /\ count'[s] = count[s] + n - w
       /\ queue' \in [Sema -> Seq(Proc)] /\ queue'[s] = r
       /\ \A t \in Sema \ {s} : queue'[t] = queue[t] /\ count'[t] = count[t]
  BY <1>1, <1>2, <1>4, <1>5, <1>6, <1>7, <1>8
<1>11. r = <<>> \/ count'[s] = 0
  <2>1. CASE w = Len(q)
    BY <2>1, <1>8, <1>2, EmptySeq
  <2>2. CASE w # Len(q)
    <3>1. Len(q) # 0 /\ w = n
      BY <2>2, <1>4, <1>2, <1>5
    <3>2. q # <<>>
      BY <3>1, EmptySeq
    <3> QED BY <3>1, <3>2, <1>2, <1>10
  <2> QED BY <2>1, <2>2
<1>12. ASSUME NEW t \in Sema
       PROVE  /\ IsInjective(queue'[t]) /\ Range(queue'[t]) \subseteq Range(queue[t])
              /\ queue'[t] = <<>> \/ count'[t] = 0
  BY <1>1, <1>9, <1>10, <1>11 DEF SemsOK
<1>13. Semcount(s)' = Semcount(s) + n
  <2>1. Semcount(s) = count[s] - Len(q) /\ Semcount(s)' = count'[s] - Len(r)
    BY <1>1, <1>10 DEF Semcount
  <2> QED BY <2>1, <1>2, <1>5, <1>8, <1>10
<1> QED BY <1>10, <1>12, <1>13

\* What is announced is counted or promised, all of it.
LEMMA SignalKeeps ==
  ASSUME SemsOK, NEW s \in Sema, NEW n \in Nat, Signaln(s, n), call' = call
  PROVE  /\ SemsOK'
         /\ Total(s)' = Total(s) + n /\ Semcount(s)' = Semcount(s) + n
         /\ \A t \in Sema \ {s} : Total(t)' = Total(t) /\ Semcount(t)' = Semcount(t)
<1>1. /\ count' \in [Sema -> Nat] /\ queue' \in [Sema -> Seq(Proc)]
      /\ \A t \in Sema : /\ IsInjective(queue'[t]) /\ Range(queue'[t]) \subseteq Range(queue[t])
                         /\ queue'[t] = <<>> \/ count'[t] = 0
      /\ Semcount(s)' = Semcount(s) + n
      /\ \A t \in Sema \ {s} : queue'[t] = queue[t] /\ count'[t] = count[t]
  BY Signalled
<1>2. \A t \in Sema : Callers(t)' = Callers(t)
  BY DEF Callers
<1>3. SemsOK'
  <2>1. \A x \in Callers("tyosem")' : call'[x].text # <<>>
    BY <1>2 DEF SemsOK, Sema
  <2>2. ASSUME NEW t \in Sema PROVE Range(queue'[t]) \subseteq Callers(t)'
    BY <1>1, <1>2 DEF SemsOK
  <2>3. call' \in [Proc -> Frame]
    BY DEF SemsOK
  <2> QED BY <2>1, <2>2, <2>3, <1>1 DEF SemsOK
<1>4. PICK k : k = Cardinality(Callers(s))
  OBVIOUS
<1>9. Cardinality(Callers(s)) \in Nat /\ Len(queue[s]) \in Nat /\ count[s] \in Nat
  BY CallersCounted
<1>5. k \in Nat /\ Semcount(s) \in Int
  BY <1>4, <1>9 DEF Semcount
<1>8. Total(s) = Semcount(s) + k /\ Total(s)' = Semcount(s)' + k
  BY <1>2, <1>4 DEF Total
<1>6. Total(s)' = Total(s) + n
  BY <1>1, <1>5, <1>8
<1>7. \A t \in Sema \ {s} : Total(t)' = Total(t) /\ Semcount(t)' = Semcount(t)
  BY <1>1, <1>2 DEF Total, Semcount
<1> QED BY <1>1, <1>3, <1>6, <1>7

\* A process that was woken gives its permit back.
LEMMA GiveBackKeeps ==
  ASSUME SemsOK, NEW s \in Sema, NEW p \in Callers(s), ~Waiting(p), Signaln(s, 1),
         call' = [call EXCEPT ![p] = Idle]
  PROVE  /\ SemsOK'
         /\ Total(s)' = Total(s)
         /\ \A t \in Sema \ {s} : Total(t)' = Total(t) /\ Semcount(t)' = Semcount(t)
<1>1. /\ count' \in [Sema -> Nat] /\ queue' \in [Sema -> Seq(Proc)]
      /\ \A t \in Sema : /\ IsInjective(queue'[t]) /\ Range(queue'[t]) \subseteq Range(queue[t])
                         /\ queue'[t] = <<>> \/ count'[t] = 0
      /\ Semcount(s)' = Semcount(s) + 1
      /\ \A t \in Sema \ {s} : queue'[t] = queue[t] /\ count'[t] = count[t]
  BY Signalled
<1>2. p \in Proc /\ Idle \in Frame
  BY EmptySeq DEF Callers, Idle, Frame
<1>3. /\ call' \in [Proc -> Frame] /\ Callers(s)' = Callers(s) \ {p}
      /\ \A t \in Sema \ {s} : Callers(t)' = Callers(t)
  BY <1>2, CallersChange
<1>4. p \notin Range(queue[s])
  BY <1>2, WhoWaits
<1>5. ASSUME NEW t \in Sema PROVE Range(queue'[t]) \subseteq Callers(t)'
  <2>1. Range(queue[t]) \subseteq Callers(t)
    BY DEF SemsOK
  <2> QED BY <2>1, <1>1, <1>3, <1>4
<1>6. \A x \in Callers("tyosem")' : call'[x].text # <<>>
  <2>1. \A x \in Callers("tyosem")' : x \in Callers("tyosem") /\ call'[x] = call[x]
    BY <1>2, <1>3 DEF Callers, SemsOK, Idle, Places
  <2> QED BY <2>1 DEF SemsOK
<1>7. SemsOK'
  BY <1>1, <1>3, <1>5, <1>6 DEF SemsOK
<1>8. PICK C : C = Callers(s)
  OBVIOUS
<1>9. /\ IsFiniteSet(C) /\ Cardinality(C) \in Nat /\ Semcount(s) \in Int
      /\ Total(s) = Semcount(s) + Cardinality(C)
  <2>1. IsFiniteSet(Callers(s)) /\ Cardinality(Callers(s)) \in Nat
    BY CallersCounted
  <2>2. Len(queue[s]) \in Nat /\ count[s] \in Nat
    BY CallersCounted
  <2>3. Semcount(s) \in Int
    BY <2>2 DEF Semcount
  <2> QED BY <2>1, <2>3, <1>8 DEF Total
<1>13. Total(s)' = Semcount(s)' + Cardinality(C \ {p})
  BY <1>3, <1>8 DEF Total
<1>10. Cardinality(C \ {p}) = Cardinality(C) - 1
  BY <1>8, <1>9, FS_RemoveElement
<1>11. Total(s)' = Total(s)
  BY <1>1, <1>9, <1>10, <1>13
<1>12. \A t \in Sema \ {s} : Total(t)' = Total(t) /\ Semcount(t)' = Semcount(t)
  BY <1>1, <1>3 DEF Total, Semcount
<1> QED BY <1>7, <1>11, <1>12

\* Nothing happens to the semaphores.
LEMMA SemsStay ==
  ASSUME SemsOK, UNCHANGED <<count, queue, call>>
  PROVE  SemsOK' /\ \A t \in Sema : Total(t)' = Total(t) /\ Semcount(t)' = Semcount(t)
<1>1. \A t \in Sema : Callers(t)' = Callers(t)
  BY DEF Callers
<1>2. SemsOK'
  <2>1. \A x \in Callers("tyosem")' : call'[x].text # <<>>
    BY <1>1 DEF SemsOK, Sema
  <2>2. ASSUME NEW t \in Sema PROVE Range(queue'[t]) \subseteq Callers(t)'
    BY <1>1 DEF SemsOK
  <2> QED BY <2>1, <2>2 DEF SemsOK
<1> QED BY <1>1, <1>2 DEF Total, Semcount

-----------------------------------------------------------------------------
(* Remainders.                                                             *)

\* A number and its remainder differ by a multiple of the divisor.
LEMMA Remainder ==
  ASSUME NEW N \in Nat \ {0}, NEW a \in Int
  PROVE  a % N \in 0..N-1 /\ \E q \in Int : a = N*q + (a % N)
<1>1. a % N \in 0..N-1
  OBVIOUS
<1>2. a \div N \in Int /\ a = N * (a \div N) + (a % N)
  OBVIOUS
<1> QED BY <1>1, <1>2

\* Division with a remainder in its range is unique.
LEMMA RemainderUnique ==
  ASSUME NEW N \in Nat \ {0}, NEW a \in Int, NEW q \in Int, NEW r \in 0..N-1, a = N*q + r
  PROVE  a % N = r
OBVIOUS

\* Two numbers have the same remainder exactly if they differ by a multiple.
LEMMA SameRemainder ==
  ASSUME NEW N \in Nat \ {0}, NEW a \in Int, NEW b \in Int
  PROVE  a % N = b % N <=> \E q \in Int : a - b = N*q
<1>1. PICK x \in Int : a = N*x + (a % N)
  BY Remainder
<1>2. PICK y \in Int : b = N*y + (b % N)
  BY Remainder
<1>3. a % N \in 0..N-1 /\ b % N \in 0..N-1
  BY Remainder
<1>4. ASSUME a % N = b % N PROVE \E q \in Int : a - b = N*q
  <2>1. a - b = N*(x-y)
    BY <1>1, <1>2, <1>3, <1>4
  <2> QED BY <2>1
<1>5. ASSUME NEW q \in Int, a - b = N*q PROVE a % N = b % N
  <2>1. a = N*(y+q) + (b % N)
    BY <1>2, <1>3, <1>5
  <2>2. PICK k \in Int : k = y+q
    OBVIOUS
  <2>3. PICK r \in 0..N-1 : r = b % N
    BY <1>3
  <2>4. a = N*k + r
    BY <2>1, <2>2, <2>3
  <2>5. a % N = r
    BY <2>4, RemainderUnique
  <2> QED BY <2>3, <2>5
<1> QED BY <1>4, <1>5

\* Adding the same to both keeps remainders equal.
LEMMA RemainderAdd ==
  ASSUME NEW N \in Nat \ {0}, NEW a \in Int, NEW b \in Int, a % N = b % N
  PROVE  \A c \in Int : (a + c) % N = (b + c) % N
<1> TAKE c \in Int
<1>1. PICK q \in Int : a - b = N*q
  BY SameRemainder
<1>2. PICK u \in Int, v \in Int : u = a + c /\ v = b + c
  OBVIOUS
<1>3. \E k \in Int : u - v = N*k
  BY <1>1, <1>2
<1>4. u % N = v % N
  BY <1>3, SameRemainder
<1> QED BY <1>2, <1>4

\* A sum may be reduced before it is complete.
LEMMA RemainderOfSum ==
  ASSUME NEW N \in Nat \ {0}, NEW a \in Int, NEW c \in Int
  PROVE  ((a % N) + c) % N = (a + c) % N
<1>1. PICK q \in Int : a = N*q + (a % N)
  BY Remainder
<1>2. a % N \in Int
  BY Remainder
<1>3. (a + c) - ((a % N) + c) = N*q /\ a + c \in Int /\ (a % N) + c \in Int
  BY <1>1, <1>2
<1>4. \E k \in Int : (a + c) - ((a % N) + c) = N*k
  BY <1>3
<1> QED BY <1>3, <1>4, SameRemainder, Zenon

\* A multiple of the divisor may be added or dropped.
LEMMA RemainderOfMultiple ==
  ASSUME NEW N \in Nat \ {0}, NEW a \in Int, NEW q \in Int
  PROVE  (a + N*q) % N = a % N
<1>1. (a + N*q) - a = N*q /\ a + N*q \in Int
  OBVIOUS
<1>2. \E k \in Int : (a + N*q) - a = N*k
  BY <1>1
<1> QED BY <1>1, <1>2, SameRemainder, Zenon

\* Numbers less than the divisor apart have the same remainder only if equal.
LEMMA NearRemainder ==
  ASSUME NEW N \in Nat \ {0}, NEW a \in Int, NEW b \in Int, a - b < N, b - a < N
  PROVE  a % N = b % N <=> a = b
<1>1. ASSUME a % N = b % N PROVE a = b
  <2>1. PICK q \in Int : a - b = N*q
    BY <1>1, SameRemainder
  <2>2. q = 0
    BY <2>1
  <2> QED BY <2>1, <2>2
<1> QED BY <1>1

\* The divisor itself may be added.
LEMMA RemainderOfWhole ==
  ASSUME NEW N \in Nat \ {0}, NEW a \in Int
  PROVE  (a + N) % N = a % N
<1>1. PICK q \in Int : q = 1
  OBVIOUS
<1>2. (a + N*q) % N = a % N
  BY RemainderOfMultiple
<1>3. a + N*q = a + N
  BY <1>1
<1> QED BY <1>2, <1>3

\* A number in the range is its own remainder.
LEMMA SmallRemainder ==
  ASSUME NEW N \in Nat \ {0}, NEW a \in 0..N-1
  PROVE  a % N = a
OBVIOUS

(***************************************************************************)
(* Input: the buffer b, its head h and tail t, the characters announced or *)
(* promised w, the line being typed, what cbreak mode stored, and the      *)
(* characters typed; o is whether it was overrun, sm whether the driver    *)
(* wrote past its end.                                                     *)
(***************************************************************************)
InOK(b, h, t, w, cur, uns, ty, o, sm) ==
  /\ DOMAIN b = IbufPos /\ h \in IbufPos /\ cur \in IbufPos /\ uns \in IbufPos
  /\ ty \in Seq(Char)
  /\ sm => o
  /\ ~sm => /\ t \in 0..TY_IBUFLEN /\ (t = TY_IBUFLEN => cur = 0)
            /\ t % TY_IBUFLEN = (h + w + cur + uns) % TY_IBUFLEN
  /\ o => ty = <<>>
  /\ ~o => /\ w + cur <= Len(ty) /\ Len(ty) <= TY_IBUFLEN
           /\ t % TY_IBUFLEN = (h + Len(ty)) % TY_IBUFLEN
           /\ \A k \in 1..Len(ty) : b[(h + k - 1) % TY_IBUFLEN] = ty[k]
  /\ sm \/ t = TY_IBUFLEN => b[TY_IBUFLEN-1] = "EOF"

\* The lengths are positive.
LEMMA Sizes ==
  /\ TY_IBUFLEN \in Nat \ {0} /\ TY_OBUFLEN \in Nat \ {0} /\ TY_EBUFLEN \in Nat \ {0}
  /\ UART_FIFO_SIZE \in Nat \ {0}
BY TtySizes

\* n characters that were announced are read.
LEMMA TakeKeeps ==
  ASSUME NEW b, NEW h, NEW t, NEW w \in Int, NEW cur, NEW uns, NEW ty, NEW o \in BOOLEAN,
         InOK(b, h, t, w, cur, uns, ty, o, FALSE), NEW n \in Nat, n <= w
  PROVE  InOK(b, (h + n) % TY_IBUFLEN, t, w - n, cur, uns, SubSeq(ty, n+1, Len(ty)), o, FALSE)
<1> DEFINE L == TY_IBUFLEN
<1>0. L \in Nat \ {0}
  BY Sizes
<1>1. /\ DOMAIN b = IbufPos /\ h \in Int /\ cur \in Int /\ uns \in Int /\ t \in Int /\ cur >= 0
      /\ cur \in IbufPos /\ uns \in IbufPos /\ t \in 0..L
      /\ ty \in Seq(Char) /\ Len(ty) \in Nat
      /\ t = L => cur = 0 /\ b[L-1] = "EOF"
      /\ t % L = (h + w + cur + uns) % L
  BY <1>0, LenProperties DEF InOK, IbufPos
<1>2. PICK g : g = (h + n) % L
  OBVIOUS
<1>3. PICK r : r = SubSeq(ty, n+1, Len(ty))
  OBVIOUS
<1> HIDE DEF L
<1>4. g \in IbufPos /\ g \in Int
  <2>1. PICK a \in Int : a = h + n
    BY <1>1
  <2>2. a % L \in 0..L-1
    BY <1>0, Remainder
  <2> QED BY <2>1, <2>2, <1>2, <1>0 DEF IbufPos, L
<1>5. ASSUME NEW x \in Int PROVE (g + x) % L = (h + n + x) % L
  <2>1. PICK a \in Int : a = h + n
    BY <1>1
  <2>2. ((a % L) + x) % L = (a + x) % L
    BY <1>0, RemainderOfSum
  <2> QED BY <2>1, <2>2, <1>2
<1>6. t % L = (g + (w - n) + cur + uns) % L
  <2>1. PICK x \in Int : x = (w - n) + cur + uns
    BY <1>1
  <2>2. (g + x) % L = (h + n + x) % L
    BY <1>5
  <2>3. g + x = g + (w - n) + cur + uns /\ h + n + x = h + w + cur + uns
    BY <2>1, <1>1, <1>4
  <2> QED BY <2>2, <2>3, <1>1
<1>7. CASE o
  <2>1. ty = <<>> /\ Len(ty) = 0
    BY <1>7, EmptySeq DEF InOK
  <2>2. r = <<>>
    BY <2>1, <1>3, SubSeqEmpty
  <2>3. r \in Seq(Char)
    BY <2>2, EmptySeq
  <2>4. InOK(b, g, t, w - n, cur, uns, r, o, FALSE)
    BY <1>1, <1>4, <1>6, <1>7, <2>2, <2>3 DEF InOK, L
  <2> QED BY <2>4, <1>2, <1>3 DEF L
<1>8. CASE ~o
  <2>1. /\ w + cur <= Len(ty) /\ Len(ty) <= L
        /\ t % L = (h + Len(ty)) % L
        /\ \A k \in 1..Len(ty) : b[(h + k - 1) % L] = ty[k]
    BY <1>8 DEF InOK, L
  <2>2. n <= Len(ty)
    BY <2>1, <1>1
  <2>3. r \in Seq(Char) /\ Len(r) = Len(ty) - n /\ \A k \in 1..Len(r) : r[k] = ty[n+k]
    <3>1. /\ \A i \in n+1..Len(ty) : ty[i] \in Char
          /\ n + 1 \in Int
      BY <1>1, ElementOfSeq
    <3>2. /\ r \in Seq(Char) /\ Len(r) = IF n+1 <= Len(ty) THEN Len(ty)-(n+1)+1 ELSE 0
          /\ \A i \in 1..Len(ty)-(n+1)+1 : r[i] = ty[(n+1)+i-1]
      BY <3>1, <1>1, <1>3, SubSeqProperties
    <3>3. Len(r) = Len(ty) - n /\ Len(ty)-(n+1)+1 = Len(ty) - n
      BY <3>2, <2>2, <1>1
    <3>4. \A i \in 1..Len(r) : (n+1)+i-1 = n+i
      BY <3>3, <1>1
    <3> QED BY <3>2, <3>3, <3>4
  <2>4. t % L = (g + Len(r)) % L
    <3>0. Len(r) \in Nat
      BY <2>3, LenProperties
    <3>1. PICK x \in Int : x = Len(r)
      BY <3>0
    <3>2. (g + x) % L = (h + n + x) % L
      BY <1>5
    <3>3. h + n + x = h + Len(ty)
      BY <3>1, <1>1, <2>3
    <3> QED BY <3>1, <3>2, <3>3, <2>1
  <2>5. ASSUME NEW k \in 1..Len(r) PROVE b[(g + k - 1) % L] = r[k]
    <3>1. n + k \in 1..Len(ty)
      BY <1>1, <2>2, <2>3
    <3>2. PICK x \in Int : x = k - 1
      OBVIOUS
    <3>3. (g + x) % L = (h + n + x) % L
      BY <1>5
    <3>4. g + x = g + k - 1 /\ h + n + x = h + (n + k) - 1
      BY <3>2, <1>1, <1>4
    <3> QED BY <3>1, <3>3, <3>4, <2>1, <2>3
  <2>6. (w - n) + cur <= Len(r) /\ Len(r) <= L
    BY <2>1, <2>3, <1>0, <1>1
  <2>7. /\ (w - n) + cur <= Len(r) /\ Len(r) <= L
        /\ t % L = (g + Len(r)) % L
        /\ \A k \in 1..Len(r) : b[(g + k - 1) % L] = r[k]
    BY <2>4, <2>5, <2>6
  <2>8. PICK v : v = w - n
    OBVIOUS
  <2>9. InOK(b, g, t, v, cur, uns, r, o, FALSE)
    BY <1>1, <1>4, <1>6, <1>8, <2>3, <2>7, <2>8, Zenon DEF InOK, L
  <2> QED BY <2>8, <2>9, <1>2, <1>3 DEF L
<1> QED BY <1>7, <1>8

\* A character ch is stored, or lost behind the end of the buffer.
StoredAs(b, t, ty, o, ch, b2, ty2, o2, sm2) ==
  /\ b2 = IF t = TY_IBUFLEN THEN b ELSE [b EXCEPT ![t] = ch]
  /\ o2 \in BOOLEAN /\ (o2 <=> o \/ t = TY_IBUFLEN \/ Len(ty) >= TY_IBUFLEN)
  /\ ty2 = IF o2 THEN <<>> ELSE Append(ty, ch)
  /\ sm2 \in BOOLEAN /\ (sm2 <=> t = TY_IBUFLEN)

\* One character more is announced, or in the line being typed, or never announced.
OneMore(w, cur, uns, w2, cur2, uns2) ==
  /\ w2 \in Int /\ cur2 \in IbufPos /\ uns2 \in IbufPos
  /\ (w2 + cur2 + uns2) % TY_IBUFLEN = (w + cur + uns + 1) % TY_IBUFLEN
  /\ w2 + cur2 <= w + cur + 1

\* The tail moves on; it stays behind the buffer only with an EOF before it.
NextTail(t, ch, cur2, t2) ==
  /\ t2 = t + 1 \/ (t2 = 0 /\ t + 1 >= TY_IBUFLEN)
  /\ t2 = TY_IBUFLEN => cur2 = 0 /\ ch = "EOF"

\* A character is stored at the tail: it is announced, or belongs to the line being
\* typed, or is one of those that cbreak mode never announces.
LEMMA StoreKeeps ==
  ASSUME NEW b, NEW h, NEW t, NEW w \in Int, NEW cur, NEW uns, NEW ty, NEW o \in BOOLEAN,
         InOK(b, h, t, w, cur, uns, ty, o, FALSE), NEW ch \in Char,
         NEW w2, NEW cur2, NEW uns2, OneMore(w, cur, uns, w2, cur2, uns2),
         NEW t2, NextTail(t, ch, cur2, t2),
         NEW b2, NEW ty2, NEW o2, NEW sm2, StoredAs(b, t, ty, o, ch, b2, ty2, o2, sm2)
  PROVE  InOK(b2, h, t2, w2, cur2, uns2, ty2, o2, sm2)
<1>h. /\ w2 \in Int /\ cur2 \in IbufPos /\ uns2 \in IbufPos
      /\ (w2 + cur2 + uns2) % TY_IBUFLEN = (w + cur + uns + 1) % TY_IBUFLEN
      /\ w2 + cur2 <= w + cur + 1
      /\ t2 = t + 1 \/ (t2 = 0 /\ t + 1 >= TY_IBUFLEN)
      /\ t2 = TY_IBUFLEN => cur2 = 0 /\ ch = "EOF"
      /\ b2 = IF t = TY_IBUFLEN THEN b ELSE [b EXCEPT ![t] = ch]
      /\ o2 \in BOOLEAN /\ (o2 <=> o \/ t = TY_IBUFLEN \/ Len(ty) >= TY_IBUFLEN)
      /\ ty2 = IF o2 THEN <<>> ELSE Append(ty, ch)
      /\ sm2 \in BOOLEAN /\ (sm2 <=> t = TY_IBUFLEN)
  BY DEF OneMore, NextTail, StoredAs
<1> USE <1>h
<1> DEFINE L == TY_IBUFLEN
<1>0. L \in Nat \ {0} /\ IbufPos = 0..L-1
  BY Sizes DEF IbufPos
<1>z. L \in Nat \ {0}
  BY <1>0
<1>1. /\ DOMAIN b = IbufPos /\ h \in Int /\ h \in IbufPos /\ cur \in Int /\ uns \in Int /\ t \in Int
      /\ t \in 0..L
      /\ ty \in Seq(Char) /\ Len(ty) \in Nat
      /\ t = L => b[L-1] = "EOF"
      /\ t % L = (h + w + cur + uns) % L
  BY <1>0, LenProperties DEF InOK
<1>2. cur2 \in Int /\ uns2 \in Int
  BY <1>0
<1> HIDE DEF L
<1>3. CASE t = L
  <2>1. sm2 /\ o2 /\ b2 = b /\ ty2 = <<>>
    BY <1>3 DEF L
  <2>2. ty2 \in Seq(Char)
    BY <2>1, EmptySeq
  <2> QED BY <1>1, <1>3, <2>1, <2>2 DEF InOK, L
<1>4. CASE t # L
  <2>1. t \in 0..L-1 /\ t \in IbufPos /\ ~sm2 /\ b2 = [b EXCEPT ![t] = ch]
    BY <1>0, <1>1, <1>4 DEF L
  <2>2. t2 \in 0..L /\ t2 \in Int /\ DOMAIN b2 = IbufPos
    BY <2>1, <1>0, <1>1 DEF L
  <2>3. t2 % L = (t + 1) % L
    <3>1. CASE t2 = t + 1
      BY <3>1
    <3>2. CASE t2 = 0 /\ t + 1 >= L
      <4>1. t + 1 = L /\ t + 1 = 0 + L
        BY <3>2, <2>1, <1>0, <1>1
      <4>2. PICK z \in Int : z = 0
        OBVIOUS
      <4>3. (z + L) % L = z % L
        BY <1>0, RemainderOfWhole
      <4> QED BY <3>2, <4>1, <4>2, <4>3
    <3> QED BY <3>1, <3>2 DEF L
  <2>4. t2 % L = (h + w2 + cur2 + uns2) % L
    <3>1. PICK a \in Int : a = h + w + cur + uns
      BY <1>1
    <3>2. (t + 1) % L = (a + 1) % L
      <4>1. t % L = a % L
        BY <3>1, <1>1
      <4>2. \A c \in Int : (t + c) % L = (a + c) % L
        BY <4>1, <1>1, <1>z, RemainderAdd, Zenon
      <4> QED BY <4>2
    <3>3. PICK x \in Int, y \in Int : x = w2 + cur2 + uns2 /\ y = w + cur + uns + 1
      BY <1>1, <1>2
    <3>4. x % L = y % L
      BY <3>3, Zenon DEF L
    <3>5. PICK u \in Int, v \in Int : u = x + h /\ v = y + h
      BY <1>1
    <3>6. u % L = v % L
      <4>1. \A c \in Int : (x + c) % L = (y + c) % L
        <5> HIDE <1>h
        <5> QED BY <3>4, <1>z, RemainderAdd, Zenon
      <4> QED BY <4>1, <3>5, <1>1
    <3>7. v = a + 1 /\ u = h + w2 + cur2 + uns2
      BY <3>1, <3>3, <3>5, <1>1, <1>2
    <3> QED BY <2>3, <3>2, <3>6, <3>7
  <2>5. t2 = L => /\ cur2 = 0 /\ b2[L-1] = "EOF"
    <3>1. ASSUME t2 = L PROVE cur2 = 0 /\ b2[L-1] = "EOF"
      <4>1. t = L - 1 /\ ch = "EOF" /\ cur2 = 0
        BY <3>1, <2>1, <1>0, <1>1 DEF L
      <4> QED BY <4>1, <2>1, <1>1
    <3> QED BY <3>1
  <2>6. CASE o2
    <3>1. ty2 = <<>> /\ ty2 \in Seq(Char)
      BY <2>6, EmptySeq
    <3> QED BY <1>1, <2>1, <2>2, <2>4, <2>5, <2>6, <3>1 DEF InOK, L
  <2>7. CASE ~o2
    <3>1. ~o /\ Len(ty) < L /\ ty2 = Append(ty, ch)
      BY <2>7, <1>0, <1>1 DEF L
    <3>2. /\ w + cur <= Len(ty)
          /\ t % L = (h + Len(ty)) % L
          /\ \A k \in 1..Len(ty) : b[(h + k - 1) % L] = ty[k]
      BY <3>1 DEF InOK, L
    <3>3. /\ ty2 \in Seq(Char) /\ Len(ty2) = Len(ty) + 1 /\ ty2[Len(ty)+1] = ch
          /\ \A k \in 1..Len(ty) : ty2[k] = ty[k]
      <4>1. ty \in Seq(Char) /\ ty2 = Append(ty, ch)
        BY <3>1, <1>1
      <4>2. /\ Append(ty, ch) \in Seq(Char) /\ Len(Append(ty, ch)) = Len(ty) + 1
            /\ Append(ty, ch)[Len(ty)+1] = ch /\ \A k \in 1..Len(ty) : Append(ty, ch)[k] = ty[k]
        BY <4>1, AppendProperties
      <4> QED BY <4>1, <4>2
    <3>4. t2 % L = (h + Len(ty2)) % L
      <4>1. PICK a \in Int : a = h + Len(ty)
        BY <1>1
      <4>5. t % L = a % L
        BY <4>1, <3>2
      <4>2. \A c \in Int : (t + c) % L = (a + c) % L
        BY <4>5, <1>1, <1>z, RemainderAdd, Zenon
      <4>3. (t + 1) % L = (a + 1) % L
        BY <4>2
      <4>4. a + 1 = h + Len(ty2)
        BY <4>1, <3>3, <1>1
      <4> QED BY <4>3, <4>4, <2>3
    <3>5. t = (h + Len(ty)) % L
      <4>1. t % L = t
        BY <2>1, <1>0, SmallRemainder
      <4> QED BY <4>1, <3>2
    <3>6. ASSUME NEW k \in 1..Len(ty2) PROVE b2[(h + k - 1) % L] = ty2[k]
      <4>1. PICK a \in Int : a = h + k - 1
        BY <1>1
      <4>2. a % L \in IbufPos
        BY <1>0, Remainder
      <4>3. CASE k = Len(ty) + 1
        <5>1. a = h + Len(ty)
          BY <4>1, <4>3, <1>1
        <5>2. b2[t] = ch
          BY <2>1, <1>1
        <5> QED BY <4>1, <4>3, <5>1, <5>2, <3>3, <3>5
      <4>4. CASE k # Len(ty) + 1
        <5>1. k \in 1..Len(ty)
          BY <4>4, <3>3, <1>1
        <5>2. PICK c \in Int : c = h + Len(ty)
          BY <1>1
        <5>3. a # c /\ c - a < L /\ a - c < L
          <6>1. PICK n \in Nat : n = Len(ty)
            BY <1>1
          <6>2. k \in Int /\ h \in Int /\ L \in Int /\ 1 <= k /\ k <= n /\ n < L
            BY <3>1, <5>1, <6>1, <1>1, <1>z
          <6>3. a = h + k - 1 /\ c = h + n
            BY <4>1, <5>2, <6>1
          <6> HIDE <1>h
          <6> QED BY <6>2, <6>3
        <5>4. a % L # c % L
          BY <5>3, <1>0, NearRemainder
        <5>5. b2[a % L] = b[a % L]
          BY <5>2, <5>4, <4>2, <3>5, <2>1, <1>1
        <5> QED BY <4>1, <5>1, <5>5, <3>2, <3>3
      <4> QED BY <4>3, <4>4
    <3>7. /\ w2 + cur2 <= Len(ty2) /\ Len(ty2) <= L
      <4>1. PICK n \in Nat, x \in Int, y \in Int : n = Len(ty) /\ x = w2 + cur2 /\ y = w + cur
        BY <1>1, <1>2
      <4>2. Len(ty2) = n + 1 /\ y <= n /\ n < L /\ L \in Int
        BY <3>1, <3>2, <3>3, <4>1, <1>z
      <4>3. x <= y + 1
        BY <4>1
      <4> HIDE <1>h
      <4>4. x <= n + 1 /\ n + 1 <= L
        BY <4>2, <4>3
      <4> QED BY <4>1, <4>2, <4>4
    <3>8. \A k \in 1..Len(ty2) : b2[(h + k - 1) % L] = ty2[k]
      BY <3>6
    <3> QED BY <1>1, <2>1, <2>2, <2>4, <2>5, <2>7, <3>3, <3>4, <3>7, <3>8 DEF InOK, L
  <2> QED BY <2>6, <2>7
<1> QED BY <1>3, <1>4

\* The line being typed loses its last n characters.
LEMMA RetractKeeps ==
  ASSUME NEW b, NEW h, NEW t, NEW w \in Nat, NEW cur, NEW uns, NEW ty, NEW o \in BOOLEAN,
         InOK(b, h, t, w, cur, uns, ty, o, FALSE),
         NEW n \in Nat, n <= cur,
         NEW t2, t2 = IF t - n < 0 THEN t - n + TY_IBUFLEN ELSE t - n
  PROVE  InOK(b, h, t2, w, cur - n, uns, SubSeq(ty, 1, Len(ty) - n), o, FALSE)
<1> DEFINE L == TY_IBUFLEN
<1>0. L \in Nat \ {0} /\ IbufPos = 0..L-1
  BY Sizes DEF IbufPos
<1>z. L \in Nat \ {0}
  BY <1>0
<1>1. /\ DOMAIN b = IbufPos /\ h \in Int /\ h \in IbufPos /\ cur \in 0..L-1 /\ uns \in Int
      /\ uns \in IbufPos /\ t \in Int /\ t \in 0..L
      /\ ty \in Seq(Char) /\ Len(ty) \in Nat
      /\ t = L => cur = 0 /\ b[L-1] = "EOF"
      /\ t % L = (h + w + cur + uns) % L
  BY <1>0, LenProperties DEF InOK
<1>2. PICK r : r = SubSeq(ty, 1, Len(ty) - n)
  OBVIOUS
<1>3. PICK c \in Int : c = cur - n
  BY <1>1
<1> HIDE DEF L
<1>4. t2 \in 0..L /\ c \in 0..L-1 /\ (t2 = L => t = L)
  BY <1>0, <1>1, <1>3 DEF L
<1>5. t2 % L = (t - n) % L
  <2>1. PICK a \in Int : a = t - n
    BY <1>1
  <2>2. CASE t2 = a
    BY <2>1, <2>2
  <2>3. CASE t2 = a + L
    <3>1. (a + L) % L = a % L
      BY <1>0, RemainderOfWhole
    <3> QED BY <2>1, <2>3, <3>1
  <2> QED BY <2>1, <2>2, <2>3 DEF L
<1>6. ASSUME NEW a \in Int, t % L = a % L PROVE t2 % L = (a - n) % L
  <2>1. PICK u \in Int, v \in Int : u = t - n /\ v = a - n
    BY <1>1
  <2>0. t \in Int
    BY <1>1
  <2>2. \A d \in Int : (t + d) % L = (a + d) % L
    BY <2>0, <1>6, <1>z, RemainderAdd, Zenon
  <2>3. PICK m \in Int : m = -n
    OBVIOUS
  <2>4. (t + m) % L = (a + m) % L
    BY <2>2
  <2>5. t + m = u /\ a + m = v
    BY <2>1, <2>3, <1>1
  <2> QED BY <2>1, <2>4, <2>5, <1>5
<1>7. t2 % L = (h + w + c + uns) % L
  <2>1. PICK a \in Int : a = h + w + cur + uns
    BY <1>1
  <2>2. t2 % L = (a - n) % L
    BY <2>1, <1>1, <1>6
  <2>3. a - n = h + w + c + uns
    BY <2>1, <1>1, <1>3
  <2> QED BY <2>2, <2>3
<1>8. t2 = L => c = 0 /\ b[L-1] = "EOF"
  BY <1>1, <1>3, <1>4
<1>9. CASE o
  <2>1. ty = <<>> /\ Len(ty) = 0
    BY <1>9, EmptySeq DEF InOK
  <2>2. r = <<>>
    BY <2>1, <1>2, SubSeqEmpty
  <2>3. r \in Seq(Char)
    BY <2>2, EmptySeq
  <2>4. InOK(b, h, t2, w, c, uns, r, o, FALSE)
    BY <1>0, <1>1, <1>4, <1>7, <1>8, <1>9, <2>2, <2>3 DEF InOK, L
  <2> QED BY <2>4, <1>2, <1>3 DEF L
<1>10. CASE ~o
  <2>1. /\ w + cur <= Len(ty) /\ Len(ty) <= L
        /\ t % L = (h + Len(ty)) % L
        /\ \A k \in 1..Len(ty) : b[(h + k - 1) % L] = ty[k]
    BY <1>10 DEF InOK, L
  <2>2. Len(ty) - n \in Nat
    BY <2>1, <1>1
  <2>3. r \in Seq(Char) /\ Len(r) = Len(ty) - n /\ \A k \in 1..Len(r) : r[k] = ty[k]
    <3>1. \A i \in 1..Len(ty)-n : ty[i] \in Char
      BY <1>1, ElementOfSeq
    <3>2. /\ r \in Seq(Char) /\ Len(r) = IF 1 <= Len(ty)-n THEN Len(ty)-n-1+1 ELSE 0
          /\ \A i \in 1..Len(ty)-n-1+1 : r[i] = ty[1+i-1]
      BY <3>1, <2>2, <1>1, <1>2, SubSeqProperties
    <3>3. Len(r) = Len(ty) - n /\ Len(ty)-n-1+1 = Len(ty) - n
      BY <3>2, <2>2, <1>1
    <3>4. \A i \in 1..Len(r) : 1+i-1 = i
      BY <3>3, <1>1
    <3> QED BY <3>2, <3>3, <3>4
  <2>4. t2 % L = (h + Len(r)) % L
    <3>1. PICK a \in Int : a = h + Len(ty)
      BY <1>1
    <3>2. t2 % L = (a - n) % L
      BY <3>1, <2>1, <1>6
    <3>3. a - n = h + Len(r)
      BY <3>1, <2>3, <1>1
    <3> QED BY <3>2, <3>3
  <2>5. \A k \in 1..Len(r) : b[(h + k - 1) % L] = r[k]
    <3>1. \A k \in 1..Len(r) : k \in 1..Len(ty)
      BY <2>3, <1>1
    <3> QED BY <3>1, <2>1, <2>3
  <2>6. w + c <= Len(r) /\ Len(r) <= L
    BY <2>1, <2>3, <1>0, <1>1, <1>3
  <2>7. InOK(b, h, t2, w, c, uns, r, o, FALSE)
    BY <1>0, <1>1, <1>4, <1>7, <1>8, <1>10, <2>3, <2>4, <2>5, <2>6 DEF InOK, L
  <2> QED BY <2>7, <1>2, <1>3 DEF L
<1> QED BY <1>9, <1>10

(***************************************************************************)
(* Output: the buffer b, its head h and tail t, the places that are free   *)
(* or promised w, what the semaphore counts sc, and the characters written *)
(* and not yet sent; o is whether the transmitter ran ahead of a writer.   *)
(***************************************************************************)
OutOK(b, h, t, w, sc, wr, o) ==
  /\ DOMAIN b = ObufPos /\ h \in ObufPos /\ t \in ObufPos /\ wr \in Seq(Char)
  /\ sc <= TY_OBUFLEN
  /\ (t + w) % TY_OBUFLEN = h % TY_OBUFLEN
  /\ ~o => /\ w + Len(wr) = TY_OBUFLEN
           /\ \A k \in 1..Len(wr) : b[(h + k - 1) % TY_OBUFLEN] = wr[k]

\* As many characters as there are places are stored.
LEMMA PutKeeps ==
  ASSUME NEW b, NEW h, NEW t, NEW w \in Nat, NEW sc \in Int, NEW wr, NEW o \in BOOLEAN,
         OutOK(b, h, t, w, sc, wr, o),
         NEW text \in Seq(Char), NEW n \in Nat, n <= w, n <= Len(text),
         NEW sc2 \in Int, sc2 <= sc,
         NEW b2, DOMAIN b2 = ObufPos,
         \A i \in ObufPos : b2[i] = IF ((i - t) % TY_OBUFLEN) + 1 <= n
                                   THEN text[((i - t) % TY_OBUFLEN) + 1] ELSE b[i]
  PROVE  OutOK(b2, h, (t + n) % TY_OBUFLEN, w - n, sc2, wr \o SubSeq(text, 1, n), o)
<1> DEFINE M == TY_OBUFLEN
<1>0. M \in Nat \ {0} /\ ObufPos = 0..M-1
  BY Sizes DEF ObufPos
<1>z. M \in Nat \ {0}
  BY <1>0
<1>1. /\ h \in Int /\ h \in ObufPos /\ t \in Int /\ t \in 0..M-1
      /\ wr \in Seq(Char) /\ Len(wr) \in Nat /\ Len(text) \in Nat /\ sc2 <= M
      /\ (t + w) % M = h % M /\ DOMAIN b2 = ObufPos
  BY <1>0, LenProperties DEF OutOK
<1>i. h \in Int /\ t \in Int /\ Len(wr) \in Nat /\ Len(text) \in Nat
  BY <1>1
<1>2. PICK g : g = (t + n) % M
  OBVIOUS
<1>3. PICK u : u = SubSeq(text, 1, n)
  OBVIOUS
<1>4. PICK r : r = wr \o u
  OBVIOUS
<1> HIDE DEF M
<1>5. g \in ObufPos /\ g \in Int
  <2>1. PICK a \in Int : a = t + n
    BY <1>1
  <2>2. a % M \in 0..M-1
    BY <1>z, Remainder
  <2> QED BY <2>1, <2>2, <1>2, <1>0
<1>6. (g + (w - n)) % M = h % M
  <2>1. PICK a \in Int, c \in Int : a = t + n /\ c = w - n
    BY <1>1
  <2>2. ((a % M) + c) % M = (a + c) % M
    BY <1>z, RemainderOfSum
  <2>3. a + c = t + w
    BY <2>1, <1>1
  <2> QED BY <2>1, <2>2, <2>3, <1>1, <1>2
<1>7. u \in Seq(Char) /\ Len(u) = n /\ \A k \in 1..n : u[k] = text[k]
  <2>1. \A i \in 1..n : text[i] \in Char
    BY <1>1, ElementOfSeq
  <2>2. /\ u \in Seq(Char) /\ Len(u) = IF 1 <= n THEN n-1+1 ELSE 0
        /\ \A i \in 1..n-1+1 : u[i] = text[1+i-1]
    BY <2>1, <1>3, SubSeqProperties
  <2>3. Len(u) = n /\ n-1+1 = n
    BY <2>2
  <2>4. \A i \in 1..n : 1+i-1 = i
    OBVIOUS
  <2> QED BY <2>2, <2>3, <2>4
<1>8. /\ r \in Seq(Char) /\ Len(r) = Len(wr) + n
      /\ \A k \in 1..Len(wr)+n : r[k] = IF k <= Len(wr) THEN wr[k] ELSE text[k - Len(wr)]
  <2>1. /\ r \in Seq(Char) /\ Len(r) = Len(wr) + Len(u)
        /\ \A k \in 1..Len(wr)+Len(u) : r[k] = IF k <= Len(wr) THEN wr[k] ELSE u[k - Len(wr)]
    BY <1>1, <1>4, <1>7, ConcatProperties
  <2>2. ASSUME NEW k \in 1..Len(wr)+n, ~(k <= Len(wr)) PROVE k - Len(wr) \in 1..n
    BY <2>2, <1>1
  <2> QED BY <2>1, <2>2, <1>7
<1>9. CASE o
  <2>1. PICK v : v = w - n
    OBVIOUS
  <2>2. OutOK(b2, h, g, v, sc2, r, o)
    BY <1>1, <1>5, <1>6, <1>8, <1>9, <2>1 DEF OutOK, M
  <2> QED BY <2>1, <2>2, <1>2, <1>3, <1>4 DEF M
<1>10. CASE ~o
  <2>1. /\ w + Len(wr) = M
        /\ \A k \in 1..Len(wr) : b[(h + k - 1) % M] = wr[k]
    BY <1>10 DEF OutOK, M
  <2>s. w + Len(wr) = M
    BY <2>1
  <2>2. \A i \in ObufPos : b2[i] = IF ((i - t) % M) + 1 <= n THEN text[((i - t) % M) + 1] ELSE b[i]
    BY DEF M
  <2>3. ASSUME NEW x \in Int, NEW d \in 0..M-1, x = h + Len(wr) + d
        PROVE  x % M \in ObufPos /\ ((x % M) - t) % M = d
    <3>0. d \in Int /\ d + M \in Int
      BY <1>z
    <3>1. x % M \in 0..M-1
      BY <1>z, Remainder
    <3>2. PICK m \in Int : m = -t
      BY <1>1
    <3>3. ((x % M) + m) % M = (x + m) % M
      BY <1>z, RemainderOfSum
    <3>4. (x % M) + m = (x % M) - t /\ x + m = h + (Len(wr) + d - t)
      BY <3>0, <3>1, <3>2, <2>3, <1>1, <1>z
    <3>5. PICK a \in Int : a = t + w
      BY <1>i
    <3>12. PICK c : c = Len(wr) + d - t
      OBVIOUS
    <3>11. c \in Int /\ c = Len(wr) + d - t
      BY <3>0, <3>12, <1>i
    <3>6. \A y \in Int : (a + y) % M = (h + y) % M
      <4>1. a % M = h % M /\ h \in Int
        BY <3>5, <1>1
      <4> QED BY <4>1, <1>z, RemainderAdd
    <3>7. (a + c) % M = (h + c) % M
      BY <3>6, <3>11
    <3>8. a + c = d + M
      BY <3>0, <3>5, <3>11, <2>s, <1>z, <1>i
    <3>9. d % M = d
      BY <1>z, SmallRemainder
    <3>10. (d + M) % M = d % M
      BY <3>0, <1>z, RemainderOfWhole
    <3> QED BY <3>10, <3>11, <3>1, <3>3, <3>4, <3>5, <3>7, <3>8, <3>9, <1>0
  <2>4. ASSUME NEW k \in 1..Len(r) PROVE b2[(h + k - 1) % M] = r[k]
    <3>1. PICK a \in Int : a = h + k - 1
      BY <1>1
    <3>2. CASE k <= Len(wr)
      <4>1. k \in 1..Len(wr)
        BY <3>2, <1>1
      <4>2. PICK d \in 0..M-1 : d = M - Len(wr) + k - 1
        <5>1. M - Len(wr) + k - 1 \in 0..M-1
          BY <4>1, <2>1, <1>z, <1>1
        <5> QED BY <5>1
      <4>3. PICK x \in Int : x = a + M
        BY <1>0
      <4>4. x % M = a % M
        BY <4>3, <1>z, RemainderOfWhole
      <4>5. x = h + Len(wr) + d
        BY <4>2, <4>3, <3>1, <1>0, <1>1
      <4>6. a % M \in ObufPos /\ ((a % M) - t) % M = d
        BY <4>4, <4>5, <2>3
      <4>7. ~(d + 1 <= n)
        BY <4>1, <4>2, <2>1, <1>0, <1>1
      <4>8. b2[a % M] = b[a % M]
        BY <4>6, <4>7, <2>2
      <4>9. b[a % M] = wr[k]
        BY <4>1, <3>1, <2>1
      <4>10. r[k] = wr[k]
        BY <3>2, <1>8
      <4> QED BY <4>8, <4>9, <4>10, <3>1
    <3>3. CASE ~(k <= Len(wr))
      <4>1. PICK d \in 0..M-1 : d = k - Len(wr) - 1
        <5>1. k - Len(wr) - 1 \in 0..M-1
          BY <3>3, <2>1, <1>z, <1>1, <1>8
        <5> QED BY <5>1
      <4>2. a = h + Len(wr) + d
        BY <4>1, <3>1, <1>1
      <4>3. a % M \in ObufPos /\ ((a % M) - t) % M = d
        BY <4>2, <2>3
      <4>4. d + 1 <= n /\ d + 1 = k - Len(wr)
        BY <4>1, <1>1, <1>8
      <4>5. b2[a % M] = text[k - Len(wr)]
        BY <4>3, <4>4, <2>2
      <4> QED BY <4>5, <3>1, <3>3, <1>8
    <3> QED BY <3>2, <3>3
  <2>5. PICK v \in Int : v = w - n
    OBVIOUS
  <2>6. v + Len(r) = M
    BY <2>1, <2>5, <1>1, <1>8
  <2>7. \A k \in 1..Len(r) : b2[(h + k - 1) % M] = r[k]
    BY <2>4
  <2>8. OutOK(b2, h, g, v, sc2, r, o)
    BY <1>1, <1>5, <1>6, <1>8, <1>10, <2>5, <2>6, <2>7 DEF OutOK, M
  <2> QED BY <2>5, <2>8, <1>2, <1>3, <1>4 DEF M
<1> QED BY <1>9, <1>10

\* n characters are sent: the n places are announced.
LEMMA SendKeeps ==
  ASSUME NEW b, NEW h, NEW t, NEW w \in Nat, NEW sc \in Int, NEW wr, NEW o \in BOOLEAN,
         OutOK(b, h, t, w, sc, wr, o), NEW n \in Nat, n <= TY_OBUFLEN - sc,
         NEW o2 \in BOOLEAN, o2 <=> o \/ n > Len(wr)
  PROVE  OutOK(b, (h + n) % TY_OBUFLEN, t, w + n, sc + n, SubSeq(wr, n+1, Len(wr)), o2)
<1> DEFINE M == TY_OBUFLEN
<1>0. M \in Nat \ {0} /\ ObufPos = 0..M-1
  BY Sizes DEF ObufPos
<1>z. M \in Nat \ {0}
  BY <1>0
<1>1. /\ h \in Int /\ t \in Int /\ t \in ObufPos /\ DOMAIN b = ObufPos
      /\ wr \in Seq(Char) /\ Len(wr) \in Nat /\ sc + n <= M
      /\ (t + w) % M = h % M
  BY <1>0, LenProperties DEF OutOK
<1>i. h \in Int /\ t \in Int /\ Len(wr) \in Nat
  BY <1>1
<1>2. PICK g : g = (h + n) % M
  OBVIOUS
<1>3. PICK r : r = SubSeq(wr, n+1, Len(wr))
  OBVIOUS
<1>4. PICK v \in Int : v = w + n
  OBVIOUS
<1>5. PICK s2 \in Int : s2 = sc + n
  OBVIOUS
<1> HIDE DEF M
<1>6. g \in ObufPos /\ g \in Int
  <2>1. PICK a \in Int : a = h + n
    BY <1>1
  <2>2. a % M \in 0..M-1
    BY <1>z, Remainder
  <2> QED BY <2>1, <2>2, <1>2, <1>0
<1>7. ASSUME NEW x \in Int PROVE (g + x) % M = (h + n + x) % M
  <2>1. PICK a \in Int : a = h + n
    BY <1>1
  <2>2. ((a % M) + x) % M = (a + x) % M
    BY <1>z, RemainderOfSum
  <2> QED BY <2>1, <2>2, <1>2
<1>8. (t + v) % M = g % M
  <2>1. PICK a \in Int : a = t + w
    BY <1>1
  <2>6. a % M = h % M /\ h \in Int
    BY <2>1, <1>1
  <2>2. \A c \in Int : (a + c) % M = (h + c) % M
    BY <2>6, <1>z, RemainderAdd, Zenon
  <2>3. (a + n) % M = (h + n) % M
    BY <2>2
  <2>4. a + n = t + v
    BY <2>1, <1>1, <1>4
  <2>5. g % M = g
    BY <1>0, <1>6, SmallRemainder
  <2> QED BY <2>3, <2>4, <2>5, <1>2
<1>9. r \in Seq(Char) /\ (n <= Len(wr) => Len(r) = Len(wr) - n)
      /\ \A k \in 1..Len(wr)-n : r[k] = wr[n+k]
  <2>1. /\ \A i \in n+1..Len(wr) : wr[i] \in Char
        /\ n + 1 \in Int
    BY <1>1, ElementOfSeq
  <2>2. /\ r \in Seq(Char) /\ Len(r) = IF n+1 <= Len(wr) THEN Len(wr)-(n+1)+1 ELSE 0
        /\ \A i \in 1..Len(wr)-(n+1)+1 : r[i] = wr[(n+1)+i-1]
    BY <2>1, <1>1, <1>3, SubSeqProperties
  <2>3. (n <= Len(wr) => Len(r) = Len(wr) - n) /\ Len(wr)-(n+1)+1 = Len(wr) - n
    BY <2>2, <1>1
  <2>4. \A i \in 1..Len(wr)-n : (n+1)+i-1 = n+i
    BY <1>1
  <2> QED BY <2>2, <2>3, <2>4
<1>10. CASE o2
  <2>1. OutOK(b, g, t, v, s2, r, o2)
    BY <1>1, <1>5, <1>6, <1>8, <1>9, <1>10 DEF OutOK, M
  <2> QED BY <2>1, <1>2, <1>3, <1>4, <1>5 DEF M
<1>11. CASE ~o2
  <2>1. /\ w + Len(wr) = M
        /\ \A k \in 1..Len(wr) : b[(h + k - 1) % M] = wr[k]
        /\ n <= Len(wr)
    <3>1. ~o /\ ~(n > Len(wr))
      BY <1>11
    <3> QED BY <3>1, <1>1 DEF OutOK, M
  <2>2. v + Len(r) = M
    <3>1. w + Len(wr) = M /\ Len(r) = Len(wr) - n
      BY <2>1, <1>9
    <3> QED BY <3>1, <1>4, <1>i
  <2>3. ASSUME NEW k \in 1..Len(r) PROVE b[(g + k - 1) % M] = r[k]
    <3>1. n + k \in 1..Len(wr) /\ k \in 1..Len(wr)-n
      BY <2>1, <1>1, <1>9
    <3>2. PICK x \in Int : x = k - 1
      OBVIOUS
    <3>3. (g + x) % M = (h + n + x) % M
      BY <1>7
    <3>4. g + x = g + k - 1 /\ h + n + x = h + (n + k) - 1
      BY <3>2, <1>1, <1>6
    <3> QED BY <3>1, <3>3, <3>4, <2>1, <1>9
  <2>4. \A k \in 1..Len(r) : b[(g + k - 1) % M] = r[k]
    BY <2>3
  <2>5. OutOK(b, g, t, v, s2, r, o2)
    BY <1>1, <1>5, <1>6, <1>8, <1>9, <1>11, <2>2, <2>4 DEF OutOK, M
  <2> QED BY <2>5, <1>2, <1>3, <1>4, <1>5 DEF M
<1> QED BY <1>10, <1>11

-----------------------------------------------------------------------------
(* The inductive invariant, and what keeps it.                             *)

InInv ==
  InOK(tyibuff, tyihead, tyitail, Total("tyisem"), tyicursor, unsignalled, typed,
       "input" \in spoiled, smashed)
OutInv ==
  OutOK(tyobuff, tyohead, tyotail, Total("tyosem"), Semcount("tyosem"), written,
        "output" \in spoiled)

TtyInv == load \in Loads /\ echoes \in Nat /\ SemsOK /\ InInv /\ OutInv

\* The invariants of the next state, from the values its variables have.
LEMMA InInvNext ==
  ASSUME NEW b, NEW h, NEW t, NEW w, NEW cur, NEW uns, NEW ty, NEW o \in BOOLEAN, NEW sm \in BOOLEAN,
         InOK(b, h, t, w, cur, uns, ty, o, sm),
         b = tyibuff', h = tyihead', t = tyitail', w = Total("tyisem")', cur = tyicursor',
         uns = unsignalled', ty = typed', o <=> "input" \in spoiled', sm <=> smashed'
  PROVE  InInv'
BY DEF InInv, InOK

\* The same for output.
LEMMA OutInvNext ==
  ASSUME NEW b, NEW h, NEW t, NEW w, NEW sc, NEW wr, NEW o \in BOOLEAN,
         OutOK(b, h, t, w, sc, wr, o),
         b = tyobuff', h = tyohead', t = tyotail', w = Total("tyosem")',
         sc = Semcount("tyosem")', wr = written', o <=> "output" \in spoiled'
  PROVE  OutInv'
BY DEF OutInv, OutOK

\* Nothing that concerns input, or output, happens.
LEMMA InStays ==
  ASSUME InInv, UNCHANGED inVars, Total("tyisem")' = Total("tyisem"),
         "input" \in spoiled' <=> "input" \in spoiled
  PROVE  InInv'
BY DEF InInv, InOK, inVars

\* The same of the transmitter, for what touches only the receiver.
LEMMA OutStays ==
  ASSUME OutInv, UNCHANGED outVars, Total("tyosem")' = Total("tyosem"),
         Semcount("tyosem")' = Semcount("tyosem"),
         "output" \in spoiled' <=> "output" \in spoiled
  PROVE  OutInv'
BY DEF OutInv, OutOK, outVars

\* What the invariant says, and the types that follow from it.
LEMMA TtyInvFacts ==
  ASSUME TtyInv
  PROVE  /\ load \in Loads /\ echoes \in Nat /\ SemsOK /\ InInv /\ OutInv
         /\ \A s \in Sema : Total(s) \in Nat /\ Semcount(s) \in Int /\ count[s] \in Nat
         /\ "tyisem" \in Sema /\ "tyosem" \in Sema
         /\ Sema \ {"tyisem"} = {"tyosem"} /\ Sema \ {"tyosem"} = {"tyisem"}
<1>1. SemsOK
  BY DEF TtyInv
<1>2. ASSUME NEW s \in Sema PROVE Total(s) \in Nat /\ Semcount(s) \in Int /\ count[s] \in Nat
  <2>1. PICK k : k = Cardinality({p \in Callers(s) : p \notin Range(queue[s])})
    OBVIOUS
  <2>2. k \in Nat /\ Total(s) = count[s] + k
    BY <1>1, <2>1, CallersCounted
  <2>3. count[s] \in Nat /\ Len(queue[s]) \in Nat
    BY <1>1, CallersCounted
  <2> QED BY <2>2, <2>3 DEF Semcount
<1> QED BY <1>2 DEF TtyInv, Sema

\* The input variables while nothing was written past the buffer.
LEMMA InputFacts ==
  ASSUME InInv, ~smashed
  PROVE  /\ InOK(tyibuff, tyihead, tyitail, Total("tyisem"), tyicursor, unsignalled, typed,
                 "input" \in spoiled, FALSE)
         /\ tyicursor \in IbufPos /\ unsignalled \in IbufPos /\ tyicursor \in Nat /\ unsignalled \in Nat
         /\ tyitail \in 0..TY_IBUFLEN /\ tyihead \in IbufPos /\ DOMAIN tyibuff = IbufPos
         /\ tyitail = TY_IBUFLEN => tyicursor = 0
<1>1. TY_IBUFLEN \in Nat \ {0}
  BY Sizes
<1> QED BY <1>1 DEF InInv, InOK, IbufPos
-----------------------------------------------------------------------------
\* A reader takes characters.
LEMMA TakeStep ==
  ASSUME TtyInv, ~smashed, NEW p \in Proc, ~Waiting(p), Free(p) \/ p \in Callers("tyisem"),
         NEW f \in Frame, f.at = "read", Take(p, f),
         UNCHANGED <<load, tyibuff, tyitail, tyicursor, unsignalled, smashed,
                     outVars, lineVars, spoiled>>
  PROVE  TtyInv'
<1> DEFINE have == Usable(p, "tyisem")
           ends == {k \in 1 .. have : Ends(f, k)}
           n == IF ends = {} THEN have ELSE Min(ends)
           g == [f EXCEPT !.left = @ - n, !.first = @ /\ n = 0]
<1>1. /\ load \in Loads /\ echoes \in Nat /\ SemsOK /\ InInv /\ OutInv
      /\ Total("tyisem") \in Nat /\ "tyisem" \in Sema /\ Sema \ {"tyisem"} = {"tyosem"}
  BY TtyInvFacts
<1>2. have \in Nat /\ have <= Total("tyisem")
  BY <1>1, UsableBound
<1>3. Consume(p, "tyisem", n, ends # {}, g) /\ tyihead' = Advance(tyihead, n)
      /\ typed' = SubSeq(typed, n + 1, Len(typed))
  BY DEF Take
<1> HIDE DEF have
<1>4. ends \subseteq 1..have
  OBVIOUS
<1> HIDE DEF ends
<1>5. n \in 0..have /\ (ends = {} => n = have) /\ (ends # {} => n > 0)
  <2>1. CASE ends = {}
    BY <2>1, <1>2
  <2>2. CASE ends # {}
    <3>1. ends \in SUBSET Nat /\ \A k \in ends : k \in 1..have
      BY <1>2, <1>4
    <3>2. PICK m : m = Min(ends)
      OBVIOUS
    <3>3. m \in ends
      BY <2>2, <3>1, <3>2, MinOfNats
    <3>4. m \in 1..have /\ n = m
      BY <2>2, <3>1, <3>2, <3>3
    <3> HIDE DEF n
    <3> QED BY <2>2, <3>4, <1>2
  <2> QED BY <2>1, <2>2
<1> HIDE DEF n
<1>6. g \in Frame /\ g.at = "read" /\ n \in Nat /\ n <= Total("tyisem")
  <2>1. n \in Nat /\ n <= Total("tyisem")
    BY <1>1, <1>2, <1>5
  <2>2. PICK x \in Int : x = f.left - n
    BY <2>1 DEF Frame
  <2>3. PICK y \in BOOLEAN : y = (f.first /\ n = 0)
    BY DEF Frame
  <2>4. g = [f EXCEPT !.left = x, !.first = y]
    BY <2>2, <2>3
  <2> HIDE DEF g
  <2> QED BY <2>1, <2>4 DEF Frame
<1> HIDE DEF g
<1>7. /\ SemsOK' /\ Total("tyisem")' = Total("tyisem") - n
      /\ Total("tyosem")' = Total("tyosem") /\ Semcount("tyosem")' = Semcount("tyosem")
  <2>1. n \in 0..Usable(p, "tyisem") /\ "read" \in Places("tyisem")
    BY <1>5 DEF have, Places
  <2>2. (ends # {}) \in BOOLEAN /\ (Free(p) \/ ~(ends # {}) \/ n > 0)
    BY <1>5
  <2>3. (ends # {}) \/ /\ g \in Frame /\ g.at \in Places("tyisem") /\ n = Usable(p, "tyisem")
                       /\ "tyisem" = "tyosem" => g.text # <<>>
    BY <1>5, <1>6, <2>1 DEF have
  <2>4. PICK done \in BOOLEAN : done <=> ends # {}
    OBVIOUS
  <2>5. Consume(p, "tyisem", n, done, g)
    BY <1>3, <2>4 DEF Consume
  <2> QED BY <1>1, <2>1, <2>2, <2>3, <2>4, <2>5, ConsumeKeeps
<1>8. InInv'
  <2>1. PICK o \in BOOLEAN : o <=> "input" \in spoiled
    OBVIOUS
  <2>2. InOK(tyibuff, tyihead, tyitail, Total("tyisem"), tyicursor, unsignalled, typed, o, FALSE)
    BY <1>1, <2>1, InputFacts DEF InOK
  <2>3. InOK(tyibuff, (tyihead + n) % TY_IBUFLEN, tyitail, Total("tyisem") - n, tyicursor,
             unsignalled, SubSeq(typed, n+1, Len(typed)), o, FALSE)
    <3>1. Total("tyisem") \in Int
      BY <1>1
    <3> QED BY <3>1, <1>6, <2>2, TakeKeeps, Zenon
  <2> QED BY <1>3, <1>7, <2>1, <2>3, InInvNext DEF Advance
<1>9. OutInv'
  BY <1>1, <1>7, OutStays
<1> QED BY <1>1, <1>7, <1>8, <1>9 DEF TtyInv, lineVars

\* A writer stores characters.
LEMMA StoreStep ==
  ASSUME TtyInv, NEW p \in Proc, ~Waiting(p), Free(p) \/ p \in Callers("tyosem"),
         NEW f \in Frame, f.at = "write", Free(p) \/ f.text # <<>>, Store(p, f),
         UNCHANGED <<load, inVars, tyohead, echoes, spoiled>>
  PROVE  TtyInv'
<1> DEFINE have == Usable(p, "tyosem")
           n == Min({have, Len(f.text)})
           g == [f EXCEPT !.text = SubSeq(@, n + 1, Len(@))]
<1>1. /\ load \in Loads /\ echoes \in Nat /\ SemsOK /\ InInv /\ OutInv
      /\ Total("tyosem") \in Nat /\ Semcount("tyosem") \in Int
      /\ "tyosem" \in Sema /\ Sema \ {"tyosem"} = {"tyisem"}
  BY TtyInvFacts
<1>2. have \in Nat /\ have <= Total("tyosem")
  BY <1>1, UsableBound
<1>3. f.text \in Seq(Char) /\ Len(f.text) \in Nat
  BY LenProperties DEF Frame
<1>4. /\ Consume(p, "tyosem", n, n = Len(f.text), g)
      /\ tyobuff' = [i \in ObufPos |-> LET k == ((i - tyotail) % TY_OBUFLEN) + 1
                                       IN IF k <= n THEN f.text[k] ELSE tyobuff[i]]
      /\ tyotail' = (tyotail + n) % TY_OBUFLEN
      /\ written' = written \o SubSeq(f.text, 1, n)
  BY DEF Store
<1> HIDE DEF have
<1>5. n \in Nat /\ n <= have /\ n <= Len(f.text) /\ (n = have \/ n = Len(f.text))
  <2>1. {have, Len(f.text)} \in SUBSET Nat
    BY <1>2, <1>3
  <2>2. n \in {have, Len(f.text)} /\ \A k \in {have, Len(f.text)} : n <= k
    BY <2>1, MinOfNats
  <2> HIDE DEF n
  <2> QED BY <2>1, <2>2
<1> HIDE DEF n
<1>6. n <= Total("tyosem") /\ n \in 0..have
  BY <1>1, <1>2, <1>5
<1>7. n # Len(f.text) => g \in Frame /\ g.at = "write" /\ g.text # <<>> /\ n = have
  <2>1. ASSUME n # Len(f.text) PROVE g.text \in Seq(Char) /\ g.text # <<>>
    <3>1. PICK u : u = SubSeq(f.text, n+1, Len(f.text))
      OBVIOUS
    <3>2. /\ \A i \in n+1..Len(f.text) : f.text[i] \in Char
          /\ n + 1 \in Int
      BY <1>3, <1>5, ElementOfSeq
    <3>3. u \in Seq(Char) /\ Len(u) = IF n+1 <= Len(f.text) THEN Len(f.text)-(n+1)+1 ELSE 0
      BY <3>1, <3>2, <1>3, SubSeqProperties
    <3>4. Len(u) # 0
      BY <3>3, <2>1, <1>3, <1>5
    <3>5. u # <<>>
      BY <3>4, EmptySeq
    <3>6. g.text = u
      BY <3>1 DEF Frame
    <3> QED BY <3>3, <3>5, <3>6
  <2> QED BY <2>1, <1>5 DEF Frame
<1> HIDE DEF g
<1>8. /\ SemsOK' /\ Total("tyosem")' = Total("tyosem") - n
      /\ Semcount("tyosem")' <= Semcount("tyosem")
      /\ Total("tyisem")' = Total("tyisem")
  <2>1. n \in 0..Usable(p, "tyosem") /\ "write" \in Places("tyosem")
    BY <1>6 DEF have, Places
  <2>2. PICK done \in BOOLEAN : done <=> n = Len(f.text)
    OBVIOUS
  <2>3. Free(p) \/ ~done \/ n > 0
    <3>1. ASSUME ~Free(p), done PROVE n > 0
      <4>1. Len(f.text) # 0
        BY <3>1, <1>3, EmptySeq
      <4> QED BY <4>1, <3>1, <2>2, <1>3
    <3> QED BY <3>1
  <2>4. done \/ /\ g \in Frame /\ g.at \in Places("tyosem") /\ n = Usable(p, "tyosem")
                /\ "tyosem" = "tyosem" => g.text # <<>>
    BY <1>7, <2>1, <2>2 DEF have
  <2>5. Consume(p, "tyosem", n, done, g)
    BY <1>4, <2>2 DEF Consume
  <2> QED BY <1>1, <2>1, <2>3, <2>4, <2>5, ConsumeKeeps
<1>9. Semcount("tyosem")' \in Int
  <2>1. count'["tyosem"] \in Nat /\ queue'["tyosem"] \in Seq(Proc)
    BY <1>8, <1>1 DEF SemsOK
  <2>2. Len(queue'["tyosem"]) \in Nat
    BY <2>1, LenProperties
  <2> QED BY <2>1, <2>2 DEF Semcount
<1>10. OutInv'
  <2>1. PICK o \in BOOLEAN : o <=> "output" \in spoiled
    OBVIOUS
  <2>2. OutOK(tyobuff, tyohead, tyotail, Total("tyosem"), Semcount("tyosem"), written, o)
    BY <1>1, <2>1 DEF OutInv, OutOK
  <2>3. PICK sc2 \in Int : sc2 = Semcount("tyosem")'
    BY <1>9
  <2>4. OutOK(tyobuff', tyohead, (tyotail + n) % TY_OBUFLEN, Total("tyosem") - n, sc2,
              written \o SubSeq(f.text, 1, n), o)
    <3>1. sc2 <= Semcount("tyosem")
      BY <1>8, <2>3
    <3>2. PICK b2 : b2 = tyobuff'
      OBVIOUS
    <3>3. /\ DOMAIN b2 = ObufPos
          /\ \A i \in ObufPos : b2[i] = IF ((i - tyotail) % TY_OBUFLEN) + 1 <= n
                                    THEN f.text[((i - tyotail) % TY_OBUFLEN) + 1] ELSE tyobuff[i]
      BY <1>4, <3>2
    <3>4. OutOK(b2, tyohead, (tyotail + n) % TY_OBUFLEN, Total("tyosem") - n, sc2,
                written \o SubSeq(f.text, 1, n), o)
      <4>1. PICK text \in Seq(Char) : text = f.text
        BY <1>3
      <4>2. /\ DOMAIN b2 = ObufPos /\ n <= Len(text) /\ n <= Total("tyosem")
            /\ \A i \in ObufPos : b2[i] = IF ((i - tyotail) % TY_OBUFLEN) + 1 <= n
                                      THEN text[((i - tyotail) % TY_OBUFLEN) + 1] ELSE tyobuff[i]
        BY <3>3, <4>1, <1>5, <1>6
      <4>3. n \in Nat /\ Total("tyosem") \in Nat /\ Semcount("tyosem") \in Int
        BY <1>1, <1>5
      <4>4. OutOK(b2, tyohead, (tyotail + n) % TY_OBUFLEN, Total("tyosem") - n, sc2,
                  written \o SubSeq(text, 1, n), o)
        BY <3>1, <4>2, <4>3, <2>2, PutKeeps
      <4> QED BY <4>1, <4>4
    <3> QED BY <3>2, <3>4
  <2> QED BY <1>4, <1>8, <2>1, <2>3, <2>4, OutInvNext
<1>11. InInv'
  BY <1>1, <1>8, InStays
<1> QED BY <1>1, <1>8, <1>10, <1>11 DEF TtyInv

\* The echo buffer shows a number of characters.
LEMMA EputcKeeps ==
  ASSUME NEW n \in Nat, Eputc(n), echoes \in Nat
  PROVE  echoes' \in Nat
<1>1. PICK a \in Int : a = echoes + n
  OBVIOUS
<1>2. TY_EBUFLEN \in Nat \ {0}
  BY Sizes
<1>3. a % TY_EBUFLEN \in 0..TY_EBUFLEN-1
  BY <1>2, Remainder
<1>4. a % TY_EBUFLEN \in Nat
  BY <1>2, <1>3
<1> QED BY <1>1, <1>4 DEF Eputc

\* Echoing, if it is on, keeps it so.
LEMMA EchoKeeps ==
  ASSUME NEW n \in Nat, Echo(n), echoes \in Nat
  PROVE  echoes' \in Nat
BY EputcKeeps DEF Echo

\* A character is echoed as one or two.
LEMMA ShownNat == \A ch : Shown(ch) \in Nat
BY DEF Shown

\* A character is stored at the tail, and announced, or not, as the mode has it.
LEMMA StoreInKeeps ==
  ASSUME InInv, ~smashed, Total("tyisem") \in Nat, NEW ch \in Char, NEW next, StoreIn(ch, next),
         NEW w2, NEW c2, NEW u2, w2 = Total("tyisem")', c2 = tyicursor', u2 = unsignalled',
         OneMore(Total("tyisem"), tyicursor, unsignalled, w2, c2, u2),
         NextTail(tyitail, ch, c2, next), tyihead' = tyihead
  PROVE  InInv' /\ ("output" \in spoiled' <=> "output" \in spoiled)
<1>1. PICK o \in BOOLEAN : o <=> "input" \in spoiled
  OBVIOUS
<1>2. InOK(tyibuff, tyihead, tyitail, Total("tyisem"), tyicursor, unsignalled, typed, o, FALSE)
  BY <1>1, InputFacts DEF InOK
<1>3. PICK sm2 \in BOOLEAN : sm2 <=> tyitail = TY_IBUFLEN
  OBVIOUS
<1>4. PICK o2 \in BOOLEAN : o2 <=> o \/ tyitail = TY_IBUFLEN \/ Len(typed) >= TY_IBUFLEN
  OBVIOUS
<1>5. /\ smashed' <=> sm2
      /\ "input" \in spoiled' <=> o2
      /\ "output" \in spoiled' <=> "output" \in spoiled
      /\ tyitail' = next
  BY <1>1, <1>3, <1>4 DEF StoreIn
<1>6. PICK b2 : b2 = IF tyitail = TY_IBUFLEN THEN tyibuff ELSE [tyibuff EXCEPT ![tyitail] = ch]
  OBVIOUS
<1>7. PICK ty2 : ty2 = IF o2 THEN <<>> ELSE Append(typed, ch)
  OBVIOUS
<1>8. tyibuff' = b2 /\ typed' = ty2
  BY <1>5, <1>6, <1>7 DEF StoreIn
<1>9. StoredAs(tyibuff, tyitail, typed, o, ch, b2, ty2, o2, sm2)
  BY <1>3, <1>4, <1>6, <1>7 DEF StoredAs
<1>10. Total("tyisem") \in Int
  OBVIOUS
<1>11. InOK(b2, tyihead, next, w2, c2, u2, ty2, o2, sm2)
  <2>1. PICK W, C, U : W = Total("tyisem") /\ C = tyicursor /\ U = unsignalled
    OBVIOUS
  <2>2. InOK(tyibuff, tyihead, tyitail, W, C, U, typed, o, FALSE) /\ W \in Int
    BY <1>2, <1>10, <2>1
  <2>3. OneMore(W, C, U, w2, c2, u2)
    BY <2>1
  <2> QED BY <1>9, <2>2, <2>3, StoreKeeps, ZenonT(120)
<1>12. InInv'
  BY <1>5, <1>8, <1>11, InInvNext
<1> QED BY <1>5, <1>12

\* The wrapped tail is a place of the buffer.
LEMMA WrappedNext ==
  ASSUME tyitail \in 0..TY_IBUFLEN
  PROVE  \A ch, c2 : NextTail(tyitail, ch, c2, Wrapped)
BY Sizes DEF Wrapped, NextTail

\* Characters of the line being typed are taken back.
LEMMA RetractStep ==
  ASSUME InInv, ~smashed, NEW n \in Nat, n <= tyicursor, Retract(n), Total("tyisem") \in Nat,
         Total("tyisem")' = Total("tyisem")
  PROVE  InInv'
<1>1. PICK o \in BOOLEAN : o <=> "input" \in spoiled
  OBVIOUS
<1>2. InOK(tyibuff, tyihead, tyitail, Total("tyisem"), tyicursor, unsignalled, typed, o, FALSE)
  BY <1>1, InputFacts DEF InOK
<1>3. PICK t2 : t2 = IF tyitail - n < 0 THEN tyitail - n + TY_IBUFLEN ELSE tyitail - n
  OBVIOUS
<1>4. InOK(tyibuff, tyihead, t2, Total("tyisem"), tyicursor - n, unsignalled,
           SubSeq(typed, 1, Len(typed) - n), o, FALSE)
  BY <1>2, <1>3, RetractKeeps, Zenon
<1>5. PICK c2, ty2 : c2 = tyicursor - n /\ ty2 = SubSeq(typed, 1, Len(typed) - n)
  OBVIOUS
<1>6. InOK(tyibuff, tyihead, t2, Total("tyisem"), c2, unsignalled, ty2, o, FALSE)
  BY <1>4, <1>5
<1> QED BY <1>1, <1>3, <1>5, <1>6, InInvNext DEF Retract
-----------------------------------------------------------------------------
\* A character in raw mode: announced at once.
LEMMA RawStep ==
  ASSUME TtyInv, ~smashed, NEW ch \in Char, RawChar(ch), UNCHANGED <<load, modeVars, outVars, call, tyihead>>
  PROVE  TtyInv'
<1>1. /\ load \in Loads /\ echoes \in Nat /\ SemsOK /\ InInv /\ OutInv
      /\ Total("tyisem") \in Nat /\ "tyisem" \in Sema /\ Sema \ {"tyisem"} = {"tyosem"}
  BY TtyInvFacts
<1>2. StoreIn(ch, Wrapped) /\ Signaln("tyisem", 1) /\ UNCHANGED <<tyicursor, lineVars, unsignalled>>
  BY DEF RawChar
<1>3. /\ SemsOK' /\ Total("tyisem")' = Total("tyisem") + 1
      /\ Total("tyosem")' = Total("tyosem") /\ Semcount("tyosem")' = Semcount("tyosem")
  BY <1>1, <1>2, SignalKeeps
<1>4. /\ tyicursor \in IbufPos /\ unsignalled \in IbufPos /\ tyicursor \in Nat /\ unsignalled \in Nat
      /\ tyitail \in 0..TY_IBUFLEN
  BY <1>1, InputFacts
<1>5. InInv' /\ ("output" \in spoiled' <=> "output" \in spoiled)
  <2>1. PICK w2, c2, u2, next : /\ w2 = Total("tyisem") + 1 /\ c2 = tyicursor
                                /\ u2 = unsignalled /\ next = Wrapped
    OBVIOUS
  <2>2. w2 \in Int /\ w2 + c2 + u2 = Total("tyisem") + tyicursor + unsignalled + 1
        /\ w2 + c2 <= Total("tyisem") + tyicursor + 1
    BY <2>1, <1>1, <1>4
  <2>3. OneMore(Total("tyisem"), tyicursor, unsignalled, w2, c2, u2)
    BY <2>1, <2>2, <1>4 DEF OneMore
  <2>4. NextTail(tyitail, ch, c2, next)
    BY <2>1, <1>4, WrappedNext
  <2>5. /\ w2 = Total("tyisem")' /\ c2 = tyicursor' /\ u2 = unsignalled'
        /\ StoreIn(ch, next) /\ tyihead' = tyihead
    BY <2>1, <1>2, <1>3
  <2> QED BY <2>3, <2>4, <2>5, <1>1, StoreInKeeps
<1>6. OutInv'
  BY <1>1, <1>3, <1>5, OutStays
<1> QED BY <1>1, <1>2, <1>3, <1>5, <1>6 DEF TtyInv, lineVars

\* A character in cbreak mode: stored, and never announced.
LEMMA CbreakStep ==
  ASSUME TtyInv, ~smashed, NEW ch \in Char, CbreakChar(ch), UNCHANGED <<load, modeVars, outVars, call>>
  PROVE  TtyInv'
<1>1. /\ load \in Loads /\ echoes \in Nat /\ SemsOK /\ InInv /\ OutInv
      /\ Total("tyisem") \in Nat /\ "tyisem" \in Sema /\ "tyosem" \in Sema
  BY TtyInvFacts
<1>2. UNCHANGED <<count, queue>>
  BY DEF CbreakChar
<1>3. /\ SemsOK' /\ Total("tyisem")' = Total("tyisem")
      /\ Total("tyosem")' = Total("tyosem") /\ Semcount("tyosem")' = Semcount("tyosem")
  BY <1>1, <1>2, SemsStay
<1>4. CASE count.tyisem >= TY_IBUFLEN
  <2>1. Eputc(1) /\ UNCHANGED <<inVars, spoiled>>
    BY <1>4 DEF CbreakChar
  <2>2. echoes' \in Nat
    BY <2>1, <1>1, EputcKeeps
  <2>3. InInv' /\ OutInv'
    BY <2>1, <1>1, <1>3, InStays, OutStays
  <2> QED BY <2>2, <2>3, <1>1, <1>3 DEF TtyInv
<1>5. CASE ~(count.tyisem >= TY_IBUFLEN)
  <2>1. /\ StoreIn(ch, Wrapped) /\ Echo(Shown(ch))
        /\ unsignalled' = (unsignalled + 1) % TY_IBUFLEN
        /\ UNCHANGED <<tyihead, tyicursor>>
    BY <1>5 DEF CbreakChar
  <2>2. echoes' \in Nat
    BY <2>1, <1>1, ShownNat, EchoKeeps
  <2>3. /\ tyicursor \in IbufPos /\ unsignalled \in IbufPos /\ tyicursor \in Nat /\ unsignalled \in Nat
        /\ tyitail \in 0..TY_IBUFLEN
    BY <1>1, InputFacts
  <2>4. TY_IBUFLEN \in Nat \ {0}
    BY Sizes
  <2>5. PICK u \in Int : u = unsignalled + 1
    BY <2>3
  <2>6. unsignalled' = u % TY_IBUFLEN /\ u % TY_IBUFLEN \in 0..TY_IBUFLEN-1
    BY <2>1, <2>4, <2>5, Remainder
  <2>7. unsignalled' \in IbufPos /\ unsignalled' \in Int
    BY <2>4, <2>6 DEF IbufPos
  <2>8. PICK w2, c2, u2, next : /\ w2 = Total("tyisem") /\ c2 = tyicursor
                                /\ u2 = u % TY_IBUFLEN /\ next = Wrapped
    OBVIOUS
  <2>9. (w2 + c2 + u2) % TY_IBUFLEN = (w2 + tyicursor + unsignalled + 1) % TY_IBUFLEN
    <3>1. PICK x \in Int : x = w2 + c2
      BY <2>3, <2>8, <1>1
    <3>2. ((u % TY_IBUFLEN) + x) % TY_IBUFLEN = (u + x) % TY_IBUFLEN
      BY <2>4, RemainderOfSum
    <3>3. u2 \in Int /\ w2 \in Int
      BY <2>6, <2>7, <2>8, <1>1
    <3>4. u2 + x = w2 + c2 + u2 /\ u + x = w2 + tyicursor + unsignalled + 1
      BY <3>1, <3>3, <2>3, <2>5, <2>8
    <3> QED BY <3>2, <3>4, <2>8
  <2>10. OneMore(Total("tyisem"), tyicursor, unsignalled, w2, c2, u2)
    <3>1. w2 + c2 <= Total("tyisem") + tyicursor + 1
      BY <2>3, <2>8, <1>1
    <3> QED BY <3>1, <2>3, <2>6, <2>7, <2>8, <2>9, <1>1 DEF OneMore
  <2>11. InInv' /\ ("output" \in spoiled' <=> "output" \in spoiled)
    <3>1. NextTail(tyitail, ch, c2, next)
      BY <2>3, <2>8, WrappedNext
    <3>2. /\ w2 = Total("tyisem")' /\ c2 = tyicursor' /\ u2 = unsignalled'
          /\ StoreIn(ch, next) /\ tyihead' = tyihead
      BY <2>1, <2>6, <2>8, <1>3
    <3> QED BY <2>10, <3>1, <3>2, <1>1, StoreInKeeps
  <2>12. OutInv'
    BY <2>11, <1>1, <1>3, OutStays
  <2> QED BY <2>2, <2>11, <2>12, <1>1, <1>3 DEF TtyInv
<1> QED BY <1>4, <1>5

\* What a cooked character does, case by case.
LEMMA EndOfLineStep ==
  ASSUME TtyInv, ~smashed, EndOfLine, UNCHANGED <<load, modeVars, outVars, call>>
  PROVE  TtyInv'
<1>1. /\ load \in Loads /\ echoes \in Nat /\ SemsOK /\ InInv /\ OutInv
      /\ Total("tyisem") \in Nat /\ "tyisem" \in Sema /\ Sema \ {"tyisem"} = {"tyosem"}
  BY TtyInvFacts
<1>2. /\ Echo(2) /\ StoreIn("NL", Wrapped) /\ Signaln("tyisem", tyicursor + 1)
      /\ tyicursor' = 0 /\ UNCHANGED <<tyihead, unsignalled>>
  BY DEF EndOfLine
<1>3. /\ tyicursor \in IbufPos /\ unsignalled \in IbufPos /\ tyicursor \in Nat /\ unsignalled \in Nat
      /\ tyitail \in 0..TY_IBUFLEN
  BY <1>1, InputFacts
<1>4. /\ SemsOK' /\ Total("tyisem")' = Total("tyisem") + (tyicursor + 1)
      /\ Total("tyosem")' = Total("tyosem") /\ Semcount("tyosem")' = Semcount("tyosem")
  <2>1. PICK n \in Nat : n = tyicursor + 1
    BY <1>3
  <2>2. Signaln("tyisem", n)
    BY <2>1, <1>2
  <2> QED BY <2>1, <2>2, <1>1, SignalKeeps
<1>5. InInv' /\ ("output" \in spoiled' <=> "output" \in spoiled)
  <2>1. PICK w2, c2, u2, next : /\ w2 = Total("tyisem") + (tyicursor + 1) /\ c2 = 0
                                /\ u2 = unsignalled /\ next = Wrapped
    OBVIOUS
  <2>2. w2 \in Int /\ w2 + c2 + u2 = Total("tyisem") + tyicursor + unsignalled + 1
        /\ w2 + c2 <= Total("tyisem") + tyicursor + 1
    BY <2>1, <1>1, <1>3
  <2>6. 0 \in IbufPos
    BY Sizes DEF IbufPos
  <2>3. OneMore(Total("tyisem"), tyicursor, unsignalled, w2, c2, u2)
    BY <2>1, <2>2, <2>6, <1>3 DEF OneMore
  <2>8. "NL" \in Char
    BY DEF Char
  <2>7. PICK ch \in Char : ch = "NL"
    BY <2>8
  <2>4. NextTail(tyitail, ch, c2, next)
    BY <2>1, <1>3, WrappedNext
  <2>5. /\ w2 = Total("tyisem")' /\ c2 = tyicursor' /\ u2 = unsignalled'
        /\ StoreIn(ch, next) /\ tyihead' = tyihead
    BY <2>1, <2>7, <1>2, <1>4
  <2> QED BY <2>3, <2>4, <2>5, <1>1, StoreInKeeps
<1>6. OutInv'
  BY <1>1, <1>4, <1>5, OutStays
<1>7. echoes' \in Nat
  BY <1>1, <1>2, EchoKeeps
<1> QED BY <1>1, <1>4, <1>5, <1>6, <1>7 DEF TtyInv

\* EOF: announced alone, and only on an empty line.
LEMMA EndOfFileStep ==
  ASSUME TtyInv, ~smashed, EndOfFile, UNCHANGED <<load, modeVars, outVars, call>>
  PROVE  TtyInv'
<1>1. /\ load \in Loads /\ echoes \in Nat /\ SemsOK /\ InInv /\ OutInv
      /\ Total("tyisem") \in Nat /\ "tyisem" \in Sema /\ "tyosem" \in Sema
      /\ Sema \ {"tyisem"} = {"tyosem"}
  BY TtyInvFacts
<1>2. Echo(2)
  BY DEF EndOfFile
<1>3. echoes' \in Nat
  BY <1>1, <1>2, EchoKeeps
<1>4. CASE tyicursor # 0
  <2>1. UNCHANGED <<inVars, count, queue, spoiled>>
    BY <1>4 DEF EndOfFile
  <2>2. /\ SemsOK' /\ Total("tyisem")' = Total("tyisem")
        /\ Total("tyosem")' = Total("tyosem") /\ Semcount("tyosem")' = Semcount("tyosem")
    BY <2>1, <1>1, SemsStay
  <2>3. InInv' /\ OutInv'
    BY <2>1, <2>2, <1>1, InStays, OutStays
  <2> QED BY <2>2, <2>3, <1>1, <1>3 DEF TtyInv
<1>5. CASE tyicursor = 0
  <2>1. /\ StoreIn("EOF", tyitail + 1) /\ Signaln("tyisem", 1)
        /\ UNCHANGED <<tyihead, tyicursor, unsignalled>>
    BY <1>5 DEF EndOfFile
  <2>2. /\ SemsOK' /\ Total("tyisem")' = Total("tyisem") + 1
        /\ Total("tyosem")' = Total("tyosem") /\ Semcount("tyosem")' = Semcount("tyosem")
    BY <1>1, <2>1, SignalKeeps
  <2>3. /\ tyicursor \in IbufPos /\ unsignalled \in IbufPos /\ tyicursor \in Nat /\ unsignalled \in Nat
        /\ tyitail \in 0..TY_IBUFLEN
    BY <1>1, InputFacts
  <2>4. InInv' /\ ("output" \in spoiled' <=> "output" \in spoiled)
    <3>1. PICK w2, c2, u2, next : /\ w2 = Total("tyisem") + 1 /\ c2 = tyicursor
                                  /\ u2 = unsignalled /\ next = tyitail + 1
      OBVIOUS
    <3>2. w2 \in Int /\ w2 + c2 + u2 = Total("tyisem") + tyicursor + unsignalled + 1
          /\ w2 + c2 <= Total("tyisem") + tyicursor + 1
      BY <3>1, <1>1, <2>3
    <3>3. OneMore(Total("tyisem"), tyicursor, unsignalled, w2, c2, u2)
      BY <3>1, <3>2, <2>3 DEF OneMore
    <3>7. "EOF" \in Char
      BY DEF Char
    <3>4. PICK ch \in Char : ch = "EOF"
      BY <3>7
    <3>5. NextTail(tyitail, ch, c2, next)
      BY <3>1, <3>4, <1>5 DEF NextTail
    <3>6. /\ w2 = Total("tyisem")' /\ c2 = tyicursor' /\ u2 = unsignalled'
          /\ StoreIn(ch, next) /\ tyihead' = tyihead
      BY <3>1, <3>4, <2>1, <2>2
    <3> QED BY <3>3, <3>5, <3>6, <1>1, StoreInKeeps
  <2>5. OutInv'
    BY <1>1, <2>2, <2>4, OutStays
  <2> QED BY <2>2, <2>4, <2>5, <1>1, <1>3 DEF TtyInv
<1> QED BY <1>4, <1>5

\* Any other character: part of the line being typed.
LEMMA LineCharStep ==
  ASSUME TtyInv, ~smashed, NEW ch \in Char, ~Full, LineChar(ch),
         UNCHANGED <<load, modeVars, outVars, call>>
  PROVE  TtyInv'
<1>1. /\ load \in Loads /\ echoes \in Nat /\ SemsOK /\ InInv /\ OutInv
      /\ Total("tyisem") \in Nat /\ count["tyisem"] \in Nat /\ "tyisem" \in Sema /\ "tyosem" \in Sema
  BY TtyInvFacts
<1>2. /\ Echo(1) /\ StoreIn(ch, Wrapped) /\ tyicursor' = tyicursor + 1
      /\ UNCHANGED <<tyihead, unsignalled, count, queue>>
  BY DEF LineChar
<1>3. /\ tyicursor \in IbufPos /\ unsignalled \in IbufPos /\ tyicursor \in Nat /\ unsignalled \in Nat
      /\ tyitail \in 0..TY_IBUFLEN
  BY <1>1, InputFacts
<1>4. /\ SemsOK' /\ Total("tyisem")' = Total("tyisem")
      /\ Total("tyosem")' = Total("tyosem") /\ Semcount("tyosem")' = Semcount("tyosem")
  BY <1>1, <1>2, SemsStay
<1>5. tyicursor + 1 \in IbufPos
  <2>1. count.tyisem = count["tyisem"]
    BY <1>1 DEF SemsOK
  <2>2. count["tyisem"] + tyicursor < TY_IBUFLEN - 1
    BY <2>1, <1>1, <1>3, Sizes DEF Full
  <2> QED BY <2>2, <1>1, <1>3, Sizes DEF IbufPos
<1>6. InInv' /\ ("output" \in spoiled' <=> "output" \in spoiled)
  <2>1. PICK w2, c2, u2, next : /\ w2 = Total("tyisem") /\ c2 = tyicursor + 1
                                /\ u2 = unsignalled /\ next = Wrapped
    OBVIOUS
  <2>2. w2 \in Int /\ w2 + c2 + u2 = Total("tyisem") + tyicursor + unsignalled + 1
        /\ w2 + c2 <= Total("tyisem") + tyicursor + 1
    BY <2>1, <1>1, <1>3
  <2>3. OneMore(Total("tyisem"), tyicursor, unsignalled, w2, c2, u2)
    BY <2>1, <2>2, <1>3, <1>5 DEF OneMore
  <2>4. NextTail(tyitail, ch, c2, next)
    BY <2>1, <1>3, WrappedNext
  <2>5. /\ w2 = Total("tyisem")' /\ c2 = tyicursor' /\ u2 = unsignalled'
        /\ StoreIn(ch, next) /\ tyihead' = tyihead
    BY <2>1, <1>2, <1>4
  <2> QED BY <2>3, <2>4, <2>5, <1>1, StoreInKeeps
<1>7. OutInv'
  BY <1>1, <1>4, <1>6, OutStays
<1>8. echoes' \in Nat
  BY <1>1, <1>2, EchoKeeps
<1> QED BY <1>1, <1>4, <1>6, <1>7, <1>8 DEF TtyInv

\* The line being typed is killed, or loses its last character.
LEMMA KillLineStep ==
  ASSUME TtyInv, ~smashed, KillLine, UNCHANGED <<load, modeVars, outVars, call>>
  PROVE  TtyInv'
<1>1. /\ load \in Loads /\ echoes \in Nat /\ SemsOK /\ InInv /\ OutInv
      /\ Total("tyisem") \in Nat /\ "tyisem" \in Sema /\ "tyosem" \in Sema
  BY TtyInvFacts
<1>2. Retract(tyicursor) /\ Eputc(2) /\ UNCHANGED <<count, queue, spoiled>>
  BY DEF KillLine, Retract
<1>3. /\ SemsOK' /\ Total("tyisem")' = Total("tyisem")
      /\ Total("tyosem")' = Total("tyosem") /\ Semcount("tyosem")' = Semcount("tyosem")
  BY <1>1, <1>2, SemsStay
<1>4. PICK n \in Nat : n = tyicursor
  BY <1>1, InputFacts
<1>5. Retract(n) /\ n <= tyicursor
  BY <1>2, <1>4
<1>6. InInv'
  BY <1>1, <1>3, <1>5, RetractStep
<1>7. OutInv'
  BY <1>1, <1>2, <1>3, OutStays
<1>8. echoes' \in Nat
  BY <1>1, <1>2, EputcKeeps
<1> QED BY <1>1, <1>3, <1>6, <1>7, <1>8 DEF TtyInv

\* The last character of the line is erased.
LEMMA EraseCharStep ==
  ASSUME TtyInv, ~smashed, EraseChar, UNCHANGED <<load, modeVars, outVars, call>>
  PROVE  TtyInv'
<1>1. /\ load \in Loads /\ echoes \in Nat /\ SemsOK /\ InInv /\ OutInv
      /\ Total("tyisem") \in Nat /\ "tyisem" \in Sema /\ "tyosem" \in Sema
      /\ tyicursor \in Nat
  BY TtyInvFacts, InputFacts
<1>2. UNCHANGED <<count, queue, spoiled>>
  BY DEF EraseChar, Retract
<1>3. /\ SemsOK' /\ Total("tyisem")' = Total("tyisem")
      /\ Total("tyosem")' = Total("tyosem") /\ Semcount("tyosem")' = Semcount("tyosem")
  BY <1>1, <1>2, SemsStay
<1>4. InInv' /\ echoes' \in Nat
  <2>1. CASE tyicursor > 0
    <3>1. Retract(1) /\ Echo(3) /\ 1 <= tyicursor
      BY <2>1, <1>1 DEF EraseChar
    <3>2. InInv'
      BY <3>1, <1>1, <1>3, RetractStep
    <3> QED BY <3>1, <3>2, <1>1, EchoKeeps
  <2>2. CASE ~(tyicursor > 0)
    <3>1. UNCHANGED <<inVars, echoes>>
      BY <2>2 DEF EraseChar
    <3> QED BY <3>1, <1>1, <1>2, <1>3, InStays
  <2> QED BY <2>1, <2>2
<1>5. OutInv'
  BY <1>1, <1>2, <1>3, OutStays
<1> QED BY <1>1, <1>3, <1>4, <1>5 DEF TtyInv

\* Nothing but the echo buffer changes.
LEMMA QuietStep ==
  ASSUME TtyInv, UNCHANGED <<load, inVars, outVars, count, queue, call, spoiled>>, echoes' \in Nat
  PROVE  TtyInv'
<1>1. /\ load \in Loads /\ echoes \in Nat /\ SemsOK /\ InInv /\ OutInv
      /\ "tyisem" \in Sema /\ "tyosem" \in Sema
  BY TtyInvFacts
<1>2. /\ SemsOK' /\ Total("tyisem")' = Total("tyisem")
      /\ Total("tyosem")' = Total("tyosem") /\ Semcount("tyosem")' = Semcount("tyosem")
  BY <1>1, SemsStay
<1>3. InInv' /\ OutInv'
  BY <1>1, <1>2, InStays, OutStays
<1> QED BY <1>1, <1>2, <1>3 DEF TtyInv

\* One character of the UART, whatever the mode.
LEMMA HandleInStep ==
  ASSUME TtyInv, ~smashed, NEW ch \in Char, TtyhandleIn(ch)
  PROVE  TtyInv'
<1>1. UNCHANGED <<load, modeVars, outVars, call>> /\ echoes \in Nat
  BY TtyInvFacts DEF TtyhandleIn
<1>2. CASE RawChar(ch) /\ UNCHANGED tyihead
  BY <1>1, <1>2, RawStep
<1>3. CASE (Hold \/ Restart) /\ UNCHANGED <<inVars, count, queue, spoiled>>
  BY <1>1, <1>3, QuietStep DEF Hold, Restart
<1>4. CASE CbreakChar(ch)
  BY <1>1, <1>4, CbreakStep
<1>5. CASE CookedChar(ch)
  <2>1. CASE KillLine
    BY <2>1, <1>1, KillLineStep
  <2>2. CASE EraseChar
    BY <2>2, <1>1, EraseCharStep
  <2>3. CASE EndOfLine
    BY <2>3, <1>1, EndOfLineStep
  <2>4. CASE Bell
    <3>1. Eputc(1) /\ UNCHANGED <<inVars, count, queue, spoiled>>
      BY <2>4 DEF Bell
    <3>2. echoes' \in Nat
      BY <3>1, <1>1, EputcKeeps
    <3> QED BY <3>1, <3>2, <1>1, QuietStep
  <2>5. CASE EndOfFile
    BY <2>5, <1>1, EndOfFileStep
  <2>6. CASE ~Full /\ LineChar(ch)
    BY <2>6, <1>1, LineCharStep
  <2> QED BY <1>5, <2>1, <2>2, <2>3, <2>4, <2>5, <2>6 DEF CookedChar
<1> QED BY <1>2, <1>3, <1>4, <1>5 DEF TtyhandleIn
-----------------------------------------------------------------------------
\* The number of characters the transmitter takes from the output buffer.
SentNow(u) ==
  IF QueuesEmpty THEN 0
  ELSE Min({u - Min({u, echoes}), TY_OBUFLEN - Semcount("tyosem")})

\* It is a number, and no more than tyosem says are queued.
LEMMA SentBound ==
  ASSUME echoes \in Nat, Semcount("tyosem") \in Int, Semcount("tyosem") <= TY_OBUFLEN, NEW u \in Nat
  PROVE  /\ SentNow(u) \in Nat /\ SentNow(u) <= u /\ SentNow(u) <= TY_OBUFLEN - Semcount("tyosem")
         /\ echoes - Min({u, echoes}) \in Nat
<1>1. PICK e : e = Min({u, echoes})
  OBVIOUS
<1>2. e \in {u, echoes} /\ e <= u /\ e <= echoes
  BY <1>1, MinOfNats
<1>3. PICK s \in Int : s = Semcount("tyosem")
  OBVIOUS
<1>4. TY_OBUFLEN \in Nat
  BY Sizes
<1>5. PICK a \in Nat, c \in Nat : a = u - e /\ c = TY_OBUFLEN - s
  <2>1. u - e \in Nat /\ TY_OBUFLEN - s \in Nat
    BY <1>2, <1>3, <1>4
  <2> QED BY <2>1
<1>6. PICK m : m = Min({a, c})
  OBVIOUS
<1>7. m \in {a, c} /\ m <= a /\ m <= c
  BY <1>6, MinOfNats
<1>8. SentNow(u) = 0 \/ SentNow(u) = m
  BY <1>1, <1>3, <1>5, <1>6 DEF SentNow
<1> QED BY <1>1, <1>2, <1>3, <1>5, <1>7, <1>8

\* What the output interrupt does.
LEMMA HandleOutFacts ==
  ASSUME NEW u \in Nat, TtyhandleOut(u)
  PROVE  /\ echoes' = echoes - Min({u, echoes})
         /\ tyohead' = (tyohead + SentNow(u)) % TY_OBUFLEN
         /\ Signaln("tyosem", SentNow(u))
         /\ written' = SubSeq(written, SentNow(u) + 1, Len(written))
         /\ spoiled' = IF SentNow(u) > Len(written) THEN spoiled \cup {"output"} ELSE spoiled
         /\ UNCHANGED <<load, inVars, modeVars, tyobuff, tyotail, call>>
BY DEF TtyhandleOut, OutSignal, SentNow

\* The output interrupt keeps the invariant: what it sends it announces.
LEMMA HandleOutStep ==
  ASSUME TtyInv, NEW u \in Nat, TtyhandleOut(u)
  PROVE  TtyInv'
<1>1. /\ load \in Loads /\ echoes \in Nat /\ SemsOK /\ InInv /\ OutInv
      /\ Total("tyosem") \in Nat /\ Semcount("tyosem") \in Int
      /\ "tyosem" \in Sema /\ Sema \ {"tyosem"} = {"tyisem"}
  BY TtyInvFacts
<1>2. Semcount("tyosem") <= TY_OBUFLEN
  BY <1>1 DEF OutInv, OutOK
<1>3. PICK n : n = SentNow(u)
  OBVIOUS
<1>4. n \in Nat /\ n <= TY_OBUFLEN - Semcount("tyosem") /\ echoes' \in Nat
  BY <1>1, <1>2, <1>3, SentBound, HandleOutFacts
<1>5. /\ tyohead' = (tyohead + n) % TY_OBUFLEN /\ Signaln("tyosem", n)
      /\ written' = SubSeq(written, n + 1, Len(written))
      /\ spoiled' = IF n > Len(written) THEN spoiled \cup {"output"} ELSE spoiled
      /\ UNCHANGED <<load, inVars, tyobuff, tyotail, call>>
  BY <1>3, HandleOutFacts
<1>6. /\ SemsOK' /\ Total("tyosem")' = Total("tyosem") + n
      /\ Semcount("tyosem")' = Semcount("tyosem") + n
      /\ Total("tyisem")' = Total("tyisem")
  BY <1>1, <1>4, <1>5, SignalKeeps
<1>7. InInv'
  <2>1. "input" \in spoiled' <=> "input" \in spoiled
    BY <1>5
  <2> QED BY <2>1, <1>1, <1>5, <1>6, InStays
<1>8. PICK o \in BOOLEAN : o <=> "output" \in spoiled
  OBVIOUS
<1>13. PICK o2 \in BOOLEAN : o2 <=> o \/ n > Len(written)
  OBVIOUS
<1>9. OutOK(tyobuff, tyohead, tyotail, Total("tyosem"), Semcount("tyosem"), written, o)
  BY <1>1, <1>8 DEF OutInv, OutOK
<1>10. OutOK(tyobuff, (tyohead + n) % TY_OBUFLEN, tyotail, Total("tyosem") + n,
             Semcount("tyosem") + n, SubSeq(written, n + 1, Len(written)), o2)
  BY <1>1, <1>4, <1>9, <1>13, SendKeeps, SMTT(30)
<1>11. "output" \in spoiled' <=> o2
  BY <1>5, <1>8, <1>13
<1>12. OutInv'
  BY <1>5, <1>6, <1>10, <1>11, OutInvNext
<1> QED BY <1>1, <1>4, <1>5, <1>6, <1>7, <1>12 DEF TtyInv

\* The rest of a run that was switched away from concerns the interrupt only.
LEMMA HandleOutEndStep ==
  ASSUME TtyInv, TtyhandleOutEnd
  PROVE  TtyInv'
BY TtyInvFacts, QuietStep DEF TtyhandleOutEnd

\* What is written to the transmitter is a text.
LEMMA ExpandedIsText ==
  ASSUME NEW text \in Seq(Char)
  PROVE  Expanded(text) \in Seq(Char)
<1> DEFINE N == Len(text)
           K(j) == {i \in DOMAIN text : Sent(text, i) >= j}
<1>1. N \in Nat /\ DOMAIN text = 1..N
  BY LenProperties
<1>2. ASSUME NEW k \in Nat PROVE Sent(text, k) \in Nat /\ (k = 0 => Sent(text, k) = 0)
  <2>1. IsFiniteSet(1..k)
    BY FS_Interval
  <2>2. PICK S : S = {i \in 1..k : text[i] = "NL"}
    OBVIOUS
  <2>3. S \subseteq 1..k /\ IsFiniteSet(S)
    BY <2>1, <2>2, FS_Subset
  <2>4. Cardinality(S) \in Nat
    BY <2>3, FS_CardinalityType
  <2>5. k = 0 => Cardinality(S) = 0
    <3>1. k = 0 => S = {}
      BY <2>3
    <3> QED BY <3>1, FS_EmptySet
  <2> QED BY <2>2, <2>4, <2>5 DEF Sent
<1>3. PICK M \in Nat : M = Sent(text, Len(text))
  BY <1>1, <1>2
<1>4. M # 0 => N \in DOMAIN text
  BY <1>1, <1>2, <1>3
<1>5. ASSUME NEW j \in 1..M PROVE Min(K(j)) \in 1..N
  <2>1. N \in K(j)
    BY <1>3, <1>4
  <2>2. PICK S : S = K(j)
    OBVIOUS
  <2>3. S # {} /\ S \in SUBSET Nat /\ S \subseteq 1..N
    BY <1>1, <2>1, <2>2
  <2>4. Min(S) \in S
    BY <2>3, MinOfNats
  <2> QED BY <2>2, <2>3, <2>4
<1>6. \A j \in 1..M : Expanded(text)[j] \in Char
  <2> SUFFICES ASSUME NEW j \in 1..M PROVE Expanded(text)[j] \in Char
    OBVIOUS
  <2>1. PICK k : k = Min(K(j))
    OBVIOUS
  <2>2. text[k] \in Char /\ "CR" \in Char
    BY <1>5, <2>1, ElementOfSeq DEF Char
  <2>3. Expanded(text)[j] = IF Sent(text, k) = j THEN text[k] ELSE "CR"
    BY <1>3, <2>1 DEF Expanded
  <2> QED BY <2>2, <2>3
<1>7. Expanded(text) = [j \in 1..M |-> Expanded(text)[j]]
  BY <1>3 DEF Expanded
<1>8. PICK e : e = Expanded(text)
  OBVIOUS
<1>9. e \in [1..M -> Char]
  BY <1>6, <1>7, <1>8
<1> QED BY <1>3, <1>8, <1>9, SeqDef
-----------------------------------------------------------------------------
\* A process outside the driver.
LEMMA IdleFrame == Idle \in Frame /\ Idle.at = "user"
BY EmptySeq DEF Idle, Frame

\* Who runs waits for nothing, and is where its call says.
LEMMA FramesRun ==
  ASSUME SemsOK, NEW p \in Proc
  PROVE  /\ Free(p) => ~Waiting(p)
         /\ Runs(p, "read") \/ Runs(p, "nextc") => p \in Callers("tyisem") /\ ~Waiting(p)
         /\ Runs(p, "write") => p \in Callers("tyosem") /\ ~Waiting(p) /\ call[p].text # <<>>
         /\ call[p] \in Frame
BY WhoWaits DEF Runs, Callers, Places, SemsOK

\* The calls: a read begins, and goes on when it is woken.
LEMMA ReadStep ==
  ASSUME TtyInv, ~smashed, NEW p \in Proc, NEW n \in load.reads, Ttyread(p, n)
  PROVE  TtyInv'
<1>1. SemsOK /\ load \in Loads /\ Semcount("tyisem") \in Int
  BY TtyInvFacts
<1>2. n \in Int
  BY <1>1, TtySizes
<1>3. PICK m \in Int : m = IF n > 0 THEN n ELSE IF tyimode = "cooked" THEN 1 ELSE Semcount("tyisem")
  BY <1>1, <1>2
<1>4. PICK c \in BOOLEAN : c <=> tyimode = "cooked"
  OBVIOUS
<1>5. PICK f : f = [Idle EXCEPT !.at = "read", !.left = m, !.cooked = c, !.first = TRUE]
  OBVIOUS
<1>6. f \in Frame /\ f.at = "read"
  BY <1>5, EmptySeq DEF Frame, Idle
<1>7. f = ReadCall(m)
  <2>1. c = (tyimode = "cooked")
    BY <1>4
  <2> QED BY <1>5, <2>1 DEF ReadCall
<1>8. /\ Free(p) /\ ~Waiting(p) /\ Take(p, f)
      /\ UNCHANGED <<load, tyibuff, tyitail, tyicursor, unsignalled, smashed,
                     outVars, lineVars, spoiled>>
  BY <1>1, <1>3, <1>7, FramesRun DEF Ttyread
<1> QED BY <1>6, <1>8, TakeStep

\* A read goes on.
LEMMA ReadWokenStep ==
  ASSUME TtyInv, ~smashed, NEW p \in Proc, TtyreadWoken(p)
  PROVE  TtyInv'
<1>1. SemsOK
  BY TtyInvFacts
<1>2. PICK f \in Frame : f = call[p]
  BY <1>1, FramesRun
<1>3. /\ p \in Callers("tyisem") /\ ~Waiting(p) /\ f.at = "read" /\ Take(p, f)
      /\ UNCHANGED <<load, tyibuff, tyitail, tyicursor, unsignalled, smashed,
                     outVars, lineVars, spoiled>>
  BY <1>1, <1>2, FramesRun DEF TtyreadWoken, Runs
<1> QED BY <1>2, <1>3, TakeStep

\* TC_NEXTC waits for a character, and gives the permit back.
LEMMA NextcStep ==
  ASSUME TtyInv, NEW p \in Proc, TtycontrolNextc(p)
  PROVE  TtyInv'
<1>1. /\ load \in Loads /\ echoes \in Nat /\ SemsOK /\ InInv /\ OutInv
      /\ Total("tyisem") \in Nat /\ "tyisem" \in Sema /\ Sema \ {"tyisem"} = {"tyosem"}
      /\ count["tyisem"] \in Nat
  BY TtyInvFacts
<1>2. PICK g : g = [Idle EXCEPT !.at = "nextc"]
  OBVIOUS
<1>3. g \in Frame /\ g.at \in Places("tyisem")
  BY <1>2, IdleFrame DEF Frame, Places
<1>4. /\ Free(p) /\ ~Waiting(p) /\ count.tyisem = 0
      /\ UNCHANGED <<load, inVars, modeVars, outVars, lineVars, spoiled>>
      /\ Consume(p, "tyisem", 0, FALSE, g)
  BY <1>1, <1>2, FramesRun DEF TtycontrolNextc
<1>5. Usable(p, "tyisem") = 0
  BY <1>1, <1>4 DEF Usable, SemsOK
<1>6. PICK n \in Nat : n = 0
  OBVIOUS
<1>7. PICK done \in BOOLEAN : ~done
  OBVIOUS
<1>8. Consume(p, "tyisem", n, done, g)
  BY <1>4, <1>6, <1>7 DEF Consume
<1>9. n \in 0..Usable(p, "tyisem") /\ n = Usable(p, "tyisem") /\ "tyisem" # "tyosem"
  BY <1>5, <1>6
<1>10. /\ SemsOK' /\ Total("tyisem")' = Total("tyisem") - n
       /\ Total("tyosem")' = Total("tyosem") /\ Semcount("tyosem")' = Semcount("tyosem")
  BY <1>1, <1>3, <1>4, <1>7, <1>8, <1>9, ConsumeKeeps
<1>11. Total("tyisem")' = Total("tyisem")
  BY <1>1, <1>6, <1>10
<1>12. InInv' /\ OutInv'
  BY <1>1, <1>4, <1>10, <1>11, InStays, OutStays
<1> QED BY <1>1, <1>4, <1>10, <1>12 DEF TtyInv, lineVars

\* The permit of TC_NEXTC is given back.
LEMMA NextcWokenStep ==
  ASSUME TtyInv, NEW p \in Proc, NextcWoken(p)
  PROVE  TtyInv'
<1>1. /\ load \in Loads /\ echoes \in Nat /\ SemsOK /\ InInv /\ OutInv
      /\ "tyisem" \in Sema /\ Sema \ {"tyisem"} = {"tyosem"}
  BY TtyInvFacts
<1>2. /\ p \in Callers("tyisem") /\ ~Waiting(p) /\ Signaln("tyisem", 1)
      /\ call' = [call EXCEPT ![p] = Idle]
      /\ UNCHANGED <<load, inVars, modeVars, outVars, lineVars, spoiled>>
  BY <1>1, FramesRun DEF NextcWoken
<1>3. /\ SemsOK' /\ Total("tyisem")' = Total("tyisem")
      /\ Total("tyosem")' = Total("tyosem") /\ Semcount("tyosem")' = Semcount("tyosem")
  BY <1>1, <1>2, GiveBackKeeps
<1>4. InInv' /\ OutInv'
  BY <1>1, <1>2, <1>3, InStays, OutStays
<1> QED BY <1>1, <1>2, <1>3, <1>4 DEF TtyInv, lineVars

\* A write begins.
LEMMA WriteStep ==
  ASSUME TtyInv, NEW p \in Proc, Ttywrite(p)
  PROVE  TtyInv'
<1>1. SemsOK /\ load \in Loads
  BY TtyInvFacts
<1>2. /\ Free(p) /\ ~Waiting(p)
      /\ UNCHANGED <<load, inVars, tyohead, echoes, spoiled>>
  BY <1>1, FramesRun DEF Ttywrite
<1>3. PICK text \in load.texts : Store(p, [Idle EXCEPT !.at = "write", !.text = Expanded(text)])
  BY DEF Ttywrite
<1>4. text \in Seq(Char)
  <2>1. text \in Seq(STRING)
    BY <1>1, <1>3, TtySizes
  <2>2. Len(text) \in Nat /\ text \in [1..Len(text) -> STRING]
    BY <2>1, LenProperties
  <2>3. text \in [1..Len(text) -> Char]
    BY <2>2 DEF Char
  <2> QED BY <2>2, <2>3, SeqDef
<1>5. PICK e \in Seq(Char) : e = Expanded(text)
  BY <1>4, ExpandedIsText
<1>6. PICK f : f = [Idle EXCEPT !.at = "write", !.text = e]
  OBVIOUS
<1>7. f \in Frame /\ f.at = "write"
  BY <1>6, IdleFrame DEF Frame
<1>8. Store(p, f)
  BY <1>3, <1>5, <1>6
<1> QED BY <1>2, <1>7, <1>8, StoreStep

\* A write goes on.
LEMMA WriteWokenStep ==
  ASSUME TtyInv, NEW p \in Proc, TtywriteWoken(p)
  PROVE  TtyInv'
<1>1. SemsOK
  BY TtyInvFacts
<1>2. PICK f \in Frame : f = call[p]
  BY <1>1, FramesRun
<1>3. /\ p \in Callers("tyosem") /\ ~Waiting(p) /\ f.at = "write" /\ f.text # <<>> /\ Store(p, f)
      /\ UNCHANGED <<load, inVars, tyohead, echoes, spoiled>>
  BY <1>1, <1>2, FramesRun DEF TtywriteWoken, Runs
<1> QED BY <1>2, <1>3, StoreStep

\* A change of mode resets nothing.
LEMMA ControlStep ==
  ASSUME TtyInv, Ttycontrol
  PROVE  TtyInv'
BY TtyInvFacts, QuietStep DEF Ttycontrol, lineVars

\* Every step keeps the invariant.
LEMMA TtyInvStep ==
  ASSUME TtyInv, [TtyNext]_ttyVars
  PROVE  TtyInv'
<1>1. CASE TtyNext
  <2>1. ~smashed
    BY <1>1 DEF TtyNext
  <2>2. CASE Ttycontrol
    BY <2>2, ControlStep
  <2>3. ASSUME NEW p \in Proc, NEW n \in load.reads, Ttyread(p, n) PROVE TtyInv'
    BY <2>1, <2>3, ReadStep
  <2>4. ASSUME NEW p \in Proc, TtyreadWoken(p) PROVE TtyInv'
    BY <2>1, <2>4, ReadWokenStep
  <2>5. ASSUME NEW p \in Proc, TtycontrolNextc(p) PROVE TtyInv'
    BY <2>5, NextcStep
  <2>6. ASSUME NEW p \in Proc, NextcWoken(p) PROVE TtyInv'
    BY <2>6, NextcWokenStep
  <2>7. ASSUME NEW p \in Proc, Ttywrite(p) PROVE TtyInv'
    BY <2>7, WriteStep
  <2>8. ASSUME NEW p \in Proc, TtywriteWoken(p) PROVE TtyInv'
    BY <2>8, WriteWokenStep
  <2>9. ASSUME NEW ch \in load.keys, TtyhandleIn(ch) PROVE TtyInv'
    <3>1. ch \in Char
      BY TtyInvFacts, TtySizes DEF Char
    <3> QED BY <2>1, <2>9, <3>1, HandleInStep
  <2>10. ASSUME NEW u \in 1..UART_FIFO_SIZE, TtyhandleOut(u) PROVE TtyInv'
    <3>1. u \in Nat
      BY Sizes
    <3> QED BY <2>10, <3>1, HandleOutStep
  <2>11. CASE TtyhandleOutEnd
    BY <2>11, HandleOutEndStep
  <2> QED BY <1>1, <2>2, <2>3, <2>4, <2>5, <2>6, <2>7, <2>8, <2>9, <2>10, <2>11 DEF TtyNext
<1>2. CASE UNCHANGED ttyVars
  BY <1>2, TtyInvFacts, QuietStep DEF ttyVars, lineVars
<1> QED BY <1>1, <1>2

-----------------------------------------------------------------------------
(* The invariant holds at first, and always; what follows from it.         *)

\* ttyinit makes it true.
LEMMA TtyInitially ==
  ASSUME TtyInit
  PROVE  TtyInv
<1>0. /\ TY_IBUFLEN \in Nat \ {0} /\ TY_OBUFLEN \in Nat \ {0}
      /\ IbufPos = 0..TY_IBUFLEN-1 /\ ObufPos = 0..TY_OBUFLEN-1
  BY Sizes DEF IbufPos, ObufPos
<1>1. /\ count["tyisem"] = 0 /\ count["tyosem"] = TY_OBUFLEN /\ count \in [Sema -> Nat]
      /\ queue["tyisem"] = <<>> /\ queue["tyosem"] = <<>> /\ DOMAIN queue = Sema
  BY <1>0 DEF TtyInit, Sema
<1>2. call \in [Proc -> Frame]
  BY IdleFrame DEF TtyInit
<1>3. \A s \in Sema : Callers(s) = {}
  BY IdleFrame DEF TtyInit, Callers, Places
<1>4. <<>> \in Seq(Proc) /\ IsInjective(<<>>) /\ Range(<<>>) = {} /\ Len(<<>>) = 0
  BY EmptySeq DEF IsInjective, Range
<1>5. \A s \in Sema : queue[s] = <<>>
  BY <1>1 DEF Sema
<1>6. queue = [s \in Sema |-> <<>>]
  BY <1>1 DEF TtyInit, Sema
<1>7. SemsOK
  <2>1. queue \in [Sema -> Seq(Proc)]
    BY <1>4, <1>6
  <2>2. "tyosem" \in Sema
    BY DEF Sema
  <2> QED BY <2>1, <2>2, <1>1, <1>2, <1>3, <1>4, <1>5 DEF SemsOK
<1>8. /\ Total("tyisem") = 0 /\ Total("tyosem") = TY_OBUFLEN
      /\ Semcount("tyosem") = TY_OBUFLEN
  <2>1. Cardinality(Callers("tyisem")) = 0 /\ Cardinality(Callers("tyosem")) = 0
    BY <1>3, FS_EmptySet DEF Sema
  <2> QED BY <2>1, <1>0, <1>1, <1>4 DEF Total, Semcount
<1>9. PICK w \in Int : w = 0
  OBVIOUS
<1>10. /\ tyihead = 0 /\ tyitail = 0 /\ tyicursor = 0 /\ unsignalled = 0 /\ typed = <<>>
       /\ DOMAIN tyibuff = IbufPos /\ ~smashed /\ spoiled = {}
       /\ tyohead = 0 /\ tyotail = 0 /\ written = <<>> /\ DOMAIN tyobuff = ObufPos
       /\ load \in Loads /\ echoes = 0
  BY DEF TtyInit
<1>11. 0 \in IbufPos /\ 0 \in ObufPos /\ <<>> \in Seq(Char) /\ 0 % TY_IBUFLEN = 0 /\ 0 % TY_OBUFLEN = 0
  BY <1>0, EmptySeq
<1>12. InInv
  <2>1. InOK(tyibuff, 0, 0, 0, 0, 0, <<>>, FALSE, FALSE)
    BY <1>0, <1>4, <1>10, <1>11 DEF InOK
  <2> QED BY <2>1, <1>8, <1>10 DEF InInv, InOK
<1>13. OutInv
  <2>1. (0 + TY_OBUFLEN) % TY_OBUFLEN = 0 % TY_OBUFLEN
    BY <1>0, RemainderOfWhole
  <2>2. OutOK(tyobuff, 0, 0, TY_OBUFLEN, TY_OBUFLEN, <<>>, FALSE)
    BY <2>1, <1>0, <1>4, <1>10, <1>11 DEF OutOK
  <2> QED BY <2>2, <1>8, <1>10 DEF OutInv, OutOK
<1> QED BY <1>7, <1>10, <1>12, <1>13 DEF TtyInv

\* The invariant holds in every state.
LEMMA TtyInvAlways == TtySpec => []TtyInv
<1>1. TtyInit => TtyInv
  BY TtyInitially
<1>2. TtyInv /\ [TtyNext]_ttyVars => TtyInv'
  BY TtyInvStep
<1> QED BY <1>1, <1>2, PTL DEF TtySpec
-----------------------------------------------------------------------------
\* The processes that a semaphore has promised something to are those that were woken.
LEMMA WokenCounted ==
  ASSUME SemsOK
  PROVE  /\ Woken("read") \in Nat /\ Woken("nextc") \in Nat /\ Woken("write") \in Nat
         /\ Total("tyisem") = count.tyisem + Woken("read") + Woken("nextc")
         /\ Total("tyosem") = count.tyosem + Woken("write")
<1> DEFINE W(s) == {p \in Callers(s) : p \notin Range(queue[s])}
           R(at) == {p \in Proc : Runs(p, at)}
<1>1. \A s \in Sema : /\ IsFiniteSet(Callers(s)) /\ Cardinality(W(s)) \in Nat
                      /\ Total(s) = count[s] + Cardinality(W(s)) /\ count[s] \in Nat
  BY CallersCounted
<1>2. \A s \in Sema : \A p \in Callers(s) : p \in Proc /\ (Waiting(p) <=> p \in Range(queue[s]))
  BY WhoWaits DEF Callers
<1>3. W("tyosem") = R("write")
  BY <1>2 DEF Runs, Callers, Places, Sema
<1>4. W("tyisem") = R("read") \cup R("nextc") /\ R("read") \cap R("nextc") = {}
  BY <1>2 DEF Runs, Callers, Places, Sema
<1>5. "tyisem" \in Sema /\ "tyosem" \in Sema
  BY DEF Sema
<1>6. PICK A, B, C, V : /\ A = R("read") /\ B = R("nextc") /\ C = R("write") /\ V = W("tyisem")
  OBVIOUS
<1>7. /\ Woken("read") = Cardinality(A) /\ Woken("nextc") = Cardinality(B)
      /\ Woken("write") = Cardinality(C)
  BY <1>6 DEF Woken
<1>8. IsFiniteSet(V) /\ A \subseteq V /\ B \subseteq V /\ V = A \cup B /\ A \cap B = {}
  <2>1. IsFiniteSet(W("tyisem"))
    BY <1>1, <1>5, FS_Subset
  <2> HIDE DEF W, R
  <2> QED BY <2>1, <1>4, <1>6
<1>9. /\ IsFiniteSet(A) /\ IsFiniteSet(B) /\ Cardinality(A) \in Nat /\ Cardinality(B) \in Nat
  BY <1>8, FS_Subset, FS_CardinalityType
<1>10. Cardinality(A \cup B) = Cardinality(A) + Cardinality(B) - Cardinality(A \cap B)
  BY <1>9, FS_Union
<1>11. Cardinality(A \cap B) = 0
  BY <1>8, FS_EmptySet
<1>12. Cardinality(V) = Cardinality(A) + Cardinality(B)
  BY <1>8, <1>9, <1>10, <1>11
<1>13. /\ count.tyisem = count["tyisem"] /\ count.tyosem = count["tyosem"]
       /\ count["tyisem"] \in Nat /\ count["tyosem"] \in Nat
  BY <1>1, <1>5
<1>14. Cardinality(C) \in Nat /\ Total("tyosem") = count["tyosem"] + Cardinality(C)
  <2>1. C = W("tyosem")
    BY <1>3, <1>6
  <2> HIDE DEF W
  <2> QED BY <2>1, <1>1, <1>5
<1>15. Total("tyisem") = count["tyisem"] + Cardinality(V)
  <2> HIDE DEF W
  <2> QED BY <1>1, <1>5, <1>6
<1> QED BY <1>7, <1>9, <1>12, <1>13, <1>14, <1>15

\* In every state the distance from head to tail of each buffer is what its semaphore
\* counts and has promised, for input plus the line being typed and what cbreak mode
\* never announces: whatever ttygetc, ttyputc and the two interrupt routines interleave.
THEOREM PlacesAreCounted == TtySpec => []PlacesCounted
<1>1. ASSUME TtyInv PROVE PlacesCounted
  <2>1. /\ SemsOK /\ InInv /\ OutInv /\ TY_IBUFLEN \in Nat \ {0} /\ TY_OBUFLEN \in Nat \ {0}
        /\ \A s \in Sema : Total(s) \in Nat /\ count[s] \in Nat
        /\ "tyisem" \in Sema /\ "tyosem" \in Sema
    BY <1>1, TtyInvFacts, Sizes
  <2>2. /\ Woken("read") \in Nat /\ Woken("nextc") \in Nat /\ Woken("write") \in Nat
        /\ Total("tyisem") = count.tyisem + Woken("read") + Woken("nextc")
        /\ Total("tyosem") = count.tyosem + Woken("write")
    BY <2>1, WokenCounted
  <2>3. count.tyisem \in Nat /\ count.tyosem \in Nat
    BY <2>1
  <2>4. ASSUME ~smashed
        PROVE  (tyitail - tyihead) % TY_IBUFLEN =
                 (count.tyisem + Woken("read") + Woken("nextc") + tyicursor + unsignalled) % TY_IBUFLEN
    <3>1. /\ tyihead \in Int /\ tyitail \in Int /\ tyicursor \in Int /\ unsignalled \in Int
          /\ tyitail % TY_IBUFLEN = (tyihead + Total("tyisem") + tyicursor + unsignalled) % TY_IBUFLEN
      BY <2>1, <2>4 DEF InInv, InOK, IbufPos
    <3>2. PICK a \in Int : a = tyihead + Total("tyisem") + tyicursor + unsignalled
      BY <3>1, <2>1
    <3>3. /\ TY_IBUFLEN \in Nat \ {0} /\ tyitail \in Int /\ a \in Int
          /\ tyitail % TY_IBUFLEN = a % TY_IBUFLEN
      BY <2>1, <3>1, <3>2
    <3>4. PICK c \in Int : c = -tyihead
      BY <3>1
    <3>a. \A d \in Int : (tyitail + d) % TY_IBUFLEN = (a + d) % TY_IBUFLEN
      BY <3>3, RemainderAdd, Zenon
    <3>5. (tyitail + c) % TY_IBUFLEN = (a + c) % TY_IBUFLEN
      BY <3>a
    <3>6. /\ tyitail + c = tyitail - tyihead
          /\ a + c = count.tyisem + Woken("read") + Woken("nextc") + tyicursor + unsignalled
      BY <3>1, <3>2, <3>4, <2>2, <2>3
    <3> QED BY <3>5, <3>6
  <2>5. (tyotail - tyohead + count.tyosem + Woken("write")) % TY_OBUFLEN = 0
    <3>1. /\ tyohead \in Int /\ tyotail \in Int
          /\ (tyotail + Total("tyosem")) % TY_OBUFLEN = tyohead % TY_OBUFLEN
      BY <2>1 DEF OutInv, OutOK, ObufPos
    <3>2. PICK a \in Int : a = tyotail + Total("tyosem")
      BY <3>1, <2>1
    <3>a. /\ TY_OBUFLEN \in Nat \ {0} /\ tyohead \in Int /\ a \in Int
          /\ a % TY_OBUFLEN = tyohead % TY_OBUFLEN
      BY <2>1, <3>1, <3>2
    <3>3. \A d \in Int : (a + d) % TY_OBUFLEN = (tyohead + d) % TY_OBUFLEN
      BY <3>a, RemainderAdd, Zenon
    <3>4. PICK c \in Int : c = -tyohead
      BY <3>1
    <3>5. (a + c) % TY_OBUFLEN = (tyohead + c) % TY_OBUFLEN
      BY <3>3
    <3>6. /\ a + c = tyotail - tyohead + count.tyosem + Woken("write")
          /\ tyohead + c = 0
      BY <3>1, <3>2, <3>4, <2>2, <2>3
    <3>7. 0 % TY_OBUFLEN = 0
      BY <2>1
    <3> QED BY <3>5, <3>6, <3>7
  <2> QED BY <2>4, <2>5 DEF PlacesCounted
<1> QED BY <1>1, TtyInvAlways, PTL

\* Unless input was overrun, a read returns what was typed and not erased, in order, and
\* the tail leaves the input buffer only behind an EOF, which is the only way in which
\* ttyhandle_in writes past it.
THEOREM TypedInOrder == TtySpec => []InputInOrder
<1>1. ASSUME TtyInv PROVE InputInOrder
  <2>1. InInv
    BY <1>1 DEF TtyInv
  <2>2. ASSUME "input" \notin spoiled PROVE \A k \in DOMAIN typed : Unread(k) = typed[k]
    <3>1. /\ typed \in Seq(Char)
          /\ \A k \in 1..Len(typed) : tyibuff[(tyihead + k - 1) % TY_IBUFLEN] = typed[k]
      BY <2>1, <2>2 DEF InInv, InOK
    <3>2. DOMAIN typed = 1..Len(typed)
      BY <3>1, LenProperties
    <3> QED BY <3>1, <3>2 DEF Unread
  <2>3. smashed \/ tyitail = TY_IBUFLEN => tyibuff[TY_IBUFLEN - 1] = "EOF"
    BY <2>1 DEF InInv, InOK
  <2> QED BY <2>2, <2>3 DEF InputInOrder
<1> QED BY <1>1, TtyInvAlways, PTL

\* Unless the transmitter ran ahead, ttyhandle_out sends what ttyputc stored, in order,
\* and every place of the output buffer is free, written or promised to a writer.
THEOREM WrittenInOrder == TtySpec => []OutputInOrder
<1>1. ASSUME TtyInv PROVE OutputInOrder
  <2>1. SemsOK /\ OutInv /\ Total("tyosem") \in Nat
    BY <1>1, TtyInvFacts
  <2>2. ASSUME "output" \notin spoiled
        PROVE  /\ \A k \in DOMAIN written : tyobuff[(tyohead + k - 1) % TY_OBUFLEN] = written[k]
               /\ Len(written) + count.tyosem + Woken("write") = TY_OBUFLEN
    <3>1. /\ written \in Seq(Char)
          /\ Total("tyosem") + Len(written) = TY_OBUFLEN
          /\ \A k \in 1..Len(written) : tyobuff[(tyohead + k - 1) % TY_OBUFLEN] = written[k]
      BY <2>1, <2>2 DEF OutInv, OutOK
    <3>2. DOMAIN written = 1..Len(written) /\ Len(written) \in Nat
      BY <3>1, LenProperties
    <3>3. Total("tyosem") = count.tyosem + Woken("write") /\ Woken("write") \in Nat
      BY <2>1, WokenCounted
    <3>4. count.tyosem \in Nat
      BY <2>1 DEF SemsOK, Sema
    <3>5. Len(written) + count.tyosem + Woken("write") = TY_OBUFLEN
      BY <3>1, <3>2, <3>3, <3>4
    <3> QED BY <3>1, <3>2, <3>5
  <2> QED BY <2>2 DEF OutputInOrder
<1> QED BY <1>1, TtyInvAlways, PTL
-----------------------------------------------------------------------------
\* Storing a character of input spoils no output.
LEMMA StoreInSpoils ==
  ASSUME NEW ch, NEW next, StoreIn(ch, next), "output" \notin spoiled
  PROVE  "output" \notin spoiled'
BY DEF StoreIn

\* Nothing but the transmitter spoils output.
LEMMA InputSpoilsNoOutput ==
  ASSUME NEW ch, TtyhandleIn(ch), "output" \notin spoiled
  PROVE  "output" \notin spoiled'
<1>1. CASE UNCHANGED spoiled
  BY <1>1
<1>2. CASE RawChar(ch)
  BY <1>2, StoreInSpoils DEF RawChar
<1>3. CASE CbreakChar(ch)
  BY <1>3, StoreInSpoils DEF CbreakChar
<1>4. CASE CookedChar(ch)
  BY <1>1, <1>4, StoreInSpoils DEF CookedChar, KillLine, EraseChar, Retract, EndOfLine, Bell,
     EndOfFile, LineChar
<1> QED BY <1>1, <1>2, <1>3, <1>4 DEF TtyhandleIn

\* If a step spoils output it is one of the output interrupt.
LEMMA TransmitterSpoils ==
  ASSUME TtyNext, "output" \notin spoiled, "output" \in spoiled'
  PROVE  \E u \in 1..UART_FIFO_SIZE : TtyhandleOut(u)
<1>1. ~ UNCHANGED spoiled
  OBVIOUS
<1>2. ~ Ttycontrol /\ ~ TtyhandleOutEnd
  BY <1>1 DEF Ttycontrol, TtyhandleOutEnd
<1>3. ASSUME NEW p \in Proc
      PROVE  /\ \A n \in load.reads : ~Ttyread(p, n)
             /\ ~TtyreadWoken(p) /\ ~TtycontrolNextc(p) /\ ~NextcWoken(p)
             /\ ~Ttywrite(p) /\ ~TtywriteWoken(p)
  BY <1>1 DEF Ttyread, TtyreadWoken, TtycontrolNextc, NextcWoken, Ttywrite, TtywriteWoken
<1>4. \A ch \in load.keys : ~TtyhandleIn(ch)
  BY InputSpoilsNoOutput
<1> QED BY <1>2, <1>3, <1>4 DEF TtyNext

\* The transmitter gets ahead of what is written only if a writer was woken: with none,
\* tyosem counts the places that are not written, or it counts none and all are written.
LEMMA AheadStep ==
  ASSUME UART_FIFO_SIZE <= TY_OBUFLEN, TtyInv, TtyNext, spoiled' \ spoiled = {"output"}
  PROVE  Woken("write") > 0
<1>1. "output" \notin spoiled /\ "output" \in spoiled'
  OBVIOUS
<1>2. PICK u \in 1..UART_FIFO_SIZE : TtyhandleOut(u)
  BY <1>1, TransmitterSpoils
<1>3. u \in Nat
  BY Sizes
<1>4. /\ SemsOK /\ OutInv /\ echoes \in Nat /\ Total("tyosem") \in Nat /\ Semcount("tyosem") \in Int
      /\ "tyosem" \in Sema
  BY TtyInvFacts
<1>5. /\ Semcount("tyosem") <= TY_OBUFLEN /\ written \in Seq(Char)
      /\ Total("tyosem") + Len(written) = TY_OBUFLEN
  BY <1>1, <1>4 DEF OutInv, OutOK
<1>6. PICK l \in Nat : l = Len(written)
  BY <1>5, LenProperties
<1>7. PICK n : n = SentNow(u)
  OBVIOUS
<1>8. n \in Nat /\ n <= u /\ n <= TY_OBUFLEN - Semcount("tyosem")
  BY <1>3, <1>4, <1>5, <1>7, SentBound
<1>9. n > l
  BY <1>3, <1>1, <1>2, <1>6, <1>7, HandleOutFacts
<1>10. PICK w \in Nat, c \in Nat : w = Woken("write") /\ c = count.tyosem /\ Total("tyosem") = c + w
  BY <1>4, WokenCounted DEF SemsOK
<1>11. PICK q \in Nat : q = Len(queue["tyosem"]) /\ Semcount("tyosem") = c - q
  BY <1>4, <1>10, CallersCounted DEF Semcount
<1>12. q = 0 \/ c = 0
  BY <1>4, <1>10, <1>11, EmptySeq DEF SemsOK
<1>13. /\ c + w + l = TY_OBUFLEN /\ TY_OBUFLEN \in Nat
       /\ UART_FIFO_SIZE \in Nat /\ n <= UART_FIFO_SIZE /\ n <= TY_OBUFLEN - (c - q)
  BY <1>5, <1>6, <1>8, <1>10, <1>11, Sizes
<1>14. w # 0
  BY <1>8, <1>9, <1>12, <1>13
<1> QED BY <1>10, <1>14

\* The step in which ttyhandle_out sends more than was written finds a writer that was
\* woken and has not stored its character: tyosem, from which the routine computes how
\* many characters there are, already counts that place as taken.  The FIFO must not
\* hold more than the output buffer (uart.h and tty.h make them equal).
THEOREM TransmitterOvertakesOnlyWoken ==
  ASSUME UART_FIFO_SIZE <= TY_OBUFLEN
  PROVE  TtySpec => AheadOnlyOfWoken
<1>1. TtyInv /\ [TtyNext]_ttyVars => [spoiled' \ spoiled = {"output"} => Woken("write") > 0]_ttyVars
  BY AheadStep
<1> QED BY <1>1, TtyInvAlways, PTL DEF TtySpec, AheadOnlyOfWoken
=============================================================================
