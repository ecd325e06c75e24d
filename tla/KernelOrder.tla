------------------------------ MODULE KernelOrder ------------------------------
(***************************************************************************)
(* Order and time in the kernel, for every size of its tables: the ready   *)
(* list and the running process follow the priorities, the delta list adds *)
(* up to the time each sleeper has left, the count of processes covers the *)
(* kills that are still to be finished, and the semaphore table implements *)
(* first-come first-served semaphores.                                     *)
(***************************************************************************)
EXTENDS KernelSafety, KernelRefinement, FiniteSetTheorems
-----------------------------------------------------------------------------
(* The order of priorities.                                                *)

\* A ready process is queued with its priority, as long as nobody calls chprio.
Keyed == \A p \in Pid : prstate[p] = "READY" => qkey[p] = prprio[p]

\* No ready process has a higher priority than the running one.
CurrentFirst == \A p \in Pid : prstate[p] = "READY" => prprio[currpid] >= prprio[p]

\* While rescheduling is deferred, the running process may have been overtaken
\* only if an attempt to reschedule has been recorded.
OrderInv ==
  /\ Sorted(readylist, qkey)
  /\ "chprio" \notin Calls => Keyed /\ (ndefers = 0 \/ ~attempt => CurrentFirst)

\* What a caller hands to the scheduler is in order.
RankedBy(ps, ks) == \A p \in Pid : ps[p] = "READY" => ks[p] = prprio[p]

LEMMA SwitchOrder ==
  ASSUME prprio \in [Pid -> Int], prprio' = prprio,
         NEW qs \in [Pid -> PrState], NEW q \in Seq(Pid), NEW keys \in [Pid -> Int], q # <<>>,
         Switch(qs, q, keys), Sorted(q, keys), Holds(q, {p \in Pid : qs[p] = "READY"})
  PROVE  /\ Sorted(readylist', qkey')
         /\ RankedBy(qs, keys) => Keyed' /\ CurrentFirst'
<1> DEFINE h == Head(q)
           R == {p \in Pid : qs[p] = "READY"}
<1>1. /\ currpid' = h /\ readylist' = Tail(q) /\ prstate' = [qs EXCEPT ![h] = "CURR"]
      /\ qkey' = keys
  BY DEF Switch
<1>2. h \in R /\ Holds(Tail(q), R \ {h})
  <2>1. Holds(q, R)
    OBVIOUS
  <2> HIDE DEF R
  <2>2. QED
    BY <2>1, TailHolds
<1>3. Sorted(Tail(q), keys) /\ \A p \in Range(Tail(q)) : keys[h] >= keys[p]
  BY TailSorted
<1> HIDE DEF h
<1>4. \A p \in Pid : prstate'[p] = "READY" => qs[p] = "READY" /\ p \in Range(Tail(q))
  BY <1>1, <1>2 DEF Holds
<1>5. ASSUME RankedBy(qs, keys), NEW p \in Pid, prstate'[p] = "READY"
      PROVE  qkey'[p] = prprio'[p] /\ prprio'[currpid'] >= prprio'[p]
  <2>1. keys[p] = prprio[p] /\ keys[h] = prprio[h] /\ keys[h] >= keys[p]
    BY <1>2, <1>3, <1>4, <1>5 DEF RankedBy
  <2>2. QED
    BY <1>1, <2>1
<1>6. RankedBy(qs, keys) => Keyed' /\ CurrentFirst'
  BY <1>5 DEF Keyed, CurrentFirst
<1>7. Sorted(readylist', qkey')
  BY <1>1, <1>3
<1>8. QED
  BY <1>6, <1>7

\* The running process keeps the CPU if its priority is above the first key.
LEMMA KeepOrder ==
  ASSUME prprio \in [Pid -> Int], prprio' = prprio, currpid \in Pid,
         NEW ps, NEW rl \in Seq(Pid), NEW ks \in [Pid -> Int], NEW slice,
         Sorted(rl, ks), Holds(rl, {p \in Pid : ps[p] = "READY"}), Keep(ps, rl, ks, slice)
  PROVE  /\ Sorted(readylist', qkey')
         /\ RankedBy(ps, ks) => Keyed'
         /\ RankedBy(ps, ks) /\ StaysCurrent(ps, rl, ks) => CurrentFirst'
<1>1. prstate' = ps /\ readylist' = rl /\ qkey' = ks /\ currpid' = currpid
  BY DEF Keep
<1>2. ASSUME RankedBy(ps, ks), StaysCurrent(ps, rl, ks), NEW p \in Pid, ps[p] = "READY"
      PROVE  prprio[currpid] >= prprio[p]
  <2>1. p \in Range(rl) /\ rl # <<>>
    BY <1>2, EmptySeq DEF Holds, Range
  <2>2. prprio[currpid] > ks[Head(rl)]
    BY <1>2, <2>1 DEF StaysCurrent
  <2>3. ks[Head(rl)] >= ks[p] /\ Head(rl) \in Pid
    <3>1. /\ Len(rl) \in Nat /\ 1 \in 1..Len(rl) /\ Head(rl) = rl[1] /\ rl[1] \in Pid
          /\ \E i \in 1..Len(rl) : rl[i] = p
      BY <2>1, LenProperties, HeadTailProperties, EmptySeq, ElementOfSeq DEF Range
    <3>2. QED
      BY <3>1 DEF Sorted
  <2>4. ks[p] = prprio[p]
    BY <1>2 DEF RankedBy
  <2>5. QED
    BY <2>2, <2>3, <2>4
<1>3. RankedBy(ps, ks) /\ StaysCurrent(ps, rl, ks) => CurrentFirst'
  BY <1>1, <1>2 DEF CurrentFirst
<1>4. RankedBy(ps, ks) => Keyed'
  BY <1>1 DEF RankedBy, Keyed
<1>5. Sorted(readylist', qkey')
  BY <1>1
<1>6. QED
  BY <1>3, <1>4, <1>5

LEMMA DispatchOrder ==
  ASSUME TypeOK, NEW ps, NEW rl, NEW ks, NEW slice, Schedulable(ps, rl, ks, slice),
         Sorted(rl, ks), Dispatch(ps, rl, ks, slice), prprio' = prprio
  PROVE  /\ Sorted(readylist', qkey')
         /\ RankedBy(ps, ks) => Keyed' /\ CurrentFirst'
<1>1. /\ ps \in [Pid -> PrState] /\ rl \in Seq(Pid) /\ ks \in [Pid -> Int]
      /\ Holds(rl, {p \in Pid : ps[p] = "READY"})
      /\ \A p \in Pid : ps[p] = "CURR" => p = currpid
      /\ ps[currpid] = "CURR" \/ rl # <<>>
      /\ ps[currpid] # "READY"
  BY DEF Schedulable
<1>2. currpid \in Pid /\ prprio \in [Pid -> Int] /\ prprio[currpid] \in Int
  BY DEF TypeOK, SchedTypes, ProcTypes
<1>3. CASE StaysCurrent(ps, rl, ks) /\ Keep(ps, rl, ks, slice)
  BY <1>1, <1>2, <1>3, KeepOrder
<1>4. CASE ps[currpid] = "CURR" /\ Switch([ps EXCEPT ![currpid] = "READY"],
                                          Insert(rl, ks, currpid, prprio[currpid]),
                                          [ks EXCEPT ![currpid] = prprio[currpid]])
  <2> DEFINE qs == [ps EXCEPT ![currpid] = "READY"]
             keys == [ks EXCEPT ![currpid] = prprio[currpid]]
             q == Insert(rl, ks, currpid, prprio[currpid])
  <2>1. qs \in [Pid -> PrState] /\ keys \in [Pid -> Int]
    BY <1>1, <1>2 DEF PrState
  <2>2. currpid \notin {p \in Pid : ps[p] = "READY"}
    BY <1>1
  <2>3. /\ q \in Seq(Pid) /\ q # <<>>
        /\ Holds(q, {p \in Pid : ps[p] = "READY"} \cup {currpid})
    BY <1>1, <1>2, <2>2, InsertHolds
  <2>4. {p \in Pid : ps[p] = "READY"} \cup {currpid} = {p \in Pid : qs[p] = "READY"}
    BY <1>1, <1>2
  <2>5. Holds(q, {p \in Pid : qs[p] = "READY"})
    BY <2>3, <2>4
  <2>6. currpid \notin Range(rl)
    BY <1>1, <2>2 DEF Holds
  <2>7. Sorted(q, keys)
    BY <1>1, <1>2, <2>6, InsertSorted
  <2>8. RankedBy(ps, ks) => RankedBy(qs, keys)
    BY <1>1, <1>2 DEF RankedBy
  <2>9. Switch(qs, q, keys)
    BY <1>4
  <2> HIDE DEF qs, keys, q
  <2>10. QED
    BY <1>2, <2>1, <2>3, <2>5, <2>7, <2>8, <2>9, SwitchOrder
<1>5. CASE ps[currpid] # "CURR" /\ Switch(ps, rl, ks)
  BY <1>1, <1>2, <1>5, SwitchOrder
<1>6. QED
  BY <1>3, <1>4, <1>5 DEF Dispatch

LEMMA ReschedOrder ==
  ASSUME TypeOK, NEW ps, NEW rl, NEW ks, NEW slice, Schedulable(ps, rl, ks, slice),
         Sorted(rl, ks), "chprio" \notin Calls => RankedBy(ps, ks),
         Resched(ps, rl, ks, slice), prprio' = prprio, ndefers' = ndefers
  PROVE  OrderInv'
<1>1. CASE ndefers > 0 /\ attempt' = TRUE /\ Keep(ps, rl, ks, slice)
  <2>1. /\ rl \in Seq(Pid) /\ ks \in [Pid -> Int] /\ Holds(rl, {p \in Pid : ps[p] = "READY"})
        /\ currpid \in Pid /\ prprio \in [Pid -> Int] /\ ndefers \in Nat
    BY DEF Schedulable, TypeOK, SchedTypes, ProcTypes, CallTypes
  <2>2. Sorted(readylist', qkey') /\ (RankedBy(ps, ks) => Keyed')
    BY <1>1, <2>1, KeepOrder
  <2>3. QED
    BY <1>1, <2>1, <2>2 DEF OrderInv
<1>2. CASE Dispatch(ps, rl, ks, slice)
  BY <1>2, DispatchOrder DEF OrderInv
<1>3. QED
  BY <1>1, <1>2 DEF Resched
-----------------------------------------------------------------------------
(* The ways a step leaves states, ready list and keys to the scheduler.    *)

SameReadyKeys(ks) == \A p \in Pid : prstate[p] = "READY" => ks[p] = qkey[p]

\* Nobody is moved; rescheduling may be deferred from here on.
Stays(ks) ==
  /\ UNCHANGED <<prstate, readylist, currpid>> /\ qkey' = ks
  /\ UNCHANGED <<ndefers, attempt>> \/ DeferStart

\* The running process gives up the CPU for state s, or yields it.
Blocks(ks, s) ==
  /\ s \in PrState \ {"READY"} /\ (s = "CURR" \/ (currpid # NULLPROC /\ ndefers = 0))
  /\ \E slice \in 1..QUANTUM : Resched([prstate EXCEPT ![currpid] = s], readylist, ks, slice)
  /\ UNCHANGED ndefers

\* A process that waits for something becomes ready.
Wakes(ks) ==
  /\ \E p \in Pid : prstate[p] \notin {"CURR", "READY", "FREE"} /\ Ready(p, ks)
  /\ UNCHANGED ndefers

\* A ready process is taken off its list for state s.
Unreadies(ks, p, s) ==
  /\ s \in PrState \ {"CURR", "READY"}
  /\ prstate[p] = "READY" /\ readylist' = Unlink(readylist, p)
  /\ prstate' = [prstate EXCEPT ![p] = s] /\ qkey' = ks
  /\ UNCHANGED <<currpid, preempt, attempt, ndefers>>

\* A step of these kinds that frees no process and allocates none.
Handover(ks) ==
  /\ ks \in [Pid -> Int] /\ SameReadyKeys(ks)
  /\ \/ Stays(ks)
     \/ \E s \in PrState \ {"FREE"} : Blocks(ks, s)
     \/ Wakes(ks)
     \/ \E p \in Pid : Unreadies(ks, p, "SUSP")
     \/ DeferStop /\ ks = qkey

LEMMA ReadyListSortedBy ==
  ASSUME IInv, OrderInv, NEW ks, SameReadyKeys(ks)
  PROVE  /\ Sorted(readylist, ks)
         /\ "chprio" \notin Calls => RankedBy(prstate, ks)
<1>1. Range(readylist) = {p \in Pid : prstate[p] = "READY"} /\ readylist \in Seq(Pid)
  BY IInvFacts DEF Holds
<1>2. \A p \in Range(readylist) : ks[p] = qkey[p]
  BY <1>1 DEF SameReadyKeys
<1>3. Sorted(readylist, ks)
  BY <1>1, <1>2, SortedByOwnKeys DEF OrderInv
<1>4. "chprio" \notin Calls => RankedBy(prstate, ks)
  BY DEF OrderInv, Keyed, RankedBy, SameReadyKeys
<1>5. QED
  BY <1>3, <1>4

LEMMA BlockOrder ==
  ASSUME IInv, OrderInv, NEW ks \in [Pid -> Int], SameReadyKeys(ks), NEW s, Blocks(ks, s),
         prprio' = prprio
  PROVE  OrderInv'
<1> DEFINE ps == [prstate EXCEPT ![currpid] = s]
<1>1. PICK slice \in 1..QUANTUM : Resched(ps, readylist, ks, slice)
  BY DEF Blocks
<1>2. /\ s \in PrState \ {"READY"} /\ ndefers' = ndefers
      /\ s = "CURR" \/ (currpid # NULLPROC /\ ndefers = 0)
  BY DEF Blocks
<1>3. Schedulable(ps, readylist, ks, slice)
  BY <1>2, BlockSchedulable
<1>4. \A p \in Pid : ps[p] = "READY" => prstate[p] = "READY"
  BY <1>2, IInvFacts
<1> HIDE DEF ps
<1>5. Sorted(readylist, ks) /\ ("chprio" \notin Calls => RankedBy(prstate, ks))
  BY ReadyListSortedBy
<1>6. "chprio" \notin Calls => RankedBy(ps, ks)
  BY <1>4, <1>5 DEF RankedBy
<1>7. QED
  BY <1>1, <1>2, <1>3, <1>5, <1>6, IInvFacts, ReschedOrder

LEMMA WakeOrder ==
  ASSUME IInv, OrderInv, NEW ks \in [Pid -> Int], SameReadyKeys(ks), Wakes(ks),
         prprio' = prprio
  PROVE  OrderInv'
<1>1. PICK p \in Pid : prstate[p] \notin {"CURR", "READY", "FREE"} /\ Ready(p, ks)
  BY DEF Wakes
<1> DEFINE ps == [prstate EXCEPT ![p] = "READY"]
           rl == Insert(readylist, ks, p, prprio[p])
           keys == [ks EXCEPT ![p] = prprio[p]]
<1>2. Schedulable(ps, rl, keys, preempt)
  BY <1>1, ReadySchedulable
<1>3. Sorted(readylist, ks) /\ ("chprio" \notin Calls => RankedBy(prstate, ks))
  BY ReadyListSortedBy
<1>4. /\ p \notin Range(readylist) /\ readylist \in Seq(Pid)
      /\ prprio \in [Pid -> Int] /\ prprio[p] \in Int
  BY <1>1, IInvFacts DEF Holds, TypeOK, ProcTypes
<1>5. Sorted(rl, keys)
  BY <1>3, <1>4, InsertSorted
<1>6. "chprio" \notin Calls => RankedBy(ps, keys)
  BY <1>3, IInvFacts DEF RankedBy
<1>7. Resched(ps, rl, keys, preempt) /\ ndefers' = ndefers
  BY <1>1 DEF Ready, Wakes
<1> HIDE DEF ps, rl, keys
<1>8. QED
  BY <1>2, <1>5, <1>6, <1>7, IInvFacts, ReschedOrder

LEMMA UnreadyOrder ==
  ASSUME IInv, OrderInv, NEW ks \in [Pid -> Int], SameReadyKeys(ks),
         NEW p \in Pid, NEW s, Unreadies(ks, p, s), prprio' = prprio
  PROVE  OrderInv'
<1>1. /\ Range(readylist) = {x \in Pid : prstate[x] = "READY"} /\ readylist \in Seq(Pid)
      /\ prstate \in [Pid -> PrState]
  BY IInvFacts DEF Holds
<1>2. /\ prstate[p] = "READY" /\ readylist' = Unlink(readylist, p) /\ qkey' = ks
      /\ prstate' = [prstate EXCEPT ![p] = s] /\ s # "READY"
      /\ currpid' = currpid /\ attempt' = attempt /\ ndefers' = ndefers
  BY DEF Unreadies
<1>3. Sorted(readylist, ks) /\ ("chprio" \notin Calls => RankedBy(prstate, ks))
  BY ReadyListSortedBy
<1>4. Sorted(readylist', qkey')
  BY <1>1, <1>2, <1>3, UnlinkSorted
<1>5. \A x \in Pid : prstate'[x] = "READY" => prstate[x] = "READY"
  BY <1>1, <1>2
<1>6. "chprio" \notin Calls => Keyed' /\ (ndefers' = 0 \/ ~attempt' => CurrentFirst')
  BY <1>2, <1>3, <1>5 DEF Keyed, CurrentFirst, RankedBy, OrderInv
<1>7. QED
  BY <1>4, <1>6 DEF OrderInv

\* Nobody joins the ready list and nobody leaves it.
LEMMA StayOrder ==
  ASSUME IInv, OrderInv, readylist' = readylist, currpid' = currpid,
         \A p \in Pid : prstate'[p] = "READY" => prstate[p] = "READY",
         \A p \in Pid : prstate[p] = "READY" => qkey'[p] = qkey[p] /\ prprio'[p] = prprio[p],
         prprio'[currpid] = prprio[currpid],
         (ndefers' = 0 \/ ~attempt') => (ndefers = 0 \/ ~attempt)
  PROVE  OrderInv'
<1>1. SameReadyKeys(qkey')
  BY DEF SameReadyKeys
<1>2. Sorted(readylist', qkey')
  BY <1>1, ReadyListSortedBy
<1>3. "chprio" \notin Calls => Keyed' /\ (ndefers' = 0 \/ ~attempt' => CurrentFirst')
  BY DEF OrderInv, Keyed, CurrentFirst
<1>4. QED
  BY <1>2, <1>3 DEF OrderInv

\* The deferral ends: what was put off is made up for.
LEMMA StopOrder ==
  ASSUME IInv, OrderInv, DeferStop, prprio' = prprio
  PROVE  OrderInv'
<1>1. ndefers' = ndefers - 1 /\ attempt' = attempt /\ ndefers \in Nat
  BY IInvFacts DEF DeferStop
<1>2. CASE ndefers = 1 /\ attempt
  <2>1. Dispatch(prstate, readylist, qkey, preempt)
    BY <1>2 DEF DeferStop
  <2>2. Schedulable(prstate, readylist, qkey, preempt)
    BY IInvFacts DEF Schedulable
  <2>3. SameReadyKeys(qkey)
    BY DEF SameReadyKeys
  <2>4. Sorted(readylist, qkey) /\ ("chprio" \notin Calls => RankedBy(prstate, qkey))
    BY <2>3, ReadyListSortedBy
  <2>5. /\ Sorted(readylist', qkey')
        /\ RankedBy(prstate, qkey) => Keyed' /\ CurrentFirst'
    BY <2>1, <2>2, <2>4, IInvFacts, DispatchOrder
  <2>6. QED
    BY <2>4, <2>5 DEF OrderInv
<1>3. CASE ~(ndefers = 1 /\ attempt)
  <2>1. UNCHANGED <<prstate, readylist, qkey, currpid, preempt>>
    BY <1>3 DEF DeferStop
  <2>2. (ndefers' = 0 \/ ~attempt') => (ndefers = 0 \/ ~attempt)
    BY <1>1, <1>3
  <2>3. QED
    BY <2>1, <2>2, StayOrder
<1>4. QED
  BY <1>2, <1>3

LEMMA HandoverOrder ==
  ASSUME IInv, OrderInv, NEW ks, Handover(ks), prprio' = prprio
  PROVE  OrderInv'
<1>1. ks \in [Pid -> Int] /\ SameReadyKeys(ks)
  BY DEF Handover
<1>2. CASE Stays(ks)
  <2>1. /\ UNCHANGED <<prstate, readylist, currpid>> /\ qkey' = ks
        /\ UNCHANGED <<ndefers, attempt>> \/ DeferStart
    BY <1>2 DEF Stays
  <2>2. (ndefers' = 0 \/ ~attempt') => (ndefers = 0 \/ ~attempt)
    <3>1. ndefers \in Nat
      BY IInvFacts
    <3>2. CASE DeferStart /\ ndefers # 0
      <4>1. ndefers' # 0
        BY <3>1, <3>2 DEF DeferStart
      <4>2. attempt' = attempt
        BY <3>2 DEF DeferStart
      <4>3. QED
        BY <4>1, <4>2
    <3>3. CASE ndefers = 0
      BY <3>3
    <3>4. CASE UNCHANGED <<ndefers, attempt>>
      BY <3>4
    <3>5. QED
      BY <2>1, <3>2, <3>3, <3>4
  <2>3. \A p \in Pid : prstate[p] = "READY" => qkey'[p] = qkey[p] /\ prprio'[p] = prprio[p]
    BY <1>1, <2>1 DEF SameReadyKeys
  <2>4. QED
    BY <2>1, <2>2, <2>3, StayOrder
<1>3. CASE \E s \in PrState \ {"FREE"} : Blocks(ks, s)
  BY <1>1, <1>3, BlockOrder
<1>4. CASE Wakes(ks)
  BY <1>1, <1>4, WakeOrder
<1>5. CASE \E p \in Pid : Unreadies(ks, p, "SUSP")
  BY <1>1, <1>5, UnreadyOrder
<1>6. CASE DeferStop
  BY <1>6, StopOrder
<1>7. QED
  BY <1>2, <1>3, <1>4, <1>5, <1>6 DEF Handover

\* The scheduler changes the key of a process only when it puts it on the ready list.
LEMMA ReschedKeys ==
  ASSUME NEW ps, NEW rl, NEW ks \in [Pid -> Int], NEW slice, Resched(ps, rl, ks, slice)
  PROVE  \A p \in Pid : ps[p] # "CURR" => qkey'[p] = ks[p]
BY DEF Resched, Dispatch, Keep, Switch

\* What a step of these kinds never does: it frees no slot of the process table and
\* takes none, and it leaves the keys of the sleep queue as its caller set them.
LEMMA HandoverStates ==
  ASSUME IInv, NEW ks, Handover(ks)
  PROVE  /\ \A p \in Pid : prstate'[p] = "FREE" <=> prstate[p] = "FREE"
         /\ \A p \in Pid : prstate'[p] \in {"SLEEP", "RECTIM"} => qkey'[p] = ks[p]
<1>1. ks \in [Pid -> Int]
  BY DEF Handover
<1>2. CASE Stays(ks)
  BY <1>2 DEF Stays
<1>3. CASE \E s \in PrState \ {"FREE"} : Blocks(ks, s)
  <2>1. PICK s \in PrState \ {"FREE"} : Blocks(ks, s)
    BY <1>3
  <2> DEFINE ps == [prstate EXCEPT ![currpid] = s]
  <2>2. PICK slice \in 1..QUANTUM : Resched(ps, readylist, ks, slice)
    BY <2>1 DEF Blocks
  <2>3. /\ s \in PrState \ {"READY"} /\ ndefers' = ndefers
        /\ s = "CURR" \/ (currpid # NULLPROC /\ ndefers = 0)
    BY <2>1 DEF Blocks
  <2>4. Scheduled(ps)
    BY <1>1, <2>2, <2>3, BlockSchedules
  <2>5. \A p \in Pid : ps[p] = "FREE" <=> prstate[p] = "FREE"
    BY <2>1, IInvFacts
  <2> HIDE DEF ps
  <2>6. \A p \in Pid : ps[p] # "CURR" => qkey'[p] = ks[p]
    BY <1>1, <2>2, ReschedKeys
  <2>7. QED
    BY <2>4, <2>5, <2>6 DEF Scheduled
<1>4. CASE Wakes(ks)
  <2>1. PICK p \in Pid : prstate[p] \notin {"CURR", "READY", "FREE"} /\ Ready(p, ks)
    BY <1>4 DEF Wakes
  <2> DEFINE ps == [prstate EXCEPT ![p] = "READY"]
             rl == Insert(readylist, ks, p, prprio[p])
             keys == [ks EXCEPT ![p] = prprio[p]]
  <2>2. Scheduled(ps)
    BY <1>1, <2>1, ReadySchedules
  <2>3. \A x \in Pid : /\ ps[x] = "FREE" <=> prstate[x] = "FREE"
                       /\ ps[x] \in {"SLEEP", "RECTIM"} => keys[x] = ks[x]
    BY <1>1, <2>1, IInvFacts
  <2>4. keys \in [Pid -> Int] /\ Resched(ps, rl, keys, preempt)
    BY <1>1, <2>1, IInvFacts DEF Ready, TypeOK, ProcTypes
  <2> HIDE DEF ps, rl, keys
  <2>5. \A x \in Pid : ps[x] # "CURR" => qkey'[x] = keys[x]
    BY <2>4, ReschedKeys
  <2>6. QED
    BY <2>2, <2>3, <2>5 DEF Scheduled
<1>5. CASE \E p \in Pid : Unreadies(ks, p, "SUSP")
  BY <1>5, IInvFacts DEF Unreadies
<1>6. CASE DeferStop /\ ks = qkey
  <2>1. Scheduled(prstate)
    BY <1>6, StopSchedules
  <2>2. \A p \in Pid : prstate[p] # "CURR" => qkey'[p] = qkey[p]
    BY <1>6, IInvFacts DEF DeferStop, Dispatch, Keep, Switch
  <2>3. QED
    BY <1>6, <2>1, <2>2 DEF Scheduled
<1>7. QED
  BY <1>2, <1>3, <1>4, <1>5, <1>6 DEF Handover
-----------------------------------------------------------------------------
(* The keys that unsleep and insertd leave.                                *)

LEMMA SleepqFacts ==
  ASSUME IInv
  PROVE  /\ sleepq \in Seq(Pid) /\ left \in [Pid -> Int] /\ qkey \in [Pid -> Int]
         /\ Range(sleepq) = {p \in Pid : prstate[p] \in {"SLEEP", "RECTIM"}}
         /\ \A i, j \in 1..Len(sleepq) : sleepq[i] = sleepq[j] => i = j
         /\ Len(sleepq) \in Nat
         /\ \A i \in 1..Len(sleepq) : sleepq[i] \in Pid /\ sleepq[i] \in Range(sleepq)
         /\ \A p \in Range(sleepq) : \E i \in 1..Len(sleepq) : sleepq[i] = p
<1>1. /\ sleepq \in Seq(Pid) /\ left \in [Pid -> Int]
      /\ Holds(sleepq, {p \in Pid : prstate[p] \in {"SLEEP", "RECTIM"}})
  BY DEF IInv, TypeOK, SleepTypes, OffCpu
<1>2. Len(sleepq) \in Nat /\ DOMAIN sleepq = 1..Len(sleepq)
  BY <1>1, LenProperties
<1>3. \A i \in 1..Len(sleepq) : sleepq[i] \in Pid
  BY <1>1, ElementOfSeq
<1>4. QED
  BY <1>1, <1>2, <1>3, IInvFacts DEF Holds, Range

LEMMA UnsleepKeysFacts ==
  ASSUME IInv, NEW p \in Pid, prstate[p] \in {"SLEEP", "RECTIM"}
  PROVE  UnsleepKeys(p) \in [Pid -> Int] /\ SameReadyKeys(UnsleepKeys(p))
<1> DEFINE i == CHOOSE j \in 1..Len(sleepq) : sleepq[j] = p
<1>1. p \in Range(sleepq)
  BY SleepqFacts
<1>2. UnsleepKeys(p) \in [Pid -> Int]
  BY <1>1, SleepqFacts, UnsleepKeysType
<1>3. UnsleepKeys(p) = IF i < Len(sleepq) THEN [qkey EXCEPT ![sleepq[i+1]] = @ + qkey[p]] ELSE qkey
  BY DEF UnsleepKeys
<1>4. i \in 1..Len(sleepq)
  BY <1>1, SleepqFacts
<1> HIDE DEF i
<1>5. ASSUME i < Len(sleepq) PROVE prstate[sleepq[i+1]] \in {"SLEEP", "RECTIM"}
  <2>1. i+1 \in 1..Len(sleepq)
    BY <1>4, <1>5, SleepqFacts
  <2>2. QED
    BY <2>1, SleepqFacts
<1>6. \A x \in Pid : prstate[x] = "READY" => UnsleepKeys(p)[x] = qkey[x]
  BY <1>3, <1>5, SleepqFacts
<1>7. QED
  BY <1>2, <1>6 DEF SameReadyKeys

LEMMA InsertdKeysFacts ==
  ASSUME IInv, NEW delay \in Nat
  PROVE  /\ InsertdKeys(sleepq, qkey, currpid, delay) \in [Pid -> Int]
         /\ SameReadyKeys(InsertdKeys(sleepq, qkey, currpid, delay))
<1> DEFINE i == InsertdPosition(sleepq, qkey, delay)
           rest == delay - Elapsed(sleepq, qkey)[i-1]
           ks == InsertdKeys(sleepq, qkey, currpid, delay)
<1>1. ks \in [Pid -> Int]
  <2>1. delay \in Int
    OBVIOUS
  <2>2. QED
    BY <2>1, SleepqFacts, IInvFacts, InsertdKeysType
<1>2. ks = IF i <= Len(sleepq) THEN [qkey EXCEPT ![currpid] = rest, ![sleepq[i]] = @ - rest]
                               ELSE [qkey EXCEPT ![currpid] = rest]
  BY DEF InsertdKeys
<1>3. i \in 1..Len(sleepq)+1
  BY SleepqFacts, PositionInDeltaList
<1> HIDE DEF i, rest, ks
<1>4. ASSUME i <= Len(sleepq) PROVE prstate[sleepq[i]] \in {"SLEEP", "RECTIM"}
  <2>1. i \in 1..Len(sleepq)
    BY <1>3, <1>4, SleepqFacts
  <2>2. QED
    BY <2>1, SleepqFacts
<1>5. \A x \in Pid : prstate[x] = "READY" => ks[x] = qkey[x]
  BY <1>2, <1>4, SleepqFacts, IInvFacts
<1>6. QED
  BY <1>1, <1>5 DEF SameReadyKeys, ks
-----------------------------------------------------------------------------
(* Most steps are calm: they hand over to the scheduler with the keys as   *)
(* they are and touch neither the sleep queue nor the count of processes.  *)

SameKillers == \A p \in Pid : frame'[p].at = "kill" <=> frame[p].at = "kill"
Moves(ks) == Handover(ks) /\ UNCHANGED <<prprio, prcount>> /\ SameKillers
Calm == Moves(qkey) /\ UNCHANGED sleepVars /\ ~In("wakeup")

\* Neither the routine that is left nor the one that is entered is kill.
LEMMA OtherRoutine ==
  ASSUME IInv, frame[currpid].at # "kill", NEW f, f.at # "kill", Goto(f)
  PROVE  SameKillers
BY IInvFacts DEF Goto, TypeOK, CallTypes, SameKillers

LEMMA HandsOver ==
  ASSUME IInv,
         \/ Stays(qkey)
         \/ \E s \in PrState \ {"FREE"} : Blocks(qkey, s)
         \/ Wakes(qkey)
         \/ \E p \in Pid : Unreadies(qkey, p, "SUSP")
         \/ DeferStop
  PROVE  Handover(qkey)
BY IInvFacts DEF Handover, SameReadyKeys

\* A system call that leaves every frame as it is, and one that enters a routine.
LEMMA CallCalm ==
  ASSUME IInv, NEW c, Syscall(c), Handover(qkey), UNCHANGED <<sleepVars, prprio, prcount>>,
         \/ UNCHANGED frame
         \/ \E f : f.at # "kill" /\ Goto(f)
  PROVE  Calm
<1>1. ~In("wakeup") /\ frame[currpid].at # "kill"
  BY DEF Syscall, In
<1>2. CASE UNCHANGED frame
  BY <1>1, <1>2 DEF Calm, Moves, SameKillers
<1>3. ASSUME NEW f, f.at # "kill", Goto(f) PROVE Calm
  BY <1>1, <1>3, OtherRoutine DEF Calm, Moves
<1>4. QED
  BY <1>2, <1>3

\* The end or the next turn of a routine that was entered before.
LEMMA RoutineCalm ==
  ASSUME IInv, ~In("wakeup"), ~In("kill"), Handover(qkey), UNCHANGED <<sleepVars, prprio, prcount>>,
         \/ UNCHANGED frame
         \/ \E f : f.at # "kill" /\ Goto(f)
  PROVE  Calm
<1>1. frame[currpid].at # "kill"
  BY DEF In
<1>2. CASE UNCHANGED frame
  BY <1>2 DEF Calm, Moves, SameKillers
<1>3. ASSUME NEW f, f.at # "kill", Goto(f) PROVE Calm
  BY <1>1, <1>3, OtherRoutine DEF Calm, Moves
<1>4. QED
  BY <1>2, <1>3

LEMMA NothingScheduled ==
  ASSUME IInv, UNCHANGED <<schedVars, ndefers>>
  PROVE  Handover(qkey)
BY HandsOver DEF Stays, schedVars

LEMMA RefusedCreateCalm ==
  ASSUME IInv, NEW prio \in Prios, Create(prio), prio < 1
  PROVE  Calm
<1>1. /\ Syscall("create")
      /\ UNCHANGED <<schedVars, ndefers, sleepVars, prprio, prcount, frame>>
  BY DEF Create, schedVars
<1>2. QED
  BY <1>1, NothingScheduled, CallCalm

LEMMA ResumeCalm ==
  ASSUME IInv, NEW p \in Pid, Resume(p)
  PROVE  Calm
<1>1. /\ Syscall("resume") /\ Wakes(qkey)
      /\ UNCHANGED <<sleepVars, prprio, prcount, frame>>
  BY DEF Resume, Wakes, procVars
<1>2. QED
  BY <1>1, HandsOver, CallCalm

\* The caller blocks in state s.
LEMMA BlockHandsOver ==
  ASSUME IInv, NEW s \in PrState \ {"READY", "FREE"}, Block(s), UNCHANGED ndefers,
         s = "CURR" \/ (currpid # NULLPROC /\ ndefers = 0)
  PROVE  Handover(qkey)
<1>1. Blocks(qkey, s)
  BY IInvFacts DEF Blocks, Block
<1>2. QED
  BY <1>1, HandsOver

LEMMA SuspendCalm ==
  ASSUME IInv, NEW p \in Pid, Suspend(p)
  PROVE  Calm
<1>1. /\ Syscall("suspend") /\ currpid # NULLPROC /\ ndefers = 0
      /\ UNCHANGED <<sleepVars, prprio, prcount, frame, ndefers>>
  BY SyscallFacts DEF Suspend, procVars
<1>2. CASE prstate[p] = "READY"
  <2>1. Unreadies(qkey, p, "SUSP")
    BY <1>1, <1>2 DEF Suspend, Unreadies, PrState
  <2>2. QED
    BY <1>1, <2>1, HandsOver, CallCalm
<1>3. CASE Block("SUSP")
  <2>1. Handover(qkey)
    BY <1>1, <1>3, BlockHandsOver DEF PrState
  <2>2. QED
    BY <1>1, <2>1, CallCalm
<1>4. QED
  BY <1>2, <1>3 DEF Suspend

LEMMA YieldCalm ==
  ASSUME IInv, Yield
  PROVE  Calm
<1>1. /\ Syscall("yield") /\ Block("CURR")
      /\ UNCHANGED <<sleepVars, prprio, prcount, frame, ndefers>>
  BY DEF Yield, procVars
<1>2. Handover(qkey)
  BY <1>1, BlockHandsOver DEF PrState
<1>3. QED
  BY <1>1, <1>2, CallCalm

LEMMA ReceiveCalm ==
  ASSUME IInv, ReceiveAtOnce \/ ReceiveBlock \/ ReceiveReturn
  PROVE  Calm
<1>1. CASE ReceiveAtOnce
  <2>1. /\ \E c : Syscall(c)
        /\ UNCHANGED <<sleepVars, prprio, prcount, frame, schedVars, ndefers>>
    BY <1>1 DEF ReceiveAtOnce, procVars
  <2>2. QED
    BY <2>1, NothingScheduled, CallCalm
<1>2. CASE ReceiveBlock
  <2>1. /\ Syscall("receive") /\ Block("RECV") /\ currpid # NULLPROC /\ ndefers = 0
        /\ UNCHANGED <<sleepVars, prprio, prcount, ndefers>>
    BY <1>2, SyscallFacts DEF ReceiveBlock, procVars
  <2>2. Handover(qkey)
    BY <2>1, BlockHandsOver DEF PrState
  <2>3. \E f : f.at # "kill" /\ Goto(f)
    BY <1>2, PlainFrame DEF ReceiveBlock, Routine
  <2>4. QED
    BY <2>1, <2>2, <2>3, CallCalm
<1>3. CASE ReceiveReturn
  <2>1. /\ ~In("wakeup") /\ ~In("kill") /\ Goto(User) /\ User.at # "kill"
        /\ UNCHANGED <<sleepVars, prprio, prcount, schedVars, ndefers>>
    BY <1>3, UserFrame DEF ReceiveReturn, procVars, In
  <2>2. QED
    BY <2>1, NothingScheduled, RoutineCalm
<1>4. QED
  BY <1>1, <1>2, <1>3

LEMMA SleepmsNothingCalm ==
  ASSUME IInv, NEW delay \in Delays, Sleepms(delay), delay = 0
  PROVE  Calm
<1>1. /\ Syscall("sleepms") /\ Block("CURR")
      /\ UNCHANGED <<sleepVars, prprio, prcount, frame, ndefers>>
  BY DEF Sleepms, procVars
<1>2. Handover(qkey)
  BY <1>1, BlockHandsOver DEF PrState
<1>3. QED
  BY <1>1, <1>2, CallCalm

LEMMA SemcreateCalm ==
  ASSUME IInv, NEW count \in Counts, Semcreate(count)
  PROVE  Calm
<1>1. /\ Syscall("semcreate")
      /\ UNCHANGED <<sleepVars, prprio, prcount, frame, schedVars, ndefers>>
  BY DEF Semcreate, procVars
<1>2. QED
  BY <1>1, NothingScheduled, CallCalm

LEMMA WaitCalm ==
  ASSUME IInv, NEW s \in Sid, Wait(s)
  PROVE  Calm
<1>1. /\ Syscall("wait") /\ currpid # NULLPROC /\ ndefers = 0
      /\ UNCHANGED <<sleepVars, prprio, prcount, frame, ndefers>>
  BY SyscallFacts DEF Wait
<1>2. Block("WAIT") \/ UNCHANGED schedVars
  BY DEF Wait
<1>3. Handover(qkey)
  BY <1>1, <1>2, BlockHandsOver, NothingScheduled DEF PrState
<1>4. QED
  BY <1>1, <1>3, CallCalm

\* signal, and the turns of the loops that release a waiter or find none.
LEMMA ReleaseHandsOver ==
  ASSUME IInv, NEW s \in Sid, ~In("semreset"), Release(s), UNCHANGED ndefers
  PROVE  Handover(qkey)
<1>1. CASE scount[s] < 0 /\ Ready(Head(squeue[s]), qkey)
  <2>1. Len(squeue[s]) # 0
    <3>1. Len(squeue[s]) = -scount[s]
      BY <1>1 DEF IInv, SemInv, SemaphoreCounts, Resetting
    <3>2. scount[s] \in Int
      BY SemFacts
    <3>3. QED
      BY <1>1, <3>1, <3>2
  <2> DEFINE R == {p \in Pid : prstate[p] = "WAIT" /\ prsem[p] = s}
  <2>2. squeue[s] # <<>> /\ squeue[s] \in Seq(Pid) /\ Holds(squeue[s], R)
    BY <2>1, SemFacts
  <2>3. Head(squeue[s]) \in R
    <3> HIDE DEF R
    <3> QED BY <2>2, TailHolds
  <2>4. Wakes(qkey)
    BY <1>1, <2>3 DEF Wakes
  <2>5. QED
    BY <2>4, HandsOver
<1>2. CASE UNCHANGED schedVars
  BY <1>2, NothingScheduled
<1>3. QED
  BY <1>1, <1>2 DEF Release

LEMMA SignalCalm ==
  ASSUME IInv, NEW s \in Sid, Signal(s)
  PROVE  Calm
<1>1. /\ Release(s) /\ ~In("wakeup") /\ ~In("kill") /\ ~In("semreset")
      /\ UNCHANGED <<sleepVars, prprio, prcount, frame, ndefers>>
  BY DEF Signal, procVars, Syscall, Interrupted, In
<1>2. QED
  BY <1>1, ReleaseHandsOver, RoutineCalm

LEMMA LoopStartCalm ==
  ASSUME IInv, NEW s \in Sid,
         \/ SemdeleteStart(s)
         \/ \E n \in Counts : SignalnStart(s, n) \/ SemresetStart(s, n)
  PROVE  Calm
<1>1. /\ ~In("wakeup") /\ ~In("kill")
      /\ UNCHANGED <<sleepVars, prprio, prcount, prstate, readylist, qkey, currpid>>
      /\ DeferStart
  BY DEF SemdeleteStart, SignalnStart, SemresetStart, procVars, Syscall, Interrupted, In
<1>2. \E r \in {"signaln", "semdelete", "semreset"}, n \in Nat : Goto(Frame(r, s, n))
  BY ArgumentsAssumption DEF SemdeleteStart, SignalnStart, SemresetStart
<1>3. \E f : f.at # "kill" /\ Goto(f)
  BY <1>2 DEF Frame
<1>4. Handover(qkey)
  BY <1>1, HandsOver DEF Stays
<1>5. QED
  BY <1>1, <1>3, <1>4, RoutineCalm

LEMMA LoopTurnCalm ==
  ASSUME IInv, SignalnTurn \/ SemdeleteTurn
  PROVE  Calm
<1>1. /\ ~In("wakeup") /\ ~In("kill") /\ ~In("semreset")
      /\ Release(frame[currpid].obj)
      /\ UNCHANGED <<sleepVars, prprio, prcount, ndefers>>
  BY DEF SignalnTurn, SemdeleteTurn, procVars, In
<1>2. /\ frame[currpid].obj \in Sid /\ frame[currpid] \in FrameSet
      /\ frame[currpid].at \in {"signaln", "semdelete", "batch_signaln"}
  BY CurrentFrame DEF FrameOK, SignalnTurn, SemdeleteTurn, In
<1>3. \E m : Goto([frame[currpid] EXCEPT !.n = m])
  BY DEF SignalnTurn, SemdeleteTurn
<1>4. \E f : f.at # "kill" /\ Goto(f)
  BY <1>2, <1>3 DEF FrameSet
<1>5. QED
  BY <1>1, <1>2, <1>4, ReleaseHandsOver, RoutineCalm

LEMMA SemresetTurnCalm ==
  ASSUME IInv, SemresetTurn
  PROVE  Calm
<1> DEFINE s == frame[currpid].obj
           R == {p \in Pid : prstate[p] = "WAIT" /\ prsem[p] = s}
<1>1. /\ ~In("wakeup") /\ ~In("kill") /\ squeue[s] # <<>> /\ Ready(Head(squeue[s]), qkey)
      /\ UNCHANGED <<sleepVars, prprio, prcount, frame, ndefers>>
  BY DEF SemresetTurn, procVars, In
<1>2. s \in Sid
  BY CurrentFrame DEF FrameOK, SemresetTurn, In
<1>3. squeue[s] \in Seq(Pid) /\ Holds(squeue[s], R)
  BY <1>2, SemFacts
<1>4. Head(squeue[s]) \in R
  <2> HIDE DEF R, s
  <2> QED BY <1>1, <1>3, TailHolds
<1>5. Wakes(qkey)
  BY <1>1, <1>4 DEF Wakes
<1>6. QED
  BY <1>1, <1>5, HandsOver, RoutineCalm

LEMMA LoopStopCalm ==
  ASSUME IInv, LoopStop \/ SemresetStop
  PROVE  Calm
<1>1. /\ ~In("wakeup") /\ ~In("kill") /\ DeferStop /\ Goto(User) /\ User.at # "kill"
      /\ UNCHANGED <<sleepVars, prprio, prcount>>
  BY UserFrame DEF LoopStop, SemresetStop, procVars, In
<1>2. QED
  BY <1>1, HandsOver, RoutineCalm

\* A device's handler puts rescheduling off, releases waiters, and makes up for it.
LEMMA BatchEdgeCalm ==
  ASSUME IInv,
         \/ BatchStart \/ BatchSignalnStop \/ BatchStop
         \/ \E s \in Sid, n \in Counts : BatchSignalnStart(s, n)
  PROVE  Calm
<1>1. /\ ~In("wakeup") /\ ~In("kill")
      /\ UNCHANGED <<sleepVars, prprio, prcount>>
  BY DEF BatchStart, BatchSignalnStart, BatchSignalnStop, BatchStop, procVars, Interrupted, In
<1>2. \/ DeferStart /\ UNCHANGED <<prstate, readylist, qkey, currpid>>
      \/ DeferStop
  BY DEF BatchStart, BatchSignalnStart, BatchSignalnStop, BatchStop
<1>3. Handover(qkey)
  BY <1>2, HandsOver DEF Stays
<1>4. \E r \in {"batch", "batch_signaln", "user"} : \E o, n : Goto(Frame(r, o, n))
  BY DEF BatchStart, BatchSignalnStart, BatchSignalnStop, BatchStop, User
<1>5. \E f : f.at # "kill" /\ Goto(f)
  BY <1>4 DEF Frame
<1>6. QED
  BY <1>1, <1>3, <1>5, RoutineCalm

LEMMA BatchSignalCalm ==
  ASSUME IInv, NEW s \in Sid, BatchSignal(s)
  PROVE  Calm
<1>1. /\ Release(s) /\ ~In("wakeup") /\ ~In("kill") /\ ~In("semreset")
      /\ UNCHANGED <<sleepVars, prprio, prcount, frame, ndefers>>
  BY DEF BatchSignal, procVars, In
<1>2. QED
  BY <1>1, ReleaseHandsOver, RoutineCalm

LEMMA ClockPreemptCalm ==
  ASSUME IInv, ClockPreempt
  PROVE  Calm
<1>1. /\ ~In("wakeup") /\ ~In("kill") /\ Goto(User) /\ User.at # "kill"
      /\ UNCHANGED <<sleepVars, prprio, prcount, ndefers>>
  BY UserFrame DEF ClockPreempt, procVars, In
<1>2. CASE Resched(prstate, readylist, qkey, QUANTUM)
  <2>1. prstate = [prstate EXCEPT ![currpid] = "CURR"] /\ QUANTUM \in 1..QUANTUM
    BY IInvFacts, SizesAssumption
  <2>2. Blocks(qkey, "CURR")
    BY <1>1, <1>2, <2>1 DEF Blocks, PrState
  <2>3. QED
    BY <1>1, <2>2, HandsOver, RoutineCalm DEF PrState
<1>3. CASE UNCHANGED <<prstate, qkey, readylist, currpid, attempt>>
  <2>1. Stays(qkey)
    BY <1>1, <1>3 DEF Stays
  <2>2. QED
    BY <1>1, <2>1, HandsOver, RoutineCalm
<1>4. QED
  BY <1>2, <1>3 DEF ClockPreempt

\* A message: the receiver, if it waits for one, is made ready, out of the sleep
\* queue if it has a timer.
LEMMA DeliverHandsOver ==
  ASSUME IInv, NEW p \in Pid, Deliver(p), UNCHANGED ndefers
  PROVE  \/ Handover(qkey) /\ UNCHANGED sleepVars
         \/ /\ prstate[p] = "RECTIM" /\ Handover(UnsleepKeys(p))
            /\ sleepq' = Unlink(sleepq, p) /\ left' = [left EXCEPT ![p] = 0]
<1>1. CASE UNCHANGED <<schedVars, sleepVars>>
  BY <1>1, NothingScheduled
<1>2. CASE prstate[p] = "RECV" /\ Ready(p, qkey) /\ UNCHANGED sleepVars
  <2>1. Wakes(qkey)
    BY <1>2 DEF Wakes
  <2>2. QED
    BY <1>2, <2>1, HandsOver
<1>3. CASE /\ prstate[p] = "RECTIM" /\ Ready(p, UnsleepKeys(p))
           /\ sleepq' = Unlink(sleepq, p) /\ left' = [left EXCEPT ![p] = 0]
  <2>1. UnsleepKeys(p) \in [Pid -> Int] /\ SameReadyKeys(UnsleepKeys(p))
    BY <1>3, UnsleepKeysFacts
  <2>2. Wakes(UnsleepKeys(p))
    BY <1>3 DEF Wakes
  <2>3. QED
    BY <1>3, <2>1, <2>2 DEF Handover
<1>4. QED
  BY <1>1, <1>2, <1>3 DEF Deliver

\* The caller of sleepms or recvtime is queued with a share of its delay.
LEMMA EnterHandsOver ==
  ASSUME IInv, NEW c, Syscall(c), NEW delay \in Nat, NEW s \in {"SLEEP", "RECTIM"},
         EnterSleepq(delay, s), UNCHANGED ndefers
  PROVE  Handover(InsertdKeys(sleepq, qkey, currpid, delay))
<1> DEFINE ks == InsertdKeys(sleepq, qkey, currpid, delay)
<1>1. currpid # NULLPROC /\ ndefers = 0
  BY SyscallFacts
<1>2. ks \in [Pid -> Int] /\ SameReadyKeys(ks)
  BY InsertdKeysFacts
<1>3. Blocks(ks, s)
  BY <1>1, IInvFacts DEF Blocks, EnterSleepq, PrState
<1> HIDE DEF ks
<1>4. QED
  BY <1>2, <1>3 DEF Handover, ks, PrState

\* Every such call, with the frame it leaves.
Enters(delay) ==
  /\ delay \in Nat /\ (0 \notin Waits => delay > 0)
  /\ \E s \in {"SLEEP", "RECTIM"} : EnterSleepq(delay, s)
  /\ In("user")
  /\ Moves(InsertdKeys(sleepq, qkey, currpid, delay))

LEMMA RecvtimeEnters ==
  ASSUME IInv, NEW delay \in Waits, RecvtimeBlock(delay)
  PROVE  Enters(delay)
<1>1. /\ Syscall("recvtime") /\ In("user") /\ delay \in Nat /\ (0 \notin Waits => delay > 0)
      /\ EnterSleepq(delay, "RECTIM") /\ Goto(Frame("recvtime", 0, 0))
      /\ UNCHANGED <<prprio, prcount, ndefers>>
  BY ArgumentsAssumption DEF RecvtimeBlock, Syscall, procVars
<1>2. Handover(InsertdKeys(sleepq, qkey, currpid, delay))
  BY <1>1, EnterHandsOver
<1>3. SameKillers
  <2>1. frame[currpid].at # "kill"
    BY <1>1 DEF In
  <2>2. Frame("recvtime", 0, 0).at # "kill"
    BY DEF Frame
  <2>3. QED
    BY <1>1, <2>1, <2>2, OtherRoutine
<1>4. QED
  BY <1>1, <1>2, <1>3 DEF Enters, Moves

LEMMA SleepmsEnters ==
  ASSUME IInv, NEW delay \in Delays, Sleepms(delay), delay # 0
  PROVE  Enters(delay)
<1>1. /\ Syscall("sleepms") /\ In("user") /\ delay \in Nat /\ delay > 0
      /\ EnterSleepq(delay, "SLEEP")
      /\ UNCHANGED <<prprio, prcount, ndefers, frame>>
  BY ArgumentsAssumption DEF Sleepms, Syscall, procVars
<1>2. Handover(InsertdKeys(sleepq, qkey, currpid, delay))
  BY <1>1, EnterHandsOver
<1>3. QED
  BY <1>1, <1>2 DEF Enters, Moves, SameKillers

LEMMA WakeupTurnMoves ==
  ASSUME IInv, WakeupTurn
  PROVE  Moves(qkey)
<1>1. /\ sleepq # <<>> /\ Ready(Head(sleepq), qkey)
      /\ UNCHANGED <<prprio, prcount, ndefers, frame>>
  BY DEF WakeupTurn, Due, procVars
<1>2. Head(sleepq) \in Pid /\ prstate[Head(sleepq)] \in {"SLEEP", "RECTIM"}
  BY <1>1, SleepqFacts, HeadTailProperties, EmptySeq
<1>3. Wakes(qkey)
  BY <1>1, <1>2 DEF Wakes
<1>4. QED
  BY <1>1, <1>3, HandsOver DEF Moves, SameKillers

LEMMA WakeupStopMoves ==
  ASSUME IInv, WakeupStop
  PROVE  Moves(qkey)
<1> DEFINE f == Frame("clkhandler", 0, 0)
<1>1. /\ frame[currpid].at = "wakeup" /\ DeferStop /\ Goto(f)
      /\ UNCHANGED <<prprio, prcount>>
  BY DEF WakeupStop, procVars, In
<1>2. f.at = "clkhandler"
  BY DEF Frame
<1> HIDE DEF f
<1>3. SameKillers
  BY <1>1, <1>2, OtherRoutine
<1>4. QED
  BY <1>1, <1>3, HandsOver DEF Moves

\* The clock counts down the first key, unless it has run out long ago.
LEMMA TickMoves ==
  ASSUME IInv, Tick
  PROVE  Moves(qkey')
<1>1. /\ frame[currpid].at = "user"
      /\ UNCHANGED <<prprio, prcount, prstate, readylist, currpid>>
  BY DEF Tick, procVars, In
<1>2. qkey' \in [Pid -> Int] /\ SameReadyKeys(qkey')
  <2>1. CASE qkey' = qkey
    BY <2>1, IInvFacts DEF SameReadyKeys
  <2>2. CASE sleepq # <<>> /\ qkey' = [qkey EXCEPT ![Head(sleepq)] = @ - 1]
    <3>1. Head(sleepq) \in Pid /\ prstate[Head(sleepq)] \in {"SLEEP", "RECTIM"}
      BY <2>2, SleepqFacts, HeadTailProperties, EmptySeq
    <3>2. QED
      BY <2>2, <3>1, IInvFacts DEF SameReadyKeys
  <2>3. QED
    BY <2>1, <2>2 DEF Tick
<1>3. Stays(qkey')
  BY <1>1 DEF Stays, Tick
<1>4. SameKillers
  <2>1. PICK f : f.at # "kill" /\ Goto(f)
    BY DEF Tick, Frame
  <2>2. QED
    BY <1>1, <2>1, OtherRoutine
<1>5. QED
  BY <1>1, <1>2, <1>3, <1>4 DEF Moves, Handover

LEMMA SendMoves ==
  ASSUME IInv, NEW p \in Pid, Send(p)
  PROVE  \/ Calm
         \/ /\ prstate[p] = "RECTIM" /\ Moves(UnsleepKeys(p)) /\ In("user")
            /\ sleepq' = Unlink(sleepq, p) /\ left' = [left EXCEPT ![p] = 0]
<1>1. /\ Deliver(p) /\ In("user") /\ ~In("wakeup") /\ UNCHANGED <<prprio, prcount, ndefers, frame>>
  BY DEF Send, procVars, Syscall, In
<1>2. QED
  BY <1>1, DeliverHandsOver DEF Moves, Calm, SameKillers

\* The cases of kill's last step: the victim runs, sleeps, is ready or is none of these.
LEMMA KillFinishCases ==
  ASSUME IInv, KillFinish, NEW p, p = frame[currpid].obj
  PROVE  /\ p \in Pid \ {NULLPROC} /\ ndefers = 0 /\ ~In("wakeup") /\ Goto(User)
         /\ UNCHANGED <<procVars, ndefers>>
         /\ \/ p = currpid /\ Blocks(qkey, "FREE") /\ UNCHANGED sleepVars
            \/ /\ prstate[p] \in {"SLEEP", "RECTIM"}
               /\ sleepq' = Unlink(sleepq, p) /\ qkey' = UnsleepKeys(p)
               /\ left' = [left EXCEPT ![p] = 0]
               /\ prstate' = [prstate EXCEPT ![p] = "FREE"]
               /\ UNCHANGED <<readylist, currpid, attempt>>
            \/ Unreadies(qkey, p, "FREE") /\ UNCHANGED sleepVars
            \/ /\ prstate[p] \in {"WAIT", "RECV", "SUSP", "FREE"}
               /\ prstate' = [prstate EXCEPT ![p] = "FREE"]
               /\ UNCHANGED <<sleepVars, qkey, readylist, currpid, attempt>>
<1>1. /\ frame[currpid].at = "kill" /\ Goto(User) /\ ~In("wakeup")
      /\ UNCHANGED <<procVars, ndefers>>
  BY DEF KillFinish, In
<1>2. p \in Pid \ {NULLPROC}
  BY <1>1, CurrentFrame DEF FrameOK
<1>3. ndefers = 0
  BY <1>1, QuietFacts DEF LoopRoutines
<1>4. CASE prstate[p] = "CURR" /\ Resched([prstate EXCEPT ![p] = "FREE"], readylist, qkey, preempt)
           /\ UNCHANGED sleepVars
  <2>1. p = currpid
    BY <1>2, <1>4, IInvFacts
  <2>2. Blocks(qkey, "FREE")
    BY <1>1, <1>2, <1>3, <1>4, <2>1, IInvFacts DEF Blocks, PrState
  <2>3. QED
    BY <1>1, <1>2, <1>3, <1>4, <2>1, <2>2
<1>5. CASE prstate[p] = "READY" /\ readylist' = Unlink(readylist, p)
           /\ prstate' = [prstate EXCEPT ![p] = "FREE"]
           /\ UNCHANGED <<sleepVars, qkey, currpid, preempt, attempt>>
  <2>1. Unreadies(qkey, p, "FREE")
    BY <1>1, <1>5 DEF Unreadies, PrState
  <2>2. QED
    BY <1>1, <1>2, <1>3, <1>5, <2>1
<1>6. QED
  BY <1>1, <1>2, <1>3, <1>4, <1>5 DEF KillFinish

\* Every step, by what it means for order, time and count.
LEMMA NextCases ==
  ASSUME IInv, Next
  PROVE  \/ Calm
         \/ \E prio \in Prios : Create(prio) /\ ~(prio < 1)
         \/ \E p \in Pid, prio \in Prios : Chprio(p, prio)
         \/ \E p \in Pid : KillStart(p) \/ Send(p)
         \/ \E delay \in Nat : Enters(delay)
         \/ KillFinish \/ WakeupTurn \/ WakeupStop \/ Tick
         \/ UNCHANGED vars
<1>1. CASE ProcessStep
  <2>1. ASSUME NEW prio \in Prios, Create(prio), prio < 1 PROVE Calm
    BY <2>1, RefusedCreateCalm
  <2>2. ASSUME NEW p \in Pid, Resume(p) \/ Suspend(p) PROVE Calm
    BY <2>2, ResumeCalm, SuspendCalm
  <2>3. CASE Yield \/ ReceiveAtOnce \/ ReceiveBlock
    BY <2>3, YieldCalm, ReceiveCalm
  <2>4. ASSUME NEW delay \in Waits, RecvtimeBlock(delay) PROVE \E d \in Nat : Enters(d)
    BY <2>4, RecvtimeEnters, ArgumentsAssumption
  <2>5. ASSUME NEW delay \in Delays, Sleepms(delay) PROVE Calm \/ \E d \in Nat : Enters(d)
    BY <2>5, SleepmsEnters, SleepmsNothingCalm, ArgumentsAssumption
  <2>6. QED
    BY <1>1, <2>1, <2>2, <2>3, <2>4, <2>5 DEF ProcessStep
<1>2. CASE SemaphoreStep
  BY <1>2, SemcreateCalm, WaitCalm, SignalCalm, LoopStartCalm DEF SemaphoreStep
<1>3. CASE KernelStep
  BY <1>3, ReceiveCalm, LoopTurnCalm, SemresetTurnCalm, LoopStopCalm, ClockPreemptCalm,
     BatchEdgeCalm, BatchSignalCalm DEF KernelStep, Halted
<1>4. QED
  BY <1>1, <1>2, <1>3, BatchEdgeCalm DEF Next
-----------------------------------------------------------------------------
(* The order of priorities is kept.                                        *)

LEMMA MovesOrder ==
  ASSUME IInv, OrderInv, NEW ks, Moves(ks)
  PROVE  OrderInv'
BY HandoverOrder DEF Moves

\* A new process is suspended.
LEMMA CreateOrder ==
  ASSUME IInv, OrderInv, NEW prio \in Prios, Create(prio), ~(prio < 1)
  PROVE  OrderInv'
<1>1. PICK p \in Pid :
        /\ IsNewpid(p)
        /\ prstate' = [prstate EXCEPT ![p] = "SUSP"]
        /\ prprio' = [prprio EXCEPT ![p] = prio]
  BY DEF Create
<1>2. UNCHANGED <<qkey, readylist, currpid, attempt, ndefers>>
  BY DEF Create
<1>3. prstate[p] = "FREE" /\ prprio \in [Pid -> Int]
  BY <1>1, IInvFacts DEF IsNewpid, TypeOK, ProcTypes
<1>4. \A x \in Pid : prstate'[x] = "READY" => prstate[x] = "READY"
  BY <1>1, IInvFacts
<1>5. /\ \A x \in Pid : prstate[x] = "READY" => qkey'[x] = qkey[x] /\ prprio'[x] = prprio[x]
      /\ prprio'[currpid] = prprio[currpid]
  BY <1>1, <1>2, <1>3, IInvFacts
<1>6. QED
  BY <1>2, <1>4, <1>5, StayOrder

\* chprio moves nobody in the ready list: its order of keys is kept, and that is all.
LEMMA ChprioOrder ==
  ASSUME IInv, OrderInv, NEW p \in Pid, NEW prio \in Prios, Chprio(p, prio)
  PROVE  OrderInv'
<1>1. "chprio" \in Calls /\ readylist' = readylist /\ qkey' = qkey
  BY DEF Chprio, Syscall, schedVars
<1>2. QED
  BY <1>1 DEF OrderInv, Sorted

LEMMA KillStartOrder ==
  ASSUME IInv, OrderInv, NEW p \in Pid, KillStart(p)
  PROVE  OrderInv'
<1>1. UNCHANGED <<prprio, ndefers>> /\ prparent[p] \in Pid
  BY IInvFacts DEF KillStart, TypeOK, ProcTypes
<1>2. CASE Deliver(prparent[p])
  <2>1. Handover(qkey) \/ Handover(UnsleepKeys(prparent[p]))
    BY <1>1, <1>2, DeliverHandsOver
  <2>2. QED
    BY <1>1, <2>1, HandoverOrder
<1>3. CASE UNCHANGED schedVars
  BY <1>1, <1>3, NothingScheduled, HandoverOrder
<1>4. QED
  BY <1>2, <1>3 DEF KillStart

LEMMA KillFinishOrder ==
  ASSUME IInv, OrderInv, KillFinish
  PROVE  OrderInv'
<1>1. PICK p : p = frame[currpid].obj
  OBVIOUS
<1>2. /\ p \in Pid /\ prprio' = prprio /\ ndefers' = ndefers
      /\ \/ Blocks(qkey, "FREE")
         \/ /\ prstate[p] \in {"SLEEP", "RECTIM"} /\ qkey' = UnsleepKeys(p)
            /\ prstate' = [prstate EXCEPT ![p] = "FREE"]
            /\ UNCHANGED <<readylist, currpid, attempt>>
         \/ Unreadies(qkey, p, "FREE")
         \/ /\ prstate' = [prstate EXCEPT ![p] = "FREE"]
            /\ UNCHANGED <<qkey, readylist, currpid, attempt>>
  BY <1>1, KillFinishCases DEF procVars
<1>3. qkey \in [Pid -> Int] /\ SameReadyKeys(qkey)
  BY IInvFacts DEF SameReadyKeys
<1>4. CASE Blocks(qkey, "FREE") \/ Unreadies(qkey, p, "FREE")
  BY <1>2, <1>3, <1>4, BlockOrder, UnreadyOrder
<1>5. CASE /\ prstate' = [prstate EXCEPT ![p] = "FREE"]
           /\ UNCHANGED <<readylist, currpid, attempt>>
           /\ \/ qkey' = qkey
              \/ prstate[p] \in {"SLEEP", "RECTIM"} /\ qkey' = UnsleepKeys(p)
  <2>1. SameReadyKeys(qkey')
    BY <1>2, <1>3, <1>5, UnsleepKeysFacts
  <2>2. \A x \in Pid : prstate'[x] = "READY" => prstate[x] = "READY"
    BY <1>2, <1>5, IInvFacts
  <2>3. QED
    BY <1>2, <1>5, <2>1, <2>2, StayOrder DEF SameReadyKeys
<1>6. QED
  BY <1>2, <1>4, <1>5

LEMMA OrderStep ==
  ASSUME IInv, OrderInv, [Next]_vars
  PROVE  OrderInv'
<1>1. CASE Calm
  BY <1>1, MovesOrder DEF Calm
<1>2. ASSUME NEW prio \in Prios, Create(prio), ~(prio < 1) PROVE OrderInv'
  BY <1>2, CreateOrder
<1>3. ASSUME NEW p \in Pid, NEW prio \in Prios, Chprio(p, prio) PROVE OrderInv'
  BY <1>3, ChprioOrder
<1>4. ASSUME NEW p \in Pid, KillStart(p) PROVE OrderInv'
  BY <1>4, KillStartOrder
<1>5. ASSUME NEW p \in Pid, Send(p) PROVE OrderInv'
  <2>1. Moves(qkey) \/ Moves(UnsleepKeys(p))
    BY <1>5, SendMoves DEF Calm
  <2>2. QED
    BY <2>1, MovesOrder
<1>6. ASSUME NEW delay \in Nat, Enters(delay) PROVE OrderInv'
  BY <1>6, MovesOrder DEF Enters
<1>7. CASE KillFinish
  BY <1>7, KillFinishOrder
<1>8. CASE WakeupTurn \/ WakeupStop \/ Tick
  BY <1>8, MovesOrder, WakeupTurnMoves, WakeupStopMoves, TickMoves
<1>9. CASE UNCHANGED vars
  BY <1>9 DEF vars, schedVars, procVars, OrderInv, Sorted, Keyed, CurrentFirst
<1>10. QED
  BY <1>1, <1>2, <1>3, <1>4, <1>5, <1>6, <1>7, <1>8, <1>9, NextCases

LEMMA OrderInit ==
  ASSUME Init
  PROVE  OrderInv
<1>1. readylist = <<NULLPROC>> /\ currpid = 1 /\ 1 \in Pid /\ 0 \in Pid
  BY SizesAssumption DEF Init, Pid
<1>2. Sorted(readylist, qkey)
  BY <1>1 DEF Sorted
<1>3. \A p \in Pid : prstate[p] = "READY" => p = 0
  BY DEF Init
<1>4. qkey[0] = 0 /\ prprio[0] = 0 /\ prprio[1] = InitPrio /\ InitPrio >= 0
  BY <1>1, ArgumentsAssumption DEF Init
<1>5. QED
  BY <1>1, <1>2, <1>3, <1>4 DEF OrderInv, Keyed, CurrentFirst

\* The invariant of order holds in every reachable state, whoever calls chprio or not.
THEOREM OrderInvariance == Spec => []OrderInv
<1>1. Init => OrderInv
  BY OrderInit
<1>2. IInv /\ OrderInv /\ [Next]_vars => OrderInv'
  BY OrderStep
<1>3. QED
  BY <1>1, <1>2, Invariance, PTL DEF Spec

\* insert keeps the ready list in descending order of key, whoever calls what.
THEOREM ReadyListStaysSorted == Spec => []ReadyListSorted
<1>1. IInv /\ OrderInv => ReadyListSorted
  BY IInvFacts, LenProperties DEF OrderInv, Sorted, ReadyListSorted
<1>2. QED
  BY <1>1, Invariance, OrderInvariance, PTL

\* As long as nobody calls chprio, the ready list is in the order of the priorities
\* and no ready process has a higher one than the running process.
THEOREM PrioritiesObeyed ==
  ASSUME "chprio" \notin Calls
  PROVE  Spec => []PriorityOrder
<1>1. IInv /\ OrderInv => PriorityOrder
  BY IInvFacts, LenProperties
     DEF OrderInv, Sorted, ReadyListSorted, PriorityOrder, CurrentHighest, CurrentFirst
<1>2. QED
  BY <1>1, Invariance, OrderInvariance, PTL

\* A step changes the frame of the process that runs, or that of a new process.
LEMMA FramesOfOthers ==
  ASSUME Next
  PROVE  \/ UNCHANGED frame
         \/ UNCHANGED currpid
         \/ \E f : Goto(f)
<1>1. CASE ProcessStep
  BY <1>1 DEF ProcessStep, Create, Resume, Suspend, KillStart, Send, Chprio, Yield,
     ReceiveAtOnce, ReceiveBlock, RecvtimeBlock, Sleepms
<1>2. CASE SemaphoreStep
  BY <1>2 DEF SemaphoreStep, Semcreate, Wait, Signal, SemdeleteStart, SignalnStart, SemresetStart
<1>3. CASE KernelStep
  BY <1>3 DEF KernelStep, ReceiveReturn, KillFinish, Halted, SignalnTurn, SemdeleteTurn,
     LoopStop, SemresetTurn, SemresetStop, WakeupTurn, WakeupStop, ClockPreempt,
     BatchSignal, BatchSignalnStart, BatchSignalnStop, BatchStop, vars
<1>4. CASE Tick \/ BatchStart
  BY <1>4 DEF Tick, BatchStart
<1>5. QED
  BY <1>1, <1>2, <1>3, <1>4 DEF Next

\* resched gives the CPU to the highest priority eligible process, as its comment
\* says, as long as nobody calls chprio: whoever takes the CPU is not in a loop, so
\* rescheduling is not deferred when the switch is done.
THEOREM HighestTakesOver ==
  ASSUME "chprio" \notin Calls
  PROVE  Spec => ReschedPicksHighest
<1> DEFINE Highest == currpid' # currpid =>
             \A p \in Pid : prstate'[p] = "READY" => prprio'[currpid'] >= prprio'[p]
<1>1. IInv /\ OrderInv /\ [Next]_vars => [Highest]_vars
  <2> SUFFICES ASSUME IInv, OrderInv, Next, currpid' # currpid
               PROVE  \A p \in Pid : prstate'[p] = "READY" => prprio'[currpid'] >= prprio'[p]
    BY DEF vars
  <2>1. IInv' /\ OrderInv'
    BY NextStep, OrderStep
  <2>2. currpid' \in Pid
    BY <2>1 DEF IInv, TypeOK, SchedTypes
  <2>3. frame'[currpid'] = frame[currpid']
    BY <2>2, FramesOfOthers DEF Goto, IInv, TypeOK, CallTypes
  <2>4. frame[currpid'].at \notin LoopRoutines
    BY <2>2 DEF IInv, SemInv, DeferralBalanced
  <2>5. ndefers' = 0
    BY <2>1, <2>3, <2>4, OutsideLoops DEF IInv, SemInv, DeferralBalanced
  <2>6. QED
    BY <2>1, <2>5 DEF OrderInv, CurrentFirst
<1>2. QED
  BY <1>1, Invariance, OrderInvariance, PTL DEF Spec, ReschedPicksHighest
-----------------------------------------------------------------------------
(* The count of processes.  A kill in progress has counted its victim out  *)
(* before it frees the victim's entry.                                     *)

Live == {p \in Pid : prstate[p] # "FREE"}
Killers == {p \in Pid : prstate[p] # "FREE" /\ frame[p].at = "kill"}

\* create counts a process in when it enters the table, kill counts its victim out
\* one step before the victim leaves the table.
CountInv == prcount <= Cardinality(Live) - Cardinality(Killers)

LEMMA ProcessSetsFinite ==
  ASSUME NEW S \in SUBSET Pid
  PROVE  IsFiniteSet(S) /\ Cardinality(S) \in Nat
<1>1. IsFiniteSet(Pid)
  BY SizesAssumption, FS_Interval DEF Pid
<1>2. IsFiniteSet(S)
  BY <1>1, FS_Subset
<1>3. QED
  BY <1>2, FS_CardinalityType

LEMMA CountedSets ==
  /\ Live \in SUBSET Pid /\ Killers \in SUBSET Pid
  /\ IsFiniteSet(Live) /\ Cardinality(Live) \in Nat
  /\ IsFiniteSet(Killers) /\ Cardinality(Killers) \in Nat
  /\ IsFiniteSet(Live') /\ Cardinality(Live') \in Nat
  /\ IsFiniteSet(Killers') /\ Cardinality(Killers') \in Nat
<1>1. /\ Live \in SUBSET Pid /\ Killers \in SUBSET Pid
      /\ Live' \in SUBSET Pid /\ Killers' \in SUBSET Pid
  BY DEF Live, Killers
<1>2. QED
  BY <1>1, ProcessSetsFinite

LEMMA MovesCount ==
  ASSUME IInv, CountInv, NEW ks, Moves(ks)
  PROVE  CountInv'
<1>1. \A p \in Pid : prstate'[p] = "FREE" <=> prstate[p] = "FREE"
  BY HandoverStates DEF Moves
<1>2. Live' = Live /\ Killers' = Killers /\ prcount' = prcount
  BY <1>1 DEF Live, Killers, Moves, SameKillers
<1>3. QED
  BY <1>2 DEF CountInv

LEMMA CallFrames ==
  ASSUME IInv, NEW f, Goto(f)
  PROVE  frame'[currpid] = f /\ \A p \in Pid \ {currpid} : frame'[p] = frame[p]
BY IInvFacts DEF Goto, TypeOK, CallTypes

LEMMA CreateCount ==
  ASSUME IInv, CountInv, NEW prio \in Prios, Create(prio), ~(prio < 1)
  PROVE  CountInv'
<1>1. PICK p \in Pid :
        /\ IsNewpid(p) /\ prcount' = prcount + 1
        /\ prstate' = [prstate EXCEPT ![p] = "SUSP"]
        /\ frame' = [frame EXCEPT ![p] = User]
  BY DEF Create
<1>2. /\ prstate[p] = "FREE" /\ prstate \in [Pid -> PrState] /\ frame \in [Pid -> FrameSet]
      /\ prcount \in Int /\ User.at = "user"
  BY <1>1 DEF IsNewpid, IInv, TypeOK, SchedTypes, CallTypes, ProcTypes, User, Frame
<1>3. Live' = Live \cup {p} /\ p \notin Live
  BY <1>1, <1>2 DEF Live
<1>4. Killers' = Killers
  BY <1>1, <1>2 DEF Killers
<1>5. Cardinality(Live') = Cardinality(Live) + 1
  BY <1>3, CountedSets, FS_AddElement
<1>6. QED
  BY <1>1, <1>2, <1>4, <1>5, CountedSets DEF CountInv

\* The caller is counted as a killer from here on, unless the system halts.
LEMMA KillStartCount ==
  ASSUME IInv, CountInv, NEW p \in Pid, KillStart(p)
  PROVE  CountInv'
<1>1. UNCHANGED ndefers /\ prparent[p] \in Pid /\ prcount' = prcount - 1 /\ prcount \in Int
  BY IInvFacts DEF KillStart, TypeOK, ProcTypes
<1>2. \A x \in Pid : prstate'[x] = "FREE" <=> prstate[x] = "FREE"
  <2>1. CASE Deliver(prparent[p])
    BY <1>1, <2>1, DeliverHandsOver, HandoverStates
  <2>2. CASE UNCHANGED schedVars
    BY <2>2 DEF schedVars
  <2>3. QED
    BY <2>1, <2>2 DEF KillStart
<1>3. Live' = Live
  BY <1>2 DEF Live
<1>4. \A x \in Pid \ {currpid} : frame'[x] = frame[x]
  BY CallFrames DEF KillStart
<1>5. Killers' \subseteq Killers \cup {currpid}
  BY <1>2, <1>4 DEF Killers
<1>6. /\ IsFiniteSet(Killers \cup {currpid})
      /\ Cardinality(Killers \cup {currpid}) \in {Cardinality(Killers), Cardinality(Killers) + 1}
  BY CountedSets, FS_AddElement
<1>7. Cardinality(Killers') <= Cardinality(Killers) + 1
  BY <1>5, <1>6, CountedSets, FS_Subset
<1>8. QED
  BY <1>1, <1>3, <1>7, CountedSets DEF CountInv

LEMMA BlockFrees ==
  ASSUME IInv, Blocks(qkey, "FREE")
  PROVE  \A x \in Pid : prstate'[x] = "FREE" <=> prstate[x] = "FREE" \/ x = currpid
<1> DEFINE ps == [prstate EXCEPT ![currpid] = "FREE"]
<1>1. PICK slice \in 1..QUANTUM : Resched(ps, readylist, qkey, slice)
  BY DEF Blocks
<1>2. "FREE" \in PrState \ {"READY"} /\ currpid # NULLPROC /\ ndefers = 0
  BY DEF Blocks
<1>3. Scheduled(ps)
  BY <1>1, <1>2, IInvFacts, BlockSchedules
<1>4. \A x \in Pid : ps[x] = "FREE" <=> prstate[x] = "FREE" \/ x = currpid
  BY IInvFacts
<1> HIDE DEF ps
<1>5. QED
  BY <1>3, <1>4 DEF Scheduled

\* The victim leaves the table and the killer has done.
LEMMA KillFinishCount ==
  ASSUME IInv, CountInv, KillFinish
  PROVE  CountInv'
<1>1. PICK p : p = frame[currpid].obj
  OBVIOUS
<1>2. p \in Pid /\ prcount' = prcount /\ Goto(User) /\ frame[currpid].at = "kill"
  BY <1>1, KillFinishCases DEF procVars, KillFinish, In
<1>3. /\ prstate \in [Pid -> PrState] /\ frame \in [Pid -> FrameSet] /\ prcount \in Int
      /\ currpid \in Pid /\ prstate[currpid] = "CURR"
  BY IInvFacts DEF IInv, TypeOK, SchedTypes, CallTypes, ProcTypes
<1>4. \A x \in Pid : prstate'[x] = "FREE" <=> prstate[x] = "FREE" \/ x = p
  <2>1. CASE prstate' = [prstate EXCEPT ![p] = "FREE"]
    BY <1>2, <1>3, <2>1
  <2>2. CASE p = currpid /\ Blocks(qkey, "FREE")
    BY <1>3, <2>2, BlockFrees
  <2>3. QED
    BY <1>1, <2>1, <2>2, KillFinishCases DEF Unreadies
<1>5. Live' = Live \ {p}
  BY <1>4 DEF Live
<1>6. Killers' \subseteq Killers \ {currpid} /\ currpid \in Killers
  <2>1. frame'[currpid].at = "user" /\ \A x \in Pid \ {currpid} : frame'[x] = frame[x]
    BY <1>2, CallFrames DEF User, Frame
  <2>2. QED
    BY <1>2, <1>3, <1>4, <2>1 DEF Killers
<1>7. Cardinality(Live') >= Cardinality(Live) - 1
  BY <1>5, CountedSets, FS_RemoveElement
<1>8. Cardinality(Killers') <= Cardinality(Killers) - 1
  <2>1. /\ IsFiniteSet(Killers \ {currpid})
        /\ Cardinality(Killers \ {currpid}) = Cardinality(Killers) - 1
    BY <1>6, CountedSets, FS_RemoveElement
  <2>2. QED
    BY <1>6, <2>1, FS_Subset
<1>9. QED
  BY <1>2, <1>3, <1>7, <1>8, CountedSets DEF CountInv

LEMMA CountStep ==
  ASSUME IInv, CountInv, [Next]_vars
  PROVE  CountInv'
<1>1. ASSUME NEW prio \in Prios, Create(prio), ~(prio < 1) PROVE CountInv'
  BY <1>1, CreateCount
<1>2. ASSUME NEW p \in Pid, NEW prio \in Prios, Chprio(p, prio) PROVE CountInv'
  BY <1>2 DEF Chprio, schedVars, CountInv, Live, Killers
<1>3. ASSUME NEW p \in Pid, KillStart(p) PROVE CountInv'
  BY <1>3, KillStartCount
<1>4. ASSUME NEW p \in Pid, Send(p) PROVE CountInv'
  BY <1>4, SendMoves, MovesCount DEF Calm
<1>5. ASSUME NEW delay \in Nat, Enters(delay) PROVE CountInv'
  BY <1>5, MovesCount DEF Enters
<1>6. CASE KillFinish
  BY <1>6, KillFinishCount
<1>7. CASE Calm \/ WakeupTurn \/ WakeupStop \/ Tick
  BY <1>7, MovesCount, WakeupTurnMoves, WakeupStopMoves, TickMoves DEF Calm
<1>8. CASE UNCHANGED vars
  BY <1>8 DEF vars, schedVars, procVars, CountInv, Live, Killers
<1>9. QED
  BY <1>1, <1>2, <1>3, <1>4, <1>5, <1>6, <1>7, <1>8, NextCases

LEMMA CountInit ==
  ASSUME Init
  PROVE  CountInv
<1>1. 0 \in Pid /\ 1 \in Pid /\ 0 # 1
  BY SizesAssumption DEF Pid
<1>2. Live = {0} \cup {1}
  BY <1>1 DEF Init, Live
<1>3. Killers = {}
  BY DEF Init, Killers, User, Frame
<1>4. IsFiniteSet({0}) /\ Cardinality({0}) = 1 /\ 1 \notin {0}
  <2>1. \A x : IsFiniteSet({x}) /\ Cardinality({x}) = 1
    BY FS_Singleton, Zenon
  <2>2. QED
    BY <2>1
<1>5. Cardinality({0} \cup {1}) = 2
  BY <1>4, FS_AddElement
<1>6. prcount = 2 /\ Cardinality({}) = 0
  BY FS_EmptySet DEF Init
<1>7. QED
  BY <1>2, <1>3, <1>5, <1>6 DEF CountInv

\* prcount is never more than the processes in the table less the kills in progress.
THEOREM CountInvariance == Spec => []CountInv
<1>1. Init => CountInv
  BY CountInit
<1>2. IInv /\ CountInv /\ [Next]_vars => CountInv'
  BY CountStep
<1>3. QED
  BY <1>1, <1>2, Invariance, PTL DEF Spec

\* prcount is never more than the processes that stay when the kills in progress
\* are done: each live victim has a killer of its own, so there are at least as
\* many killers as live victims.
THEOREM CountNeverOver == Spec => []CountNotOver
<1> DEFINE V == {p \in Victims : prstate[p] # "FREE"}
           killer == [v \in V |-> CHOOSE k \in Killers : frame[k].obj = v]
<1>1. IInv /\ CountInv => CountNotOver
  <2>1. \A v \in V : \E k \in Killers : frame[k].obj = v
    BY DEF Victims, Killers
  <2>2. \A v \in V : killer[v] \in Killers /\ frame[killer[v]].obj = v
    BY <2>1
  <2>3. killer \in Injection(V, Killers)
    <3>1. killer \in [V -> Killers]
      BY <2>2
    <3>2. \A v, w \in V : killer[v] = killer[w] => v = w
      BY <2>2
    <3> HIDE DEF V, killer
    <3>3. QED
      BY <3>1, <3>2 DEF Injection, IsInjective
  <2>4. Cardinality(V) <= Cardinality(Killers) /\ Cardinality(V) \in Nat
    <3> HIDE DEF V, killer
    <3> QED BY <2>3, CountedSets, FS_Injection, FS_CardinalityType
  <2>5. LiveCount = Cardinality(Live)
    BY DEF LiveCount, Live
  <2>6. IInv => prcount \in Int
    BY DEF IInv, TypeOK, ProcTypes
  <2>7. QED
    BY <2>4, <2>5, <2>6, CountedSets DEF CountInv, CountNotOver
<1>2. QED
  BY <1>1, Invariance, CountInvariance, PTL
-----------------------------------------------------------------------------
(* What each step does to the sleep queue and to the keys of its members.  *)

KeysOnSleepq(ks) == \A p \in Range(sleepq') : qkey'[p] = ks[p]

Keeps == UNCHANGED sleepVars /\ KeysOnSleepq(qkey) /\ ~In("wakeup")
Leaves(p) ==
  /\ prstate[p] \in {"SLEEP", "RECTIM"} /\ ~In("wakeup")
  /\ sleepq' = Unlink(sleepq, p) /\ left' = [left EXCEPT ![p] = 0]
  /\ KeysOnSleepq(UnsleepKeys(p))
Joins(delay) ==
  /\ 0 \notin Waits => delay > 0
  /\ ~In("wakeup")
  /\ sleepq' = Insertd(sleepq, qkey, currpid, delay) /\ left' = [left EXCEPT ![currpid] = delay]
  /\ KeysOnSleepq(InsertdKeys(sleepq, qkey, currpid, delay))

LEMMA SleepqHolds ==
  ASSUME IInv
  PROVE  Holds(sleepq, Range(sleepq))
BY DEF IInv, OffCpu, Holds

LEMMA SleepersNext ==
  ASSUME IInv'
  PROVE  sleepq' \in Seq(Pid) /\ Range(sleepq') = {p \in Pid : prstate'[p] \in {"SLEEP", "RECTIM"}}
BY DEF IInv, TypeOK, SleepTypes, OffCpu, Holds

\* The scheduler leaves the keys of the sleep queue alone.
LEMMA HandoverKeys ==
  ASSUME IInv, IInv', NEW ks, Handover(ks)
  PROVE  KeysOnSleepq(ks)
BY HandoverStates, SleepersNext DEF KeysOnSleepq

LEMMA KeysUnchanged ==
  ASSUME UNCHANGED qkey
  PROVE  KeysOnSleepq(qkey)
BY DEF KeysOnSleepq

LEMMA KillStartTime ==
  ASSUME IInv, IInv', NEW p \in Pid, KillStart(p)
  PROVE  Keeps \/ \E x \in Pid : Leaves(x)
<1>1. UNCHANGED ndefers /\ prparent[p] \in Pid /\ ~In("wakeup")
  BY IInvFacts DEF KillStart, TypeOK, ProcTypes, Syscall, In
<1>2. CASE Deliver(prparent[p])
  BY <1>1, <1>2, DeliverHandsOver, HandoverKeys DEF Keeps, Leaves
<1>3. CASE UNCHANGED schedVars /\ UNCHANGED sleepVars
  BY <1>1, <1>3, KeysUnchanged DEF Keeps, schedVars
<1>4. QED
  BY <1>2, <1>3 DEF KillStart

LEMMA KillFinishTime ==
  ASSUME IInv, IInv', KillFinish
  PROVE  Keeps \/ \E x \in Pid : Leaves(x)
<1>1. PICK p : p = frame[currpid].obj
  OBVIOUS
<1>2. p \in Pid /\ ~In("wakeup") /\ qkey \in [Pid -> Int]
  BY <1>1, KillFinishCases, IInvFacts
<1>3. CASE Blocks(qkey, "FREE") /\ UNCHANGED sleepVars
  <2> DEFINE ps == [prstate EXCEPT ![currpid] = "FREE"]
  <2>1. PICK slice \in 1..QUANTUM : Resched(ps, readylist, qkey, slice)
    BY <1>3 DEF Blocks
  <2>2. "FREE" \in PrState \ {"READY"} /\ currpid # NULLPROC /\ ndefers = 0
    BY <1>3 DEF Blocks
  <2>3. Scheduled(ps)
    BY <1>2, <2>1, <2>2, BlockSchedules
  <2> HIDE DEF ps
  <2>4. \A x \in Pid : ps[x] # "CURR" => qkey'[x] = qkey[x]
    BY <1>2, <2>1, ReschedKeys
  <2>5. KeysOnSleepq(qkey)
    BY <2>3, <2>4, SleepersNext DEF KeysOnSleepq, Scheduled
  <2>6. QED
    BY <1>2, <1>3, <2>5 DEF Keeps
<1>4. CASE /\ prstate[p] \in {"SLEEP", "RECTIM"}
           /\ sleepq' = Unlink(sleepq, p) /\ qkey' = UnsleepKeys(p)
           /\ left' = [left EXCEPT ![p] = 0]
  BY <1>2, <1>4 DEF Leaves, KeysOnSleepq
<1>5. CASE UNCHANGED <<sleepVars, qkey>>
  BY <1>2, <1>5, KeysUnchanged DEF Keeps
<1>6. QED
  BY <1>1, <1>3, <1>4, <1>5, KillFinishCases DEF Unreadies

LEMMA TimeCases ==
  ASSUME IInv, IInv', Next
  PROVE  \/ Keeps
         \/ \E p \in Pid : Leaves(p)
         \/ \E delay \in Nat : Joins(delay)
         \/ (WakeupTurn \/ WakeupStop) /\ KeysOnSleepq(qkey)
         \/ Tick
         \/ UNCHANGED vars
<1>1. ASSUME Calm PROVE Keeps
  BY <1>1, HandoverKeys DEF Calm, Moves, Keeps
<1>2. ASSUME NEW prio \in Prios, Create(prio) PROVE Keeps
  BY <1>2, KeysUnchanged DEF Create, Keeps, Syscall, In
<1>3. ASSUME NEW p \in Pid, NEW prio \in Prios, Chprio(p, prio) PROVE Keeps
  BY <1>3, KeysUnchanged DEF Chprio, Keeps, Syscall, In, schedVars
<1>4. ASSUME NEW p \in Pid, KillStart(p) PROVE Keeps \/ \E x \in Pid : Leaves(x)
  BY <1>4, KillStartTime
<1>5. ASSUME NEW p \in Pid, Send(p) PROVE Keeps \/ \E x \in Pid : Leaves(x)
  <2>1. CASE Calm
    BY <1>1, <2>1
  <2>2. CASE ~Calm
    BY <1>5, <2>2, SendMoves, HandoverKeys DEF Moves, Leaves, In
  <2>3. QED
    BY <2>1, <2>2
<1>6. ASSUME NEW delay \in Nat, Enters(delay) PROVE Joins(delay)
  BY <1>6, HandoverKeys DEF Enters, EnterSleepq, Moves, Joins, In
<1>7. CASE KillFinish
  BY <1>7, KillFinishTime
<1>8. CASE WakeupTurn \/ WakeupStop
  BY <1>8, WakeupTurnMoves, WakeupStopMoves, HandoverKeys DEF Moves
<1>9. QED
  BY <1>1, <1>2, <1>3, <1>4, <1>5, <1>6, <1>7, <1>8, NextCases

\* Only the clock handler enters wakeup.
LEMMA WakeupEntered ==
  ASSUME IInv, IInv', Next, ~Tick, ~In("wakeup")
  PROVE  ~In("wakeup")'
<1>1. \/ UNCHANGED frame
      \/ \E p \in Pid : frame' = [frame EXCEPT ![p] = User]
      \/ \E f : f.at # "wakeup" /\ Goto(f)
  <2>1. CASE ProcessStep
    BY <2>1 DEF ProcessStep, Create, Resume, Suspend, KillStart, Send, Chprio, Yield,
       ReceiveAtOnce, ReceiveBlock, RecvtimeBlock, Sleepms, Frame
  <2>2. CASE SemaphoreStep
    BY <2>2 DEF SemaphoreStep, Semcreate, Wait, Signal, SemdeleteStart, SignalnStart,
       SemresetStart, Frame
  <2>3. CASE KernelStep
    <3>1. ASSUME NEW m, Goto([frame[currpid] EXCEPT !.n = m])
          PROVE  \E f : f.at # "wakeup" /\ Goto(f)
      <4>1. frame[currpid].at # "wakeup" /\ frame[currpid] \in FrameSet
        BY CurrentFrame DEF In
      <4>2. [frame[currpid] EXCEPT !.n = m].at # "wakeup"
        BY <4>1 DEF FrameSet
      <4>3. QED
        BY <3>1, <4>2
    <3>2. CASE SignalnTurn \/ SemdeleteTurn
      BY <3>1, <3>2 DEF SignalnTurn, SemdeleteTurn
    <3>3. CASE ReceiveReturn \/ KillFinish \/ LoopStop \/ SemresetStop \/ ClockPreempt
      <4>1. Goto(User)
        BY <3>3 DEF ReceiveReturn, KillFinish, LoopStop, SemresetStop, ClockPreempt
      <4>2. User.at # "wakeup"
        BY DEF User, Frame
      <4>3. QED
        BY <4>1, <4>2
    <3>4. CASE WakeupStop
      <4>1. Goto(Frame("clkhandler", 0, 0))
        BY <3>4 DEF WakeupStop
      <4>2. Frame("clkhandler", 0, 0).at # "wakeup"
        BY DEF Frame
      <4>3. QED
        BY <4>1, <4>2
    <3>5. CASE Halted \/ SemresetTurn \/ WakeupTurn
      BY <3>5 DEF Halted, SemresetTurn, WakeupTurn, vars
    <3>6. ASSUME NEW s \in Sid, BatchSignal(s) PROVE UNCHANGED frame
      BY <3>6 DEF BatchSignal
    <3>7. CASE \/ \E s \in Sid, n \in Counts : BatchSignalnStart(s, n)
               \/ BatchSignalnStop \/ BatchStop
      <4>1. \E r \in {"batch", "batch_signaln", "user"} : \E o, n : Goto(Frame(r, o, n))
        BY <3>7 DEF BatchSignalnStart, BatchSignalnStop, BatchStop, User
      <4>2. QED
        BY <4>1 DEF Frame
    <3>8. QED
      BY <2>3, <3>2, <3>3, <3>4, <3>5, <3>6, <3>7 DEF KernelStep
  <2>4. CASE BatchStart
    BY <2>4 DEF BatchStart, Frame
  <2>5. QED
    BY <2>1, <2>2, <2>3, <2>4 DEF Next
<1>2. \A p \in Pid : frame'[p].at = "wakeup" => frame[p].at = "wakeup"
  <2>1. frame \in [Pid -> FrameSet]
    BY IInvFacts DEF TypeOK, CallTypes
  <2>2. User.at # "wakeup"
    BY DEF User, Frame
  <2>3. CASE \E p \in Pid : frame' = [frame EXCEPT ![p] = User]
    BY <2>1, <2>2, <2>3
  <2>4. CASE \E f : f.at # "wakeup" /\ Goto(f)
    BY <2>1, <2>4 DEF Goto
  <2>5. QED
    BY <1>1, <2>3, <2>4
<1>3. currpid' \in Pid
  BY DEF IInv, TypeOK, SchedTypes
<1>4. \A p \in Pid : frame[p].at = "wakeup" => p = currpid
  BY DEF IInv, SemInv, DeferralBalanced, LoopRoutines
<1>5. QED
  BY <1>2, <1>3, <1>4 DEF In
-----------------------------------------------------------------------------
(* The invariant of time.                                                  *)

\* A zero wait of recvtime enters the queue with nothing left and is not woken by the
\* next tick, so the last part needs that nobody makes one.
TimeInv ==
  /\ Delta(sleepq, qkey, left)
  /\ In("wakeup") => \A p \in Range(sleepq) : left[p] >= 0
  /\ 0 \notin Waits => NoOversleep

\* The next state, when nobody has run out of time except in wakeup.
LEMMA TimeNext ==
  ASSUME IInv', Next, NEW ks, Delta(sleepq', ks, left'), KeysOnSleepq(ks),
         In("wakeup")' => \A p \in Range(sleepq') : left'[p] >= 0,
         0 \notin Waits /\ ~In("wakeup")' => \A p \in Range(sleepq') : left'[p] >= 1
  PROVE  TimeInv'
<1>1. Delta(sleepq', qkey', left')
  BY SleepersNext, DeltaSame DEF KeysOnSleepq
<1>2. 0 \notin Waits => NoOversleep'
  BY DEF NoOversleep
<1>3. QED
  BY <1>1, <1>2 DEF TimeInv

LEMMA KeepsTime ==
  ASSUME IInv, IInv', TimeInv, Next, ~Tick, Keeps
  PROVE  TimeInv'
<1>1. ~In("wakeup") /\ ~In("wakeup")' /\ UNCHANGED <<sleepq, left>>
  BY WakeupEntered DEF Keeps, sleepVars
<1>2. 0 \notin Waits => \A p \in Range(sleepq) : left[p] >= 1
  BY <1>1 DEF TimeInv, NoOversleep
<1>3. Delta(sleepq', qkey, left')
  BY <1>1 DEF TimeInv
<1>4. QED
  BY <1>1, <1>2, <1>3, TimeNext DEF Keeps

LEMMA LeavesTime ==
  ASSUME IInv, IInv', TimeInv, Next, ~Tick, NEW p \in Pid, Leaves(p)
  PROVE  TimeInv'
<1>1. ~In("wakeup") /\ ~In("wakeup")'
  BY WakeupEntered DEF Leaves
<1>2. p \in Range(sleepq) /\ Holds(sleepq, Range(sleepq))
  BY SleepqFacts, SleepqHolds DEF Leaves
<1>3. Delta(sleepq', UnsleepKeys(p), left')
  <2>1. Delta(sleepq, qkey, left)
    BY DEF TimeInv
  <2>2. Delta(Unlink(sleepq, p), UnsleepKeys(p), [left EXCEPT ![p] = 0])
    BY <1>2, <2>1, SleepqFacts, DeltaUnsleep
  <2>3. QED
    BY <2>2 DEF Leaves
<1>4. Range(sleepq') = Range(sleepq) \ {p}
  <2>1. Holds(Unlink(sleepq, p), Range(sleepq) \ {p})
    BY <1>2, SleepqFacts, UnlinkHolds
  <2>2. QED
    BY <2>1 DEF Leaves, Holds
<1>5. \A x \in Range(sleepq') : left'[x] = left[x] /\ x \in Range(sleepq)
  BY <1>4, SleepqFacts DEF Leaves
<1>6. 0 \notin Waits => \A x \in Range(sleepq') : left'[x] >= 1
  BY <1>1, <1>5 DEF TimeInv, NoOversleep
<1>7. QED
  BY <1>1, <1>3, <1>6, TimeNext DEF Leaves

LEMMA JoinsTime ==
  ASSUME IInv, IInv', TimeInv, Next, ~Tick, NEW delay \in Nat, Joins(delay)
  PROVE  TimeInv'
<1>1. ~In("wakeup") /\ ~In("wakeup")'
  BY WakeupEntered DEF Joins
<1>2. currpid \in Pid /\ currpid \notin Range(sleepq) /\ Holds(sleepq, Range(sleepq))
      /\ delay \in Int
  <2>1. currpid \in Pid /\ prstate[currpid] = "CURR" /\ delay \in Int
    BY IInvFacts
  <2>2. Range(sleepq) = {p \in Pid : prstate[p] \in {"SLEEP", "RECTIM"}}
    BY SleepqFacts
  <2>3. QED
    BY <2>1, <2>2, SleepqHolds
<1>3. Delta(sleepq', InsertdKeys(sleepq, qkey, currpid, delay), left')
  <2>1. Delta(sleepq, qkey, left)
    BY DEF TimeInv
  <2>2. Delta(Insertd(sleepq, qkey, currpid, delay), InsertdKeys(sleepq, qkey, currpid, delay),
              [left EXCEPT ![currpid] = delay])
    BY <1>2, <2>1, SleepqFacts, DeltaInsertd
  <2>3. QED
    BY <2>2 DEF Joins
<1>4. Range(sleepq') = Range(sleepq) \cup {currpid}
  <2>1. Holds(Insertd(sleepq, qkey, currpid, delay), Range(sleepq) \cup {currpid})
    BY <1>2, SleepqFacts, InsertdHolds
  <2>2. QED
    BY <2>1 DEF Joins, Holds
<1>5. \A x \in Range(sleepq') :
        \/ x # currpid /\ left'[x] = left[x] /\ x \in Range(sleepq)
        \/ x = currpid /\ left'[x] = delay
  BY <1>2, <1>4, SleepqFacts DEF Joins
<1>6. ASSUME 0 \notin Waits PROVE \A x \in Range(sleepq') : left'[x] >= 1
  <2>1. \A x \in Range(sleepq) : left[x] >= 1
    BY <1>1, <1>6 DEF TimeInv, NoOversleep
  <2>2. delay >= 1
    BY <1>6 DEF Joins
  <2>3. QED
    BY <1>5, <2>1, <2>2
<1>7. QED
  BY <1>1, <1>3, <1>6, TimeNext DEF Joins

\* In wakeup nobody has less than nothing left, so a head that is due has nothing.
LEMMA WakeupTurnTime ==
  ASSUME IInv, IInv', TimeInv, Next, WakeupTurn, KeysOnSleepq(qkey)
  PROVE  TimeInv'
<1>1. /\ In("wakeup") /\ sleepq # <<>> /\ qkey[Head(sleepq)] <= 0
      /\ sleepq' = Tail(sleepq) /\ left' = [left EXCEPT ![Head(sleepq)] = 0]
      /\ Ready(Head(sleepq), qkey) /\ UNCHANGED frame
  BY DEF WakeupTurn, Due
<1>2. currpid' = currpid /\ In("wakeup")'
  <2>1. ndefers # 0
    BY <1>1, LoopFacts DEF In, LoopRoutines
  <2>2. QED
    BY <1>1, <2>1, DeferredStays DEF Ready, In
<1>3. /\ Head(sleepq) \in Range(sleepq) /\ qkey[Head(sleepq)] = left[Head(sleepq)]
      /\ left[Head(sleepq)] \in Int
  BY <1>1, SleepqFacts, DeltaHead DEF TimeInv
<1>4. left[Head(sleepq)] = 0
  BY <1>1, <1>3 DEF TimeInv
<1>5. Delta(sleepq', qkey, left')
  BY <1>1, <1>4, SleepqFacts, DeltaTail DEF TimeInv
<1>6. Range(sleepq') \subseteq Range(sleepq)
  <2>1. Holds(sleepq, Range(sleepq))
    BY SleepqHolds
  <2>2. QED
    BY <1>1, <2>1, SleepqFacts, TailHolds DEF Holds
<1>7. \A p \in Range(sleepq') : left'[p] >= 0
  <2>1. left' = left
    BY <1>1, <1>3, <1>4, SleepqFacts
  <2>2. QED
    BY <1>1, <1>6, <2>1 DEF TimeInv
<1>8. QED
  BY <1>2, <1>5, <1>7, TimeNext

\* wakeup stops when the head has time left, and then everybody has.
LEMMA WakeupStopTime ==
  ASSUME IInv, IInv', TimeInv, Next, WakeupStop, KeysOnSleepq(qkey)
  PROVE  TimeInv'
<1>1. UNCHANGED <<sleepq, left>> /\ ~Due
  BY DEF WakeupStop, sleepVars
<1>2. \A p \in Range(sleepq) : left[p] >= 1 /\ left[p] >= 0
  <2>1. CASE sleepq = <<>>
    BY <2>1, SleepqFacts, EmptySeq
  <2>2. CASE sleepq # <<>>
    <3>1. /\ Head(sleepq) \in Pid /\ qkey[Head(sleepq)] = left[Head(sleepq)]
          /\ \A p \in Range(sleepq) : left[Head(sleepq)] <= left[p]
      BY <2>2, SleepqFacts, DeltaHead DEF TimeInv
    <3>2. left[Head(sleepq)] >= 1 /\ left[Head(sleepq)] \in Int
      BY <1>1, <2>2, <3>1, SleepqFacts DEF Due
    <3>3. \A p \in Range(sleepq) : left[p] \in Int
      BY SleepqFacts
    <3>4. QED
      BY <3>1, <3>2, <3>3
  <2>3. QED
    BY <2>1, <2>2
<1>3. Delta(sleepq', qkey, left')
  BY <1>1 DEF TimeInv
<1>4. QED
  BY <1>1, <1>2, <1>3, TimeNext

\* A tick that leaves the head something, or nothing yet before wakeup is called.
LEMMA TickTime ==
  ASSUME IInv, IInv', TimeInv, Next, Tick
  PROVE  TimeInv'
<1> DEFINE head == Head(sleepq)
<1>1. ~In("wakeup") /\ UNCHANGED <<sleepq, currpid>>
  BY DEF Tick, In
<1>2. 0 \notin Waits => \A p \in Range(sleepq) : left[p] >= 1
  BY <1>1 DEF TimeInv, NoOversleep
<1>3. sleepq # <<>> =>
        /\ head \in Pid /\ head \in Range(sleepq) /\ qkey[head] = left[head] /\ left[head] \in Int
        /\ \A p \in Range(sleepq) : left[head] <= left[p] /\ left[p] \in Int
  BY SleepqFacts, DeltaHead DEF TimeInv
<1>4. In("wakeup")' <=> sleepq # <<>> /\ qkey[head] = 1
  <2>1. CASE sleepq # <<>> /\ qkey[head] = 1
    <3>1. Goto(Frame("wakeup", 0, 0))
      BY <2>1 DEF Tick
    <3>2. QED
      BY <1>1, <2>1, <3>1, CallFrames DEF In, Frame
  <2>2. CASE ~(sleepq # <<>> /\ qkey[head] = 1)
    <3>1. Goto(Frame("clkhandler", 0, 0))
      BY <2>2 DEF Tick
    <3>2. QED
      BY <1>1, <2>2, <3>1, CallFrames DEF In, Frame
  <2>3. QED
    BY <2>1, <2>2
<1>5. CASE sleepq = <<>> \/ qkey[head] <= -MaxLate
  <2>1. UNCHANGED <<qkey, left>>
    BY <1>5 DEF Tick
  <2>2. ~In("wakeup")'
    BY <1>3, <1>4, <1>5, SizesAssumption
  <2>3. Delta(sleepq', qkey, left') /\ KeysOnSleepq(qkey)
    BY <1>1, <2>1, KeysUnchanged DEF TimeInv
  <2>4. QED
    BY <1>1, <1>2, <2>1, <2>2, <2>3, TimeNext
<1>6. CASE ~(sleepq = <<>> \/ qkey[head] <= -MaxLate)
  <2>1. qkey' = [qkey EXCEPT ![head] = @ - 1] /\ left' = TickLeft
    BY <1>6 DEF Tick
  <2>2. \A p \in Range(sleepq) : left'[p] = left[p] - 1
    BY <2>1, SleepqFacts DEF TickLeft
  <2>3. Delta(sleepq', qkey', left')
    <3>1. Delta(sleepq, qkey, left)
      BY DEF TimeInv
    <3>2. Delta(sleepq, [qkey EXCEPT ![head] = @ - 1], left')
      BY <1>6, <2>2, <3>1, SleepqFacts, DeltaTick
    <3>3. QED
      BY <1>1, <2>1, <3>2
  <2>4. In("wakeup")' => \A p \in Range(sleepq) : left'[p] >= 0
    BY <1>3, <1>4, <2>2
  <2>5. 0 \notin Waits /\ ~In("wakeup")' => \A p \in Range(sleepq) : left'[p] >= 1
    BY <1>2, <1>3, <1>4, <1>6, <2>2
  <2>6. KeysOnSleepq(qkey')
    BY DEF KeysOnSleepq
  <2>7. QED
    BY <1>1, <2>3, <2>4, <2>5, <2>6, TimeNext
<1>7. QED
  BY <1>5, <1>6

LEMMA TimeStep ==
  ASSUME IInv, TimeInv, [Next]_vars
  PROVE  TimeInv'
<1>1. CASE UNCHANGED vars
  BY <1>1 DEF vars, schedVars, procVars, sleepVars, TimeInv, Delta, Before, In, NoOversleep
<1>2. CASE Next /\ ~(UNCHANGED vars)
  <2>1. IInv'
    BY <1>2, NextStep
  <2>2. QED
    BY <1>2, <2>1, TimeCases, KeepsTime, LeavesTime, JoinsTime, WakeupTurnTime, WakeupStopTime,
       TickTime
<1>3. QED
  BY <1>1, <1>2

LEMMA TimeInit ==
  ASSUME Init
  PROVE  TimeInv
<1>1. sleepq = <<>> /\ Len(sleepq) = 0 /\ Range(sleepq) = {}
  BY DEF Init, Range
<1>2. QED
  BY <1>1 DEF TimeInv, Delta, NoOversleep

\* The sleep queue is a delta list of the times that are left, in ascending order, and
\* wakeup finds nobody overdue.
THEOREM TimeInvariance == Spec => []TimeInv
<1>1. Init => TimeInv
  BY TimeInit
<1>2. IInv /\ TimeInv /\ [Next]_vars => TimeInv'
  BY TimeStep
<1>3. QED
  BY <1>1, <1>2, Invariance, PTL DEF Spec

\* The keys of the delta list always add up to the time each process has left.
THEOREM DeltaListExact == Spec => []DeltaKeys
<1>1. IInv /\ TimeInv => DeltaKeys
  <2> SUFFICES ASSUME IInv, TimeInv PROVE DeltaKeys
    OBVIOUS
  <2>1. Delta(sleepq, qkey, left) /\ DOMAIN sleepq = 1..Len(sleepq)
    BY SleepqFacts, LenProperties DEF TimeInv
  <2>2. \A i \in 1..Len(sleepq) : Elapsed(sleepq, qkey)[i] = left[sleepq[i]]
    <3>1. sleepq \in Seq(Pid) /\ qkey \in [Pid -> Int] /\ left \in [Pid -> Int]
      BY SleepqFacts
    <3>2. QED
      BY <2>1, <3>1, DeltaElapsed
  <2>3. QED
    BY <2>1, <2>2 DEF DeltaKeys
<1>2. QED
  BY <1>1, Invariance, TimeInvariance, PTL

\* As long as nobody calls recvtime with a zero wait, nobody sleeps past its time.
THEOREM NobodyOversleeps ==
  ASSUME 0 \notin Waits
  PROVE  Spec => []NoOversleep
<1>1. TimeInv => NoOversleep
  BY DEF TimeInv
<1>2. QED
  BY <1>1, TimeInvariance, PTL
-----------------------------------------------------------------------------
(* The semaphore table implements FifoSemaphore: every step of the kernel  *)
(* is a step of it or leaves its variables alone.                          *)


\* The permits of the refinement mapping: what a count above zero is worth.
permitsBar == [s \in Sid |-> IF scount[s] > 0 THEN scount[s] ELSE 0]
barVars == <<permitsBar, squeue>>
AbstractStep == [Semaphores!Next]_barVars

LEMMA PermitsUpdate ==
  ASSUME scount \in [Sid -> Int], NEW s \in Sid, NEW n \in Int,
         scount' = [scount EXCEPT ![s] = n]
  PROVE  /\ permitsBar[s] = IF scount[s] > 0 THEN scount[s] ELSE 0
         /\ permitsBar' = [permitsBar EXCEPT ![s] = IF n > 0 THEN n ELSE 0]
<1>1. \A t \in Sid : scount'[t] = IF t = s THEN n ELSE scount[t]
  OBVIOUS
<1>2. permitsBar' = [t \in Sid |-> IF t = s THEN IF n > 0 THEN n ELSE 0
                                   ELSE IF scount[t] > 0 THEN scount[t] ELSE 0]
  BY <1>1 DEF permitsBar
<1>3. QED
  BY <1>2 DEF permitsBar

\* Where neither counts nor queues change, the abstract semaphores stutter.
LEMMA TablesKept ==
  ASSUME UNCHANGED <<squeue, scount>>
  PROVE  AbstractStep
<1>1. permitsBar' = permitsBar
  BY DEF permitsBar
<1>2. QED
  BY <1>1 DEF AbstractStep, barVars

\* A count that stays at or below zero is worth nothing before and after.
LEMMA PermitsKept ==
  ASSUME scount \in [Sid -> Int], NEW s \in Sid, NEW n \in Int, n <= 0, scount[s] <= 0,
         scount' = [scount EXCEPT ![s] = n]
  PROVE  permitsBar' = permitsBar /\ permitsBar[s] = 0
<1>1. \A t \in Sid : IF scount'[t] > 0 THEN scount'[t] = scount[t] /\ scount[t] > 0
                                       ELSE scount[t] <= 0
  OBVIOUS
<1>2. \A t \in Sid : (IF scount'[t] > 0 THEN scount'[t] ELSE 0)
                      = (IF scount[t] > 0 THEN scount[t] ELSE 0)
  BY <1>1
<1>3. QED
  BY <1>2 DEF permitsBar

\* The step of an abstract semaphore that a concrete step takes.
LEMMA AcquireRefines ==
  ASSUME NEW s \in Sid, NEW p \in Pid,
         \/ /\ permitsBar[s] > 0
            /\ permitsBar' = [permitsBar EXCEPT ![s] = permitsBar[s] - 1]
            /\ squeue' = squeue
         \/ /\ permitsBar[s] = 0 /\ p \notin Range(squeue[s])
            /\ squeue' = [squeue EXCEPT ![s] = Append(squeue[s], p)]
            /\ permitsBar' = permitsBar
  PROVE  AbstractStep
<1>1. Semaphores!Acquire(s, p)
  BY DEF Semaphores!Acquire, permitsBar, Semaphores!Range, Range
<1>2. QED
  BY <1>1 DEF AbstractStep, Semaphores!Next

LEMMA ReleaseRefines ==
  ASSUME NEW s \in Sid,
         \/ /\ squeue[s] # <<>>
            /\ squeue' = [squeue EXCEPT ![s] = Tail(squeue[s])]
            /\ permitsBar' = permitsBar
         \/ /\ squeue[s] = <<>>
            /\ permitsBar' = [permitsBar EXCEPT ![s] = permitsBar[s] + 1]
            /\ squeue' = squeue
  PROVE  AbstractStep
<1>1. Semaphores!Release(s)
  BY DEF Semaphores!Release, permitsBar
<1>2. QED
  BY <1>1 DEF AbstractStep, Semaphores!Next

LEMMA GrantRefines ==
  ASSUME NEW s \in Sid, NEW n \in Counts, squeue[s] = <<>>, squeue' = squeue,
         permitsBar' = [permitsBar EXCEPT ![s] = n]
  PROVE  AbstractStep
<1>1. Semaphores!Grant(s, n)
  BY DEF Semaphores!Grant, permitsBar
<1>2. QED
  BY <1>1 DEF AbstractStep, Semaphores!Next

LEMMA WithdrawRefines ==
  ASSUME NEW s \in Sid, NEW i \in DOMAIN squeue[s], permitsBar' = permitsBar,
         squeue' = [squeue EXCEPT ![s] = RemoveAt(squeue[s], i)]
  PROVE  AbstractStep
<1>1. Semaphores!Withdraw(s, i)
  BY DEF Semaphores!Withdraw, permitsBar, Semaphores!RemoveAt, RemoveAt
<1>2. QED
  BY <1>1 DEF AbstractStep, Semaphores!Next
-----------------------------------------------------------------------------
(* One lemma for each action that touches a semaphore.                     *)

\* Outside semreset's loop a negative count is the number of waiters.
LEMMA WaitersCounted ==
  ASSUME IInv, NEW s \in Sid, ~In("semreset")
  PROVE  /\ scount[s] < 0 <=> squeue[s] # <<>>
         /\ scount \in [Sid -> Int] /\ scount[s] \in Int
<1>1. Len(squeue[s]) = IF scount[s] < 0 THEN -scount[s] ELSE 0
  BY DEF IInv, SemInv, SemaphoreCounts, Resetting
<1>2. scount \in [Sid -> Int] /\ scount[s] \in Int
  BY SemFacts
<1>3. squeue[s] = <<>> <=> Len(squeue[s]) = 0
  BY SemFacts
<1>4. QED
  BY <1>1, <1>2, <1>3

LEMMA UserNotReset ==
  ASSUME NEW c, Syscall(c) \/ Interrupted
  PROVE  ~In("semreset")
BY DEF Syscall, Interrupted, In

LEMMA WaitRefines ==
  ASSUME IInv, NEW s \in Sid, Wait(s)
  PROVE  AbstractStep
<1>1. scount[s] \in Int /\ scount \in [Sid -> Int] /\ currpid \in Pid
  BY SemFacts, IInvFacts
<1>2. scount' = [scount EXCEPT ![s] = scount[s] - 1]
  BY DEF Wait
<1>3. CASE scount[s] - 1 < 0
  <2>1. squeue' = [squeue EXCEPT ![s] = Append(squeue[s], currpid)]
    BY <1>1, <1>3 DEF Wait
  <2>2. permitsBar' = permitsBar /\ permitsBar[s] = 0
    <3>1. scount[s] - 1 \in Int /\ scount[s] - 1 <= 0 /\ scount[s] <= 0
      BY <1>1, <1>3
    <3>2. QED
      BY <1>1, <1>2, <3>1, PermitsKept
  <2>3. currpid \notin Range(squeue[s])
    BY SemFacts, IInvFacts DEF Holds
  <2>4. QED
    BY <1>1, <2>1, <2>2, <2>3, AcquireRefines
<1>4. CASE scount[s] - 1 >= 0
  <2>1. squeue' = squeue
    BY <1>1, <1>4 DEF Wait
  <2>2. permitsBar[s] = scount[s] /\ permitsBar' = [permitsBar EXCEPT ![s] = permitsBar[s] - 1]
    <3> DEFINE n == scount[s] - 1
    <3>1. n \in Int /\ scount[s] > 0 /\ (n <= 0 => n = 0)
      BY <1>1, <1>4
    <3>2. scount' = [scount EXCEPT ![s] = n]
      BY <1>2
    <3> HIDE DEF n
    <3>3. /\ permitsBar[s] = IF scount[s] > 0 THEN scount[s] ELSE 0
          /\ permitsBar' = [permitsBar EXCEPT ![s] = IF n > 0 THEN n ELSE 0]
      BY <1>1, <3>1, <3>2, PermitsUpdate
    <3>4. (IF n > 0 THEN n ELSE 0) = n
      BY <3>1
    <3>5. QED
      BY <3>1, <3>3, <3>4 DEF n
  <2>3. permitsBar[s] > 0
    BY <1>1, <1>4, <2>2
  <2>4. QED
    BY <1>1, <2>1, <2>2, <2>3, AcquireRefines
<1>5. QED
  BY <1>1, <1>3, <1>4

LEMMA ReleaseStepRefines ==
  ASSUME IInv, NEW s \in Sid, ~In("semreset"), Release(s)
  PROVE  AbstractStep
<1> DEFINE n == scount[s] + 1
<1>1. /\ scount[s] < 0 <=> squeue[s] # <<>>
      /\ scount \in [Sid -> Int] /\ scount[s] \in Int
  BY WaitersCounted
<1>2. scount' = [scount EXCEPT ![s] = n] /\ n \in Int
  BY <1>1 DEF Release
<1>3. CASE scount[s] < 0
  <2>1. squeue' = [squeue EXCEPT ![s] = Tail(squeue[s])]
    BY <1>1, <1>3 DEF Release
  <2>2. n <= 0 /\ scount[s] <= 0
    BY <1>1, <1>3
  <2> HIDE DEF n
  <2>3. permitsBar' = permitsBar
    BY <1>1, <1>2, <2>2, PermitsKept
  <2>4. QED
    BY <1>1, <1>3, <2>1, <2>3, ReleaseRefines
<1>4. CASE scount[s] >= 0
  <2>1. squeue' = squeue
    BY <1>1, <1>4 DEF Release
  <2>2. n > 0 /\ (IF scount[s] > 0 THEN scount[s] ELSE 0) = scount[s]
    BY <1>1, <1>4
  <2> HIDE DEF n
  <2>3. permitsBar[s] = scount[s] /\ permitsBar' = [permitsBar EXCEPT ![s] = n]
    BY <1>1, <1>2, <2>2, PermitsUpdate
  <2>4. squeue[s] = <<>>
    BY <1>1, <1>4
  <2>5. QED
    BY <2>1, <2>3, <2>4, ReleaseRefines DEF n
<1>5. QED
  BY <1>1, <1>3, <1>4

\* signal, and the turns of signaln and semdelete.
LEMMA SignalRefines ==
  ASSUME IInv, NEW s \in Sid, Signal(s)
  PROVE  AbstractStep
BY UserNotReset, ReleaseStepRefines DEF Signal

LEMMA LoopTurnRefines ==
  ASSUME IInv, SignalnTurn \/ SemdeleteTurn
  PROVE  AbstractStep
<1>1. ~In("semreset") /\ Release(frame[currpid].obj)
  BY DEF SignalnTurn, SemdeleteTurn, In
<1>2. frame[currpid].obj \in Sid
  BY CurrentFrame DEF FrameOK, SignalnTurn, SemdeleteTurn, In
<1>3. QED
  BY <1>1, <1>2, ReleaseStepRefines

\* A turn of semreset releases a waiter and leaves the count for the end.
LEMMA SemresetTurnRefines ==
  ASSUME IInv, SemresetTurn
  PROVE  AbstractStep
<1> DEFINE s == frame[currpid].obj
<1>1. s \in Sid
  BY CurrentFrame DEF FrameOK, SemresetTurn, In
<1>2. squeue[s] # <<>> /\ squeue' = [squeue EXCEPT ![s] = Tail(squeue[s])]
  BY DEF SemresetTurn
<1>3. permitsBar' = permitsBar
  BY DEF SemresetTurn, permitsBar
<1> HIDE DEF s
<1>4. QED
  BY <1>1, <1>2, <1>3, ReleaseRefines

LEMMA GrantStepRefines ==
  ASSUME IInv, NEW s \in Sid, NEW n \in Counts, squeue[s] = <<>>, squeue' = squeue,
         scount' = [scount EXCEPT ![s] = n]
  PROVE  AbstractStep
<1>1. n \in Nat /\ n \in Int /\ (IF n > 0 THEN n ELSE 0) = n
  BY ArgumentsAssumption
<1>2. scount \in [Sid -> Int]
  BY SemFacts
<1>3. permitsBar' = [permitsBar EXCEPT ![s] = n]
  BY <1>1, <1>2, PermitsUpdate
<1>4. QED
  BY <1>3, GrantRefines

LEMMA SemcreateRefines ==
  ASSUME IInv, NEW count \in Counts, Semcreate(count)
  PROVE  AbstractStep
<1>1. PICK s \in Sid : sstate[s] = "FREE" /\ scount' = [scount EXCEPT ![s] = count]
  BY DEF Semcreate
<1>2. Settled(squeue, scount, sstate) /\ squeue' = squeue
  BY SyscallFacts DEF Semcreate
<1>3. squeue[s] = <<>>
  BY <1>1, <1>2 DEF Settled
<1>4. QED
  BY <1>1, <1>2, <1>3, GrantStepRefines

\* semreset gives the count it was called with.
LEMMA SemresetStopRefines ==
  ASSUME IInv, SemresetStop
  PROVE  AbstractStep
<1> DEFINE f == frame[currpid]
<1>1. f.obj \in Sid /\ f.n \in Counts
  BY CurrentFrame DEF FrameOK, SemresetStop, In
<1>2. squeue[f.obj] = <<>> /\ squeue' = squeue /\ scount' = [scount EXCEPT ![f.obj] = f.n]
  BY DEF SemresetStop
<1> HIDE DEF f
<1>3. QED
  BY <1>1, <1>2, GrantStepRefines

\* The kill of a waiter withdraws it: its semaphore had a negative count.
LEMMA KillFinishRefines ==
  ASSUME IInv, KillFinish
  PROVE  AbstractStep
<1> DEFINE p == frame[currpid].obj
           s == prsem[p]
           i == CHOOSE j \in 1..Len(squeue[s]) : squeue[s][j] = p
<1>1. CASE UNCHANGED <<squeue, scount>>
  BY <1>1, TablesKept
<1>2. CASE /\ prstate[p] = "WAIT"
           /\ scount' = [scount EXCEPT ![s] = scount[s] + 1]
           /\ squeue' = [squeue EXCEPT ![s] = Unlink(squeue[s], p)]
  <2>1. ~In("semreset") /\ p \in Pid
    BY CurrentFrame DEF KillFinish, In, FrameOK
  <2>2. s \in Sid
    BY <1>2, <2>1, StateFacts
  <2>3. p \in Range(squeue[s])
    BY <1>2, <2>1, <2>2, SemFacts DEF Holds
  <2>4. \E j \in 1..Len(squeue[s]) : squeue[s][j] = p
    BY <2>2, <2>3, SemFacts, LenProperties DEF Range
  <2>5. i \in DOMAIN squeue[s]
    BY <2>2, <2>4, SemFacts, LenProperties
  <2>6. squeue' = [squeue EXCEPT ![s] = RemoveAt(squeue[s], i)]
    BY <1>2 DEF Unlink
  <2>7. squeue[s] # <<>>
    BY <2>2, <2>5, SemFacts, LenProperties
  <2> HIDE DEF p, s, i
  <2>8. scount[s] < 0 /\ scount[s] \in Int /\ scount \in [Sid -> Int]
    BY <2>1, <2>2, <2>7, WaitersCounted
  <2>9. permitsBar' = permitsBar
    <3>1. scount[s] + 1 \in Int /\ scount[s] + 1 <= 0 /\ scount[s] <= 0
      BY <2>8
    <3>2. QED
      BY <1>2, <2>2, <2>8, <3>1, PermitsKept
  <2>10. QED
    BY <2>2, <2>5, <2>6, <2>9, WithdrawRefines
<1>3. QED
  BY <1>1, <1>2 DEF KillFinish
-----------------------------------------------------------------------------
LEMMA InitRefines ==
  ASSUME Init
  PROVE  Semaphores!Init
<1>1. \A s \in Sid : (IF scount[s] > 0 THEN scount[s] ELSE 0) = 0
  BY DEF Init
<1>2. QED
  BY <1>1 DEF Init, Semaphores!Init

LEMMA NextRefines ==
  ASSUME IInv, [Next]_vars
  PROVE  AbstractStep
<1>1. CASE UNCHANGED vars
  BY <1>1, TablesKept DEF vars, semVars
<1>2. CASE ProcessStep
  BY <1>2, TablesKept DEF ProcessStep, Create, Resume, Suspend, KillStart, Send, Chprio, Yield,
     ReceiveAtOnce, ReceiveBlock, RecvtimeBlock, Sleepms, semVars
<1>3. CASE SemaphoreStep
  <2>1. ASSUME NEW count \in Counts, Semcreate(count) PROVE AbstractStep
    BY <2>1, SemcreateRefines
  <2>2. ASSUME NEW s \in Sid, Wait(s) \/ Signal(s) PROVE AbstractStep
    BY <2>2, WaitRefines, SignalRefines
  <2>3. ASSUME NEW s \in Sid, SemdeleteStart(s) PROVE AbstractStep
    BY <2>3, TablesKept DEF SemdeleteStart
  <2>4. ASSUME NEW s \in Sid, NEW n \in Counts, SignalnStart(s, n) \/ SemresetStart(s, n)
        PROVE  AbstractStep
    BY <2>4, TablesKept DEF SignalnStart, SemresetStart, semVars
  <2>5. QED
    BY <1>3, <2>1, <2>2, <2>3, <2>4 DEF SemaphoreStep
<1>4. CASE KernelStep
  <2>1. CASE ReceiveReturn \/ Halted \/ LoopStop \/ WakeupTurn \/ WakeupStop \/ ClockPreempt
    BY <2>1, TablesKept DEF ReceiveReturn, Halted, LoopStop, WakeupTurn, WakeupStop,
       ClockPreempt, semVars, vars
  <2>2. CASE KillFinish
    BY <2>2, KillFinishRefines
  <2>3. CASE SignalnTurn \/ SemdeleteTurn
    BY <2>3, LoopTurnRefines
  <2>4. CASE SemresetTurn \/ SemresetStop
    BY <2>4, SemresetTurnRefines, SemresetStopRefines
  <2>5. ASSUME NEW s \in Sid, BatchSignal(s) PROVE AbstractStep
    BY <2>5, ReleaseStepRefines DEF BatchSignal, In
  <2>6. CASE \/ \E s \in Sid, n \in Counts : BatchSignalnStart(s, n)
             \/ BatchSignalnStop \/ BatchStop
    BY <2>6, TablesKept DEF BatchSignalnStart, BatchSignalnStop, BatchStop, semVars
  <2>7. QED
    BY <1>4, <2>1, <2>2, <2>3, <2>4, <2>5, <2>6 DEF KernelStep
<1>5. CASE Tick \/ BatchStart
  BY <1>5, TablesKept DEF Tick, BatchStart, semVars
<1>6. QED
  BY <1>1, <1>2, <1>3, <1>4, <1>5 DEF Next

\* wait, signal, signaln, semreset, semdelete and the kill of a waiter implement
\* first-come first-served semaphores: no waiter is overtaken, forgotten or passed
\* by, and no call gains or loses a permit.
THEOREM SemaphoresAreFifo == Spec => FifoSemaphores
<1>1. Init => Semaphores!Init
  BY InitRefines
<1>2. IInv /\ [Next]_vars => [Semaphores!Next]_<<permitsBar, squeue>>
  BY NextRefines DEF AbstractStep, barVars
<1>3. QED
  BY <1>1, <1>2, Invariance, PTL DEF Spec, FifoSemaphores, Semaphores!Spec, permitsBar
=============================================================================
