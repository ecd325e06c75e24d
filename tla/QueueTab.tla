------------------------------ MODULE QueueTab ------------------------------
(***************************************************************************)
(* The table of process queues (src/Xinu/system: queue.c, insert.c,        *)
(* insertd.c, getitem.c, newqueue.c, and the uses of queuetab in unsleep.c *)
(* and clkhandler.c).  Each process has one entry and each queue has two,  *)
(* a head and a tail; the entries of a queue are linked in both            *)
(* directions.  All routines run with interrupts disabled: one action each.*)
(***************************************************************************)
EXTENDS Queues

CONSTANTS
  NPROC,           \* processes: entries 0 .. NPROC-1
  NSEM,            \* semaphores, with a queue each
  MINKEY, MAXKEY,  \* the keys of tails and heads
  Prios,           \* the keys given to insert: priorities
  Delays,          \* the keys given to insertd
  MaxLate          \* bound: no key is decremented below -MaxLate

ASSUME TableSizes ==
  /\ NPROC \in Nat \ {0} /\ NSEM \in Nat
  /\ MINKEY \in Int /\ MAXKEY \in Int
  /\ Prios \subseteq {key \in Int : MINKEY < key}
  /\ Delays \subseteq Nat /\ MaxLate \in Nat

EMPTY == -1
NQENT == NPROC + 4 + NSEM + NSEM
Proc == 0 .. NPROC-1
Node == 0 .. NQENT-1

\* The queues in the order in which sysinit and clkinit ask for them.
SemQueue == {NPROC + 2*s : s \in 0 .. NSEM-1}
readylist == NPROC + 2*NSEM
sleepq == readylist + 2
Queue == SemQueue \cup {readylist, sleepq}

VARIABLES
  queuetab,  \* the table
  nextqid,   \* newqueue: the next entry to use
  inqueue,   \* the queue that the state of each process names (prstate, prsem), or EMPTY
  call       \* the last call and what it returned

tabVars == <<queuetab, nextqid, inqueue, call>>

queuehead(q) == q
queuetail(q) == q + 1
firstid(q) == queuetab[queuehead(q)].qnext
isempty(q) == firstid(q) >= NPROC
firstkey(q) == queuetab[firstid(q)].qkey

Entry(key, next, prev) == [qkey |-> key, qnext |-> next, qprev |-> prev]
Call(op, q, p) == [op |-> op, queue |-> q, pid |-> p]

TabInit ==
  /\ queuetab = [n \in Node |-> Entry(0, 0, 0)]
  /\ nextqid = NPROC
  /\ inqueue = [p \in Proc |-> EMPTY]
  /\ call = Call("none", EMPTY, EMPTY)

\* Mutant: the tail is not told of the head.
NewqueueOneWay ==
  /\ nextqid <= sleepq
  /\ queuetab' = [queuetab EXCEPT
       ![queuehead(nextqid)] = Entry(MAXKEY, queuetail(nextqid), EMPTY),
       ![queuetail(nextqid)] = Entry(MINKEY, EMPTY, EMPTY)]
  /\ nextqid' = nextqid + 2
  /\ UNCHANGED <<inqueue, call>>

\* One queue for each semaphore, the ready list and the sleep queue.
Newqueue ==
  /\ nextqid <= sleepq
  /\ nextqid < NQENT
  /\ queuetab' = [queuetab EXCEPT
       ![queuehead(nextqid)] = Entry(MAXKEY, queuetail(nextqid), EMPTY),
       ![queuetail(nextqid)] = Entry(MINKEY, EMPTY, queuehead(nextqid))]
  /\ nextqid' = nextqid + 2
  /\ UNCHANGED <<inqueue, call>>

\* A process that is in no queue is put into one.
Given(op, p, q) ==
  /\ q < nextqid /\ inqueue[p] = EMPTY
  /\ inqueue' = [inqueue EXCEPT ![p] = q]
  /\ call' = Call(op, q, p)
  /\ UNCHANGED nextqid

\* Process p is linked in between prev and next.
Linkin(p, prev, next) ==
  [queuetab EXCEPT ![p].qnext = next, ![p].qprev = prev, ![prev].qnext = p, ![next].qprev = p]

Enqueue(p, q) ==
  /\ Given("enqueue", p, q)
  /\ queuetab' = Linkin(p, queuetab[queuetail(q)].qprev, queuetail(q))

\* A loop along a queue: what its variables are after n rounds, if they are a before
\* it.  body leaves them alone once the condition of the loop is false.
Loop(body, a) ==
  LET after[n \in 0 .. NPROC] == IF n = 0 THEN a ELSE body[after[n-1]] IN after

\* insert's loop: to the next entry, while the key of this one is not smaller.
PassKeys(key) == [n \in Node |-> IF queuetab[n].qkey >= key THEN queuetab[n].qnext ELSE n]

\* Mutant: insert stops at an equal key.
InsertEqual(p, q, key) ==
  LET curr == Loop([n \in Node |-> IF queuetab[n].qkey > key THEN queuetab[n].qnext ELSE n],
                   firstid(q))[NPROC] IN
  /\ Given("insert", p, q)
  /\ queuetab' = [Linkin(p, queuetab[curr].qprev, curr) EXCEPT ![p].qkey = key]

Insertp(p, q, key) ==
  LET curr == Loop(PassKeys(key), firstid(q))[NPROC] IN
  /\ Given("insert", p, q)
  /\ queuetab' = [Linkin(p, queuetab[curr].qprev, curr) EXCEPT ![p].qkey = key]

\* insertd's loop: while the next entry is due no later, what is left of the delay is
\* counted from there.
Cursor == [next : Node, prev : Node, key : Int]
PassDelays(q) ==
  [w \in Cursor |->
     IF w.next # queuetail(q) /\ queuetab[w.next].qkey <= w.key
     THEN [next |-> queuetab[w.next].qnext, prev |-> w.next,
           key |-> w.key - queuetab[w.next].qkey]
     ELSE w]

Insertdp(p, q, delay) ==
  LET w == Loop(PassDelays(q),
                [next |-> firstid(q), prev |-> queuehead(q), key |-> delay])[NPROC]
      linked == [Linkin(p, w.prev, w.next) EXCEPT ![p].qkey = w.key]
  IN /\ Given("insertd", p, q)
     /\ queuetab' = IF w.next # queuetail(q) THEN [linked EXCEPT ![w.next].qkey = @ - w.key]
                    ELSE linked

\* getitem: the neighbours of p are linked; p keeps its links.
Unlinked(p) ==
  LET next == queuetab[p].qnext
      prev == queuetab[p].qprev
  IN [queuetab EXCEPT ![prev].qnext = next, ![next].qprev = prev]

\* Process p leaves queue q by call op.
Taken(op, p, q) ==
  /\ inqueue' = [inqueue EXCEPT ![p] = EMPTY]
  /\ call' = Call(op, q, p)
  /\ UNCHANGED nextqid

NobodyTaken(op, q) ==
  /\ isempty(q)
  /\ call' = Call(op, q, EMPTY)
  /\ UNCHANGED <<queuetab, nextqid, inqueue>>

\* getfirst removes the first process; dequeue clears its links as well.
Getfirst(q) ==
  /\ q < nextqid
  /\ \/ NobodyTaken("getfirst", q)
     \/ /\ ~isempty(q)
        /\ Taken("getfirst", firstid(q), q)
        /\ queuetab' = Unlinked(firstid(q))

Dequeue(q) ==
  /\ q < nextqid
  /\ \/ NobodyTaken("dequeue", q)
     \/ /\ ~isempty(q)
        /\ Taken("dequeue", firstid(q), q)
        /\ queuetab' = [Unlinked(firstid(q)) EXCEPT ![firstid(q)].qnext = EMPTY,
                                                    ![firstid(q)].qprev = EMPTY]

\* wakeup takes who is due.
Wakeup == sleepq < nextqid /\ ~isempty(sleepq) /\ firstkey(sleepq) <= 0 /\ Dequeue(sleepq)

\* suspend and kill take a process out of wherever it is.
Getitem(p) ==
  /\ inqueue[p] \in SemQueue \cup {readylist}
  /\ Taken("getitem", p, inqueue[p])
  /\ queuetab' = Unlinked(p)

\* Mutant: unsleep looks for the next entry after it has unlinked p.
UnsleepLast(p) ==
  /\ inqueue[p] = sleepq
  /\ Taken("unsleep", p, sleepq)
  /\ queuetab' = Unlinked(p)

\* unsleep: the next process, if it is one, takes over the delay.
Unsleep(p) ==
  LET pidnext == queuetab[p].qnext IN
  /\ inqueue[p] = sleepq
  /\ Taken("unsleep", p, sleepq)
  /\ queuetab' = IF pidnext < NPROC
                 THEN [Unlinked(p) EXCEPT ![pidnext].qkey = @ + queuetab[p].qkey]
                 ELSE Unlinked(p)

\* clkhandler decrements the first key of the sleep queue.
Decrement ==
  /\ sleepq < nextqid /\ ~isempty(sleepq)
  /\ firstkey(sleepq) > -MaxLate
  /\ queuetab' = [queuetab EXCEPT ![firstid(sleepq)].qkey = @ - 1]
  /\ call' = Call("clkhandler", sleepq, firstid(sleepq))
  /\ UNCHANGED <<nextqid, inqueue>>

TabNext ==
  \/ Newqueue
  \/ \E p \in Proc :
       \/ \E q \in SemQueue : Enqueue(p, q)
       \/ \E prio \in Prios : Insertp(p, readylist, prio)
       \/ \E delay \in Delays : Insertdp(p, sleepq, delay)
       \/ Getitem(p) \/ Unsleep(p)
  \/ \E q \in SemQueue : Getfirst(q)
  \/ \E q \in SemQueue \cup {readylist} : Dequeue(q)
  \/ Wakeup \/ Decrement

TabSpec == TabInit /\ [][TabNext]_tabVars
-----------------------------------------------------------------------------
\* The processes that the links of queue q lead to, in their order.
List(q) ==
  LET walk == Loop([n \in Node |-> IF n \in Proc THEN queuetab[n].qnext ELSE n], firstid(q))
      len  == Min({n \in 0 .. NPROC+1 : n = NPROC+1 \/ walk[n] \notin Proc})
  IN IF q < nextqid THEN [i \in 1 .. len |-> walk[i-1]] ELSE <<>>

\* Entry i of the queue that holds the processes s: its head, a process or its tail.
NodeOf(q, s, i) ==
  IF i = 0 THEN queuehead(q) ELSE IF i = Len(s)+1 THEN queuetail(q) ELSE s[i]

\* The links of q lead along s and back.
Linked(q, s) ==
  \A i \in 0 .. Len(s) :
    /\ queuetab[NodeOf(q, s, i)].qnext = NodeOf(q, s, i+1)
    /\ queuetab[NodeOf(q, s, i+1)].qprev = NodeOf(q, s, i)

\* Queue q holds s: the processes whose states name it, each of them once.
QueueSound(q, s) ==
  /\ s \in Seq(Proc) /\ IsInjective(s)
  /\ Range(s) = {p \in Proc : inqueue[p] = q}
  /\ IF q < nextqid
     THEN /\ Linked(q, s)
          /\ queuetab[queuehead(q)].qkey = MAXKEY /\ queuetab[queuetail(q)].qkey = MINKEY
     ELSE s = <<>>

TableTypes ==
  /\ nextqid \in Queue \cup {NQENT}
  /\ queuetab \in [Node -> [qkey : Int, qnext : Node \cup {EMPTY}, qprev : Node \cup {EMPTY}]]
  /\ inqueue \in [Proc -> Queue \cup {EMPTY}]

\* The table is sound: the entries of a queue are linked in both directions, a process
\* is in the queue that its state names, once, and in no other, and all queues fit into
\* the table.  The routines that unlink a process rely on it: they take the neighbours
\* they find for those of the queue they mean.
TableSound == TableTypes /\ \A q \in Queue : QueueSound(q, List(q))

listsBar == [q \in Queue |-> List(q)]
keysBar == [p \in Proc |-> queuetab[p].qkey]
Lists == INSTANCE ProcessQueues WITH Keys <- Prios \cup Delays, lists <- listsBar, keys <- keysBar

\* The table implements queues that are sequences: each call does to the lists and the
\* keys what module Kernel says of it, and returns the process that it takes out.
QueuesAreLists == Lists!Spec
=============================================================================
