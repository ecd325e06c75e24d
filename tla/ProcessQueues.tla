--------------------------- MODULE ProcessQueues ----------------------------
(***************************************************************************)
(* What the queue table promises, without links: each queue is a sequence  *)
(* of processes and each process has a key.  This is how module Kernel     *)
(* sees it.  call says what the last call was asked and what it returned.  *)
(***************************************************************************)
EXTENDS Queues

CONSTANTS
  Proc,   \* the processes
  Queue,  \* the queues
  Keys,   \* the keys and delays processes are queued with
  EMPTY   \* what is returned from an empty queue

VARIABLES lists, keys, call

Call(op, q, p) == [op |-> op, queue |-> q, pid |-> p]
Queued(p) == \E q \in Queue : p \in Range(lists[q])

Init ==
  /\ lists = [q \in Queue |-> <<>>]
  /\ keys \in [Proc -> Int]
  /\ call = Call("none", EMPTY, EMPTY)

\* Last in the queue, by descending key, or by the time that is left.
Enqueue(p, q) ==
  /\ ~Queued(p) /\ call' = Call("enqueue", q, p)
  /\ lists' = [lists EXCEPT ![q] = Append(@, p)]
  /\ UNCHANGED keys
InsertKey(p, q, key) ==
  /\ ~Queued(p) /\ call' = Call("insert", q, p)
  /\ lists' = [lists EXCEPT ![q] = Insert(@, keys, p, key)]
  /\ keys' = [keys EXCEPT ![p] = key]
InsertDelay(p, q, delay) ==
  /\ ~Queued(p) /\ call' = Call("insertd", q, p)
  /\ lists' = [lists EXCEPT ![q] = Insertd(@, keys, p, delay)]
  /\ keys' = InsertdKeys(lists[q], keys, p, delay)

\* The first process leaves, if there is one.
TakeFirst(op, q) ==
  /\ IF lists[q] = <<>>
     THEN call' = Call(op, q, EMPTY) /\ UNCHANGED lists
     ELSE call' = Call(op, q, Head(lists[q])) /\ lists' = [lists EXCEPT ![q] = Tail(@)]
  /\ UNCHANGED keys

\* A process leaves from wherever it is; of a delta list, the next process takes over
\* the time it would have waited.
Place(s, p) == CHOOSE i \in 1..Len(s) : s[i] = p
Leave(op, q, p) ==
  /\ call' = Call(op, q, p)
  /\ lists' = [lists EXCEPT ![q] = RemoveAt(@, Place(@, p))]
Getitem(q, p) == Leave("getitem", q, p) /\ UNCHANGED keys
Unsleep(q, p) ==
  LET i == Place(lists[q], p)
  IN /\ Leave("unsleep", q, p)
     /\ keys' = IF i < Len(lists[q]) THEN [keys EXCEPT ![lists[q][i+1]] = @ + keys[p]] ELSE keys

\* Time passes for a delta list.
Decrement(q) ==
  /\ lists[q] # <<>>
  /\ call' = Call("clkhandler", q, Head(lists[q]))
  /\ keys' = [keys EXCEPT ![Head(lists[q])] = @ - 1]
  /\ UNCHANGED lists

Next ==
  \E q \in Queue :
    \/ \E p \in Proc :
         \/ Enqueue(p, q)
         \/ \E key \in Keys : InsertKey(p, q, key) \/ InsertDelay(p, q, key)
    \/ \E op \in {"dequeue", "getfirst"} : TakeFirst(op, q)
    \/ \E p \in Range(lists[q]) : Getitem(q, p) \/ Unsleep(q, p)
    \/ Decrement(q)

Spec == Init /\ [][Next]_<<lists, keys, call>>
=============================================================================
