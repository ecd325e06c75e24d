------------------------------- MODULE Queues -------------------------------
(***************************************************************************)
(* What the queue routines of Xinu (src/Xinu/system: insert.c, insertd.c,  *)
(* getitem.c) do to a list, taken as the sequence of the processes linked  *)
(* in it.  A process has one entry in queuetab, so one key, whatever list  *)
(* it is in: ks is the function from processes to keys.                    *)
(***************************************************************************)
EXTENDS Integers, Sequences, SequencesExt

\* insert: before the first entry with a smaller key, so after equal ones.
InsertPosition(q, ks, key) ==
  Min({i \in 1..Len(q)+1 : i = Len(q)+1 \/ ks[q[i]] < key})
Insert(q, ks, p, key) == InsertAt(q, InsertPosition(q, ks, key), p)

\* The sum of the first i keys of a delta list: the time its i-th entry has left.
Elapsed(q, ks) ==
  LET sum[i \in 0..Len(q)] == IF i = 0 THEN 0 ELSE sum[i-1] + ks[q[i]]
  IN sum

\* insertd: pass every entry that is due no later, then split the next key.
InsertdPosition(q, ks, key) ==
  Min({i \in 1..Len(q)+1 : i = Len(q)+1 \/ Elapsed(q, ks)[i] > key})
Insertd(q, ks, p, key) == InsertAt(q, InsertdPosition(q, ks, key), p)
InsertdKeys(q, ks, p, key) ==
  LET i == InsertdPosition(q, ks, key)
      rest == key - Elapsed(q, ks)[i-1]
  IN IF i <= Len(q) THEN [ks EXCEPT ![p] = rest, ![q[i]] = @ - rest]
     ELSE [ks EXCEPT ![p] = rest]
=============================================================================
