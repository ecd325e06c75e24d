--------------------------- MODULE FifoSemaphore ---------------------------
(***************************************************************************)
(* What the semaphore table of the kernel promises, without counts below   *)
(* zero and without a scheduler: each semaphore has permits that can be    *)
(* taken at once, and processes that wait for one in the order in which    *)
(* they asked.                                                             *)
(***************************************************************************)
EXTENDS Naturals, Sequences, SequencesExt

CONSTANTS
  Proc,   \* the processes that may wait
  Sem,    \* the semaphores
  Grants  \* the numbers of permits a semaphore may be created or reset with

VARIABLES permits, waiters

Init ==
  /\ permits = [s \in Sem |-> 0]
  /\ waiters = [s \in Sem |-> <<>>]

\* A permit is taken, or the caller queues up behind everyone who waits.
Acquire(s, p) ==
  \/ /\ permits[s] > 0
     /\ permits' = [permits EXCEPT ![s] = @ - 1]
     /\ UNCHANGED waiters
  \/ /\ permits[s] = 0 /\ p \notin Range(waiters[s])
     /\ waiters' = [waiters EXCEPT ![s] = Append(@, p)]
     /\ UNCHANGED permits

\* A permit goes to the process that has waited longest, or is kept.
Release(s) ==
  \/ /\ waiters[s] # <<>>
     /\ waiters' = [waiters EXCEPT ![s] = Tail(@)]
     /\ UNCHANGED permits
  \/ /\ waiters[s] = <<>>
     /\ permits' = [permits EXCEPT ![s] = @ + 1]
     /\ UNCHANGED waiters

\* A waiter is killed: the others keep their order and nobody gains a permit.
Withdraw(s, i) ==
  /\ waiters' = [waiters EXCEPT ![s] = RemoveAt(@, i)]
  /\ UNCHANGED permits

\* The semaphore is created, or reset once its waiters are gone.
Grant(s, n) ==
  /\ waiters[s] = <<>>
  /\ permits' = [permits EXCEPT ![s] = n]
  /\ UNCHANGED waiters

Next ==
  \E s \in Sem :
    \/ \E p \in Proc : Acquire(s, p)
    \/ Release(s)
    \/ \E i \in DOMAIN waiters[s] : Withdraw(s, i)
    \/ \E n \in Grants : Grant(s, n)

Spec == Init /\ [][Next]_<<permits, waiters>>
=============================================================================
