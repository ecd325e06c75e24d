-------------------------- MODULE KernelRefinement --------------------------
(***************************************************************************)
(* The kernel against what it promises: each slot of the semaphore table   *)
(* implements a first-come first-served semaphore, and the clock and the   *)
(* time slice let every sleeper and every ready process of the highest     *)
(* priority go on.                                                         *)
(***************************************************************************)
EXTENDS Kernel

Semaphores ==
  INSTANCE FifoSemaphore WITH
    Proc <- Pid,
    Sem <- Sid,
    Grants <- Counts,
    permits <- [s \in Sid |-> IF scount[s] > 0 THEN scount[s] ELSE 0],
    waiters <- squeue

\* wait, signal, signaln, semreset, semdelete and the kill of a waiter implement
\* first-come first-served semaphores: no waiter is overtaken or forgotten, nobody
\* is let past a waiter, and no call gains or loses a permit.
FifoSemaphores == Semaphores!Spec

(***************************************************************************)
(* The timer keeps its overflow flag up until the handler clears it, so an *)
(* interrupt that comes while interrupts are disabled is taken when they   *)
(* are enabled again: strong fairness of Tick.  Kernel code runs to its    *)
(* end: weak fairness of KernelStep.  Nothing is assumed of processes.     *)
(***************************************************************************)
FairSpec == Spec /\ WF_vars(KernelStep) /\ SF_vars(Tick)

\* sleepms and recvtime end: a process does not stay in the sleep queue for ever,
\* unless xdone has stopped the machine.
SleeperWakes ==
  \A p \in Pid : prstate[p] \in {"SLEEP", "RECTIM"}
                 ~> (prstate[p] \notin {"SLEEP", "RECTIM"} \/ In("halt"))

\* Time slicing: a ready process is not passed over for ever in favour of
\* processes that do not have a higher priority than the key it is queued with.
NoStarvationAmongEquals ==
  \A p \in Pid : []<>(prstate[p] # "READY" \/ qkey[p] < prprio[currpid] \/ In("halt"))
=============================================================================
