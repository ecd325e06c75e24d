----------------------------- MODULE MCQueueTab -----------------------------
(***************************************************************************)
(* The instance of the queue table that TLC checks.                        *)
(***************************************************************************)
EXTENDS QueueTab

Lowest == -9

\* What a call returned is looked at in the step that makes it, and nobody looks at the
\* links of a process that is in no queue.
TableView ==
  <<[n \in Node |-> IF n \in Proc /\ inqueue[n] = EMPTY THEN Entry(0, 0, 0) ELSE queuetab[n]],
    nextqid, inqueue>>
=============================================================================
