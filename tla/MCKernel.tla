------------------------------ MODULE MCKernel ------------------------------
EXTENDS KernelRefinement
Live(p, value, dead) == IF prstate[p] = "FREE" THEN dead ELSE value
LiveState ==
  << prstate, readylist, sleepq, squeue, sstate, scount, nextsem, currpid, preempt,
     ndefers, IF ndefers > 0 THEN attempt ELSE FALSE, nextpid, prcount, left,
     [p \in Pid |-> IF p \in Range(readylist) \cup Range(sleepq) THEN qkey[p] ELSE 0],
     [p \in Pid |-> IF prstate[p] = "WAIT" THEN prsem[p] ELSE NoSem],
     [p \in Pid |-> Live(p, prprio[p], 0)], [p \in Pid |-> Live(p, prparent[p], 0)],
     [p \in Pid |-> Live(p, prhasmsg[p], FALSE)], [p \in Pid |-> Live(p, frame[p], User)] >>
=============================================================================
