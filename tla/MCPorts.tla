------------------------------ MODULE MCPorts -------------------------------
EXTENDS Ports, TLC
AnyProc == Permutations(Proc)
LivePorts ==
  << ptstate, ptmaxcnt, ptfree, ptnextid, semused, waiters, cpu, lost,
     [i \in Port |-> IF i \in Holding THEN ptlist[i] ELSE <<>>],
     [n \in Node |-> IF n \in Range(ptfree) THEN 0 ELSE ptmsg[n]],
     [s \in Sem |-> IF s \in semused THEN permits[s] ELSE 0],
     [p \in Proc |-> [frame[p] EXCEPT !.seq = IF @ = ptseq[frame[p].port] THEN 1 ELSE 0]] >>
=============================================================================
