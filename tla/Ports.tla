------------------------------- MODULE Ports --------------------------------
(***************************************************************************)
(* Message ports (src/Xinu/system/pt*.c): bounded queues of one-word       *)
(* messages.  A port is guarded by two semaphores, one that counts free    *)
(* places and one that counts messages; the nodes that hold messages are   *)
(* shared by all ports.  A port can be reset or deleted while processes    *)
(* wait on its semaphores; ptseq tells them so when they wake up.          *)
(*                                                                         *)
(* Semaphores are what module FifoSemaphore says they are (the kernel is   *)
(* shown to implement it).  The scheduler is abstracted: a process that    *)
(* does not wait may be the next to run whenever the CPU can be given      *)
(* away.  It cannot while a process is inside a call that has not blocked  *)
(* and made nobody ready: cpu is that process, and NoProc otherwise.       *)
(***************************************************************************)
EXTENDS Integers, Sequences, FiniteSets, SequencesExt, FiniteSetsExt

CONSTANTS
  Proc,      \* the processes that use ports (at most NPROC)
  NoProc,    \* not a process
  NPORTS,    \* slots of the port table
  PT_MSGS,   \* message nodes, for all ports together
  NSEM,      \* semaphores of semtab that ports can get
  Msg,       \* message words
  Counts,    \* arguments of ptcreate
  UINT16,    \* the range of the field ptmaxcnt (2^16 in C)
  Killable   \* bound: kill takes a process inside one of these routines

ASSUME PortSizes ==
  /\ NoProc \notin Proc /\ IsFiniteSet(Proc)
  /\ NPORTS \in Nat \ {0} /\ PT_MSGS \in Nat \ {0} /\ NSEM \in Nat
  /\ Msg # {}
  /\ Counts \subseteq Nat /\ UINT16 \in Nat \ {0}
  /\ Killable \subseteq {"ptsend", "ptrecv"}

Port == 0 .. NPORTS-1
Node == 1 .. PT_MSGS
SendSem(i) == <<i, "ptssem">>
RecvSem(i) == <<i, "ptrsem">>
Sem == Port \X {"ptssem", "ptrsem"}

VARIABLES
  ptstate, ptseq, ptmaxcnt,  \* porttab
  ptlist,                    \* porttab: the nodes from pthead to pttail
  ptfree, ptmsg, ptnextid,   \* free nodes, contents of the nodes, cursor
  semused,                   \* the semaphores that semcreate has given to ports
  permits, waiters,          \* semaphores, as in FifoSemaphore
  cpu,                       \* see above
  frame,                     \* where a process is, and what it read on the way
  handed,                    \* history: the last message handed over
  lost                       \* history: permits of processes killed before they ran

Semaphores == INSTANCE FifoSemaphore WITH Grants <- Counts

portVars == <<ptstate, ptseq, ptmaxcnt, ptnextid>>
nodeVars == <<ptlist, ptfree, ptmsg, handed>>
semVars == <<semused, permits, waiters, lost>>
vars == <<portVars, nodeVars, semVars, cpu, frame>>

(***************************************************************************)
(* A frame: the routine (ptsend, ptrecv, the three parts of _ptclear), its *)
(* port, the ptseq it remembers, its argument (message or new state) and,  *)
(* for _ptclear, how many messages it has disposed of.                     *)
(***************************************************************************)
Clearing == {"walk", "clear_ptssem", "clear_ptrsem", "clear_done"}
Routine == {"user", "ptsend", "ptrecv", "panic"} \cup Clearing
Arg == Msg \cup {"FREE", "ALLOC"}
Frame(at, i, arg) == [at |-> at, port |-> i, seq |-> ptseq[i], arg |-> arg, walk |-> 0]
User == [at |-> "user", port |-> 0, seq |-> 0, arg |-> "FREE", walk |-> 0]

Goto(p, f) == frame' = [frame EXCEPT ![p] = f]
At(p, routine) == frame[p].at = routine /\ cpu \in {p, NoProc}
Blocked(p) == \E s \in Sem : p \in Range(waiters[s])

\* Mutant: a port in limbo can be used too.
CallForNotFree(p, i) == At(p, "user") /\ cpu = NoProc /\ ptstate[i] # "FREE"

\* Process p calls a routine for port i, which has to be allocated.
Call(p) == At(p, "user") /\ cpu = NoProc
CallFor(p, i) == Call(p) /\ ptstate[i] = "ALLOC"

\* Between two steps of a call, the CPU may be lost only if others were made ready.
KeepCpu(p, mayswitch) == cpu' = p \/ (mayswitch /\ cpu' = NoProc)
Return(p) == Goto(p, User) /\ cpu' = NoProc
-----------------------------------------------------------------------------
\* Mutant: the cursor is not wrapped.
NextPortUnwrapped(i) == i + 1

NextPort(i) == (i + 1) % NPORTS

\* The first free entry at or after the cursor.
FromCursor(i) == (i - ptnextid) % NPORTS
IsNextFree(i) ==
  /\ ptstate[i] = "FREE"
  /\ \A j \in Port : ptstate[j] = "FREE" => FromCursor(i) <= FromCursor(j)

\* semcreate for the semaphores of S in turn, as long as semtab has room: the
\* sends and receives of a port without its semaphore fail.
Semcreated(i) ==
  LET room == NSEM - Cardinality(semused)
  IN {s \in {SendSem(i)} : room >= 1} \cup {s \in {RecvSem(i)} : room >= 2}

Ptcreate(p, count) ==
  /\ Call(p)
  /\ \E i \in Port :
       /\ IsNextFree(i)
       /\ ptnextid' = NextPort(i)
       /\ ptstate' = [ptstate EXCEPT ![i] = "ALLOC"]
       /\ semused' = semused \cup Semcreated(i)
       /\ permits' = [permits EXCEPT ![SendSem(i)] = count, ![RecvSem(i)] = 0]
       /\ lost' = [lost EXCEPT ![SendSem(i)] = 0, ![RecvSem(i)] = 0]
       /\ ptlist' = [ptlist EXCEPT ![i] = <<>>]
       /\ ptseq' = [ptseq EXCEPT ![i] = @ + 1]
       /\ ptmaxcnt' = [ptmaxcnt EXCEPT ![i] = count % UINT16]
  /\ UNCHANGED <<waiters, ptfree, ptmsg, cpu, frame, handed>>

\* Wait for a semaphore of the port in a call: go on at once, or block.
WaitIn(p, s, f) ==
  /\ s \in semused
  /\ Semaphores!Acquire(s, p)
  /\ Goto(p, f)
  /\ cpu' = IF permits[s] > 0 THEN p ELSE NoProc
  /\ UNCHANGED <<portVars, nodeVars, semused, lost>>

PtsendStart(p, i, m) == CallFor(p, i) /\ WaitIn(p, SendSem(i), Frame("ptsend", i, m))
PtrecvStart(p, i) == CallFor(p, i) /\ WaitIn(p, RecvSem(i), Frame("ptrecv", i, "FREE"))

\* Signal a semaphore of the port; nothing happens if semcreate had failed.
SignalOf(s) ==
  \/ s \in semused /\ Semaphores!Release(s)
  \/ s \notin semused /\ UNCHANGED <<permits, waiters>>

\* Mutant: ptseq is not compared.
StillValidAnySeq(f) == ptstate[f.port] = "ALLOC"

\* The port has not been reset, deleted or reused since the call began.
StillValid(f) == ptstate[f.port] = "ALLOC" /\ ptseq[f.port] = f.seq

\* After the wait, whether it was ended by a signal or by a reset.
PtFailed(p) ==
  /\ At(p, "ptsend") \/ At(p, "ptrecv")
  /\ ~Blocked(p) /\ ~StillValid(frame[p])
  /\ Return(p)
  /\ UNCHANGED <<portVars, nodeVars, semVars>>

PtsendPanic(p) ==
  /\ At(p, "ptsend") /\ ~Blocked(p) /\ StillValid(frame[p])
  /\ ptfree = <<>>
  /\ Goto(p, [frame[p] EXCEPT !.at = "panic"])
  /\ cpu' = p
  /\ UNCHANGED <<portVars, nodeVars, semVars>>

\* Mutant: the node is linked in at the head.
PtsendFinishAtHead(p) ==
  LET f == frame[p] IN
  /\ At(p, "ptsend") /\ ~Blocked(p) /\ StillValid(f)
  /\ ptfree # <<>>
  /\ ptfree' = Tail(ptfree)
  /\ ptmsg' = [ptmsg EXCEPT ![Head(ptfree)] = f.arg]
  /\ ptlist' = [ptlist EXCEPT ![f.port] = <<Head(ptfree)>> \o @]
  /\ SignalOf(RecvSem(f.port))
  /\ Return(p)
  /\ UNCHANGED <<portVars, semused, lost, handed>>

PtsendFinish(p) ==
  LET f == frame[p] IN
  /\ At(p, "ptsend") /\ ~Blocked(p) /\ StillValid(f)
  /\ ptfree # <<>>
  /\ ptfree' = Tail(ptfree)
  /\ ptmsg' = [ptmsg EXCEPT ![Head(ptfree)] = f.arg]
  /\ ptlist' = [ptlist EXCEPT ![f.port] = Append(@, Head(ptfree))]
  /\ SignalOf(RecvSem(f.port))
  /\ Return(p)
  /\ UNCHANGED <<portVars, semused, lost, handed>>

\* Mutant: the node is not returned to the free list.
PtrecvFinishLeaks(p) ==
  LET f == frame[p] IN
  /\ At(p, "ptrecv") /\ ~Blocked(p) /\ StillValid(f)
  /\ ptlist[f.port] # <<>>
  /\ handed' = <<"receiver", f.port, ptmsg[Head(ptlist[f.port])]>>
  /\ ptlist' = [ptlist EXCEPT ![f.port] = Tail(@)]
  /\ SignalOf(SendSem(f.port))
  /\ Return(p)
  /\ UNCHANGED <<portVars, semused, lost, ptmsg, ptfree>>

\* The code takes the head of the list without looking whether there is one.
PtrecvFinish(p) ==
  LET f == frame[p] IN
  /\ At(p, "ptrecv") /\ ~Blocked(p) /\ StillValid(f)
  /\ ptlist[f.port] # <<>>
  /\ handed' = <<"receiver", f.port, ptmsg[Head(ptlist[f.port])]>>
  /\ ptlist' = [ptlist EXCEPT ![f.port] = Tail(@)]
  /\ ptfree' = <<Head(ptlist[f.port])>> \o ptfree
  /\ SignalOf(SendSem(f.port))
  /\ Return(p)
  /\ UNCHANGED <<portVars, semused, lost, ptmsg>>
-----------------------------------------------------------------------------
(* ptreset and ptdelete call _ptclear.  The dispose function belongs to    *)
(* the caller and may make other processes ready; so may semreset and      *)
(* semdelete, which release everyone who waits before anyone else runs.    *)

PtclearStart(p, i, newstate) ==
  /\ CallFor(p, i)
  /\ ptstate' = [ptstate EXCEPT ![i] = "LIMBO"]
  /\ ptseq' = [ptseq EXCEPT ![i] = @ + 1]
  /\ Goto(p, Frame("walk", i, newstate))
  /\ cpu' = p
  /\ UNCHANGED <<ptmaxcnt, ptnextid, nodeVars, semVars>>

PtclearDispose(p) ==
  LET f == frame[p] IN
  /\ At(p, "walk") /\ f.walk < Len(ptlist[f.port])
  /\ handed' = <<"dispose", f.port, ptmsg[ptlist[f.port][f.walk + 1]]>>
  /\ Goto(p, [f EXCEPT !.walk = @ + 1])
  /\ KeepCpu(p, TRUE)
  /\ UNCHANGED <<portVars, ptlist, ptfree, ptmsg, semVars>>

\* Mutant: the old free list is not linked behind the port's.
PtclearNodesUnlinked(p) ==
  LET f == frame[p] IN
  /\ At(p, "walk") /\ f.walk = Len(ptlist[f.port])
  /\ ptfree' = IF ptlist[f.port] = <<>> THEN ptfree ELSE ptlist[f.port]
  /\ ptlist' = IF f.arg = "ALLOC" THEN [ptlist EXCEPT ![f.port] = <<>>] ELSE ptlist
  /\ Goto(p, [f EXCEPT !.at = "clear_ptssem"])
  /\ KeepCpu(p, FALSE)
  /\ UNCHANGED <<portVars, semVars, ptmsg, handed>>

\* The list goes in front of the free list; a deleted port keeps its old pointers.
PtclearNodes(p) ==
  LET f == frame[p] IN
  /\ At(p, "walk") /\ f.walk = Len(ptlist[f.port])
  /\ ptfree' = ptlist[f.port] \o ptfree
  /\ ptlist' = IF f.arg = "ALLOC" THEN [ptlist EXCEPT ![f.port] = <<>>] ELSE ptlist
  /\ Goto(p, [f EXCEPT !.at = "clear_ptssem"])
  /\ KeepCpu(p, FALSE)
  /\ UNCHANGED <<portVars, semVars, ptmsg, handed>>

\* semreset or semdelete of one semaphore (neither does anything without one).
ClearSem(p, s, count, next) ==
  /\ waiters' = [waiters EXCEPT ![s] = <<>>]
  /\ permits' = IF s \in semused THEN [permits EXCEPT ![s] = count] ELSE permits
  /\ lost' = [lost EXCEPT ![s] = 0]
  /\ semused' = IF frame[p].arg = "ALLOC" THEN semused ELSE semused \ {s}
  /\ Goto(p, [frame[p] EXCEPT !.at = next])
  /\ KeepCpu(p, waiters[s] # <<>>)
  /\ UNCHANGED <<portVars, nodeVars>>

PtclearSendSem(p) ==
  /\ At(p, "clear_ptssem")
  /\ ClearSem(p, SendSem(frame[p].port), ptmaxcnt[frame[p].port], "clear_ptrsem")
PtclearRecvSem(p) ==
  /\ At(p, "clear_ptrsem")
  /\ ClearSem(p, RecvSem(frame[p].port), 0, "clear_done")

PtclearDone(p) ==
  LET f == frame[p] IN
  /\ At(p, "clear_done")
  /\ ptstate' = [ptstate EXCEPT ![f.port] = f.arg]
  /\ ptnextid' = IF f.arg = "FREE" THEN f.port ELSE ptnextid
  /\ Return(p)
  /\ UNCHANGED <<ptseq, ptmaxcnt, nodeVars, semVars>>
-----------------------------------------------------------------------------
\* kill of a process that waits, or that was made ready and has not run yet; the
\* permit a ready one was given is lost.  Its slot is used again.
WaitedFor(f) == IF f.at = "ptsend" THEN SendSem(f.port) ELSE RecvSem(f.port)
Kill(p) ==
  /\ cpu = NoProc /\ frame[p].at \in Killable
  /\ \/ \E s \in Sem : \E n \in DOMAIN waiters[s] :
          waiters[s][n] = p /\ Semaphores!Withdraw(s, n) /\ UNCHANGED lost
     \/ /\ ~Blocked(p)
        /\ lost' = IF StillValid(frame[p])
                   THEN [lost EXCEPT ![WaitedFor(frame[p])] = @ + 1] ELSE lost
        /\ UNCHANGED <<permits, waiters>>
  /\ Goto(p, User)
  /\ UNCHANGED <<portVars, nodeVars, semused, cpu>>

\* panic stops the machine.
Halted(p) == At(p, "panic") /\ UNCHANGED vars

Init ==
  /\ ptstate = [i \in Port |-> "FREE"]
  /\ ptseq = [i \in Port |-> 0]
  /\ ptmaxcnt = [i \in Port |-> 0]
  /\ ptlist = [i \in Port |-> <<>>]
  /\ ptfree = [n \in Node |-> n]
  /\ ptmsg \in [Node -> Msg]  \* whatever getmem returned
  /\ ptnextid = 0
  /\ semused = {}
  /\ Semaphores!Init
  /\ cpu = NoProc
  /\ frame = [p \in Proc |-> User]
  /\ handed = <<>>
  /\ lost = [s \in Sem |-> 0]

Next ==
  \E p \in Proc :
    \/ \E count \in Counts : Ptcreate(p, count)
    \/ \E i \in Port : PtrecvStart(p, i) \/ (\E m \in Msg : PtsendStart(p, i, m))
    \/ \E i \in Port, newstate \in {"FREE", "ALLOC"} : PtclearStart(p, i, newstate)
    \/ PtFailed(p) \/ PtsendPanic(p) \/ PtsendFinish(p) \/ PtrecvFinish(p)
    \/ PtclearDispose(p) \/ PtclearNodes(p) \/ PtclearSendSem(p) \/ PtclearRecvSem(p)
    \/ PtclearDone(p) \/ Kill(p) \/ Halted(p)

Spec == Init /\ [][Next]_vars
-----------------------------------------------------------------------------
(* What ports keep true.                                                   *)

FrameSet == [at : Routine, port : Port, seq : Nat, arg : Arg, walk : 0 .. PT_MSGS]

PortTypes ==
  /\ ptstate \in [Port -> {"FREE", "LIMBO", "ALLOC"}]
  /\ ptseq \in [Port -> Nat] /\ ptmaxcnt \in [Port -> 0 .. UINT16-1]
  /\ ptnextid \in Port
NodeTypes ==
  /\ ptlist \in [Port -> Seq(Node)] /\ ptfree \in Seq(Node)
  /\ ptmsg \in [Node -> Msg]
PortSemTypes ==
  /\ semused \subseteq Sem
  /\ permits \in [Sem -> Nat] /\ lost \in [Sem -> Nat] /\ waiters \in [Sem -> Seq(Proc)]
CallTypes == cpu \in Proc \cup {NoProc} /\ frame \in [Proc -> FrameSet]

\* Every variable has the type of its C counterpart.
TypeOK == PortTypes /\ NodeTypes /\ PortSemTypes /\ CallTypes

\* A port is in limbo exactly while one process clears it, and no two processes
\* clear the same port, whoever is given the CPU in between.
Clearers(i) == {p \in Proc : frame[p].at \in Clearing /\ frame[p].port = i}
LimboHasClearer ==
  \A i \in Port : Cardinality(Clearers(i)) = IF ptstate[i] = "LIMBO" THEN 1 ELSE 0

\* The ports whose list is theirs: _ptclear has not given it to the free list yet.
Holding == {i \in Port : ptstate[i] = "ALLOC" \/ \E p \in Clearers(i) : frame[p].at = "walk"}

\* Every message node is in the free list or in the list of one port, once:
\* none is lost by a reset or delete, none is written while a port holds it.
NodesConserved ==
  /\ Range(ptfree) \cup UNION {Range(ptlist[i]) : i \in Holding} = Node
  /\ IsInjective(ptfree)
  /\ \A i \in Holding : IsInjective(ptlist[i]) /\ Range(ptlist[i]) \cap Range(ptfree) = {}
  /\ \A i, j \in Holding : i # j => Range(ptlist[i]) \cap Range(ptlist[j]) = {}

\* The processes whose wait is over and that will find the port as they left it.
Granted(i, routines) ==
  {p \in Proc : frame[p].at \in routines /\ frame[p].port = i /\ ~Blocked(p)
                /\ StillValid(frame[p])}
Claims(s, i, routines) == permits[s] + Cardinality(Granted(i, routines)) + lost[s]

\* Every place of a port is free, promised to a sender, or taken by a message, and
\* a send cut off by a reset or delete has no claim on the port as it is now.
PlacesAccounted ==
  \A i \in Port : ptstate[i] = "ALLOC" /\ SendSem(i) \in semused =>
    Claims(SendSem(i), i, {"ptsend", "panic"}) + Len(ptlist[i]) = ptmaxcnt[i]

\* Every message of a port can be received or is promised to a receiver, and every
\* receiver that goes on finds a message, which ptrecv takes without looking.
MessagesAccounted ==
  \A i \in Port : ptstate[i] = "ALLOC" /\ RecvSem(i) \in semused =>
    Claims(RecvSem(i), i, {"ptrecv"}) = Len(ptlist[i])

\* The two semaphores of a port agree with its list, whoever was killed, released
\* or cut off between being given a permit and running.
PermitsAccounted == PlacesAccounted /\ MessagesAccounted

\* The places for messages that the ports in use were created with.
Places ==
  {place \in Port \X (1 .. UINT16) : ptstate[place[1]] # "FREE" /\ place[2] <= ptmaxcnt[place[1]]}

\* The nodes run out only if the ports may hold more messages than there are nodes.
PanicOnlyOversubscribed ==
  (\E p \in Proc : frame[p].at = "panic") => Cardinality(Places) > PT_MSGS

\* A port can be used as soon as ptcreate has returned it.
AllocatedPortsWork ==
  \A i \in Port : ptstate[i] = "ALLOC" => {SendSem(i), RecvSem(i)} \subseteq semused

(***************************************************************************)
(* A port against what it promises.  The messages of a port in limbo are   *)
(* those its clearing process has not disposed of.                         *)
(***************************************************************************)
Contents(i) ==
  LET msgs == [n \in DOMAIN ptlist[i] |-> ptmsg[ptlist[i][n]]]
      walkers == {p \in Clearers(i) : frame[p].at = "walk"}
  IN IF ptstate[i] = "ALLOC" THEN msgs
     ELSE IF walkers = {} THEN <<>>
     ELSE SubSeq(msgs, frame[CHOOSE p \in walkers : TRUE].walk + 1, Len(msgs))

Fifos ==
  INSTANCE PortFifo WITH
    Capacities <- 0 .. UINT16-1,
    open <- [i \in Port |-> ptstate[i] = "ALLOC"],
    capacity <- ptmaxcnt,
    contents <- [i \in Port |-> Contents(i)]

\* ptsend, ptrecv, ptreset and ptdelete implement bounded first-in first-out queues:
\* each message is received or disposed of, once and in order, never after a reset
\* by a receiver, and no port holds more messages than it was created for.
PortsAreFifo == Fifos!Spec
=============================================================================
