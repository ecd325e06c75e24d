------------------------------- MODULE Kernel -------------------------------
(***************************************************************************)
(* The process kernel of Xinu (src/Xinu/system): the process table, the    *)
(* ready list and the scheduler, deferred rescheduling, counting           *)
(* semaphores, one-word messages, the delta list of sleeping processes and *)
(* the clock interrupt handler.                                            *)
(*                                                                         *)
(* There is one CPU and every system call runs with interrupts disabled,   *)
(* so the code between two calls of resched() is one atomic step.  A step  *)
(* ends by handing the states, the ready list and the keys it has computed *)
(* to Resched, which picks the process to run.  What a process still has   *)
(* to do inside the kernel after the context switch, or in the next turn   *)
(* of a loop, is its frame; frame[p].at = "user" means that p runs its own *)
(* code with interrupts enabled.                                           *)
(***************************************************************************)
EXTENDS Queues, FiniteSets

CONSTANTS
  NPROC,     \* slots of the process table; slot 0 is the null process
  NSEM,      \* slots of the semaphore table
  QUANTUM,   \* clock ticks of a time slice
  InitPrio,  \* priority of the first process the null process creates
  Prios,     \* priorities passed to create and chprio
  Delays,    \* arguments of sleepms, in clock ticks
  Waits,     \* arguments of recvtime, in clock ticks
  Counts,    \* arguments of semcreate, signaln and semreset
  MaxCount,  \* bound: a semaphore is not signalled above this count
  MaxLate,   \* bound: a key of the sleep queue saturates at -MaxLate
  Calls      \* the system calls that processes of this instance make, and
             \* "interrupt" if its devices interrupt them

ASSUME SizesAssumption ==
  /\ NPROC \in Nat /\ NPROC >= 2
  /\ NSEM \in Nat
  /\ QUANTUM \in Nat \ {0}
  /\ MaxCount \in Nat /\ MaxLate \in Nat

ASSUME ArgumentsAssumption ==
  /\ InitPrio \in Nat \ {0}
  /\ Prios \subseteq Int
  /\ Delays \subseteq Nat /\ Waits \subseteq Nat /\ Counts \subseteq Nat

Pid == 0 .. NPROC-1
Sid == 0 .. NSEM-1
NULLPROC == 0
NoSem == -1

PrState == {"FREE", "CURR", "READY", "RECV", "SLEEP", "SUSP", "WAIT", "RECTIM"}

VARIABLES
  prstate, prprio, prsem, prparent, prhasmsg,  \* proctab
  qkey, readylist, sleepq, squeue,             \* queuetab, list by list
  sstate, scount, nextsem,                     \* semtab and newsem's cursor
  currpid, preempt, ndefers, attempt,          \* scheduler, Defer
  nextpid, prcount,                            \* newpid's cursor, live count
  frame,                                       \* kernel frame of a process
  left                                         \* history: time p has yet to wait

procVars == <<prprio, prsem, prparent, nextpid, prcount>>
semVars == <<squeue, sstate, scount, nextsem>>
sleepVars == <<sleepq, left>>
schedVars == <<prstate, qkey, readylist, currpid, preempt, attempt>>
vars == <<procVars, semVars, sleepVars, schedVars, prhasmsg, ndefers, frame>>

(***************************************************************************)
(* A frame names the routine a process is inside of, the process or        *)
(* semaphore it works on and, for signaln and semreset, its count.         *)
(***************************************************************************)
Routine == {"user", "receive", "recvtime", "kill", "signaln", "semdelete",
            "semreset", "wakeup", "clkhandler", "batch", "batch_signaln", "halt"}
FrameSet == [at : Routine, obj : Nat, n : Nat]
Frame(at, obj, n) == [at |-> at, obj |-> obj, n |-> n]
User == Frame("user", 0, 0)
In(routine) == frame[currpid].at = routine
Goto(f) == frame' = [frame EXCEPT ![currpid] = f]
-----------------------------------------------------------------------------
(* Queues.  A list of queuetab is the sequence of the processes linked in  *)
(* it (module QueueTab shows that it is); a process has one entry, so one  *)
(* key, whatever list it is in.                                            *)

\* getitem: unlink a process from the list it is in.
Unlink(q, p) == RemoveAt(q, CHOOSE i \in 1..Len(q) : q[i] = p)

\* Mutants: the next entry keeps its key, or gives the share away.
UnsleepKeysKept(p) == qkey
UnsleepKeysSubtracted(p) ==
  LET i == CHOOSE j \in 1..Len(sleepq) : sleepq[j] = p
  IN IF i < Len(sleepq) THEN [qkey EXCEPT ![sleepq[i+1]] = @ - qkey[p]] ELSE qkey

\* unsleep: the next entry takes over the removed one's share of the delay.
UnsleepKeys(p) ==
  LET i == CHOOSE j \in 1..Len(sleepq) : sleepq[j] = p
  IN IF i < Len(sleepq) THEN [qkey EXCEPT ![sleepq[i+1]] = @ + qkey[p]] ELSE qkey
-----------------------------------------------------------------------------
(* The scheduler.                                                          *)

\* Where resched leaves the CPU, given what its caller has computed: process
\* states ps, ready list rl, keys ks and the rest of the time slice.
StaysCurrent(ps, rl, ks) ==
  /\ ps[currpid] = "CURR"
  /\ IF rl = <<>> THEN TRUE ELSE prprio[currpid] > ks[Head(rl)]

Keep(ps, rl, ks, slice) ==
  /\ prstate' = ps /\ readylist' = rl /\ qkey' = ks /\ preempt' = slice
  /\ UNCHANGED currpid

Switch(ps, rl, ks) ==
  /\ currpid' = Head(rl)
  /\ readylist' = Tail(rl)
  /\ prstate' = [ps EXCEPT ![Head(rl)] = "CURR"]
  /\ qkey' = ks
  /\ preempt' = QUANTUM

Dispatch(ps, rl, ks, slice) ==
  \/ StaysCurrent(ps, rl, ks) /\ Keep(ps, rl, ks, slice)
  \/ /\ ~StaysCurrent(ps, rl, ks)
     /\ IF ps[currpid] = "CURR"
        THEN Switch([ps EXCEPT ![currpid] = "READY"],
                    Insert(rl, ks, currpid, prprio[currpid]),
                    [ks EXCEPT ![currpid] = prprio[currpid]])
        ELSE Switch(ps, rl, ks)

\* Mutant: resched does not look at the deferral count.
ReschedNow(ps, rl, ks, slice) == UNCHANGED attempt /\ Dispatch(ps, rl, ks, slice)

\* resched: only record the attempt while rescheduling is deferred.
Resched(ps, rl, ks, slice) ==
  \/ ndefers > 0 /\ attempt' = TRUE /\ Keep(ps, rl, ks, slice)
  \/ ndefers = 0 /\ UNCHANGED attempt /\ Dispatch(ps, rl, ks, slice)

\* ready: put p on the ready list and reschedule.
Ready(p, ks) ==
  Resched([prstate EXCEPT ![p] = "READY"],
          Insert(readylist, ks, p, prprio[p]),
          [ks EXCEPT ![p] = prprio[p]], preempt)

\* The caller leaves the CPU in state s.
Block(s) == Resched([prstate EXCEPT ![currpid] = s], readylist, qkey, preempt)

\* Mutant: deferral is a flag, so that the inner routine ends the outer one's too.
DeferStartFlag ==
  /\ ndefers' = 1
  /\ attempt' = IF ndefers = 0 THEN FALSE ELSE attempt

\* Deferral is counted: a routine that defers may call another that does.
DeferStart ==
  /\ ndefers' = ndefers + 1
  /\ attempt' = IF ndefers = 0 THEN FALSE ELSE attempt

\* Mutant: the attempt recorded during the deferral is forgotten.
DeferStopForgets ==
  /\ ndefers' = ndefers - 1
  /\ UNCHANGED <<attempt, prstate, readylist, qkey, currpid, preempt>>

DeferStop ==
  /\ ndefers' = ndefers - 1
  /\ UNCHANGED attempt
  /\ IF ndefers = 1 /\ attempt
     THEN Dispatch(prstate, readylist, qkey, preempt)
     ELSE UNCHANGED <<prstate, readylist, qkey, currpid, preempt>>

\* A process other than the null process may make system call c.
Syscall(c) == c \in Calls /\ In("user") /\ currpid # NULLPROC

\* A device interrupts whoever runs, the null process too, and its handler runs
\* on that process's stack.
Interrupted == "interrupt" \in Calls /\ In("user")
-----------------------------------------------------------------------------
(* Processes.                                                              *)

\* newpid: the first free slot at or after nextpid, cyclically.
FromCursor(p) == (p - nextpid) % NPROC
IsNewpid(p) ==
  /\ prstate[p] = "FREE"
  /\ \A q \in Pid : prstate[q] = "FREE" => FromCursor(p) <= FromCursor(q)

\* Mutant: the process is counted before its priority is looked at.
CreateCountsFirst(prio) ==
  /\ Syscall("create")
  /\ prcount' = prcount + 1
  /\ \E p \in Pid :
       /\ IsNewpid(p)
       /\ nextpid' = (p + 1) % NPROC
       /\ IF prio < 1
          THEN UNCHANGED <<prstate, prprio, prsem, prparent, prhasmsg, frame>>
          ELSE /\ prstate' = [prstate EXCEPT ![p] = "SUSP"]
               /\ prprio' = [prprio EXCEPT ![p] = prio]
               /\ prparent' = [prparent EXCEPT ![p] = currpid]
               /\ prhasmsg' = [prhasmsg EXCEPT ![p] = FALSE]
               /\ frame' = [frame EXCEPT ![p] = User]
               /\ UNCHANGED prsem
  /\ UNCHANGED <<semVars, sleepVars, qkey, readylist, currpid, preempt, attempt, ndefers>>

\* create; its stack is not modelled here.  newpid runs before the priority
\* is looked at, so a refused call has moved the cursor.
Create(prio) ==
  /\ Syscall("create")
  /\ \E p \in Pid :
       /\ IsNewpid(p)
       /\ nextpid' = (p + 1) % NPROC
       /\ IF prio < 1
          THEN UNCHANGED <<prstate, prprio, prsem, prparent, prhasmsg, prcount, frame>>
          ELSE /\ prcount' = prcount + 1
               /\ prstate' = [prstate EXCEPT ![p] = "SUSP"]
               /\ prprio' = [prprio EXCEPT ![p] = prio]
               /\ prsem' = [prsem EXCEPT ![p] = NoSem]
               /\ prparent' = [prparent EXCEPT ![p] = currpid]
               /\ prhasmsg' = [prhasmsg EXCEPT ![p] = FALSE]
               /\ frame' = [frame EXCEPT ![p] = User]
  /\ UNCHANGED <<semVars, sleepVars, qkey, readylist, currpid, preempt, attempt, ndefers>>

\* Mutant: resume also takes a process out of receive.
ResumeReceiver(p) ==
  /\ Syscall("resume")
  /\ prstate[p] \in {"SUSP", "RECV"}
  /\ Ready(p, qkey)
  /\ UNCHANGED <<procVars, semVars, sleepVars, prhasmsg, ndefers, frame>>

Resume(p) ==
  /\ Syscall("resume")
  /\ prstate[p] = "SUSP"
  /\ Ready(p, qkey)
  /\ UNCHANGED <<procVars, semVars, sleepVars, prhasmsg, ndefers, frame>>

\* Mutant: the null process is not exempt.
SuspendAny(p) ==
  /\ Syscall("suspend")
  /\ \/ /\ prstate[p] = "READY"
        /\ readylist' = Unlink(readylist, p)
        /\ prstate' = [prstate EXCEPT ![p] = "SUSP"]
        /\ UNCHANGED <<qkey, currpid, preempt, attempt>>
     \/ /\ prstate[p] = "CURR"
        /\ Block("SUSP")
  /\ UNCHANGED <<procVars, semVars, sleepVars, prhasmsg, ndefers, frame>>

\* A ready process is taken off its list; the caller itself gives up the CPU.
Suspend(p) ==
  /\ Syscall("suspend")
  /\ p # NULLPROC
  /\ \/ /\ prstate[p] = "READY"
        /\ readylist' = Unlink(readylist, p)
        /\ prstate' = [prstate EXCEPT ![p] = "SUSP"]
        /\ UNCHANGED <<qkey, currpid, preempt, attempt>>
     \/ /\ prstate[p] = "CURR"
        /\ Block("SUSP")
  /\ UNCHANGED <<procVars, semVars, sleepVars, prhasmsg, ndefers, frame>>

Yield ==
  /\ Syscall("yield")
  /\ Block("CURR")
  /\ UNCHANGED <<procVars, semVars, sleepVars, prhasmsg, ndefers, frame>>

\* chprio stores the priority and does nothing else.
Chprio(p, prio) ==
  /\ Syscall("chprio")
  /\ prstate[p] # "FREE"
  /\ prprio' = [prprio EXCEPT ![p] = prio]
  /\ UNCHANGED <<prsem, prparent, nextpid, prcount, semVars, sleepVars, schedVars,
                 prhasmsg, ndefers, frame>>
-----------------------------------------------------------------------------
(* Messages.                                                               *)

\* Mutants: a receiver with a timer is made ready without leaving the sleep
\* queue, or is not made ready at all.
DeliverLeavesTimer(p) ==
  /\ prstate[p] # "FREE" /\ ~prhasmsg[p]
  /\ prhasmsg' = [prhasmsg EXCEPT ![p] = TRUE]
  /\ UNCHANGED sleepVars
  /\ IF prstate[p] \in {"RECV", "RECTIM"} THEN Ready(p, qkey) ELSE UNCHANGED schedVars
DeliverWakesRecvOnly(p) ==
  /\ prstate[p] # "FREE" /\ ~prhasmsg[p]
  /\ prhasmsg' = [prhasmsg EXCEPT ![p] = TRUE]
  /\ UNCHANGED sleepVars
  /\ IF prstate[p] = "RECV" THEN Ready(p, qkey) ELSE UNCHANGED schedVars

\* The body of send, for send itself and for kill's note to the parent.
Deliver(p) ==
  \/ /\ prstate[p] = "FREE" \/ prhasmsg[p]
     /\ UNCHANGED <<schedVars, sleepVars, prhasmsg>>
  \/ /\ prstate[p] # "FREE" /\ ~prhasmsg[p]
     /\ prhasmsg' = [prhasmsg EXCEPT ![p] = TRUE]
     /\ \/ /\ prstate[p] = "RECV"
           /\ Ready(p, qkey)
           /\ UNCHANGED sleepVars
        \/ /\ prstate[p] = "RECTIM"
           /\ sleepq' = Unlink(sleepq, p)
           /\ left' = [left EXCEPT ![p] = 0]
           /\ Ready(p, UnsleepKeys(p))
        \/ /\ prstate[p] \notin {"RECV", "RECTIM"}
           /\ UNCHANGED <<schedVars, sleepVars>>

Send(p) ==
  /\ Syscall("send")
  /\ Deliver(p)
  /\ UNCHANGED <<procVars, semVars, ndefers, frame>>

TakeMessage == prhasmsg' = [prhasmsg EXCEPT ![currpid] = FALSE]

\* receive and recvtime find a message waiting; recvclr also when there is none.
ReceiveAtOnce ==
  /\ \/ (Syscall("receive") \/ Syscall("recvtime")) /\ prhasmsg[currpid]
     \/ Syscall("recvclr")
  /\ TakeMessage
  /\ UNCHANGED <<procVars, semVars, sleepVars, schedVars, ndefers, frame>>

ReceiveBlock ==
  /\ Syscall("receive")
  /\ ~prhasmsg[currpid]
  /\ Block("RECV")
  /\ Goto(Frame("receive", 0, 0))
  /\ UNCHANGED <<procVars, semVars, sleepVars, prhasmsg, ndefers>>

\* The caller's entry in the sleep queue, for sleepms and recvtime.
EnterSleepq(delay, s) ==
  /\ sleepq' = Insertd(sleepq, qkey, currpid, delay)
  /\ left' = [left EXCEPT ![currpid] = delay]
  /\ Resched([prstate EXCEPT ![currpid] = s], readylist,
             InsertdKeys(sleepq, qkey, currpid, delay), preempt)

RecvtimeBlock(maxwait) ==
  /\ Syscall("recvtime")
  /\ ~prhasmsg[currpid]
  /\ EnterSleepq(maxwait, "RECTIM")
  /\ Goto(Frame("recvtime", 0, 0))
  /\ UNCHANGED <<procVars, semVars, prhasmsg, ndefers>>

\* Both resume here; without a message recvtime returns TIMEOUT.
ReceiveReturn ==
  /\ In("receive") \/ In("recvtime")
  /\ TakeMessage
  /\ Goto(User)
  /\ UNCHANGED <<procVars, semVars, sleepVars, schedVars, ndefers>>

Sleepms(delay) ==
  /\ Syscall("sleepms")
  /\ \/ delay = 0 /\ Block("CURR") /\ UNCHANGED sleepVars
     \/ delay > 0 /\ EnterSleepq(delay, "SLEEP")
  /\ UNCHANGED <<procVars, semVars, prhasmsg, ndefers, frame>>
-----------------------------------------------------------------------------
(* kill.                                                                   *)

\* Count the process out, halt if it looks like the last one, tell its parent.
\* The parent may preempt the caller here; the process is still in the table.
KillStart(p) ==
  /\ Syscall("kill")
  /\ p # NULLPROC
  /\ prstate[p] # "FREE"
  /\ prcount' = prcount - 1
  /\ IF prcount - 1 <= 1
     THEN /\ Goto(Frame("halt", p, 0))
          /\ UNCHANGED <<schedVars, sleepVars, prhasmsg>>
     ELSE /\ Deliver(prparent[p])
          /\ Goto(Frame("kill", p, 0))
  /\ UNCHANGED <<prprio, prsem, prparent, nextpid, semVars, ndefers>>

\* Mutant: a waiter is taken out of the queue but still counted as waiting.
KillFinishKeepsCount ==
  LET p == frame[currpid].obj IN
  /\ In("kill") /\ prstate[p] = "WAIT"
  /\ squeue' = [squeue EXCEPT ![prsem[p]] = Unlink(@, p)]
  /\ prstate' = [prstate EXCEPT ![p] = "FREE"]
  /\ Goto(User)
  /\ UNCHANGED <<procVars, sstate, scount, nextsem, sleepVars, qkey, readylist, currpid,
                 preempt, attempt, prhasmsg, ndefers>>

\* Remove the process from whatever list its state, as it is now, says it is in.
KillFinish ==
  /\ In("kill")
  /\ LET p == frame[currpid].obj
         free == [prstate EXCEPT ![p] = "FREE"]
     IN \/ /\ prstate[p] = "CURR"
           /\ Resched(free, readylist, qkey, preempt)
           /\ UNCHANGED <<sleepVars, squeue, scount>>
        \/ /\ prstate[p] \in {"SLEEP", "RECTIM"}
           /\ sleepq' = Unlink(sleepq, p)
           /\ qkey' = UnsleepKeys(p)
           /\ left' = [left EXCEPT ![p] = 0]
           /\ prstate' = free
           /\ UNCHANGED <<readylist, squeue, scount, currpid, preempt, attempt>>
        \/ /\ prstate[p] = "WAIT"
           /\ scount' = [scount EXCEPT ![prsem[p]] = @ + 1]
           /\ squeue' = [squeue EXCEPT ![prsem[p]] = Unlink(@, p)]
           /\ prstate' = free
           /\ UNCHANGED <<sleepVars, qkey, readylist, currpid, preempt, attempt>>
        \/ /\ prstate[p] = "READY"
           /\ readylist' = Unlink(readylist, p)
           /\ prstate' = free
           /\ UNCHANGED <<sleepVars, squeue, scount, qkey, currpid, preempt, attempt>>
        \/ /\ prstate[p] \in {"RECV", "SUSP", "FREE"}
           /\ prstate' = free
           /\ UNCHANGED <<sleepVars, squeue, scount, qkey, readylist, currpid, preempt, attempt>>
  /\ Goto(User)
  /\ UNCHANGED <<procVars, sstate, nextsem, prhasmsg, ndefers>>

\* xdone and halt: the processor loops with interrupts disabled.
Halted ==
  /\ In("halt")
  /\ UNCHANGED vars
-----------------------------------------------------------------------------
(* Semaphores.                                                             *)

FromSemCursor(s) == (s - nextsem) % NSEM

Semcreate(count) ==
  /\ Syscall("semcreate")
  /\ \E s \in Sid :
       /\ sstate[s] = "FREE"
       /\ \A t \in Sid : sstate[t] = "FREE" => FromSemCursor(s) <= FromSemCursor(t)
       /\ nextsem' = (s + 1) % NSEM
       /\ sstate' = [sstate EXCEPT ![s] = "USED"]
       /\ scount' = [scount EXCEPT ![s] = count]
  /\ UNCHANGED <<procVars, squeue, sleepVars, schedVars, prhasmsg, ndefers, frame>>

\* Mutant: the caller pushes in at the head of the queue.
WaitInFront(s) ==
  /\ Syscall("wait")
  /\ sstate[s] = "USED"
  /\ scount' = [scount EXCEPT ![s] = @ - 1]
  /\ \/ /\ scount[s] - 1 < 0
        /\ prsem' = [prsem EXCEPT ![currpid] = s]
        /\ squeue' = [squeue EXCEPT ![s] = <<currpid>> \o @]
        /\ Block("WAIT")
     \/ /\ scount[s] - 1 >= 0
        /\ UNCHANGED <<prsem, squeue, schedVars>>
  /\ UNCHANGED <<prprio, prparent, nextpid, prcount, sstate, nextsem, sleepVars,
                 prhasmsg, ndefers, frame>>

\* A woken waiter has nothing left to do: wait returns OK whoever woke it.
Wait(s) ==
  /\ Syscall("wait")
  /\ sstate[s] = "USED"
  /\ scount' = [scount EXCEPT ![s] = @ - 1]
  /\ \/ /\ scount[s] - 1 < 0
        /\ prsem' = [prsem EXCEPT ![currpid] = s]
        /\ squeue' = [squeue EXCEPT ![s] = Append(@, currpid)]
        /\ Block("WAIT")
     \/ /\ scount[s] - 1 >= 0
        /\ UNCHANGED <<prsem, squeue, schedVars>>
  /\ UNCHANGED <<prprio, prparent, nextpid, prcount, sstate, nextsem, sleepVars,
                 prhasmsg, ndefers, frame>>

\* The body of signal and of each turn of the loops of signaln and semdelete: it
\* switches at once, unless rescheduling is deferred.
Release(s) ==
  /\ scount' = [scount EXCEPT ![s] = @ + 1]
  /\ \/ /\ scount[s] < 0
        /\ squeue' = [squeue EXCEPT ![s] = Tail(@)]
        /\ Ready(Head(squeue[s]), qkey)
     \/ /\ scount[s] >= 0
        /\ UNCHANGED <<squeue, schedVars>>

\* signal, called by a process or, as adchandler does, by an interrupt handler.
Signal(s) ==
  /\ Syscall("signal") \/ Interrupted
  /\ sstate[s] = "USED"
  /\ scount[s] < MaxCount
  /\ Release(s)
  /\ UNCHANGED <<procVars, sstate, nextsem, sleepVars, prhasmsg, ndefers, frame>>

\* signaln, semdelete and semreset release waiters in a loop with rescheduling
\* deferred: start the loop, take its turns, stop deferring and return.  The
\* transmit interrupt of the terminal (ttyhandle_out) calls signaln just like this.
SignalnStart(s, n) ==
  /\ Syscall("signaln") \/ Interrupted
  /\ sstate[s] = "USED"
  /\ scount[s] + n <= MaxCount
  /\ DeferStart
  /\ Goto(Frame("signaln", s, n))
  /\ UNCHANGED <<procVars, semVars, sleepVars, prstate, qkey, readylist, currpid,
                 preempt, prhasmsg>>

SignalnTurn ==
  LET f == frame[currpid] IN
  /\ In("signaln") \/ In("batch_signaln")
  /\ f.n > 0
  /\ Release(f.obj)
  /\ Goto([f EXCEPT !.n = @ - 1])
  /\ UNCHANGED <<procVars, sstate, nextsem, sleepVars, prhasmsg, ndefers>>

SemdeleteStart(s) ==
  /\ Syscall("semdelete")
  /\ sstate[s] = "USED"
  /\ sstate' = [sstate EXCEPT ![s] = "FREE"]
  /\ DeferStart
  /\ Goto(Frame("semdelete", s, 1))
  /\ UNCHANGED <<procVars, squeue, scount, nextsem, sleepVars, prstate, qkey,
                 readylist, currpid, preempt, prhasmsg>>

\* Mutant: the count is incremented before it is tested, so one waiter is left.
SemdeleteTurnPreincrement ==
  LET f == frame[currpid] IN
  /\ In("semdelete") /\ f.n > 0
  /\ IF scount[f.obj] + 1 < 0
     THEN Release(f.obj) /\ UNCHANGED frame
     ELSE /\ scount' = [scount EXCEPT ![f.obj] = @ + 1]
          /\ Goto([f EXCEPT !.n = 0])
          /\ UNCHANGED <<squeue, schedVars>>
  /\ UNCHANGED <<procVars, sstate, nextsem, sleepVars, prhasmsg, ndefers>>

\* The count is incremented by the loop's last test too, which frees nobody.
SemdeleteTurn ==
  LET f == frame[currpid] IN
  /\ In("semdelete") /\ f.n > 0
  /\ Release(f.obj)
  /\ Goto([f EXCEPT !.n = IF scount[f.obj] < 0 THEN 1 ELSE 0])
  /\ UNCHANGED <<procVars, sstate, nextsem, sleepVars, prhasmsg, ndefers>>

SemresetStart(s, count) ==
  /\ Syscall("semreset")
  /\ sstate[s] = "USED"
  /\ DeferStart
  /\ Goto(Frame("semreset", s, count))
  /\ UNCHANGED <<procVars, semVars, sleepVars, prstate, qkey, readylist, currpid,
                 preempt, prhasmsg>>

SemresetTurn ==
  LET s == frame[currpid].obj IN
  /\ In("semreset") /\ squeue[s] # <<>>
  /\ squeue' = [squeue EXCEPT ![s] = Tail(@)]
  /\ Ready(Head(squeue[s]), qkey)
  /\ UNCHANGED <<procVars, sstate, scount, nextsem, sleepVars, prhasmsg, ndefers, frame>>

SemresetStop ==
  LET f == frame[currpid] IN
  /\ In("semreset") /\ squeue[f.obj] = <<>>
  /\ scount' = [scount EXCEPT ![f.obj] = f.n]
  /\ DeferStop
  /\ Goto(User)
  /\ UNCHANGED <<procVars, squeue, sstate, nextsem, sleepVars, prhasmsg>>

\* The end of signaln and semdelete.
LoopStop ==
  /\ In("signaln") \/ In("semdelete")
  /\ frame[currpid].n = 0
  /\ DeferStop
  /\ Goto(User)
  /\ UNCHANGED <<procVars, semVars, sleepVars, prhasmsg>>
-----------------------------------------------------------------------------
(* The handlers of the Ethernet interrupts and of the terminal's receive   *)
(* interrupt defer rescheduling for as long as there is work, and signal   *)
(* semaphores meanwhile: once for each packet, and with signal or signaln, *)
(* which defers once more, for the characters typed.  udp_release and      *)
(* icmp_release give up a queue of buffers in the same way.                *)

BatchStart ==
  /\ Interrupted
  /\ DeferStart
  /\ Goto(Frame("batch", 0, 0))
  /\ UNCHANGED <<procVars, semVars, sleepVars, prstate, qkey, readylist, currpid,
                 preempt, prhasmsg>>

BatchSignal(s) ==
  /\ In("batch")
  /\ sstate[s] = "USED"
  /\ scount[s] < MaxCount
  /\ Release(s)
  /\ UNCHANGED <<procVars, sstate, nextsem, sleepVars, prhasmsg, ndefers, frame>>

BatchSignalnStart(s, n) ==
  /\ In("batch")
  /\ sstate[s] = "USED"
  /\ n > 0 /\ scount[s] + n <= MaxCount
  /\ DeferStart
  /\ Goto(Frame("batch_signaln", s, n))
  /\ UNCHANGED <<procVars, semVars, sleepVars, prstate, qkey, readylist, currpid,
                 preempt, prhasmsg>>

\* The inner deferral ends and the outer one goes on.
BatchSignalnStop ==
  /\ In("batch_signaln") /\ frame[currpid].n = 0
  /\ DeferStop
  /\ Goto(Frame("batch", 0, 0))
  /\ UNCHANGED <<procVars, semVars, sleepVars, prhasmsg>>

\* The interrupted process may lose the CPU here.
BatchStop ==
  /\ In("batch")
  /\ DeferStop
  /\ Goto(User)
  /\ UNCHANGED <<procVars, semVars, sleepVars, prhasmsg>>
-----------------------------------------------------------------------------
(* The clock interrupt, taken when the running process has interrupts      *)
(* enabled.  It runs on that process's stack.                              *)

\* One tick of the history variable for every process with a running timer.
TickLeft == [p \in Pid |-> IF p \in Range(sleepq) THEN left[p] - 1 ELSE left[p]]

\* Only a head key that reaches exactly zero calls wakeup.
Tick ==
  /\ In("user")
  /\ LET head == Head(sleepq)
         due == sleepq # <<>> /\ qkey[head] = 1
     IN /\ qkey' = IF sleepq = <<>> \/ qkey[head] <= -MaxLate THEN qkey
                   ELSE [qkey EXCEPT ![head] = @ - 1]
        /\ left' = IF sleepq = <<>> \/ qkey[head] <= -MaxLate THEN left ELSE TickLeft
        /\ IF due THEN DeferStart /\ Goto(Frame("wakeup", 0, 0))
           ELSE Goto(Frame("clkhandler", 0, 0)) /\ UNCHANGED <<ndefers, attempt>>
  /\ UNCHANGED <<procVars, semVars, sleepq, prstate, readylist, currpid, preempt, prhasmsg>>

\* Mutant: wakeup leaves a process alone whose time ends at this very tick.
DueLate == sleepq # <<>> /\ qkey[Head(sleepq)] < 0

Due == sleepq # <<>> /\ qkey[Head(sleepq)] <= 0

WakeupTurn ==
  /\ In("wakeup") /\ Due
  /\ sleepq' = Tail(sleepq)
  /\ left' = [left EXCEPT ![Head(sleepq)] = 0]
  /\ Ready(Head(sleepq), qkey)
  /\ UNCHANGED <<procVars, semVars, prhasmsg, ndefers, frame>>

\* The interrupted process may lose the CPU here, inside the handler.
WakeupStop ==
  /\ In("wakeup") /\ ~Due
  /\ DeferStop
  /\ Goto(Frame("clkhandler", 0, 0))
  /\ UNCHANGED <<procVars, semVars, sleepVars, prhasmsg>>

\* Mutants: the slice is not wound up again, or nobody else gets the next one.
ClockPreemptNotWound ==
  /\ In("clkhandler")
  /\ Goto(User)
  /\ \/ /\ preempt - 1 = 0
        /\ Resched(prstate, readylist, qkey, 0)
     \/ /\ preempt - 1 # 0
        /\ preempt' = preempt - 1
        /\ UNCHANGED <<prstate, qkey, readylist, currpid, attempt>>
  /\ UNCHANGED <<procVars, semVars, sleepVars, prhasmsg, ndefers>>
ClockPreemptKeeps ==
  /\ In("clkhandler")
  /\ Goto(User)
  /\ preempt' = IF preempt - 1 = 0 THEN QUANTUM ELSE preempt - 1
  /\ UNCHANGED <<prstate, qkey, readylist, currpid, attempt, procVars, semVars, sleepVars,
                 prhasmsg, ndefers>>

\* Back from wakeup, perhaps much later, the handler counts down the slice of
\* the process that is running now.
ClockPreempt ==
  /\ In("clkhandler")
  /\ Goto(User)
  /\ \/ /\ preempt - 1 = 0
        /\ Resched(prstate, readylist, qkey, QUANTUM)
     \/ /\ preempt - 1 # 0
        /\ preempt' = preempt - 1
        /\ UNCHANGED <<prstate, qkey, readylist, currpid, attempt>>
  /\ UNCHANGED <<procVars, semVars, sleepVars, prhasmsg, ndefers>>
-----------------------------------------------------------------------------
\* sysinit, then nulluser has created and resumed the startup process (pid 1).
Init ==
  /\ prstate = [p \in Pid |-> CASE p = 0 -> "READY" [] p = 1 -> "CURR" [] OTHER -> "FREE"]
  /\ prprio = [p \in Pid |-> IF p = 1 THEN InitPrio ELSE 0]
  /\ prsem = [p \in Pid |-> NoSem]
  /\ prparent = [p \in Pid |-> NULLPROC]
  /\ prhasmsg = [p \in Pid |-> FALSE]
  /\ qkey = [p \in Pid |-> IF p = 1 THEN InitPrio ELSE 0]
  /\ readylist = <<NULLPROC>>
  /\ sleepq = <<>>
  /\ squeue = [s \in Sid |-> <<>>]
  /\ sstate = [s \in Sid |-> "FREE"]
  /\ scount = [s \in Sid |-> 0]
  /\ nextsem = 0
  /\ currpid = 1
  /\ preempt = QUANTUM
  /\ ndefers = 0
  /\ attempt = FALSE
  /\ nextpid = 2 % NPROC
  /\ prcount = 2
  /\ frame = [p \in Pid |-> User]
  /\ left = [p \in Pid |-> 0]

ProcessStep ==
  \/ \E prio \in Prios : Create(prio)
  \/ \E p \in Pid : Resume(p) \/ Suspend(p) \/ KillStart(p) \/ Send(p)
  \/ \E p \in Pid, prio \in Prios : Chprio(p, prio)
  \/ Yield
  \/ ReceiveAtOnce \/ ReceiveBlock
  \/ \E delay \in Waits : RecvtimeBlock(delay)
  \/ \E delay \in Delays : Sleepms(delay)

SemaphoreStep ==
  \/ \E count \in Counts : Semcreate(count)
  \/ \E s \in Sid : Wait(s) \/ Signal(s) \/ SemdeleteStart(s)
  \/ \E s \in Sid, n \in Counts : SignalnStart(s, n) \/ SemresetStart(s, n)

\* The rest of a call or of the handler: the CPU does nothing else meanwhile.
KernelStep ==
  \/ ReceiveReturn \/ KillFinish \/ Halted
  \/ SignalnTurn \/ SemdeleteTurn \/ LoopStop \/ SemresetTurn \/ SemresetStop
  \/ WakeupTurn \/ WakeupStop \/ ClockPreempt
  \/ \E s \in Sid : BatchSignal(s)
  \/ \E s \in Sid, n \in Counts : BatchSignalnStart(s, n)
  \/ BatchSignalnStop \/ BatchStop

Next == ProcessStep \/ SemaphoreStep \/ KernelStep \/ Tick \/ BatchStart

Spec == Init /\ [][Next]_vars
-----------------------------------------------------------------------------
(* What the kernel keeps true.                                             *)

\* The routines that defer rescheduling for the length of a loop, and how often
\* it is deferred in each: signaln may run inside the loop of another.
LoopRoutines == {"signaln", "semdelete", "semreset", "wakeup", "batch", "batch_signaln"}
Depth(routine) ==
  IF routine = "batch_signaln" THEN 2 ELSE IF routine \in LoopRoutines THEN 1 ELSE 0

ProcTypes ==
  /\ prprio \in [Pid -> Int]
  /\ prsem \in [Pid -> Sid \cup {NoSem}]
  /\ prparent \in [Pid -> Pid]
  /\ nextpid \in Pid /\ prcount \in Int
SemTypes ==
  /\ squeue \in [Sid -> Seq(Pid)]
  /\ sstate \in [Sid -> {"FREE", "USED"}]
  /\ scount \in [Sid -> Int]
  /\ nextsem \in Nat
SleepTypes == sleepq \in Seq(Pid) /\ left \in [Pid -> Int]
SchedTypes ==
  /\ prstate \in [Pid -> PrState]
  /\ readylist \in Seq(Pid) /\ qkey \in [Pid -> Int]
  /\ currpid \in Pid /\ preempt \in 1..QUANTUM /\ attempt \in BOOLEAN
CallTypes ==
  /\ prhasmsg \in [Pid -> BOOLEAN]
  /\ ndefers \in Nat
  /\ frame \in [Pid -> FrameSet]

\* Every variable has the type of its C counterpart.
TypeOK == ProcTypes /\ SemTypes /\ SleepTypes /\ SchedTypes /\ CallTypes

\* q holds exactly the processes of S, each of them once.
Holds(q, S) ==
  /\ Range(q) = S
  /\ \A i, j \in DOMAIN q : q[i] = q[j] => i = j

\* A process is linked into exactly the list its prstate (and prsem) names, so
\* that getitem, called by kill, suspend and unsleep on the strength of the
\* state alone, always unlinks from the right list.
QueuesMatchStates ==
  /\ {p \in Pid : prstate[p] = "CURR"} = {currpid}
  /\ Holds(readylist, {p \in Pid : prstate[p] = "READY"})
  /\ Holds(sleepq, {p \in Pid : prstate[p] \in {"SLEEP", "RECTIM"}})
  /\ \A s \in Sid :
       Holds(squeue[s], {p \in Pid : prstate[p] = "WAIT" /\ prsem[p] = s})
  /\ \A p \in Pid : prstate[p] = "WAIT" => prsem[p] \in Sid

\* A negative count is the number of waiters (semreset is the one routine that
\* breaks this for the length of its loop, and must have restored it by the end).
Resetting(s) == In("semreset") /\ frame[currpid].obj = s
SemaphoreCounts ==
  \A s \in Sid :
    \/ Resetting(s)
    \/ Len(squeue[s]) = IF scount[s] < 0 THEN -scount[s] ELSE 0

\* No process waits on a deleted semaphore, whose slot newsem may hand out again.
DeletedSemaphoresEmpty ==
  \A s \in Sid : sstate[s] = "FREE" =>
    squeue[s] = <<>> \/ (In("semdelete") /\ frame[currpid].obj = s)

\* The lists of the semaphores: as long as the counts say, and empty once deleted.
SemaphoreLists == SemaphoreCounts /\ DeletedSemaphoresEmpty

\* resched never finds the ready list empty when it needs a process.
CpuNeverIdle ==
  /\ readylist # <<>> \/ currpid = NULLPROC
  /\ prstate[NULLPROC] \in {"CURR", "READY"}

\* insert keeps the ready list in descending order of key.
ReadyListSorted ==
  \A i, j \in DOMAIN readylist : i < j => qkey[readylist[i]] >= qkey[readylist[j]]

\* No ready process has a higher priority than the running one, so whoever makes
\* a process ready or ends a deferral also reschedules.
CurrentHighest ==
  ndefers = 0 => \A p \in Pid : prstate[p] = "READY" => prprio[currpid] >= prprio[p]

\* The order of priorities: the ready list is in it, and the running process is
\* first in it, after any calls that make processes ready, one or many at a time.
PriorityOrder == ReadyListSorted /\ CurrentHighest

\* A process is never left waiting for a message that has been delivered.
NoMissedMessage ==
  \A p \in Pid : prstate[p] \in {"RECV", "RECTIM"} => ~prhasmsg[p]

\* receive takes a message only when there is one: whoever made the receiver
\* ready again has delivered it.
ReceiveFindsMessage ==
  \A p \in Pid : frame[p].at = "receive" => prstate[p] \in {"RECV", "FREE"} \/ prhasmsg[p]

\* A message and its receiver find each other, before, during and after the wait.
MessagesFound == NoMissedMessage /\ ReceiveFindsMessage

\* The keys of the delta list add up to the time each process has left.
DeltaKeys ==
  \A i \in DOMAIN sleepq : Elapsed(sleepq, qkey)[i] = left[sleepq[i]]

\* No process sleeps past its time, or leaves wakeup's loop overdue.
NoOversleep ==
  \A p \in Range(sleepq) : left[p] >= IF In("wakeup") THEN 0 ELSE 1

\* Rescheduling is deferred once for each loop that the running process is inside
\* of, be it of a system call or of an interrupt handler on its stack, and nobody
\* is switched out in one: no deferral is left behind, or ended by an inner one.
DeferralBalanced ==
  /\ ndefers = Depth(frame[currpid].at)
  /\ \A p \in Pid \ {currpid} : frame[p].at \notin LoopRoutines

\* prcount never exceeds the processes that are left once pending kills are done.
Victims == {frame[p].obj : p \in {q \in Pid : prstate[q] # "FREE" /\ frame[q].at = "kill"}}
LiveCount == Cardinality({p \in Pid : prstate[p] # "FREE"})
CountNotOver ==
  prcount <= LiveCount - Cardinality({p \in Victims : prstate[p] # "FREE"})

\* resched gives the CPU to the highest priority eligible process.
ReschedPicksHighest ==
  [][currpid' # currpid =>
       \A p \in Pid : prstate'[p] = "READY" => prprio'[currpid'] >= prprio'[p]]_vars

=============================================================================
