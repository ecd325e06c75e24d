# A TLA+ verification of the Xinu kernel

The repository is "Smart Light implementation on BeagleBone Black using Xinu": a
Xinu operating system for one ARM core (`src/Xinu`), IoT applications that run on
it (`src/xinu_apps`), a web server that talks to them (`src/webapp`) and device
drivers written for the project (`src/dev_drivers`). This directory holds TLA+
modules that model it, TLC configurations that check them on small instances, and
theorems that TLAPS proves for instances of every size.

Status: the process kernel, its queue table, message ports, the heap and its buffer pools,
the terminal driver and the network stack up to UDP and ping are modelled, model-checked
and proved about: of what their runs check, all but liveness is a theorem. Disks, files, the
protocols above UDP and the other devices are not modelled.

## The system

Paths below are under `src/Xinu`. `system/`, `device/`, `net/` and `include/` hold
the program's own logic. Left aside as vendored or generated: the cross compiler,
`compile/` binaries, `config/lex.yy.c` and `config/y.tab.c`, the web application's
dashboard assets.

| Component | State it keeps | Operations | Interacts through |
|---|---|---|---|
| Process table (`system/create.c`, `kill.c`, `suspend.c`, `resume.c`, `chprio.c`, `yield.c`, `xdone.c`) | `proctab[]` (state, priority, semaphore, parent, message), `currpid`, `prcount`, `newpid`'s cursor | create, kill, suspend, resume, yield, chprio, userret/exit | ready and resched; kill also works on queues and semaphores, and sends a message to the parent |
| Scheduler (`resched.c`, `ready.c`, `include/resched.h`) | `readylist`, `preempt`, `Defer` | resched, ready, resched_cntl | called by nearly every other routine |
| Process queues (`queue.c`, `insert.c`, `insertd.c`, `getitem.c`, `newqueue.c`) | `queuetab[]`: one entry per process, two per list | newqueue, enqueue, dequeue, insert, insertd, getfirst, getitem | shared by the ready list, the sleep queue and every semaphore |
| Messages (`send.c`, `receive.c`, `recvclr.c`, `recvtime.c`) | `prhasmsg`, `prmsg` | send, receive, recvclr, recvtime | scheduler, sleep queue; used by kill, the network and the remote disk |
| Sleep and clock (`sleep.c`, `unsleep.c`, `wakeup.c`, `clkhandler.c`) | `sleepq` (a delta list), `preempt`, `clktime` | sleep, sleepms, unsleep; the clock interrupt | an interrupt of whichever process runs |
| Semaphores (`semcreate.c`, `semdelete.c`, `semreset.c`, `wait.c`, `signal.c`, `signaln.c`) | `semtab[]` (state, count, queue), `newsem`'s cursor | create, delete, reset, wait, signal, signaln | the locks and counters of everything below |
| Ports (`pt*.c`) | `porttab[]`, a free list of message nodes shared by all ports | create, send, receive, reset, delete | two semaphores per port, a dispose callback |
| Heap and stacks (`getmem.c`, `freemem.c`, `getstk.c`, `mark.c`) | the address-ordered free list | allocate from either end, free with coalescing | create, kill, pools, devices |
| Buffer pools (`mkbufpool.c`, `getbuf.c`, `freebuf.c`) | `buftab[]`, one semaphore per pool | make, get, free | the network and the disk |
| Terminal (`device/tty`) | two circular buffers, their semaphores, line editing state | getc, putc, read, write, control; input and output interrupts | semaphores signalled from interrupts |
| Ethernet, UDP, ICMP, ARP, IP output (`device/eth`, `net`) | slots with packet queues, the ARP cache, `ipoqueue` | register, send, receive, resolve; `netin` and `ipout` processes | messages that end `recvtime` |
| DHCP, DNS, TFTP (`net`) | one exchange at a time | request with retries | UDP |
| Remote disk and remote files (`device/rds`, `device/rfs`) | block cache, request queue, communication process | open, read, write, sync | UDP, messages, semaphores |
| Local files (`device/lfs`) | directory, index and data blocks on disk | open, read, write, seek, truncate | a disk, one mutex |
| Shell, GPIO/ADC/SPI drivers, IoT applications, web server | little or none | | the environment of the rest |

### What is hard in it

There is one CPU and system calls run with interrupts disabled, so the kernel
looks sequential. It is not: any call that reaches `resched` may come back much
later, with other processes having run in between, and it goes on with what it had
read before. `kill` gives the CPU away between counting a process out and removing
it; `receive` and `recvtime` go on after a switch; `wakeup` may switch inside the
clock interrupt; `semdelete`, `semreset`, `signaln` and `wakeup` release several
processes in a loop and rely on deferral to do it at once, and the handlers of the
terminal and the Ethernet defer around loops of calls that may defer again. One queue entry per
process means that a wrong list or a wrong key corrupts a list nobody was using.
Timers, messages and kills race for a sleeping process. `PROJECT.json` lists these
hazards with their lines, those of components that are not modelled included.

What makes the components correct: a process is in exactly the list its state
names; a count says how many wait; the processor always has a process to run and
runs one of the highest priority; a delivered message reaches its receiver; a
sleeper wakes in time; a semaphore serves its waiters in order and loses no permit;
a port delivers each message once and in order or gives it to the dispose function;
a byte of the heap is free or belongs to one owner; a terminal buffer neither loses
nor repeats a character; a packet buffer is in one place, an ARP answer is for the
one who asked. For what is not modelled: a disk block read is the last one written.

## Modules

| Module | What it is |
|---|---|
| `Queues` | pure: what `insert` and `insertd` do to a list of processes and to their keys |
| `QueueTab` | the queue table: entries, links and keys, every routine on them |
| `ProcessQueues` | abstract: queues that are sequences of processes, each with a key |
| `MCQueueTab` | the instance TLC checks: view |
| `Kernel` | the kernel, on the lists of `Queues`: state, actions, invariants, and the mutants of its definitions |
| `FifoSemaphore` | abstract: semaphores with permits and waiters served in order |
| `KernelRefinement` | `Kernel` as an implementation of `FifoSemaphore`; fairness and liveness |
| `MCKernel` | the instance TLC checks: the view of the state |
| `Ports` | message ports over `FifoSemaphore`: state, actions, invariants, mutants |
| `PortFifo` | abstract: bounded first-in first-out queues that can be closed |
| `MCPorts` | the instance TLC checks: view and symmetry |
| `Arena` | abstract: an allocator of runs of cells that refuses only when there is no room |
| `Heap` | the heap: getmem, getstk, freemem, freestk on one ordered list |
| `BufferPools` | buffer pools on `Heap` and `FifoSemaphore` |
| `MCPools` | the instance TLC checks of both: arguments and symmetry |
| `Tty` | the terminal driver: readers, writers, controls and both interrupts |
| `MCTty` | three ways of using it, and the view |
| `Net` | netin, ipout and the clients of UDP and ping, with ARP and the packet buffers |
| `MCNet` | three loads of the network, view and symmetry |
| `SequenceLemmas` | lemmas about least and greatest numbers, and about what insertion, removal, `Tail` and `Append` do to a sequence and its range |
| `QueueTheorems` | the queue table's inductive invariant, what its loops compute, preservation routine by routine, and the refinement of `ProcessQueues` |
| `KernelSafety` | what the queue operators do to sets, order and delta lists; the kernel's inductive invariant, preservation action by action, and the theorems that follow from it |
| `KernelOrder` | theorems about priorities, the count of processes, and time, and that the semaphore table implements `FifoSemaphore` |
| `MemoryTheorems` | the heap's two inductive invariants, preservation call by call, and the refinement of `Arena`; on top of them the buffer pools' two, and the theorems |
| `PortTheorems` | the ports' three inductive invariants, preservation routine by routine, and the refinement of `PortFifo` |
| `TtyTheorems` | remainders, the terminal driver's inductive invariant, preservation call by call and interrupt by interrupt, and the theorems |
| `NetTheorems` | the network stack's two inductive invariants, what a step may tell who waits, conservation of buffers, and the theorems |

### How `Kernel` corresponds to the code

*Atomicity.* A step is the code from one `resched` to the next. `Resched(ps, rl,
ks, slice)` is handed the process states, ready list, keys and time slice that the
routine has computed and decides who runs; it is the end of almost every action.
`Resched` follows `resched.c`: while rescheduling is deferred it only records the
attempt; a current process that is still `PR_CURR` stays if its priority is higher
than the first ready key, and otherwise goes back to the ready list *before* the
head is taken.

*Frames.* What a process has left to do in the kernel when it gets the CPU back is
its `frame`: `receive` (clear and return the message; also the end of `recvtime`),
`kill` (the part after the message to the parent), `clkhandler` (the preemption
count after `wakeup`), the loops of `signaln`, `semdelete`, `semreset` and
`wakeup`, the loops of interrupt handlers (`batch`, and `batch_signaln` for a `signaln`
inside one), and `halt`. A call whose remainder does nothing (`wait`, `sleepms`,
`suspend`, `yield`, `ready`) leaves the frame `user`. Loops are one action per
turn, so what their order and deferral achieve is checked and not assumed.

*Interrupts.* A device interrupts whoever runs, the null process too, and its handler
runs on that process's stack (`Interrupted`). Handlers meet the kernel in three ways, all
modelled: they signal with rescheduling allowed, so that the interrupted process may lose
the CPU inside the handler (`adchandler` by `Signal`, the transmit side of the terminal,
`ttyhandler.c:75-77`, by `SignalnStart`); or they defer rescheduling, signal any number of
times and end the deferral (`ethhandler.c:29-70` and `81-121`, `ttyhandler.c:61-69`:
`BatchStart`, `BatchSignal`, `BatchStop`); and in such a batch the end of a typed line calls
`signaln`, which defers once more (`BatchSignalnStart`, `BatchSignalnStop`). `ndefers` is
0, 1 or 2 accordingly. `udp_release` and `icmp_release` defer like a handler does
(`udp.c:534`, `icmp.c:336`), so the batches stand for them too. Which semaphores are
signalled, and how often, is left open. A handler that has been
switched away from has not told the interrupt controller yet that it is done (`evec.c:91`): the
process switched to takes the interrupt again, the handlers find that the device wants
nothing (`clkhandler.c:19`, `ttyhandler.c:30`) and the controller is told. So that
interrupts are held back by a suspended handler need not be modelled.

| Variable | In the code |
|---|---|
| `prstate prprio prsem prparent prhasmsg` | fields of `proctab[]` |
| `qkey`, `readylist`, `sleepq`, `squeue` | `queuetab[]`, list by list: the sequence of linked processes, and the key of each process's entry |
| `sstate scount nextsem` | `semtab[]`; the static cursor of `newsem` |
| `currpid preempt`, `ndefers attempt` | the scheduler's globals; `Defer` |
| `nextpid prcount` | the static cursor of `newpid`; `prcount` |
| `frame` | the stack of each process, as far as it matters |
| `left` | not in the code: the time each sleeper has yet to wait, to check the keys against |

| Action | Code |
|---|---|
| `Create Resume Suspend Yield Chprio` | the routine of that name |
| `KillStart`, `KillFinish` | `kill.c` up to and after `send` to the parent (`xdone` included) |
| `Send`, `ReceiveAtOnce ReceiveBlock ReceiveReturn`, `RecvtimeBlock` | message routines |
| `Sleepms`, `Tick WakeupTurn WakeupStop ClockPreempt` | `sleep.c`; `clkhandler.c` with `wakeup.c` in the middle |
| `Semcreate Wait Signal SignalnStart/Turn SemdeleteStart/Turn SemresetStart/Turn/Stop LoopStop` | semaphore routines; `Signal` and `SignalnStart` also from interrupts |
| `BatchStart BatchSignal BatchSignalnStart/Stop BatchStop` | the handlers' loops between `resched_cntl(DEFER_START)` and `(DEFER_STOP)` |

A call the code refuses with `SYSERR` before changing anything is not an action.
One that changes something before it is refused is: `Create` with a bad priority
has moved the cursor; `KillFinish` runs on a process whose state has changed.

*Left out.* Stacks and descriptors (`create` always finds memory; what `kill`
closes belongs to the device models); the text of a message (its presence is
kept); `clktime`, which only the date reads; priorities above what the instance
passes. `Init` is the state after `nulluser` has resumed the startup process; the
network processes it starts are covered by `Create`. `xdone` ends in `halt`, which
loops with interrupts disabled: `Halted` stutters.

*Bounds.* `MaxCount` keeps counts finite. `MaxLate` is where the head key of the
sleep queue stops falling: a head key at or below zero falls for ever in the code
(it would wrap after 2^32 ticks, 49 days), and no action of the model tells keys
below zero apart.

### How `QueueTab` corresponds to the code

`Kernel` takes the ready list, the sleep queue and the semaphores' queues for sequences.
`QueueTab` is the array they are kept in: entry `p` for each process `p`, two entries,
a head and a tail, for each queue, all linked by index in both directions. The routines
run with interrupts disabled, so each is one action, and a loop is a recursive function of the
number of rounds (`Loop`) that stays where it is once its condition fails.

| Variable | In the code |
|---|---|
| `queuetab` | `queuetab[]`: `qkey`, `qnext`, `qprev` of each entry |
| `nextqid` | the static cursor of `newqueue` |
| `inqueue` | which queue the state of a process names: `prstate`, and `prsem` for a waiter |
| `call` | not in the code: the last call and what it returned, for the refinement |

| Action | Code |
|---|---|
| `Newqueue` | `newqueue.c`, for each semaphore, the ready list and the sleep queue, in the order of `sysinit` |
| `Enqueue Dequeue` | `queue.c`; `Wakeup` is `dequeue` as `wakeup.c` calls it |
| `Insertp Insertdp` | `insert.c`, `insertd.c` with their loops |
| `Getfirst Getitem` | `getitem.c` |
| `Unsleep Decrement` | `unsleep.c`; what `clkhandler.c` does to the first key |

Callers put a process into a queue only when it is in none and take it out of the queue its
state names: that is `QueuesMatchStates` of `Kernel`, and `inqueue` carries it over. With
`QueuesAreLists` the two models fit together: the table behaves as lists if it is
used as `Kernel` uses it. Keys and links are not narrowed to their widths: an index
fits 16 bits, and a key stays below `MAXKEY` as in `Kernel`. Calls that `isbadqid` or
`isbadpid` refuse change nothing and are left out; `getlast` has no caller.

### How `Ports` corresponds to the code

`Ports` is built on the abstract semaphores that the kernel is shown to implement:
it instantiates `FifoSemaphore` for the two semaphores of each port. It relies on
two more facts about the kernel: `semreset` and `semdelete` release everybody
before anyone else runs (`DeferralBalanced`), and the CPU is given away only where
a process blocks or is made ready. Hence the variable `cpu`: while a process is
inside a call and has done neither, only it takes steps; otherwise any process that
does not wait may be next, which covers every priority and every interrupt.

| Variable | In the code |
|---|---|
| `ptstate ptseq ptmaxcnt`, `ptlist` | `porttab[]`; the nodes from `pthead` to `pttail` (`ptmaxcnt` has 16 bits: `UINT16`) |
| `ptfree ptmsg ptnextid` | the free list, what the nodes hold, the cursor of `ptcreate` |
| `semused permits waiters` | which semaphores the ports were given, and `FifoSemaphore`'s view of them |
| `frame` | what a process remembers across a switch: port, `ptseq`, message, how far `_ptclear` has come |
| `handed lost` | not in the code: the last message handed over; permits of processes killed before they could use them |

| Action | Code |
|---|---|
| `Ptcreate` | `ptcreate.c`, failing calls of `semcreate` included |
| `PtsendStart PtrecvStart`, `PtFailed PtsendFinish PtsendPanic PtrecvFinish` | up to the `wait`; after it |
| `PtclearStart/Dispose/Nodes/SendSem/RecvSem/Done` | `ptreset.c` and `ptdelete.c` with `ptclear.c`, cut where the CPU may change hands |
| `Kill` | `kill.c` of a process that waits, or has been released and not yet run |

`Init` is the state `ptinit` leaves with whatever the memory held. `sysinit` does not
call `ptinit`, so a program that wants ports has to. A process killed inside `_ptclear`
leaves the port in limbo for ever; the model leaves that kill out (`Killable`). The
increments of `ptseq` are not wrapped: only equality is used, and 2^32 resets
during one `ptsend` are out of reach.

### How `Heap` and `BufferPools` correspond to the code

The heap routines run with interrupts disabled and never block: one action each.

| Variable | In the code |
|---|---|
| `memlist`, `mlength` | the blocks linked from `memlist.mnext`, as addresses and lengths in bytes; `memlist.mlength` |
| `live` | not in the code: what callers were given and asked for (they must remember the size) |
| `denied` | not in the code: the request refused last, for the refinement |
| `nbpools bufs bpsize`, `permits waiters` | `nbpools`, `buftab[]` and the links inside the buffers; `bpsem` as in `FifoSemaphore` |
| `gets held` | processes inside `getbuf`; buffers in use with the pool number in the word before them |
| `wasted dead`, `poolmem` | not in the code: permits of processes killed before they could use them; the storage of each pool |

`getmem` takes from the first block that is large enough, at its low end; `getstk`
from the last one, at its high end, and returns its last word, from which `freestk`
computes the start back. `FreememStale` is a caller that frees what is no longer its own
and is free already, all or in part: the tests of `freemem` must refuse it. Freeing
what somebody *else* owns is not a call the model makes; nothing in the code could
notice it. `Mkbufpool` has the three outcomes of the code: no storage, storage and no
semaphore (the storage is given back through `freemem`), and a pool. A process that
`getbuf` has made wait reads the head of the list only when it runs again
(`GetbufWoken`); `KillUser` is `kill` of one that waits, or that has been woken and has
not run.

Left out: requests for zero bytes and bad arguments, which change nothing; sizes
within 7 bytes of 2^32, where `roundmb` wraps. `freemem` accepts an address equal to
`maxheap` (`InRange` does too); the model makes no such call. The run has no check for
deadlock because processes that hold buffers and wait for more may all wait.

### How `Tty` corresponds to the code

The calls run with interrupts disabled and lose the CPU only in `wait`: a call is one
action up to the first wait, and one more each time it has waited. The interrupt
routines may run whenever no call does; a woken process may be kept from the CPU while
they do. Input is one action, because `ttyhandler` defers rescheduling around it. Output is
not deferred (`ttyhandler.c:75-77`): the `signaln` at `ttyhandle_out.c:68` may give the CPU to
the writer it wakes, and the second test of the queues, which may turn the interrupt off
(71-75), runs when the interrupted process goes on, after any number of calls and further
interrupts. `TtyhandleOut` either goes on to the second test at once or leaves
it to `TtyhandleOutEnd`; `unfinished` counts the runs that are switched away from.

| Variable | In the code |
|---|---|
| `tyibuff tyihead tyitail tyicursor tyimode tyiecho`, `tyobuff tyohead tyotail tyoheld` | fields of `ttytab[]`, pointers as indices |
| `echoes` | `tyetail - tyehead` modulo `TY_EBUFLEN` (the echoed characters themselves are left out) |
| `etbei` | the transmit interrupt's enable bit |
| `unfinished` | the runs of `ttyhandle_out` on the stacks of processes that lost the CPU in its `signaln` |
| `count`, `queue` | `tyisem` and `tyosem`: permits, and who waits |
| `call` | what each process has left of its read, write or look-ahead |
| `typed written`, `unsignalled spoiled smashed` | not in the code: what the buffers should hold; which of the exceptions below has happened |

Every branch of `ttyhandle_in` is a definition with its name: `RawChar`, `CbreakChar`,
`KillLine`, `EraseChar`, `EndOfLine`, `Full`/`Bell`, `EndOfFile`, `LineChar`. Four places
where the code lets data be overrun are modelled as they are, and the properties say
exactly what remains true:

- the end of a line is stored without a test for space (`ttyhandle_in.c:125`), so a
  newline on a full buffer overwrites the oldest character: `spoiled` gets `"input"`;
- in cbreak mode a character is stored and never announced (`:80`): `unsignalled`;
- an end of file moves the tail without wrapping it (`:157`): at the last place it
  leaves the tail behind the buffer, and the next character is written over
  `tyisem`: `smashed`, after which the model stops, hence no check for deadlock;
- the output routine computes what is queued from the semaphore, so it also sends
  the place that a woken writer has been promised and has not filled
  (`ttyputc.c:24`): `spoiled` gets `"output"`.

`TtycontrolNextc` follows `TC_NEXTC`, which reads the place of the *next* character to
come. Two bounds: no more than `TY_IBUFLEN + 1` characters are announced and unread, and no
more than `MaxUnfinished` runs of the output routine are switched away from at a time.

### How `Net` corresponds to the code

`netin` reads frames and hands them to ARP, to endpoints or to the ping responder;
`ipout` sends the ping replies that `netin` queues; clients register, send, receive
and release. A call is one action up to a wait (`getbuf`, `recvtime`), and one after
it; that a wait ends and that the process runs again are two steps, between which
anything may happen.

| Variable | In the code |
|---|---|
| `udptab`, `icmptab`, `arpcache`, `ipoqueue` | the tables; a UDP queue is its packets in order, a ping queue keeps `ichead`, `ictail`, `iccount` and which places of the array hold a packet |
| `free` | buffers of `netbufpool` that are free |
| `frame` | where each process waits, and what it remembers |
| `prmsg`, `timing` | the message a process holds; who is inside `recvtime` |
| `strayed robbed shared flooded misaddressed leaked emptied` | not in the code: which of the exceptions below has happened, and to whom |

A process holds one message, whoever sent it: `ChildExits` is `kill` telling a client
that its child has exited, which ends its wait for ARP or for a packet. The exceptions
that the properties name are what the code does then:

- `arp_resolve` takes any message for the answer (`arp.c:127`) and copies an address
  that is not there yet (`strayed`); later the real answer is a message that
  nobody waits for, which `udp_recv` takes for a packet;
- a resolved entry can be evicted before its resolver has run (`robbed`, `arp.c:314`);
- two processes on one UDP endpoint: the second may receive or release what the
  first waits for (`shared`, `udp.c:190`);
- a ping endpoint that is given more than `ICMP_QSIZ` replies while it is registered:
  the writer overwrites, the reader wraps at `ICMP_SLOTS` (`flooded`, `icmp.c:86`).

Once a process has taken a packet that was not there (`emptied`) the data mean
nothing and the model stops.

`netin` and `ipout` have the same priority (`NETPRIO`), so `ipout` may lose the CPU between
the `wait` that gives it a permit of `iqsem` and taking the packet (`IpoutWait`, `Ipout`).
`ip_enqueue` tests the count of `iqsem`, which then is one less than the packets in the ring
(`Unpermitted`), and so may store a packet over the one that `ipout` is about to take, the ring having
no spare place (`ip.c:453`). The model has that state (`Lapped`) and stops there.
`BuffersConserved` says that it is reached in no other way.

Left out: a `kill` of a client inside a network call, which nothing undoes (the
endpoint stays registered to a process that is gone), and with it a process that
gets the pid of a killed receiver, and its messages.

Abstractions: a host's hardware address is its IP address (an entry is wrong if they
differ); addresses are our own, broadcast, hosts of our network and one far host;
127/8 is our own address; lengths, checksums, byte order and data are left out, and
packets dropped for any of them are like those of an unknown protocol; frames of other
types than ARP and IP are dropped as such a packet is. `ethwrite` sends at once
although the driver may wait for its transmit ring, and never fails; `recvtime` fails only for
a negative wait, which `arp_resolve` never asks for. The order of processes that wait
for a buffer is not kept: any of them may get the next one. The address is valid from the start
(after DHCP). `icmp_send` is called with the address its endpoint was registered with,
and an endpoint is used by who registered it: `shell/xsh_ping.c` is the only caller.
`arp_init` starts at entry 1; entry 0 is free because it is zero when the system starts.

## Runs

`QUANTUM` is 2 in all runs, so a slice can end at a tick and can be cut short.
Kernel runs without liveness use the view `LiveState`, which drops only what the code
never reads again: keys of processes in no keyed list, `prsem` of processes that do
not wait, fields of free slots, the attempt flag while nothing is deferred.

| Run | Question | Instance |
|---|---|---|
| `kernel_calls` | do all 17 system calls, the clock and device interrupts, in any order, keep lists, messages, deferral and counts right? | 3 processes, 1 semaphore; 3.5 million states |
| `kernel_sem` | semaphores: counts, scheduling by priority, and the refinement of `FifoSemaphore` | 4 processes, 2 semaphores, signalled by interrupts; 4.1 million |
| `kernel_clock` | do the delta keys say how long each sleeper has left, does every sleeper wake, and does time slicing reach everyone? | 4 processes, delays 1, 2, 3, with fairness; 0.16 million |
| `queue_calls` | do the links stay those of lists, and does each routine do what `Kernel` says? | 3 processes, 1 semaphore, 2 priorities, delays 0 and 2; 2.4 thousand |
| `ports_calls` | do ports hand every message over once and in order, and account for places, nodes and permits, under resets, deletes and kills? | 3 processes, 2 ports of 2 places, 2 nodes, 3 semaphores; 1.3 million |
| `pools_calls` | is the heap always ordered, merged, complete and nobody's twice, and is every buffer in one place? | 6 memblks, requests of 1 and 2, pools of 2 padded and 1 unpadded buffers, 2 semaphores for 3 pools, 3 processes, 1 kill; 0.7 million |
| `tty_calls` | do pointers, semaphores and contents of the terminal's buffers agree, and is output sent? | buffers of 3, 4 and 3, a FIFO of 4, 2 readers or 2 writers, 2 unfinished output interrupts, 3 loads; 0.8 million |
| `net_calls` | are buffers conserved, packets noticed and ARP answers right? | 2 clients, 2 UDP and 2 ping endpoints with a queue of 1, 1 ARP entry, 2 tries, 1 place for `ipout`, 3 loads; 2.2 million |
| `recvtime_zero` | finding: `recvtime(0)` | 3 processes |
| `chprio_stale` | finding: `chprio` of a ready process | 3 processes |
| `kill_twice` | finding: a parent kills the process that is being killed | 3 processes |
| `port_nosem` | finding: a port without its semaphores | 1 process |

`ports_calls` has too few nodes for both ports and too few semaphores for the second
one, so `panic` and a failed `semcreate` happen; three processes are a
sender or receiver that waits, one that resets or deletes, and one that uses the
port in between. Its view drops what is never read again and keeps of a `ptseq` in
a frame only whether it is still the port's, which is all the code asks of it and
which never becomes true again; processes are interchangeable (symmetry).

Three processes besides nothing else already give: the null process, one that
runs inside a call and one that interferes. Four are needed where two processes
wait on one queue while a third acts. The time each sleeper has left is at most 3
ticks with three sleepers, so a key can be shared, zero, or split by an insertion.
Two free slots of a table force reuse. Sleepers are killed in `kernel_calls`; that the keys stay
right when they are is a theorem (`DeltaListExact`), for which `kernel_clock`, where
they leave the queue early by a message, is the instance. The safety results of `kernel_calls` that
are also proved hold for all sizes.

`queue_calls`: three processes are an entry before, at and after any place, in every order,
with equal and with different keys; a delay of 0 gives keys that are zero, and the clock negative
ones down to `-MaxLate`. Its view drops the links of a process that is in no queue, which
nobody reads.

`pools_calls`: six memblks hold a free list of three blocks, which is where a
block is freed between two others, touching neither, either or both. `tty_calls`: the lengths stand for 128,
64, 20 and 64; a line fits, fills or overfills the input buffer, a text with CR before
NL does not fit beside another, and the FIFO is as long as the output buffer, as `uart.h:5` and
`tty.h:16` have it, so that one interrupt may send and announce all of it. Two
unfinished output interrupts, one for each writer that a `signaln` can wake, end in both orders
with everything that writers and the interrupt do in between.
`net_calls`: with one ARP entry every second resolution evicts or is refused (that two
entries are never for one address is empty there; the theorem `ArpIsRight` has tables of
any size, and two entries with the same hosts only make the eviction go away), two
tries give a retry and a giving up, one place per queue makes each queue overflow, and
two ping endpoints with arrays of one place are enough for the two wraps to differ. Its view
drops the fields of unused endpoints and ARP entries only if nobody in the middle of a call will
read them again (`udp.c:190` and `udp_sendto` do, after a release). The three
loads split what would otherwise be one much larger instance: resolvers competing for the
cache, receivers competing for endpoints, pings to ourselves and to another host.

What the passing runs check:

- `QueuesMatchStates`: a process is linked in exactly the list its state and
  `prsem` name. `getitem` unlinks without asking which list it works on, so this is
  what makes it right.
- `TableSound`: the links of each queue lead to the processes whose states name it, once
  each and in both directions; heads and tails keep their keys, on which the loop of
  `insert` relies to stop; `newqueue` never runs out of entries.
- `QueuesAreLists`: the table implements `ProcessQueues`: each routine changes one list as
  `Kernel` says, and no other, and returns the process it takes out.
- `SemaphoreLists` (`SemaphoreCounts` and `DeletedSemaphoresEmpty`): a negative count is the number of
  waiters, except inside the loop of `semreset`; nobody waits on a deleted slot.
- `FifoSemaphores`: the table implements the abstract semaphores. No waiter is
  overtaken or forgotten, no permit appears or disappears, kills included.
- `CpuNeverIdle`: `resched` never takes from an empty list.
- `PriorityOrder`: without `chprio`, the ready list is sorted and the running process
  has the highest priority, whoever made a process ready and however long it was
  deferred.
- `DeferralBalanced`: rescheduling is deferred once for each loop that the running
  process is inside of, a system call's or a handler's on its stack, and nobody is switched out in
  one: no deferral is left behind, and a `signaln` inside a handler's batch does not end the
  batch's.
- `MessagesFound` (`NoMissedMessage` and `ReceiveFindsMessage`): no process waits for a message it has,
  and `receive` never returns one it has not, with timeouts and kills around.
- `CountNotOver`: `prcount` never exceeds the processes that exist, less those
  that are being killed.
- `DeltaKeys`, `NoOversleep`: the keys add up to the time left, and nobody stays
  queued past it.
- `SleeperWakes`, `NoStarvationAmongEquals`, `OutputDrains`: liveness, below.
- `PortsAreFifo`: each port implements `PortFifo`: nothing is lost, repeated,
  reordered or received after a reset, and no port is overfilled.
- `NodesConserved`, `PanicOnlyOversubscribed`: each node is in one list; they run
  out only if the ports were promised more than there are.
- `PermitsAccounted`: permits, released processes that have
  not run and messages add up, so `ptrecv`, which takes the head without looking,
  finds one. A process that a reset has released has no claim.
- `LimboHasClearer`: a port is in limbo exactly while one process clears it.
- `HeapSound`: the free list is in order of address with no two blocks touching, and
  no byte is free and owned, or owned twice, blocks freed a second time included.
- `NoLostBytes`: what nobody owns is free, and `memlist.mlength` counts it.
- `HeapIsArena`: the heap implements `Arena`: a request is refused only if no run of
  free bytes is long enough, which needs merging in every order of freeing.
- `BuffersPromised`, `BuffersApart`: free buffers are those the semaphore counts, has
  promised to woken processes, or has lost to killed ones, so a woken process
  finds one; every buffer is linked once or held once, inside its pool's storage.
- `PlacesCounted`: head, tail, cursor, semaphore and woken processes of each terminal
  buffer agree whatever is erased, killed, announced late or overrun.
- `InputInOrder`, `OutputInOrder`, `AheadOnlyOfWoken`: what is read and sent is what was
  typed and written, in order, up to the overruns named above, and each
  overrun has the cause named above and no other: the transmitter gets ahead of a writer
  that has been woken and not of one that still waits.
- `BuffersConserved`: every packet buffer is free, queued or in one process's hands on
  every path, and no queue outgrows its array, floods of replies excepted, and the ring of
  `ipout` while it has its permit and not yet its packet.
- `NoSleepOnPacket`, `PacketArrived`: nobody waits for a packet that is there or takes one
  that is not, apart from the exceptions.
- `ArpAnswers`: an address has one entry; resolved ones are right; who waits has a pending
  entry of its own; frames go to the right host, apart from the exceptions.

### Fairness

`FairSpec` assumes weak fairness of `KernelStep` (kernel code runs to its end) and
strong fairness of `Tick`: the timer's overflow flag stays up until
`clkhandler.c:17-25` clears it, so an interrupt that arrives while interrupts are
disabled is taken once they are enabled. Nothing is assumed of processes: they may
compute for ever or never call the kernel again. A handler's batch ends because
`MaxCount` bounds what it can signal, as the rings and the FIFO do in the code.

`TtyFairness` is weak fairness of the output interrupt with an empty FIFO: the UART
raises it as long as it is enabled and has sent what it was given. Under it `OutputDrains`
says that output goes on (the characters that wait to be sent become fewer for ever)
until everything is sent, it is held by ^S, or the
transmitter has run ahead of a writer. It excepts keys that are typed for ever:
echoes go first. Nothing makes a switched-out run of the output routine go on; if it does, its second test
reads what the queues hold by then, which is why no start of the transmitter is lost. A
routine that turned the interrupt off there without the test would lose one: that is
the mutant of `OutputDrains`. The network is given no
fairness: nothing obliges a host to answer.

### Findings

- `recvtime(0)` (`recvtime_zero`): the argument check refuses only negative waits;
  an entry with key 0 at the head of the sleep queue is decremented to -1 and
  `clkhandler.c:45` looks for exactly 0. The caller and everyone behind it stay
  asleep.
- `chprio` (`chprio_stale`) does not requeue a ready process or reschedule, so the
  promise at the top of `resched.c` fails until the list has been rebuilt.
- `kill` of a process that is being killed (`kill_twice`) counts it out twice, and
  the system halts while a process is left: the victim itself, which was killing
  itself and has not been taken out of the table.

- `ptcreate` (`port_nosem`) returns a port even if `semcreate` failed: sends to it
  succeed and can never be received, or every send fails.

The other instances avoid the first two on purpose: `Waits` without 0, and
`PriorityOrder` without `chprio`. `CountNotOver` is an
inequality because of the third.

## Proofs

Assumptions on the constants: `SizesAssumption` (at least two processes, a quantum
of at least one tick, natural bounds) and `ArgumentsAssumption` (delays and counts
are not negative: `sleepms`, `recvtime`, `semcreate` and `semreset` refuse negative
ones). Nothing bounds the number of processes, semaphores or priorities.

`KernelSafety` proves, for `Spec`:

| Theorem | Property |
|---|---|
| `Invariance` | `IInv`, the inductive invariant |
| `TypeCorrectness` | `TypeOK` |
| `ListsMatchStates` | `QueuesMatchStates` |
| `SemaphoreListsAgree` | `SemaphoreLists` |
| `AlwaysSomebodyToRun` | `CpuNeverIdle` |
| `DeferralMatchesLoops` | `DeferralBalanced` |
| `MessagesArrive` | `MessagesFound` |

None of these is inductive alone. `Release` takes the head of a queue when the
count is negative, which is right only if the count matches the queue, which
`semreset` breaks during its loop, which is invisible only because rescheduling is
deferred, which depends on who may hold a loop frame. So

    IInv == TypeOK /\ OnCpu /\ OffCpu /\ FramesOK /\ SemInv

carries all of it: `OnCpu` says who runs and how often rescheduling is deferred (the depth of
its frame: 2 for a `signaln` in a handler's batch, 1 for any other loop, 0 elsewhere),
`OffCpu` which list each other process is in, `FramesOK` which states go with which frame (a
process inside `receive` is `PR_RECV`, or ready with its message; one inside
`kill` may find its victim in any state; the count that `semreset` will set is one
its caller may pass), and `SemInv` the counts. TLC checked
`IInv` as an invariant over the instance of `kernel_calls` before it was proved.

The argument has three layers, each with its sections in `KernelSafety`. The first shows
what `Unlink`, `Insert`, `Insertd` and `UnsleepKeys` do to the set a list holds and to the
type of the keys. The second shows once that `Resched` keeps `IInv` if the caller hands it
a state in which every list matches (`Dispatch`, `Ready`, `Block` and `DeferStop` follow).
The third has one lemma per action.

The end of `KernelOrder` proves the refinement, step by step:

| Theorem | Property |
|---|---|
| `SemaphoresAreFifo` | `FifoSemaphores` |

A count maps to its permits if it is positive and to none otherwise (`permitsBar`), a
queue to itself. `wait` is `Acquire`, a release by any of the routines `Release`, the
`kill` of a waiter `Withdraw`, and creation and the end of
`semreset` are `Grant`, which demands an empty queue: `IInv` supplies it, for a slot
that `newsem` reuses and for the loop that has just emptied its queue. `semdelete`
lets its waiters go one at a time and each turn is a `Release`. Everything else leaves
queues and permits alone.

`KernelOrder` proves what concerns order and number:

| Theorem | Property |
|---|---|
| `ReadyListStaysSorted` | the ready list is sorted by key, with `chprio` too |
| `PrioritiesObeyed`, `HighestTakesOver` | `PriorityOrder`, `ReschedPicksHighest`, if `"chprio" \notin Calls` |
| `CountNeverOver` | `CountNotOver` |
| `DeltaListExact` | `DeltaKeys` |
| `NobodyOversleeps` | `NoOversleep`, if `0 \notin Waits` |

The two hypotheses are the findings: with `chprio` of a ready process `PriorityOrder` is
false (`chprio_stale`), and with `recvtime(0)` a sleeper is forgotten (`recvtime_zero`). A
system that makes neither call satisfies both, and the runs `kernel_sem` and
`kernel_clock` are such instances. Three invariants are added to `IInv`:

- `OrderInv`: the ready list is sorted; without `chprio` a ready process is keyed by
  its priority, and the running one is the highest *unless an attempt to reschedule
  has been recorded while rescheduling is deferred*. That exception is what makes it
  inductive: `signaln` may ready somebody higher, and it is `DeferStop` that settles it.
- `CountInv`: `prcount` is at most the processes that exist less those inside `kill`.
  `KillStart` lowers both sides by one, and `KillFinish` never lowers the second,
  whoever its victim has become.
- `TimeInv`: the prefix sums of the keys are the times left (`Delta`), and a negative
  time is only possible outside the loop of `wakeup`, and only after a zero wait.

For order and number most of the kernel's actions are alike. `Handover` and `Moves` say
what a step may do with the ready list: keep it, put the caller back, add a released
process, take somebody off; `Calm` adds that the sleep queue is left alone. Each action
is classified once, and the invariants are shown to survive each class.

`QueueTheorems` proves, for `TabSpec`, from `TableSizes` (at least one process, priorities
above `MINKEY`, delays that are not negative):

| Theorem | Property |
|---|---|
| `TableAlwaysSound` | `TableSound` |
| `QueuesImplementLists` | `QueuesAreLists` |

The numbers of processes and semaphores, the lengths of the queues and the order of the calls are
arbitrary. `TableSound` is inductive as it stands. It speaks of `List(q)`, which follows the
links, and the proof works the other way round: `ListIs` says that if the links of `q`
are those of *some* sequence without repetitions (`Linked`) then `List(q)` is that sequence, so
each routine only has to exhibit one. `LinkIn` and `LinkOut` say that linking a
process in at place `i`, or out of it, turns the links of `s` into those of `s` with an
element inserted or removed; `LinksElsewhere` that the links of other queues are not
touched, because their entries are others (`NodesApart`).

Which place it is, is a question about the loops. No induction over data is available for
that, and none is needed: `LoopStops` says that a loop that passes the entries before place `i` of a
list and stays at the `i`-th is there after `NPROC` rounds; its proof looks at the least round
at which the loop would be elsewhere. `InsertStops` applies it to `insert`, where the key of the
tail ends the loop at the latest; `InsertdStops` to `insertd`, whose cursor carries what is
left of the delay: it is the delay less the prefix sum of the keys passed (`Sums`), so
the loop stops where `InsertdPosition` says.

Then each routine maps to its action of `ProcessQueues` (`EnqueueLists` to `DecrementLists`),
`Newqueue` to a stutter, since a queue that has not been made is an empty list.

`MemoryTheorems` proves, for `PoolsSpec`, from `HeapSizes` (an
aligned heap that is not empty, requests that are natural numbers) and `PoolSizes`
(positive sizes and numbers of buffers, finitely many processes):

| Theorem | Property |
|---|---|
| `HeapStaysSound` | `HeapSound` |
| `NoByteIsLost` | `NoLostBytes` |
| `HeapImplementsArena` | `HeapIsArena` |
| `PromisedBuffersExist` | `BuffersPromised` |
| `BuffersStayApart` | `BuffersApart` |
| `PoolsStayTyped` | `PoolsTypeOK`, `HeapTypeOK` included |

The heap, the number of blocks in it, the pools, the processes and the order of the calls
are arbitrary; calls of `mkbufpool` that fail for lack of a semaphore, and frees of what
is already free, are among them.

*Soundness.* `HeapSound` is not inductive: that a block can be cut or linked in
without touching its neighbours depends on every free block having a positive length,
and that the block returned is nobody's on each owned block being clear of the whole
list. The invariant is

    HeapInv == Fit(memlist, live)

where `Fit(m, L)` says that `m` is a list of free blocks in order (`Ordered`), that
each owned block in `L` is clear of all of them (`Clear`) and that no two owned
blocks overlap (`Disjoint`).
`PartsOfList` shows that a list cut at one block keeps order and clearance, for both
`TakeLow` and `TakeHigh`. `PassedSplits` says where the search of `freemem` stops;
with the two tests of `Overlaps` it gives `FreedBlockLinked`, whose last part
(`MergeOrders`) is that after linking only one pair may touch, which the merge
removes. `StaleRefused` is the converse: whatever overlaps a free block anywhere in
the list is caught by tests that look at two neighbours only.

*Nothing is lost.* `freemem` accepts what its owner gives back only if it lies in the
heap, and that is known only from where every byte is. So

    ArenaInv == HeapInv /\ Whole(memlist, live)
                /\ mlength = Cardinality(BytesIn(memlist)) /\ denied \in Nat

where `Whole(m, L)` says that the free bytes and the owned ones are all the bytes of the
heap, and that owned blocks start at whole cells. Alignment of the *free* blocks is not in the
invariant: it follows (`BlocksAreCells`). A free block has a neighbour on each side that is not free,
by order and merging; that neighbour belongs to an owner, whose storage is made of whole
cells (`WholeCells`), or lies outside the heap. `LowBytes`, `HighBytes`, `MergeBytes` and
`LinkBytes` say which bytes the operators of the model move. With them each step is one of
four moves (`HeapMoves`): bytes are taken (`Takes`), given back (`Gives`), refused
(`Refuses`), or nothing changes hands (`Settles`).

*The refinement* goes from those moves to `Arena` (`TakesAllocates`, `GivesReleases`,
`RefusalIsRefusal`). Its heart is `NoFitNoRoom`: if no block is long enough then no run of
free cells is. The byte after the block in which such a run starts would have to be free
too, in another block, and two blocks that touch would not have been merged.

*The pools.* `PromisedBuffersExist` counts the buffers in a list against the permits of
its semaphore and the processes that it has released and that have not run. It is not
inductive: a process that is
killed gives its promise up or only leaves the queue, according to where it is, and
`mkbufpool` fills an entry that has to be unused. So

    PoolInv == HeapInv /\ PoolTypes /\ WaitersInside /\ UnusedEntries /\ PromisesCovered

`WaitersInside` says that a process waits once, alive, and for the pool it asked for;
`UnusedEntries` that no entry beyond `nbpools` has buffers, permits or waiters;
`PromisesCovered` extends the count to every entry of the table. `HeapInv` is there
because `mkbufpool` is a heap call as well. The argument follows the set
`Promised(i)`: each action adds one process to it, removes one, or leaves it alone,
and the finite-set theorems turn that into the count.

`BuffersStayApart` needs to know where the buffers are, which no count says:

    ApartInv == TableTypes /\ \A i \in Created : Cut(i) /\ Apart(i)

`Cut(i)`: the storage of pool `i` is still its own, and its places, linked or in use, are
exactly those `mkbufpool` cut (`k` of them, for some `k`); `Apart(i)`: none of them is linked twice,
held twice, or linked and held. `getbuf` and `freebuf` move a place between the two sides and keep
the set; that there is a place to move is `PoolInv`. The number of buffers follows
by counting places, and that they do not overlap from their distance.
`PoolsStayTyped` draws the four invariants together: a buffer has an address in the
heap because its pool's storage is owned and owned storage lies in the heap.

`ApartInv` and `ArenaInv` were checked with TLC on the instance of `pools_calls` before
they were proved.

`PortTheorems` proves, for `Spec` of `Ports`, from `PortSizes` (positive sizes, finitely
many processes, counts that are not negative):

| Theorem | Property |
|---|---|
| `PortsStayTyped` | `TypeOK` |
| `LimboIsCleared` | `LimboHasClearer` |
| `NoNodeIsLost` | `NodesConserved` |
| `PermitsAgree` | `PermitsAccounted` |
| `PortsBehaveAsFifos` | `PortsAreFifo` |
| `PanicMeansOversubscribed` | `PanicOnlyOversubscribed` |

The last three suppose that every count given to `ptcreate` is below `UINT16`. The code
does not test that (`ptcreate.c:39` stores an `int32` in a `uint16`), and without it they
are false: a port created for 65536 messages has 65536 permits and a `ptmaxcnt` of 0. A
system with 100 nodes has no use for such a port. The first three hold whatever the counts.

    PortInv   == TypeOK /\ (\A p : ArgSound(p) /\ ClearSound(p)) /\ OneClearer /\ NodesConserved
    PermitInv == PortInv /\ (\A p : CallSound(p) /\ SemsSound(p))
                 /\ (\A s : WaitersSound(s)) /\ (\A i : Accounted(i))
    NodeInv   == PermitInv /\ Bounded /\ (\A p : PanicSound(p))

*Nodes.* That `_ptclear` gives back the nodes of its own port and nobody else's depends on
its being the only one to clear it (`OneClearer`), on the port staying in limbo until it
is done, and on a port with its list emptied being the one that is opened again
(`ClearSound`). `Conserved(H, L, F)` states conservation of nodes for any set of lists, so
that taking a node, returning one and returning all of a list are three lemmas.

*Permits.* `PermitsAccounted` counts who has a claim on a port: it says nothing of why a
process cut off by a reset has none. `CallSound` does: the sequence number a call
remembers is never from the future and is from the past as soon as the port is in limbo,
so no number can become valid again. `WaitersSound` says that whoever waits on a
semaphore is inside the call that waits for it, and that nobody does who is out of date
once the port is open again; that is because `_ptclear` empties both queues before, which
is what `SemsSound` records of it. The claims of a port are followed as the set
`Granted`: each routine adds a process to it, takes one out or leaves it.

*The refinement* maps a port in limbo to a closed queue that holds what the clearing
process has not disposed of. `ContentsAre` says what that is in each situation, so that
every routine is `Open`, `Close`, `Put`, `Take`, `Dispose` or a stutter. That `Put` finds
a place is `RoomForSend`, from `Accounted`; that no message of another port changes is
`NodesConserved`.

*Panic.* `Bounded` says that no list is longer than its port was created for, also
while it is cleared, and `PanicSound` that after a panic nothing moves. The elements of
all lists then are all the nodes, and their positions are places of ports; the place owed
to the process that found no node is one more (`PlacesExceedNodes`).

`PermitInv` and the parts of `NodeInv` were checked with TLC on the instance of
`ports_calls` before they were proved.

`TtyTheorems` proves, for `TtySpec`, from `TtySizes` (positive lengths, a FIFO of any length, finitely
many processes, loads whose keys are characters and whose texts are sequences of them):

| Theorem | Property |
|---|---|
| `PlacesAreCounted` | `PlacesCounted` |
| `TypedInOrder` | `InputInOrder` |
| `WrittenInOrder` | `OutputInOrder` |
| `TransmitterOvertakesOnlyWoken` | `AheadOnlyOfWoken` |

    TtyInv == load \in Loads /\ echoes \in Nat /\ SemsOK /\ InInv /\ OutInv

`SemsOK` says where the processes are: in a queue once, of the semaphore of the call they
are in the middle of, and only while that semaphore has no permits. It makes `Total(s)`,
the count of `s` plus the callers it has, what `s` counts and what it has promised. A
signal of `n` adds `n` to it and a wake-up nothing; a process that takes `n` characters takes
`n` away, whether it then returns or waits again (`SignalKeeps`, `ConsumeKeeps`,
`GiveBackKeeps`).

`InInv` and `OutInv` relate the buffers to `Total`, modulo their lengths. For input no order
follows from that alone, because `typed` is as long as what is announced plus the line being typed
*plus what cbreak mode stored and a line has not caught up with*: `InOK` demands that
`typed` reaches from head to tail and is at least as long as the first two, which is why a read never
takes more than was typed. `StoreKeeps` is the lemma for every character stored, in whatever
mode; its hypothesis is that one more is announced, or in the line, or never announced
(`OneMore`). For output the count of `tyosem` is at most the length of the buffer, so
`ttyhandle_out` never sends a negative number. What it sends beyond `written` is at most
the number of callers of `ttyputc`. For the last theorem that has to be the woken ones: if
nobody has been woken and somebody waits there are no permits, so everything in the buffer is
written and the FIFO cannot take more than that. It therefore has the
hypothesis that the FIFO is no longer than the output buffer (`AheadStep`), which holds in
the code with equality. `TtyhandleOutEnd` only turns the interrupt off, so wherever the output routine is
switched away from makes no difference to the safety theorems; it does to `OutputDrains`.

`TtyInv` was checked with TLC on the instance of `tty_calls` before it was proved.

`NetTheorems` proves, for `NetSpec`, from `NetSizes`:

| Theorem | Property |
|---|---|
| `PacketsArrive` | `PacketArrived` |
| `NobodySleepsOnPackets` | `NoSleepOnPacket` |
| `ArpIsRight` | `ArpAnswers` |
| `NoBufferIsLost` | `BuffersConserved` |

`NetSizes` says that tables and queues have at least one place, that there are finitely
many clients, that a load is made of addresses and numbers, and that a ping endpoint has
no more places than there are ping endpoints. The last is true of `icmp.h` (8 and 10), and the
theorems need it: the reader of the array of replies wraps at `ICMP_SLOTS`
(`icmp.c:201`, `339`), so with fewer endpoints than places it would wrap before the end
of what the writer has filled, with no flood at all.

    NetInv == NetTypes /\ PacketFlow /\ PacketArrived
    PacketFlow == Waiting /\ Receivers /\ ArpInv /\ UdpInv /\ PingUsers /\ PingQueues

*Packets.* A process that wakes in `udp_recv` with a message takes a packet without
looking whether there is one. That it finds one is a fact about three others: who sent the
message, who else uses the endpoint, and what the process waited for before. `Receivers` says
that who is registered in an endpoint is inside the call for it, so `send` goes to
nobody else. `UdpInv` and `PingUsers` say of whoever is inside the call that it is
registered as long as it waits and nothing is queued, and that a message means a packet:
the conclusion of `NoSleepOnPacket` is the first half, that of `PacketArrived` the second. The
exceptions are part of the invariant and are as narrow as in the properties: a process that
strayed stays suspect for ever, another process or another endpoint never does.
`Receivers` holds until somebody takes a packet that was not there, where the model stops.

*The queue of replies.* `PingQueue` counts what was `given` since the endpoint was
registered: up to `ICMP_QSIZ` replies, the places that hold one are exactly those from the
number taken to the number given, although reader and writer wrap at different places. After
more, nothing is claimed but that the count is at least the number of replies (`PingAt`); with it
`icmp_release`, which takes off as many as are counted, leaves the endpoint empty or
is recorded as missing one.

*ARP.* `PendingAsked` says that a pending entry names a process that waits at that entry and has
no answer, or that strayed; `AskersPend` that who waits without a message has its entry
pending. Together an answer goes to one process and its entry holds the address
(`AnswersRight`), and `arp_alloc`, which evicts resolved entries only, takes none that is
waited for, except one whose process was told and has not run: that process is `robbed`.

*Steps.* Most of the work is what a step does to processes other than its own. `Heard` says
what may happen to their messages, `Undisturbed` and `Delivered` sum it up for the endpoints,
and `UndisturbedKeeps` shows once that `Receivers`, `UdpInv` and `PingUsers` survive it. What is
left for each routine is its own process.

*Buffers.*

    BufInv == StockSound
              /\ free + Cardinality(Holders) + Len(ipoqueue) + Stock = NetBufs

is inductive with `NetInv` beside it: `NetTypes` says that `ipout` has a packet to take
whenever it has its permit, and that the packets without one fit the ring (`RingInv`), and
`udp_release` has to know that the endpoints it leaves
behind are empty, `icmp_recv` that the place it frees held a packet. `Stock` counts the
places of all queues that hold one, and `PairsCounted` is the fact on counting: if the
set of one entry changes, the number of pairs changes by as much. `Passed(p, n)` says of
every way that `ip_send`, `ip_local` and `arp_resolve` can go that the packet of `p` ends up
in one place. The number of replies lost to a flood is part of the sum.

Both invariants were checked with TLC on the instance of `net_calls` before they were
proved.

Only model-checked: liveness (`SleeperWakes`, `NoStarvationAmongEquals`, `OutputDrains`),
which is out of this prover's reach. The hypotheses of the theorems about `chprio`, zero waits
and counts of ports are where the properties are false; the runs listed under findings show
the first two, and the rest of the findings are runs only.

## Not modelled

Status per component is in `PROJECT.json`.

- The remote disk and remote files (`device/rds`, `device/rfs`), DHCP, DNS and TFTP: each
  needs a model of its server and of a network that loses and repeats messages.
- The local file system (`device/lfs`): its state is the contents of a disk, and a
  crash leaves whatever the order of its writes has made of it.
- The Ethernet driver's descriptor rings, which the device shares.
- Out of scope for good: the exception vectors, `ctxsw.S` below the level of a switch,
  register-level drivers without state (GPIO, ADC, SPI, PWM), memory marking (no
  caller), the shell and formatted output, the configuration generator, and the
  Python web server and its dashboard.

Most of the lines of the repository are `src/Xinu/cross_compiler`, a compiler
and its libraries that somebody else maintains; no module is about them.

## What would come next

`RemoteDisk` (cache, request queue and communication process against an abstract array of blocks).
