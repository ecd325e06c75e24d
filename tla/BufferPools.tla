---------------------------- MODULE BufferPools -----------------------------
(***************************************************************************)
(* Buffer pools (src/Xinu/system: bufinit.c, mkbufpool.c, getbuf.c,        *)
(* freebuf.c): a pool is one block of the heap, cut into buffers of one    *)
(* size that are linked through their own first words.  A semaphore counts *)
(* the buffers of the pool, and getbuf waits on it.  The word before a     *)
(* buffer holds the number of its pool while the buffer is in use.         *)
(*                                                                         *)
(* Semaphores are what module FifoSemaphore says they are.  getbuf blocks  *)
(* at most once, so each routine is one action, and two if it waits.       *)
(***************************************************************************)
EXTENDS Heap

CONSTANTS
  User,             \* the processes that get and free buffers
  NBPOOLS,          \* the entries of buftab
  PoolSems,         \* the semaphores that semcreate can still give to pools
  PoolArgs,         \* pairs (buffer size, number of buffers) of mkbufpool calls
  Killed            \* bound: how many of the users are killed

ASSUME PoolSizes ==
  /\ NBPOOLS \in Nat /\ PoolSems \in Nat
  /\ PoolArgs \subseteq (Nat \ {0}) \X (Nat \ {0})
  /\ IsFiniteSet(User)

BP_MINB == 8   \* the smallest buffer
BPID == 4      \* sizeof(bpid32), the word before a buffer

VARIABLES
  nbpools,           \* how many entries of buftab are in use
  bufs,              \* the buffers linked from each entry's bpnext, as addresses
  bpsize,            \* the size of the buffers in each entry
  poolmem,           \* history: the storage that each pool was cut from
  permits, waiters,  \* the semaphores bpsem, as in FifoSemaphore
  gets,              \* the pool that a process inside getbuf has asked for
  held,              \* the buffers in use: who holds them, and the word before each
  wasted,            \* history: permits given to processes that were killed
  dead               \* the processes that were killed

Pool == 0 .. NBPOOLS-1
NoPool == NBPOOLS
PoolSemaphores == INSTANCE FifoSemaphore WITH
  Proc <- User, Sem <- Pool, Grants <- {a[2] : a \in PoolArgs}

userVars == <<gets, held, wasted, dead>>
tabVars == <<nbpools, bpsize, poolmem>>
poolVars == <<tabVars, bufs, permits, waiters, userVars>>

PoolsInit ==
  /\ HeapInit
  /\ nbpools = 0
  /\ bufs = [i \in Pool |-> <<>>]
  /\ bpsize = [i \in Pool |-> 0]
  /\ poolmem = [i \in Pool |-> Owned("mem", 0, 0)]
  /\ PoolSemaphores!Init
  /\ gets = [u \in User |-> NoPool]
  /\ held = {} /\ wasted = [i \in Pool |-> 0] /\ dead = {}

\* A process runs when it is inside no call, or waits for nothing in one.
Waiting(u) == \E i \in Pool : u \in Range(waiters[i])
Idle(u) == u \notin dead /\ gets[u] = NoPool
-----------------------------------------------------------------------------
\* Sizes are rounded up to whole words, and every buffer has its pool's number
\* before it.
RoundWord(n) == ((n + 3) \div 4) * 4
Stride(bufsiz) == RoundWord(bufsiz) + BPID
PoolBytes(bufsiz, numbufs) == numbufs * Stride(bufsiz)

Carve(a, bufsiz, numbufs) == [k \in 1 .. numbufs |-> a + (k - 1) * Stride(bufsiz)]

\* Mutant: the storage is not freed.
UndoNothing(n) ==
  LET i == Min(Fits(memlist, RoundMb(n)))
  IN /\ memlist' = TakeLow(memlist, i, RoundMb(n))
     /\ mlength' = mlength - RoundMb(n)
     /\ denied' = 0 /\ UNCHANGED live

\* mkbufpool found storage but no semaphore: the storage is freed again, and the
\* entry of buftab stays unused.
UndoGetmem(n) ==
  LET i == Min(Fits(memlist, RoundMb(n)))
  IN /\ memlist' = FreeList(TakeLow(memlist, i, RoundMb(n)), memlist[i].addr, n)
     /\ denied' = 0 /\ UNCHANGED <<mlength, live>>

\* mkbufpool: storage for the buffers, a semaphore that counts them, and a link
\* from each buffer to the next.
Mkbufpool(bufsiz, numbufs) ==
  /\ bufsiz >= BP_MINB /\ nbpools < NBPOOLS
  /\ LET n == PoolBytes(bufsiz, numbufs)
         fits == Fits(memlist, RoundMb(n))
     IN \/ fits = {} /\ Deny(n) /\ UNCHANGED poolVars
        \/ fits # {} /\ nbpools >= PoolSems /\ UndoGetmem(n) /\ UNCHANGED poolVars
        \/ LET a == memlist[Min(fits)].addr
           IN /\ fits # {} /\ nbpools < PoolSems
              /\ Getmem(n)
              /\ nbpools' = nbpools + 1
              /\ bpsize' = [bpsize EXCEPT ![nbpools] = RoundWord(bufsiz)]
              /\ poolmem' = [poolmem EXCEPT ![nbpools] = Owned("mem", n, a)]
              /\ bufs' = [bufs EXCEPT ![nbpools] = Carve(a, bufsiz, numbufs)]
              /\ PoolSemaphores!Grant(nbpools, numbufs)
              /\ UNCHANGED userVars
-----------------------------------------------------------------------------
\* A buffer leaves the pool; the word before it says where it came from.
Unlink(u, i) ==
  /\ bufs' = [bufs EXCEPT ![i] = Tail(@)]
  /\ held' = held \cup {[user |-> u, addr |-> Head(bufs[i]) + BPID, pool |-> i]}
  /\ gets' = [gets EXCEPT ![u] = NoPool]

\* getbuf: take a buffer at once, or wait for one.
Getbuf(u, i) ==
  /\ Idle(u) /\ i < nbpools
  /\ PoolSemaphores!Acquire(i, u)
  /\ IF u \in Range(waiters'[i])
     THEN gets' = [gets EXCEPT ![u] = i] /\ UNCHANGED <<bufs, held>>
     ELSE Unlink(u, i)
  /\ UNCHANGED <<tabVars, wasted, dead, heapVars>>

\* Mutant: the buffer that was at the head when the process began to wait is
\* taken, so what was there is not taken off the list.
GetbufWokenEarly(u) ==
  /\ u \notin dead /\ gets[u] # NoPool /\ ~Waiting(u)
  /\ held' = held \cup {[user |-> u, addr |-> Head(bufs[gets[u]]) + BPID, pool |-> gets[u]]}
  /\ gets' = [gets EXCEPT ![u] = NoPool]
  /\ UNCHANGED <<tabVars, bufs, permits, waiters, wasted, dead, heapVars>>

\* getbuf, after its wait has returned: the head of the list is read only now.
GetbufWoken(u) ==
  /\ u \notin dead /\ gets[u] # NoPool /\ ~Waiting(u)
  /\ Unlink(u, gets[u])
  /\ UNCHANGED <<tabVars, permits, waiters, wasted, dead, heapVars>>

\* Mutant: the semaphore is not signalled.
FreebufSilent(b) ==
  /\ Idle(b.user)
  /\ bufs' = [bufs EXCEPT ![b.pool] = <<b.addr - BPID>> \o @]
  /\ held' = held \ {b}
  /\ UNCHANGED <<tabVars, gets, wasted, dead, permits, waiters, heapVars>>

\* freebuf: the word before the buffer says which pool it goes back to.
Freebuf(b) ==
  /\ Idle(b.user)
  /\ bufs' = [bufs EXCEPT ![b.pool] = <<b.addr - BPID>> \o @]
  /\ held' = held \ {b}
  /\ PoolSemaphores!Release(b.pool)
  /\ UNCHANGED <<tabVars, gets, wasted, dead, heapVars>>

\* kill: a process that waits is taken off the queue of the semaphore; one that
\* a signal has made ready dies with its permit, and with the buffers it holds.
KillUser(u) ==
  /\ u \notin dead /\ Cardinality(dead) < Killed
  /\ dead' = dead \cup {u}
  /\ IF Waiting(u)
     THEN /\ \E k \in DOMAIN waiters[gets[u]] :
               waiters[gets[u]][k] = u /\ PoolSemaphores!Withdraw(gets[u], k)
          /\ UNCHANGED wasted
     ELSE /\ wasted' = IF gets[u] = NoPool THEN wasted
                       ELSE [wasted EXCEPT ![gets[u]] = @ + 1]
          /\ UNCHANGED <<permits, waiters>>
  /\ UNCHANGED <<tabVars, bufs, gets, held, heapVars>>

Created == 0 .. nbpools-1

\* The storage of a pool stays with it: the program frees only other blocks.
PoolsNext ==
  \/ HeapCalls(live \ {poolmem[i] : i \in Created}) /\ UNCHANGED poolVars
  \/ \E a \in PoolArgs : Mkbufpool(a[1], a[2])
  \/ \E u \in User : (\E i \in Pool : Getbuf(u, i)) \/ GetbufWoken(u) \/ KillUser(u)
  \/ \E b \in held : Freebuf(b)

PoolsSpec == PoolsInit /\ [][PoolsNext]_<<heapVars, poolVars>>
-----------------------------------------------------------------------------
\* The values of the variables.
PoolsTypeOK ==
  /\ HeapTypeOK
  /\ nbpools \in 0 .. NBPOOLS
  /\ bufs \in [Pool -> Seq(MinHeap .. MaxHeap)] /\ bpsize \in [Pool -> Nat]
  /\ poolmem \in [Pool -> [kind : {"mem"}, bytes : Nat, ptr : Nat]]
  /\ permits \in [Pool -> Nat] /\ waiters \in [Pool -> Seq(User)]
  /\ gets \in [User -> Pool \cup {NoPool}]
  /\ held \subseteq [user : User, addr : Nat, pool : Pool]
  /\ wasted \in [Pool -> Nat] /\ dead \subseteq User

Woken(i) == {u \in User \ dead : gets[u] = i /\ ~Waiting(u)}

\* The semaphore of a pool never promises a buffer that is not there: the free
\* buffers are those it counts, those promised to processes that have been woken
\* and have not run, and those promised to processes killed in that state.  So a
\* woken process finds a buffer (getbuf.c: "Wait for pool to have > 0 buffers").
BuffersPromised ==
  \A i \in Created : Len(bufs[i]) = permits[i] + Cardinality(Woken(i)) + wasted[i]

\* The places of the buffers of pool i, linked or in use, with their first words.
Places(i) == Range(bufs[i]) \cup {b.addr - BPID : b \in {c \in held : c.pool = i}}

\* Every buffer is in its own pool or in the hands of one process: there are as
\* many different places as buffers were made, they do not overlap, and they lie
\* in the storage of the pool, which nobody else can be given.
BuffersApart ==
  \A i \in Created :
    /\ Len(bufs[i]) + Cardinality({b \in held : b.pool = i}) = Cardinality(Places(i))
    /\ Cardinality(Places(i)) = poolmem[i].bytes \div (bpsize[i] + BPID)
    /\ \A a, b \in Places(i) : a < b => a + BPID + bpsize[i] <= b
    /\ \A a \in Places(i) :
         StartOf(poolmem[i]) <= a /\ a + BPID + bpsize[i] <= EndOf(OwnedBlock(poolmem[i]))
    /\ poolmem[i] \in live
=============================================================================
