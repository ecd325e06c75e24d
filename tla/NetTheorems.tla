---------------------------- MODULE NetTheorems ----------------------------
(***************************************************************************)
(* The network stack for tables and queues of every size, every number of  *)
(* clients and every load: no packet buffer is lost, nobody waits for a    *)
(* packet that is there or takes one that is not, and what ARP answers is  *)
(* right, each with the exceptions that the property names.                *)
(***************************************************************************)
EXTENDS Net, SequenceLemmas
-----------------------------------------------------------------------------
(* The types of the stack's state.                                         *)

\* Where a process is in a call, and the records of the tables.
Place == {"user", "getbuf", "wait", "dequeue", "read", "arp", "udp_recv", "icmp_recv",
          "icmp_mkpkt", "send", "udp_sendto"}
Endpoint == [state : {"FREE", "USED", "RECV"}, remip : Addr, remport : Nat, locport : Nat,
             pid : Proc \cup {"nobody"}, queue : Seq(Packet)]
PingEndpoint == [state : {"FREE", "USED", "RECV"}, remip : Addr, pid : Proc \cup {"nobody"},
                 head : 0 .. ICMP_SLOTS-1, tail : PingPlace, count : Int,
                 queue : [PingPlace -> BOOLEAN], user : Client \cup {"nobody"}, given : Nat]
CacheEntry == [state : {"FREE", "PENDING", "RESOLVED"}, ip : Addr, pid : Proc \cup {"nobody"},
               mac : Addr]
Frame == [at : Place, slot : Nat, entry : Entry, tries : Nat, pkt : Packet]

\* The slot that a waiting process remembers is one of the table it waits for.
SlotOK(f) ==
  /\ f.at \in {"udp_recv", "udp_sendto"} => f.slot \in Slot
  /\ f.at = "icmp_recv" => f.slot \in PingSlot

\* The tables, messages and frames, and all of it.
UdpTypes == udptab \in [Slot -> Endpoint]
PingTypes == icmptab \in [PingSlot -> PingEndpoint] /\ flooded \subseteq PingSlot /\ leaked \in Nat
ArpTypes == arpcache \in [Entry -> CacheEntry]
MessageTypes == prmsg \in [Proc -> {"none", "OK", "pid"}] /\ timing \subseteq Proc
FrameTypes ==
  /\ frame \in [Proc -> Frame]
  /\ \A p \in Proc : SlotOK(frame[p])
\* History variables
HistTypes ==
  /\ strays \in Nat /\ {strayed, robbed, misaddressed} \subseteq SUBSET Proc
  /\ shared \subseteq Slot

\* Of the packets for which ipout has no permit there are no more than the ring has
\* places, and a permit stands for a packet.
RingInv ==
  /\ Unpermitted <= IP_OQSIZ
  /\ frame["ipout"].at = "dequeue" => ipoqueue # <<>>

NetTypes ==
  /\ load \in Loads /\ UdpTypes /\ PingTypes /\ ArpTypes /\ ipoqueue \in Seq(Packet)
  /\ free \in Nat /\ FrameTypes /\ MessageTypes /\ HistTypes /\ RingInv

\* recvtime ends when a message comes, and only arp_resolve, udp_recv and icmp_recv call it.
Waiting ==
  \A p \in timing : prmsg[p] = "none" /\ frame[p].at \in {"arp", "udp_recv", "icmp_recv"}

\* Who is registered as waiting for packets does so.
UdpReceivers ==
  \A s \in Slot : udptab[s].state = "RECV" =>
    LET p == udptab[s].pid
    IN p \in Client /\ frame[p].at = "udp_recv" /\ frame[p].slot = s
PingReceivers ==
  \A s \in PingSlot : icmptab[s].state = "RECV" =>
    LET p == icmptab[s].pid
    IN p \in Client /\ frame[p].at = "icmp_recv" /\ frame[p].slot = s
Receivers == emptied = {} => UdpReceivers /\ PingReceivers

\* No address has two entries in the cache, and a resolved entry is right.
OneEntry ==
  \A d, e \in Entry :
    arpcache[d].state # "FREE" /\ arpcache[e].state # "FREE" /\ d # e =>
      arpcache[d].ip # arpcache[e].ip
ResolvedRight == \A e \in Entry : arpcache[e].state = "RESOLVED" => arpcache[e].mac = arpcache[e].ip
\* Whoever is named by a pending entry has no answer yet.
PendingAsked ==
  \A e \in Entry : arpcache[e].state = "PENDING" =>
    LET p == arpcache[e].pid
    IN /\ p \in Proc
       /\ p \in strayed \/ (frame[p].at = "arp" /\ frame[p].entry = e /\ prmsg[p] # "OK")
\* The entry a process waits for is still as arp_resolve left it,
Pending(p) ==
  LET e == arpcache[frame[p].entry]
  IN e.state = "PENDING" /\ e.ip = frame[p].pkt.dst /\ e.pid = p /\ e.mac = NoAddr
\* which it is as long as the process has no message.
AskersPend == \A p \in Proc : frame[p].at = "arp" /\ prmsg[p] = "none" => Pending(p)
\* The entry is filled in,
Answered(p) ==
  LET e == arpcache[frame[p].entry]
  IN e.state = "RESOLVED" /\ e.ip = frame[p].pkt.dst /\ e.mac = frame[p].pkt.dst
\* when the process is told so, unless it strayed or its entry was evicted.
AnswersRight ==
  \A p \in Proc \ (strayed \cup robbed) : frame[p].at = "arp" /\ prmsg[p] = "OK" => Answered(p)
\* What is true of the cache and of who waits for it.
ArpInv ==
  /\ OneEntry /\ ResolvedRight /\ PendingAsked /\ AskersPend /\ AnswersRight
  /\ misaddressed \subseteq strayed \cup robbed

\* Whoever waits at a UDP endpoint that is not shared is alone, is registered while the queue is
\* empty, and finds a packet when it is told so.
UdpInv ==
  \A s \in Slot \ shared : \A p \in Client :
    frame[p].at = "udp_recv" /\ frame[p].slot = s =>
      /\ \A q \in Client : frame[q].at = "udp_recv" /\ frame[q].slot = s => q = p
      /\ udptab[s].state # "FREE"
      /\ p \in timing => udptab[s].state = "RECV" /\ udptab[s].pid = p /\ udptab[s].queue = <<>>
      /\ prmsg[p] = "OK" => p \in strayed \/ udptab[s].queue # <<>>

\* The places of a ping endpoint that hold a reply.
Replies(s) == {i \in PingPlace : icmptab[s].queue[i]}
\* As long as no more than ICMP_QSIZ replies were given, the reader follows the writer: the places
\* that hold a reply are those between the two, although they wrap at different places.
PingQueue(e) ==
  LET taken == e.given - e.count
  IN /\ e.given <= ICMP_QSIZ /\ taken >= 0 /\ e.count >= 0
     /\ e.tail = IF e.given = ICMP_QSIZ THEN 0 ELSE e.given
     /\ e.head = IF taken = ICMP_SLOTS THEN 0 ELSE taken
     /\ \A i \in PingPlace : e.queue[i] <=> taken <= i /\ i < e.given

\* Whoever waits at a ping endpoint is its user, is registered while there is no reply, and finds
\* one when it is told so.
PingUsers ==
  \A p \in Client : frame[p].at = "icmp_recv" =>
    LET s == frame[p].slot
        e == icmptab[s]
    IN /\ e.user = p /\ e.state # "FREE"
       /\ p \in timing => e.state = "RECV" /\ e.pid = p /\ e.count = 0
       /\ prmsg[p] = "OK" => p \in strayed \/ s \in flooded \/ e.count > 0
\* A free endpoint is empty, one in use counts at least its replies, and they are in order.
PingAt(s) ==
  /\ icmptab[s].state = "FREE" => \A i \in PingPlace : ~icmptab[s].queue[i]
  /\ icmptab[s].state # "FREE" => Cardinality(Replies(s)) <= icmptab[s].count
  /\ icmptab[s].state # "FREE" /\ s \notin flooded => PingQueue(icmptab[s])
PingQueues == \A s \in PingSlot : PingAt(s)
-----------------------------------------------------------------------------
(* The types are kept.                                                     *)

\* The tables are finite parts of the numbers, and none is empty.
LEMMA SizeFacts ==
  /\ Slot \subseteq Nat /\ PingSlot \subseteq Nat /\ PingPlace \subseteq Nat /\ Entry \subseteq Nat
  /\ 0 \in Slot /\ 0 \in PingSlot /\ 0 \in PingPlace /\ 0 \in Entry
  /\ UDP_SLOTS \in Nat \ {0} /\ UDP_QSIZ \in Nat \ {0} /\ ICMP_SLOTS \in Nat \ {0}
  /\ ICMP_QSIZ \in Nat \ {0} /\ ICMP_QSIZ <= ICMP_SLOTS
  /\ ARP_SIZ \in Nat \ {0} /\ ARP_RETRY \in Nat \ {0} /\ IP_OQSIZ \in Nat \ {0}
  /\ PingPlace \subseteq 0 .. ICMP_SLOTS-1
  /\ Me \in Addr /\ Bcast \in Addr /\ NoAddr \in Addr /\ Local \subseteq Addr
  /\ "netin" \in Proc /\ "ipout" \in Proc /\ Client \subseteq Proc
BY NetSizes DEF Slot, PingSlot, PingPlace, Entry, Proc

\* There are finitely many processes, and nobody is none of them.
LEMMA ProcFacts ==
  /\ IsFiniteSet(Proc) /\ "nobody" \notin Proc
  /\ "netin" \notin Client /\ "ipout" \notin Client
<1>1. IsFiniteSet(Client) /\ Client \cap {"netin", "ipout", "nobody"} = {}
  BY NetSizes
<1>2. IsFiniteSet(Client \cup {"netin"})
  BY <1>1, FS_AddElement
<1>3. IsFiniteSet((Client \cup {"netin"}) \cup {"ipout"})
  BY <1>2, FS_AddElement
<1>4. Proc = (Client \cup {"netin"}) \cup {"ipout"}
  BY DEF Proc
<1> QED BY <1>1, <1>3, <1>4

\* What endpoints, entries and frames are set to at first has their types.
LEMMA RecordFacts ==
  /\ NoPkt \in Packet
  /\ \A at \in Place : Doing(at) \in Frame
  /\ FreeEndpoint \in Endpoint /\ FreePing \in PingEndpoint /\ NoEntry \in CacheEntry
<1>1. NoPkt \in Packet
  BY SizeFacts DEF NoPkt, Packet
<1>2. FreeEndpoint \in Endpoint
  <2>1. <<>> \in Seq(Packet)
    BY EmptySeq
  <2> QED BY <2>1, SizeFacts DEF FreeEndpoint, Endpoint
<1>3. FreePing \in PingEndpoint
  <2>1. [i \in PingPlace |-> FALSE] \in [PingPlace -> BOOLEAN]
    OBVIOUS
  <2>2. 0 \in 0 .. ICMP_SLOTS-1
    BY SizeFacts
  <2> QED BY <2>1, <2>2, SizeFacts DEF FreePing, PingEndpoint
<1>4. NoEntry \in CacheEntry
  BY SizeFacts DEF NoEntry, CacheEntry
<1>5. \A at \in Place : Doing(at) \in Frame
  BY <1>1, SizeFacts DEF Doing, Frame
<1> QED BY <1>1, <1>2, <1>3, <1>4, <1>5

\* A process that begins a call.
LEMMA DoingFacts ==
  ASSUME NEW at
  PROVE  /\ Doing(at).at = at /\ Doing(at).slot = 0
         /\ (at \notin {"udp_recv", "icmp_recv", "udp_sendto"} => SlotOK(Doing(at)))
BY DEF Doing, SlotOK

\* A process that is in no call.
LEMMA RestFacts ==
  ASSUME NEW p
  PROVE  /\ Rest(p) \in Frame /\ SlotOK(Rest(p)) /\ Rest(p).at \in {"getbuf", "wait", "user"}
         /\ (p = "ipout" => Rest(p).at = "wait")
<1>1. PICK at \in {"getbuf", "wait", "user"} : Rest(p) = Doing(at) /\ (p = "ipout" => at = "wait")
  BY DEF Rest
<1>2. at \in Place
  BY DEF Place
<1> QED BY <1>1, <1>2, RecordFacts, DoingFacts

\* One process moves.
LEMMA FrameStep ==
  ASSUME FrameTypes, NEW p, NEW f \in Frame, SlotOK(f), frame' = [frame EXCEPT ![p] = f]
  PROVE  FrameTypes'
BY DEF FrameTypes

\* A call returns.
LEMMA FrameReturn ==
  ASSUME FrameTypes, NEW p, Return(p)
  PROVE  FrameTypes'
BY RestFacts, FrameStep DEF Return

\* send leaves a message or nothing.
LEMMA SendTypes ==
  ASSUME MessageTypes, NEW p, NEW m \in {"OK", "pid"}, Send(p, m)
  PROVE  MessageTypes'
BY DEF MessageTypes, Send

\* A message is received or thrown away, or nothing happens to messages.
LEMMA ReceiveTypes ==
  ASSUME MessageTypes, NEW p \in Proc, RecvtimeCleared(p) \/ Received(p) \/ NoMessages
  PROVE  MessageTypes'
BY DEF MessageTypes, RecvtimeCleared, Received, NoMessages

\* The first of some slots is one of them.
LEMMA UnusedFacts ==
  /\ \A S \in SUBSET Slot : S # {} => Min(S) \in S
  /\ \A S \in SUBSET PingSlot : S # {} => Min(S) \in S
  /\ \A S \in SUBSET Entry : S # {} => Min(S) \in S
BY SizeFacts, MinOfNats

\* udp_in frees the packet, or stores it at an endpoint that it matches and that has room.
LEMMA UdpInCases ==
  ASSUME NEW pkt, NEW n, UdpIn(pkt, n)
  PROVE  \/ free' = n + 1 /\ UNCHANGED udptab /\ NoMessages
         \/ \E s \in Slot :
              /\ Matches(udptab[s], pkt) /\ Len(udptab[s].queue) < UDP_QSIZ
              /\ udptab' = [udptab EXCEPT ![s].queue = Append(@, pkt),
                                          ![s].state = IF @ = "RECV" THEN "USED" ELSE @]
              /\ IF udptab[s].state = "RECV" THEN Send(udptab[s].pid, "OK") ELSE NoMessages
              /\ free' = n
<1>1. PICK F : F = {s \in Slot : Matches(udptab[s], pkt) /\ Len(udptab[s].queue) < UDP_QSIZ}
  OBVIOUS
<1>2. CASE F = {}
  BY <1>1, <1>2 DEF UdpIn
<1>3. CASE F # {}
  <2>1. PICK s : s = Min(F)
    OBVIOUS
  <2>2. s \in F
    <3>1. F \in SUBSET Slot
      BY <1>1
    <3> QED BY <1>3, <2>1, <3>1, UnusedFacts
  <2>3. s \in Slot /\ Matches(udptab[s], pkt) /\ Len(udptab[s].queue) < UDP_QSIZ
    BY <1>1, <2>2
  <2>4. /\ udptab' = [udptab EXCEPT ![s].queue = Append(@, pkt),
                                    ![s].state = IF @ = "RECV" THEN "USED" ELSE @]
        /\ IF udptab[s].state = "RECV" THEN Send(udptab[s].pid, "OK") ELSE NoMessages
        /\ free' = n
    BY <1>1, <1>3, <2>1 DEF UdpIn
  <2> QED BY <2>3, <2>4
<1> QED BY <1>2, <1>3

\* udp_register and icmp_register fill an endpoint that is free.
LEMMA UdpRegisterCase ==
  ASSUME NEW c, NEW r, UdpRegister(c, r)
  PROVE  \E s \in Slot :
           /\ udptab[s].state = "FREE"
           /\ udptab' = [udptab EXCEPT ![s] =
                [FreeEndpoint EXCEPT !.state = "USED", !.remip = r.remip,
                                     !.remport = r.remport, !.locport = r.locport]]
<1>1. PICK U : U = {s \in Slot : udptab[s].state = "FREE"}
  OBVIOUS
<1>2. PICK s : s = Min(U)
  OBVIOUS
<1>3. U # {} /\ U \in SUBSET Slot
  BY <1>1 DEF UdpRegister
<1>4. s \in U
  BY <1>2, <1>3, UnusedFacts
<1>5. s \in Slot /\ udptab[s].state = "FREE"
  BY <1>1, <1>4
<1>6. udptab' = [udptab EXCEPT ![s] =
        [FreeEndpoint EXCEPT !.state = "USED", !.remip = r.remip,
                             !.remport = r.remport, !.locport = r.locport]]
  BY <1>1, <1>2 DEF UdpRegister
<1> QED BY <1>5, <1>6

LEMMA IcmpRegisterCase ==
  ASSUME NEW c, NEW ip, IcmpRegister(c, ip)
  PROVE  \E s \in PingSlot :
           /\ icmptab[s].state = "FREE"
           /\ icmptab' = [icmptab EXCEPT ![s] =
                [FreePing EXCEPT !.state = "USED", !.remip = ip, !.user = c]]
<1>1. PICK U : U = {s \in PingSlot : icmptab[s].state = "FREE"}
  OBVIOUS
<1>2. PICK s : s = Min(U)
  OBVIOUS
<1>3. U # {} /\ U \in SUBSET PingSlot
  BY <1>1 DEF IcmpRegister
<1>4. s \in U
  BY <1>2, <1>3, UnusedFacts
<1>5. s \in PingSlot /\ icmptab[s].state = "FREE"
  BY <1>1, <1>4
<1>6. icmptab' = [icmptab EXCEPT ![s] =
        [FreePing EXCEPT !.state = "USED", !.remip = ip, !.user = c]]
  BY <1>1, <1>2 DEF IcmpRegister
<1> QED BY <1>5, <1>6

\* udp_in stores packets, wakes processes and frees buffers.
LEMMA UdpInTypes ==
  ASSUME UdpTypes, MessageTypes, NEW pkt \in Packet, NEW n \in Nat, UdpIn(pkt, n)
  PROVE  UdpTypes' /\ MessageTypes' /\ free' \in Nat
<1>1. CASE free' = n + 1 /\ UNCHANGED udptab /\ NoMessages
  BY <1>1 DEF NoMessages, UdpTypes, MessageTypes
<1>2. ASSUME NEW s \in Slot,
             udptab' = [udptab EXCEPT ![s].queue = Append(@, pkt),
                                      ![s].state = IF @ = "RECV" THEN "USED" ELSE @],
             IF udptab[s].state = "RECV" THEN Send(udptab[s].pid, "OK") ELSE NoMessages,
             free' = n
      PROVE  UdpTypes' /\ MessageTypes' /\ free' \in Nat
  <2>3. MessageTypes'
    BY <1>2, SendTypes DEF NoMessages, MessageTypes
  <2>4. udptab[s] \in Endpoint
    BY DEF UdpTypes
  <2>5. Append(udptab[s].queue, pkt) \in Seq(Packet)
    BY <2>4 DEF Endpoint
  <2>6. UdpTypes'
    BY <1>2, <2>4, <2>5 DEF UdpTypes, Endpoint
  <2> QED BY <1>2, <2>3, <2>6
<1> QED BY <1>1, <1>2, UdpInCases

\* The writer of a ping endpoint wraps inside its array.
LEMMA SuccessorFacts ==
  ASSUME NEW i \in PingPlace
  PROVE  Successor(i, ICMP_QSIZ) \in PingPlace
BY SizeFacts DEF Successor, PingPlace

\* The lesser of two numbers.
LEMMA MinOfTwo ==
  ASSUME NEW a \in Nat, NEW b \in Nat
  PROVE  Min({a, b}) = IF a <= b THEN a ELSE b
<1>1. Min({a, b}) \in {a, b} /\ \A n \in {a, b} : Min({a, b}) <= n
  BY MinOfNats
<1> QED BY <1>1

\* What icmp_in changes of the endpoint that gets a reply.
Replied(e) ==
  [e EXCEPT !.count = @ + 1, !.queue[e.tail] = TRUE,
            !.tail = Successor(@, ICMP_QSIZ),
            !.given = Min({@ + 1, ICMP_QSIZ + 1}),
            !.state = IF @ = "RECV" THEN "USED" ELSE @]

\* An endpoint that has got a reply, field by field.
LEMMA ReplyStored ==
  ASSUME NEW e \in PingEndpoint
  PROVE  LET r == Replied(e)
         IN  /\ r \in PingEndpoint
             /\ r.count = e.count + 1 /\ r.tail = Successor(e.tail, ICMP_QSIZ)
             /\ r.given = (IF e.given <= ICMP_QSIZ THEN e.given + 1 ELSE ICMP_QSIZ + 1)
             /\ r.state = (IF e.state = "RECV" THEN "USED" ELSE e.state)
             /\ r.head = e.head /\ r.user = e.user /\ r.pid = e.pid /\ r.remip = e.remip
             /\ r.queue = [e.queue EXCEPT ![e.tail] = TRUE]
<1> DEFINE r == Replied(e)
<1>1. /\ e.tail \in PingPlace /\ e.given \in Nat /\ e.count \in Int
      /\ e.queue \in [PingPlace -> BOOLEAN]
  BY DEF PingEndpoint
<1>2. Successor(e.tail, ICMP_QSIZ) \in PingPlace
  BY <1>1, SuccessorFacts
<1>3. Min({e.given + 1, ICMP_QSIZ + 1}) = IF e.given <= ICMP_QSIZ THEN e.given + 1 ELSE ICMP_QSIZ + 1
  BY <1>1, SizeFacts, MinOfTwo
<1>4. PICK q : q = [e.queue EXCEPT ![e.tail] = TRUE]
  OBVIOUS
<1>5. q \in [PingPlace -> BOOLEAN]
  BY <1>1, <1>4
<1>6. PICK g : g = Min({e.given + 1, ICMP_QSIZ + 1})
  OBVIOUS
<1>7. g \in Nat
  BY <1>1, <1>3, <1>6, SizeFacts
<1>8. PICK t \in PingPlace : t = Successor(e.tail, ICMP_QSIZ)
  BY <1>2
<1>z. PICK st \in {"FREE", "USED", "RECV"} : st = IF e.state = "RECV" THEN "USED" ELSE e.state
  BY DEF PingEndpoint
<1>y. PICK k \in Int : k = e.count + 1
  BY <1>1
<1>9. r = [e EXCEPT !.count = k, !.queue = q, !.tail = t, !.given = g, !.state = st]
  BY <1>4, <1>6, <1>8, <1>z, <1>y DEF PingEndpoint, Replied
<1> HIDE DEF r
<1>10. r \in PingEndpoint
  BY <1>5, <1>7, <1>9 DEF PingEndpoint
<1>11. /\ r.count = e.count + 1 /\ r.tail = t /\ r.given = g
       /\ r.state = (IF e.state = "RECV" THEN "USED" ELSE e.state)
       /\ r.head = e.head /\ r.user = e.user /\ r.pid = e.pid /\ r.remip = e.remip
       /\ r.queue = q
  BY <1>9, <1>y, <1>z DEF PingEndpoint
<1> QED BY <1>3, <1>4, <1>6, <1>8, <1>10, <1>11 DEF r

\* icmp_in stores replies, wakes processes and frees buffers.
LEMMA IcmpReplyTypes ==
  ASSUME PingTypes, MessageTypes, NEW pkt \in Packet, NEW n \in Nat, IcmpReply(pkt, n)
  PROVE  PingTypes' /\ MessageTypes' /\ free' \in Nat
<1> DEFINE s == pkt.dport
           e == icmptab[s]
           r == Replied(e)
<1>1. CASE s >= ICMP_SLOTS \/ e.state = "FREE" \/ e.remip # pkt.src
  BY <1>1 DEF IcmpReply, NoMessages, PingTypes, MessageTypes, pingVars
<1>2. CASE ~(s >= ICMP_SLOTS \/ e.state = "FREE" \/ e.remip # pkt.src)
  <2>1. s \in PingSlot
    BY <1>2, SizeFacts DEF Packet, PingSlot
  <2>2. e \in PingEndpoint
    BY <2>1 DEF PingTypes
  <2>3. r \in PingEndpoint
    BY <2>2, ReplyStored
  <2>4. /\ icmptab' = [icmptab EXCEPT ![s] = r]
        /\ IF e.state = "RECV" THEN Send(e.pid, "OK") ELSE NoMessages
        /\ flooded' = IF e.given >= ICMP_QSIZ THEN flooded \cup {s} ELSE flooded
        /\ leaked' = IF e.queue[e.tail] THEN leaked + 1 ELSE leaked
        /\ free' = n
    BY <1>2 DEF IcmpReply, Replied
  <2> HIDE DEF s, e, r
  <2>5. MessageTypes'
    BY <2>4, SendTypes DEF NoMessages, MessageTypes
  <2>6. flooded' \subseteq PingSlot /\ leaked' \in Nat
    BY <2>1, <2>4 DEF PingTypes
  <2>7. icmptab' \in [PingSlot -> PingEndpoint]
    BY <2>1, <2>3, <2>4 DEF PingTypes
  <2> QED BY <2>4, <2>5, <2>6, <2>7 DEF PingTypes
<1> QED BY <1>1, <1>2

\* The reader of a ping endpoint wraps at ICMP_SLOTS.
LEMMA SuccHead ==
  ASSUME NEW h \in Int, NEW k \in Int
  PROVE  (h + k) % ICMP_SLOTS \in 0 .. ICMP_SLOTS-1
BY SizeFacts

\* What a reader takes off an endpoint, if it is there.
Taken(e, k) == {(e.head + i) % ICMP_SLOTS : i \in 0 .. k-1}
\* What icmp_recv and icmp_release make of an endpoint that they take k packets off.
TakenOff(e, k, state) ==
  [e EXCEPT !.state = state, !.count = @ - k, !.head = (@ + k) % ICMP_SLOTS,
            !.queue = [i \in PingPlace |-> @[i] /\ i \notin Taken(e, k)]]

\* Packets are taken off a ping endpoint if they are there, and recorded as missing if
\* not.
LEMMA IcmpDequeueCases ==
  ASSUME NEW c, NEW s, NEW k, NEW state, IcmpDequeue(c, s, k, state)
  PROVE  \/ /\ Taken(icmptab[s], k) \subseteq Replies(s) /\ Cardinality(Taken(icmptab[s], k)) = k
            /\ icmptab' = [icmptab EXCEPT ![s] = TakenOff(icmptab[s], k, state)]
            /\ free' = free + k /\ UNCHANGED emptied
         \/ /\ ~(/\ Taken(icmptab[s], k) \subseteq Replies(s)
                 /\ Cardinality(Taken(icmptab[s], k)) = k)
            /\ emptied' = emptied \cup {<<c, "icmp", s>>} /\ UNCHANGED <<icmptab, free>>
BY DEF IcmpDequeue, Taken, TakenOff, Replies

\* A ping endpoint that packets were taken off, field by field.
LEMMA TakenOffFacts ==
  ASSUME NEW e \in PingEndpoint, NEW k \in Int, NEW state \in {"FREE", "USED"}
  PROVE  LET r == TakenOff(e, k, state)
         IN  /\ r \in PingEndpoint
             /\ r.state = state /\ r.count = e.count - k /\ r.head = (e.head + k) % ICMP_SLOTS
             /\ r.tail = e.tail /\ r.given = e.given /\ r.user = e.user /\ r.pid = e.pid
             /\ r.queue = [i \in PingPlace |-> e.queue[i] /\ i \notin Taken(e, k)]
<1> DEFINE r == TakenOff(e, k, state)
<1>1. e.head \in Int /\ e.count \in Int
  BY SizeFacts DEF PingEndpoint
<1>2. PICK h \in 0 .. ICMP_SLOTS-1 : h = (e.head + k) % ICMP_SLOTS
  BY <1>1, SuccHead
<1>3. PICK q \in [PingPlace -> BOOLEAN] :
        q = [i \in PingPlace |-> e.queue[i] /\ i \notin Taken(e, k)]
  BY Zenon
<1>4. PICK m \in Int : m = e.count - k
  BY <1>1
<1>5. r = [e EXCEPT !.state = state, !.count = m, !.head = h, !.queue = q]
  BY <1>2, <1>3, <1>4, Zenon DEF TakenOff, PingEndpoint
<1> HIDE DEF r
<1>6. r \in PingEndpoint
  BY <1>5 DEF PingEndpoint
<1>7. /\ r.state = state /\ r.count = m /\ r.head = h /\ r.queue = q
      /\ r.tail = e.tail /\ r.given = e.given /\ r.user = e.user /\ r.pid = e.pid
  BY <1>5 DEF PingEndpoint
<1> QED BY <1>2, <1>3, <1>4, <1>6, <1>7 DEF r

\* The replies stored in a ping endpoint can be counted.
LEMMA RepliesFinite ==
  ASSUME NEW s
  PROVE  IsFiniteSet(Replies(s)) /\ Cardinality(Replies(s)) \in Nat
<1>1. IsFiniteSet(PingPlace)
  BY SizeFacts, FS_Interval DEF PingPlace
<1>2. Replies(s) \in SUBSET PingPlace
  BY DEF Replies
<1> QED BY <1>1, <1>2, FS_Subset, FS_CardinalityType

\* Taking packets off a ping endpoint.
LEMMA IcmpDequeueTypes ==
  ASSUME PingTypes, free \in Nat, NEW c, NEW s \in PingSlot, NEW k \in Int,
         NEW state \in {"FREE", "USED"}, IcmpDequeue(c, s, k, state), UNCHANGED <<flooded, leaked>>
  PROVE  PingTypes' /\ free' \in Nat
<1>1. icmptab[s] \in PingEndpoint
  BY DEF PingTypes
<1>2. TakenOff(icmptab[s], k, state) \in PingEndpoint
  BY <1>1, TakenOffFacts
<1>3. CASE /\ Taken(icmptab[s], k) \subseteq Replies(s) /\ Cardinality(Taken(icmptab[s], k)) = k
           /\ icmptab' = [icmptab EXCEPT ![s] = TakenOff(icmptab[s], k, state)]
           /\ free' = free + k /\ UNCHANGED emptied
  <2>1. IsFiniteSet(Taken(icmptab[s], k))
    BY <1>3, RepliesFinite, FS_Subset
  <2>2. k \in Nat
    BY <1>3, <2>1, FS_CardinalityType
  <2> QED BY <1>2, <1>3, <2>2 DEF PingTypes
<1>4. CASE UNCHANGED <<icmptab, free>>
  BY <1>4 DEF PingTypes
<1> QED BY <1>3, <1>4, IcmpDequeueCases

\* What the way of a packet through the stack changes.
StackTypes ==
  /\ UdpTypes /\ PingTypes /\ ArpTypes /\ FrameTypes /\ MessageTypes
  /\ robbed \subseteq Proc /\ misaddressed \subseteq Proc

\* The process that answers a ping holds a packet.
LEMMA AnswerTypes ==
  ASSUME FrameTypes, NEW p \in Proc, NEW pkt \in Packet, Answer(p, pkt)
  PROVE  FrameTypes'
<1> DEFINE a == [pkt EXCEPT !.proto = "reply", !.src = Me, !.dst = pkt.src]
           f == [Doing("icmp_mkpkt") EXCEPT !.pkt = a]
<1>1. a \in Packet
  BY SizeFacts DEF Packet
<1> HIDE DEF a
<1>2. f \in Frame /\ SlotOK(f)
  BY <1>1, RecordFacts, DoingFacts DEF Frame, Place, SlotOK
<1>3. frame' = [frame EXCEPT ![p] = f]
  BY DEF Answer, a
<1> QED BY <1>2, <1>3, FrameStep

\* A packet is handed to its protocol.
LEMMA IpLocalTypes ==
  ASSUME UdpTypes, PingTypes, FrameTypes, MessageTypes,
         NEW p \in Proc, NEW pkt \in Packet, NEW n \in Nat, IpLocal(p, pkt, n)
  PROVE  UdpTypes' /\ PingTypes' /\ FrameTypes' /\ MessageTypes' /\ free' \in Nat
<1>1. CASE UdpIn(pkt, n) /\ Return(p) /\ UNCHANGED pingVars
  BY <1>1, UdpInTypes, FrameReturn DEF pingVars, PingTypes
<1>2. CASE IcmpReply(pkt, n) /\ Return(p) /\ UNCHANGED udptab
  BY <1>2, IcmpReplyTypes, FrameReturn DEF UdpTypes
<1>3. CASE Answer(p, pkt) /\ free' = n /\ NoMessages /\ UNCHANGED <<udptab, pingVars>>
  BY <1>3, AnswerTypes DEF pingVars, PingTypes, UdpTypes, NoMessages, MessageTypes
<1>4. CASE free' = n + 1 /\ Return(p) /\ NoMessages /\ UNCHANGED <<udptab, pingVars>>
  BY <1>4, FrameReturn DEF pingVars, PingTypes, UdpTypes, NoMessages, MessageTypes
<1> QED BY <1>1, <1>2, <1>3, <1>4 DEF IpLocal

\* arp_alloc never picks an entry that is pending.
LEMMA AllocFacts ==
  ASSUME ArpAlloc # {}
  PROVE  Min(ArpAlloc) \in Entry /\ arpcache[Min(ArpAlloc)].state \in {"FREE", "RESOLVED"}
<1>1. ArpAlloc \subseteq Entry /\ \A e \in ArpAlloc : arpcache[e].state \in {"FREE", "RESOLVED"}
  BY DEF ArpAlloc, InState
<1> QED BY <1>1, SizeFacts, MinOfNats

\* The entry and the frame of a process that asks for an address.
PendingEntry(p, hop) == [NoEntry EXCEPT !.state = "PENDING", !.ip = hop, !.pid = p]
\* The frame of a process that has asked for an address.
AskFrame(e, hop, pkt) ==
  [Doing("arp") EXCEPT !.entry = e, !.pkt = [pkt EXCEPT !.dst = hop], !.tries = 1]

\* What arp_resolve leaves when it asks: the entry, field by field, and the frame.
LEMMA PendingFacts ==
  ASSUME NEW p \in Proc, NEW hop \in Addr, NEW e \in Entry, NEW pkt \in Packet
  PROVE  LET r == PendingEntry(p, hop)
             f == AskFrame(e, hop, pkt)
         IN  /\ r \in CacheEntry /\ r.state = "PENDING" /\ r.ip = hop /\ r.pid = p
             /\ r.mac = NoAddr
             /\ f \in Frame /\ f.at = "arp" /\ f.entry = e /\ f.pkt.dst = hop /\ SlotOK(f)
<1> DEFINE d == [pkt EXCEPT !.dst = hop]
<1>1. d \in Packet /\ d.dst = hop
  BY DEF Packet
<1> HIDE DEF d
<1>2. LET f == [Doing("arp") EXCEPT !.entry = e, !.pkt = d, !.tries = 1]
      IN  f \in Frame /\ f.at = "arp" /\ f.entry = e /\ f.pkt = d /\ SlotOK(f)
  BY <1>1 DEF Doing, Frame, Place, SlotOK
<1>3. LET r == [NoEntry EXCEPT !.state = "PENDING", !.ip = hop, !.pid = p]
      IN  r \in CacheEntry /\ r.state = "PENDING" /\ r.ip = hop /\ r.pid = p /\ r.mac = NoAddr
  BY RecordFacts DEF NoEntry, CacheEntry
<1> QED BY <1>1, <1>2, <1>3 DEF d, PendingEntry, AskFrame

\* arp_resolve fills entries, waits and returns.
LEMMA ArpResolveTypes ==
  ASSUME ArpTypes, FrameTypes, MessageTypes, robbed \subseteq Proc, misaddressed \subseteq Proc,
         NEW p \in Proc, NEW hop \in Addr, NEW pkt \in Packet, NEW n \in Nat,
         ArpResolve(p, hop, pkt, n)
  PROVE  /\ ArpTypes' /\ FrameTypes' /\ MessageTypes' /\ robbed' \subseteq Proc
         /\ misaddressed' \subseteq Proc /\ free' \in Nat
<1>1. CASE /\ \E e \in Cached(hop) : IpOut(p, hop, arpcache[e].mac, n)
           /\ Return(p) /\ NoMessages /\ UNCHANGED <<arpcache, robbed>>
  BY <1>1, FrameReturn DEF NoMessages, MessageTypes, ArpTypes, IpOut
<1>2. CASE free' = n + 1 /\ Return(p) /\ NoMessages /\ UNCHANGED <<arpcache, robbed, misaddressed>>
  BY <1>2, FrameReturn DEF NoMessages, MessageTypes, ArpTypes
<1>3. CASE /\ Cached(hop) = {} /\ ArpAlloc # {}
           /\ LET e == Min(ArpAlloc)
              IN /\ arpcache' = [arpcache EXCEPT ![e] =
                      [NoEntry EXCEPT !.state = "PENDING", !.ip = hop, !.pid = p]]
                 /\ Rob(e)
                 /\ frame' = [frame EXCEPT ![p] =
                      [Doing("arp") EXCEPT !.entry = e, !.pkt = [pkt EXCEPT !.dst = hop], !.tries = 1]]
           /\ RecvtimeCleared(p)
           /\ free' = n /\ UNCHANGED misaddressed
  <2>1. PICK e \in Entry : e = Min(ArpAlloc)
    BY <1>3, AllocFacts
  <2>2. PICK r \in CacheEntry : r = PendingEntry(p, hop)
    BY PendingFacts
  <2>3. PICK f \in Frame : f = AskFrame(e, hop, pkt) /\ SlotOK(f)
    BY PendingFacts
  <2>4. arpcache' = [arpcache EXCEPT ![e] = r] /\ Rob(e) /\ frame' = [frame EXCEPT ![p] = f]
    BY <1>3, <2>1, <2>2, <2>3, Zenon DEF PendingEntry, AskFrame
  <2>5. ArpTypes'
    BY <2>4 DEF ArpTypes
  <2>6. FrameTypes'
    BY <2>3, <2>4, FrameStep
  <2>7. MessageTypes'
    BY <1>3, ReceiveTypes
  <2> QED BY <1>3, <2>4, <2>5, <2>6, <2>7 DEF Rob
<1> QED BY <1>1, <1>2, <1>3 DEF ArpResolve

\* ip_send goes any of its ways.
LEMMA IpSendTypes ==
  ASSUME load \in Loads, StackTypes,
         NEW p \in Proc, NEW pkt \in Packet, NEW n \in Nat, IpSend(p, pkt, n)
  PROVE  StackTypes' /\ free' \in Nat
<1> USE DEF StackTypes
<1>1. CASE IpLocal(p, pkt, n) /\ UNCHANGED <<arpcache, robbed, misaddressed>>
  BY <1>1, IpLocalTypes DEF ArpTypes
<1>2. CASE /\ IpOut(p, Bcast, Bcast, n)
           /\ Return(p) /\ NoMessages /\ UNCHANGED <<udptab, pingVars, arpcache, robbed>>
  BY <1>2, FrameReturn DEF NoMessages, MessageTypes, ArpTypes, UdpTypes, PingTypes, pingVars, IpOut
<1>3. CASE NoRoute(p, n)
  BY <1>3, FrameReturn DEF NoMessages, MessageTypes, ArpTypes, UdpTypes, PingTypes, pingVars, NoRoute
<1>4. CASE /\ ArpResolve(p, NextHop(pkt.dst), pkt, n)
           /\ UNCHANGED <<udptab, pingVars>>
  <2>1. NextHop(pkt.dst) \in Addr
    BY NetSizes DEF NextHop, Load, Packet
  <2> QED BY <1>4, <2>1, ArpResolveTypes DEF UdpTypes, PingTypes, pingVars
<1> QED BY <1>1, <1>2, <1>3, <1>4 DEF IpSend

\* Types that a step keeps because it leaves the variables alone.
LEMMA SameTypes ==
  /\ UdpTypes /\ UNCHANGED udptab => UdpTypes'
  /\ PingTypes /\ UNCHANGED pingVars => PingTypes'
  /\ ArpTypes /\ UNCHANGED arpcache => ArpTypes'
  /\ MessageTypes /\ NoMessages => MessageTypes'
  /\ FrameTypes /\ UNCHANGED frame => FrameTypes'
BY DEF UdpTypes, PingTypes, pingVars, ArpTypes, MessageTypes, NoMessages, FrameTypes

\* A process that sends gets its buffer or waits for it.
LEMMA SendOrWaitTypes ==
  ASSUME load \in Loads, StackTypes, free \in Nat, NEW c \in Proc, NEW pkt \in Packet,
         NEW f \in Frame, SlotOK(f), SendOrWait(c, pkt, f)
  PROVE  StackTypes' /\ free' \in Nat
<1>1. CASE free > 0 /\ IpSend(c, pkt, free - 1)
  BY <1>1, IpSendTypes
<1>2. CASE /\ frame' = [frame EXCEPT ![c] = f]
           /\ NoMessages /\ UNCHANGED <<udptab, pingVars, arpcache, free, robbed, misaddressed>>
  BY <1>2, FrameStep, SameTypes DEF StackTypes
<1> QED BY <1>1, <1>2 DEF SendOrWait

\* The frames of processes that wait, field by field.
LEMMA WaitingFrames ==
  /\ \A pkt \in Packet, s \in Slot : LET f == [Doing("udp_sendto") EXCEPT !.slot = s, !.pkt = pkt]
                     IN f \in Frame /\ f.at = "udp_sendto" /\ f.slot = s /\ f.pkt = pkt /\ SlotOK(f)
  /\ \A pkt \in Packet : LET f == [Doing("send") EXCEPT !.pkt = pkt]
                         IN f \in Frame /\ f.at = "send" /\ f.pkt = pkt /\ SlotOK(f)
  /\ \A s \in Slot : LET f == [Doing("udp_recv") EXCEPT !.slot = s]
                     IN f \in Frame /\ f.at = "udp_recv" /\ f.slot = s /\ SlotOK(f)
  /\ \A s \in PingSlot : LET f == [Doing("icmp_recv") EXCEPT !.slot = s]
                         IN f \in Frame /\ f.at = "icmp_recv" /\ f.slot = s /\ SlotOK(f)
  /\ Doing("read") \in Frame /\ Doing("read").at = "read" /\ SlotOK(Doing("read"))
<1>1. ASSUME NEW at \in Place PROVE Doing(at) \in Frame /\ Doing(at).at = at
  BY <1>1, RecordFacts DEF Doing
<1>3. ASSUME NEW pkt \in Packet, NEW d \in Frame, d.at = "send", NEW f, f = [d EXCEPT !.pkt = pkt]
      PROVE  f \in Frame /\ f.at = "send" /\ f.pkt = pkt /\ SlotOK(f)
  BY <1>3 DEF Frame, SlotOK
<1>4. ASSUME NEW s \in Slot, NEW d \in Frame, d.at = "udp_recv", NEW f, f = [d EXCEPT !.slot = s]
      PROVE  f \in Frame /\ f.at = "udp_recv" /\ f.slot = s /\ SlotOK(f)
  BY <1>4, SizeFacts DEF Frame, SlotOK
<1>5. ASSUME NEW s \in PingSlot, NEW d \in Frame, d.at = "icmp_recv", NEW f, f = [d EXCEPT !.slot = s]
      PROVE  f \in Frame /\ f.at = "icmp_recv" /\ f.slot = s /\ SlotOK(f)
  BY <1>5, SizeFacts DEF Frame, SlotOK
<1>6. {"udp_sendto", "send", "udp_recv", "icmp_recv", "read"} \subseteq Place
  BY DEF Place
<1>7. SlotOK(Doing("read"))
  BY <1>1, <1>6 DEF SlotOK
<1>8. \A pkt \in Packet, s \in Slot :
        LET f == [Doing("udp_sendto") EXCEPT !.slot = s, !.pkt = pkt]
        IN f \in Frame /\ f.at = "udp_sendto" /\ f.slot = s /\ f.pkt = pkt /\ SlotOK(f)
  <2>1. PICK d \in Frame : d = Doing("udp_sendto") /\ d.at = "udp_sendto"
    BY <1>1, <1>6
  <2> SUFFICES ASSUME NEW pkt \in Packet, NEW s \in Slot, NEW f, f = [d EXCEPT !.slot = s, !.pkt = pkt]
               PROVE  f \in Frame /\ f.at = "udp_sendto" /\ f.slot = s /\ f.pkt = pkt /\ SlotOK(f)
    BY <2>1
  <2>2. f.at = "udp_sendto" /\ f.slot = s /\ f.pkt = pkt
    BY <2>1 DEF Frame
  <2>3. f \in Frame
    BY <2>1, SizeFacts DEF Frame
  <2> QED BY <2>2, <2>3 DEF SlotOK
<1>9. \A pkt \in Packet : LET f == [Doing("send") EXCEPT !.pkt = pkt]
                          IN f \in Frame /\ f.at = "send" /\ f.pkt = pkt /\ SlotOK(f)
  BY <1>1, <1>3, <1>6
<1>10. \A s \in Slot : LET f == [Doing("udp_recv") EXCEPT !.slot = s]
                       IN f \in Frame /\ f.at = "udp_recv" /\ f.slot = s /\ SlotOK(f)
  BY <1>1, <1>4, <1>6
<1>11. \A s \in PingSlot : LET f == [Doing("icmp_recv") EXCEPT !.slot = s]
                           IN f \in Frame /\ f.at = "icmp_recv" /\ f.slot = s /\ SlotOK(f)
  BY <1>1, <1>5, <1>6
<1>12. Doing("read") \in Frame /\ Doing("read").at = "read"
  BY <1>1, <1>6
<1> QED BY <1>7, <1>8, <1>9, <1>10, <1>11, <1>12

\* The frame of ipout when it has a permit.
LEMMA PermitFrame ==
  Doing("dequeue") \in Frame /\ Doing("dequeue").at = "dequeue" /\ SlotOK(Doing("dequeue"))
<1>1. "dequeue" \in Place
  BY DEF Place
<1> QED BY <1>1, RecordFacts, DoingFacts

\* What a client sends is a packet.
LEMMA UdpPacketTypes ==
  ASSUME UdpTypes, NEW s \in Slot, NEW ip \in Addr, NEW port \in Nat
  PROVE  UdpPacket(s, ip, port) \in Packet /\ UdpPacket(s, ip, port).dst = ip
BY SizeFacts DEF UdpPacket, Packet, UdpTypes, Endpoint

\* The history of what the clients and netin do to each other.
LEMMA ShareFacts ==
  ASSUME HistTypes, NEW c, NEW s \in Slot, Share(c, s)
  PROVE  shared' \subseteq Slot /\ shared \subseteq shared'
BY DEF Share, HistTypes

\* A packet is taken off a UDP endpoint.
LEMMA DequeueTypes ==
  ASSUME UdpTypes, free \in Nat, NEW c, NEW s \in Slot, Dequeue(c, s)
  PROVE  UdpTypes' /\ free' \in Nat
<1>1. CASE UNCHANGED <<udptab, free>>
  BY <1>1 DEF UdpTypes
<1>2. CASE /\ udptab[s].queue # <<>>
           /\ udptab' = [udptab EXCEPT ![s].state = "USED", ![s].queue = Tail(@)]
           /\ free' = free + 1
  <2>1. udptab[s] \in Endpoint /\ udptab[s].queue \in Seq(Packet)
    BY DEF UdpTypes, Endpoint
  <2>2. Tail(udptab[s].queue) \in Seq(Packet)
    BY <1>2, <2>1
  <2>3. PICK u \in Endpoint, q \in Seq(Packet) : u = udptab[s] /\ q = Tail(udptab[s].queue)
    BY <2>1, <2>2
  <2>4. [u EXCEPT !.state = "USED", !.queue = q] \in Endpoint
    BY DEF Endpoint
  <2>5. PICK r \in Endpoint : r = [u EXCEPT !.state = "USED", !.queue = q]
    BY <2>4
  <2>6. udptab' = [udptab EXCEPT ![s] = r]
    <3>1. DOMAIN udptab = Slot /\ DOMAIN u = {"state", "remip", "remport", "locport", "pid", "queue"}
      BY DEF UdpTypes, Endpoint
    <3>2. PICK w : w = [u EXCEPT !.state = "USED"]
      OBVIOUS
    <3>3. PICK h : h = [udptab EXCEPT ![s] = w]
      OBVIOUS
    <3>4. h[s] = w /\ w.queue = u.queue
      BY <3>1, <3>2, <3>3
    <3>5. udptab' = [h EXCEPT ![s].queue = Tail(@)]
      BY <1>2, <3>2, <3>3, <2>3
    <3>6. udptab' = [h EXCEPT ![s] = [w EXCEPT !.queue = q]]
      BY <3>4, <3>5, <2>3
    <3>7. r = [w EXCEPT !.queue = q]
      BY <3>1, <3>2, <2>5
    <3> QED BY <3>1, <3>3, <3>6, <3>7
  <2>7. UdpTypes'
    BY <2>6 DEF UdpTypes
  <2> QED BY <1>2, <2>7
<1> QED BY <1>1, <1>2 DEF Dequeue

\* A UDP endpoint is used, waited for or released.
LEMMA UdpStateTypes ==
  ASSUME UdpTypes, NEW s \in Slot, NEW state \in {"USED", "RECV"}, NEW c \in Proc,
         \/ udptab' = [udptab EXCEPT ![s].state = state]
         \/ udptab' = [udptab EXCEPT ![s].state = state, ![s].pid = c]
         \/ udptab' = [udptab EXCEPT ![s].queue = <<>>, ![s].state = "FREE"]
  PROVE  UdpTypes'
<1>1. <<>> \in Seq(Packet)
  BY EmptySeq
<1>2. PICK u \in Endpoint : u = udptab[s]
  BY DEF UdpTypes
<1>3. /\ [u EXCEPT !.state = state] \in Endpoint /\ [u EXCEPT !.state = state, !.pid = c] \in Endpoint
      /\ [u EXCEPT !.queue = <<>>, !.state = "FREE"] \in Endpoint
  BY <1>1 DEF Endpoint
<1>4. \/ udptab' = [udptab EXCEPT ![s] = [u EXCEPT !.state = state]]
      \/ udptab' = [udptab EXCEPT ![s] = [u EXCEPT !.state = state, !.pid = c]]
      \/ udptab' = [udptab EXCEPT ![s] = [u EXCEPT !.queue = <<>>, !.state = "FREE"]]
  BY <1>2
<1> QED BY <1>3, <1>4 DEF UdpTypes

\* A ping endpoint is used or waited for.
LEMMA PingStateTypes ==
  ASSUME PingTypes, NEW s \in PingSlot, NEW state \in {"USED", "RECV"}, NEW c \in Proc,
         UNCHANGED <<flooded, leaked>>,
         \/ icmptab' = [icmptab EXCEPT ![s].state = state]
         \/ icmptab' = [icmptab EXCEPT ![s].state = state, ![s].pid = c]
  PROVE  PingTypes'
<1>1. icmptab[s] \in PingEndpoint
  BY DEF PingTypes
<1>2. PICK e \in PingEndpoint : e = icmptab[s]
  BY <1>1
<1>3. [e EXCEPT !.state = state] \in PingEndpoint /\ [e EXCEPT !.state = state, !.pid = c] \in PingEndpoint
  BY DEF PingEndpoint
<1>4. \/ icmptab' = [icmptab EXCEPT ![s] = [e EXCEPT !.state = state]]
      \/ icmptab' = [icmptab EXCEPT ![s] = [e EXCEPT !.state = state, !.pid = c]]
  BY <1>2
<1> QED BY <1>3, <1>4 DEF PingTypes

\* A process moves, but not to where ipout has a permit and no packet yet.
Moves(p) == \E f : frame' = [frame EXCEPT ![p] = f] /\ f.at # "dequeue"

\* A call returns.
LEMMA ReturnMoves ==
  ASSUME NEW p, Return(p)
  PROVE  Moves(p)
<1>1. PICK f : f = Rest(p)
  OBVIOUS
<1>2. f.at # "dequeue"
  BY <1>1, RestFacts
<1> QED BY <1>1, <1>2 DEF Return, Moves

\* A process begins to wait for a buffer or for a packet.
LEMMA DoingMoves ==
  ASSUME NEW p, NEW at, at # "dequeue", NEW f, frame' = [frame EXCEPT ![p] = f],
         \/ \E s : f = [Doing(at) EXCEPT !.slot = s]
         \/ \E pkt : f = [Doing(at) EXCEPT !.pkt = pkt]
         \/ \E s, pkt : f = [Doing(at) EXCEPT !.slot = s, !.pkt = pkt]
         \/ \E e, pkt, n : f = [Doing(at) EXCEPT !.entry = e, !.pkt = pkt, !.tries = n]
  PROVE  Moves(p)
<1>1. f.at = at
  BY DEF Doing
<1> QED BY <1>1 DEF Moves

\* So moves whoever hands a packet to its protocol,
LEMMA IpLocalMoves ==
  ASSUME NEW p, NEW pkt, NEW n, IpLocal(p, pkt, n)
  PROVE  Moves(p)
<1>1. CASE Return(p)
  BY <1>1, ReturnMoves
<1>2. CASE Answer(p, pkt)
  <2>1. PICK a : a = [pkt EXCEPT !.proto = "reply", !.src = Me, !.dst = pkt.src]
    OBVIOUS
  <2>2. PICK f : f = [Doing("icmp_mkpkt") EXCEPT !.pkt = a]
    OBVIOUS
  <2>3. frame' = [frame EXCEPT ![p] = f]
    BY <1>2, <2>1, <2>2 DEF Answer
  <2> QED BY <2>2, <2>3, DoingMoves
<1> QED BY <1>1, <1>2 DEF IpLocal

\* whoever sends one,
LEMMA IpSendMoves ==
  ASSUME NEW p, NEW pkt, NEW n, IpSend(p, pkt, n)
  PROVE  Moves(p)
<1>1. CASE Return(p)
  BY <1>1, ReturnMoves
<1>2. CASE IpLocal(p, pkt, n)
  BY <1>2, IpLocalMoves
<1>3. CASE ArpResolve(p, NextHop(pkt.dst), pkt, n)
  <2>1. PICK d : d = [pkt EXCEPT !.dst = NextHop(pkt.dst)]
    OBVIOUS
  <2>2. CASE ~Return(p)
    <3>1. PICK e : frame' = [frame EXCEPT ![p] =
                     [Doing("arp") EXCEPT !.entry = e, !.pkt = d, !.tries = 1]]
      BY <1>3, <2>1, <2>2 DEF ArpResolve
    <3>2. PICK f : f = [Doing("arp") EXCEPT !.entry = e, !.pkt = d, !.tries = 1]
      OBVIOUS
    <3> QED BY <3>1, <3>2, DoingMoves
  <2> QED BY <2>2, ReturnMoves
<1> QED BY <1>1, <1>2, <1>3 DEF IpSend, NoRoute

\* and a client that may have to wait for a buffer to send one.
LEMMA SendOrWaitMoves ==
  ASSUME NEW p, NEW pkt, NEW f, SendOrWait(p, pkt, f), f.at # "dequeue"
  PROVE  Moves(p)
BY IpSendMoves DEF SendOrWait, Moves

\* The ring is as it was if it is left alone, and nobody moves or somebody else than ipout
\* between its permit and its packet.
LEMMA RingKept ==
  ASSUME FrameTypes, RingInv, UNCHANGED ipoqueue,
         \/ UNCHANGED frame
         \/ \E p : Moves(p) /\ ~(p = "ipout" /\ frame[p].at = "dequeue")
  PROVE  RingInv'
<1>1. frame'["ipout"].at = "dequeue" <=> frame["ipout"].at = "dequeue"
  BY SizeFacts DEF Moves, FrameTypes
<1>2. Unpermitted' = Unpermitted
  BY <1>1 DEF Unpermitted
<1> QED BY <1>1, <1>2 DEF RingInv

\* The steps of a client leave frames alone or move it so.
LEMMA ClientMoves ==
  ASSUME NEW c,
         \/ \E r \in load.endpoints : UdpRegister(c, r)
         \/ \E s \in Slot :
              \/ UdpRecv(c, s) \/ UdpRelease(c, s) \/ UdpSend(c, s)
              \/ \E d \in load.dests : UdpSendto(c, s, d)
         \/ \E ip \in load.pings : IcmpRegister(c, ip)
         \/ \E s \in PingSlot : IcmpSend(c, s) \/ IcmpRecv(c, s) \/ IcmpRelease(c, s)
         \/ UdpRecvWoken(c) \/ IcmpRecvWoken(c) \/ SendWoken(c) \/ UdpSendtoWoken(c)
         \/ ChildExits(c)
  PROVE  UNCHANGED frame \/ Moves(c)
<1>1. CASE UNCHANGED frame
  BY <1>1
<1>2. CASE Return(c)
  BY <1>2, ReturnMoves
<1>3. ASSUME NEW s, UdpRecv(c, s) \/ IcmpRecv(c, s), ~UNCHANGED frame PROVE Moves(c)
  <2>1. PICK at \in {"udp_recv", "icmp_recv"} : frame' = [frame EXCEPT ![c] = [Doing(at) EXCEPT !.slot = s]]
    BY <1>3 DEF UdpRecv, IcmpRecv
  <2>2. PICK f : f = [Doing(at) EXCEPT !.slot = s]
    OBVIOUS
  <2> QED BY <2>1, <2>2, DoingMoves
<1>4. ASSUME NEW s, UdpSend(c, s) \/ IcmpSend(c, s) PROVE Moves(c)
  <2>1. PICK pkt, f : SendOrWait(c, pkt, f) /\ f = [Doing("send") EXCEPT !.pkt = pkt]
    BY <1>4 DEF UdpSend, IcmpSend
  <2>2. f.at # "dequeue"
    BY <2>1 DEF Doing
  <2> QED BY <2>1, <2>2, SendOrWaitMoves
<1>5. ASSUME NEW s, NEW d, UdpSendto(c, s, d) PROVE Moves(c)
  <2>1. PICK pkt, f : SendOrWait(c, pkt, f) /\ f = [Doing("udp_sendto") EXCEPT !.slot = s, !.pkt = pkt]
    BY <1>5 DEF UdpSendto
  <2>2. f.at # "dequeue"
    BY <2>1 DEF Doing
  <2> QED BY <2>1, <2>2, SendOrWaitMoves
<1>6. CASE SendWoken(c) \/ UdpSendtoWoken(c)
  <2>1. PICK pkt : IpSend(c, pkt, free - 1)
    BY <1>6 DEF SendWoken, UdpSendtoWoken
  <2> QED BY <2>1, IpSendMoves
<1>7. ASSUME NEW s, UdpRelease(c, s) \/ IcmpRelease(c, s) PROVE UNCHANGED frame
  BY <1>7 DEF UdpRelease, IcmpRelease
<1>8. CASE \/ \E r \in load.endpoints : UdpRegister(c, r)
           \/ \E ip \in load.pings : IcmpRegister(c, ip)
           \/ ChildExits(c)
  BY <1>8 DEF UdpRegister, IcmpRegister, ChildExits
<1>9. CASE UdpRecvWoken(c) \/ IcmpRecvWoken(c)
  BY <1>2, <1>9 DEF UdpRecvWoken, IcmpRecvWoken
<1> QED BY <1>1, <1>3, <1>4, <1>5, <1>6, <1>7, <1>8, <1>9

\* Types are kept by what the clients do,
LEMMA ClientStepTypes ==
  ASSUME NetTypes, NEW c \in Client, 
         \/ \E r \in load.endpoints : UdpRegister(c, r)
         \/ \E s \in Slot :
              \/ UdpRecv(c, s) \/ UdpRelease(c, s) \/ UdpSend(c, s)
              \/ \E d \in load.dests : UdpSendto(c, s, d)
         \/ \E ip \in load.pings : IcmpRegister(c, ip)
         \/ \E s \in PingSlot : IcmpSend(c, s) \/ IcmpRecv(c, s) \/ IcmpRelease(c, s)
         \/ UdpRecvWoken(c) \/ IcmpRecvWoken(c) \/ SendWoken(c) \/ UdpSendtoWoken(c)
         \/ ChildExits(c)
  PROVE  NetTypes'
<1>0. /\ load \in Loads /\ UdpTypes /\ PingTypes /\ ArpTypes /\ ipoqueue \in Seq(Packet)
      /\ free \in Nat /\ FrameTypes /\ MessageTypes /\ HistTypes /\ StackTypes
      /\ c \in Proc /\ load \in Load
  BY NetSizes, SizeFacts DEF NetTypes, StackTypes, HistTypes
<1> SUFFICES /\ load' = load /\ UdpTypes' /\ PingTypes' /\ ArpTypes' /\ ipoqueue' = ipoqueue
             /\ free' \in Nat /\ FrameTypes' /\ MessageTypes' /\ HistTypes'
  <2>1. UNCHANGED frame \/ Moves(c)
    BY ClientMoves
  <2>2. c # "ipout" /\ RingInv
    BY ProcFacts DEF NetTypes
  <2>3. UNCHANGED ipoqueue => RingInv'
    BY <1>0, <2>1, <2>2, RingKept
  <2> QED BY <1>0, <2>3 DEF NetTypes
<1>1. ASSUME NEW r \in load.endpoints, UdpRegister(c, r)
      PROVE  /\ load' = load /\ UdpTypes' /\ PingTypes' /\ ArpTypes' /\ ipoqueue' = ipoqueue
             /\ free' \in Nat /\ FrameTypes' /\ MessageTypes' /\ HistTypes'
  <2>1. r \in [remip : Addr, remport : Nat, locport : Nat]
    BY <1>0, <1>1 DEF Load
  <2>2. PICK s \in Slot : udptab' = [udptab EXCEPT ![s] =
             [FreeEndpoint EXCEPT !.state = "USED", !.remip = r.remip,
                                  !.remport = r.remport, !.locport = r.locport]]
    BY <1>1, UdpRegisterCase
  <2>3. [FreeEndpoint EXCEPT !.state = "USED", !.remip = r.remip,
                             !.remport = r.remport, !.locport = r.locport] \in Endpoint
    BY <2>1, RecordFacts DEF Endpoint
  <2>4. UdpTypes'
    BY <1>0, <2>2, <2>3 DEF UdpTypes
  <2> QED BY <1>0, <1>1, <2>4, SameTypes DEF UdpRegister, histVars, HistTypes, NoMessages
<1>2. ASSUME NEW s \in Slot, UdpRecv(c, s)
      PROVE  /\ load' = load /\ UdpTypes' /\ PingTypes' /\ ArpTypes' /\ ipoqueue' = ipoqueue
             /\ free' \in Nat /\ FrameTypes' /\ MessageTypes' /\ HistTypes'
  <2>1. HistTypes'
    BY <1>0, <1>2, ShareFacts DEF UdpRecv, HistTypes
  <2>2. CASE Dequeue(c, s) /\ NoMessages /\ UNCHANGED frame
    BY <2>1, <2>2, <1>0, <1>2, DequeueTypes, SameTypes DEF UdpRecv
  <2>3. CASE /\ udptab' = [udptab EXCEPT ![s].state = "RECV", ![s].pid = c]
             /\ RecvtimeCleared(c)
             /\ frame' = [frame EXCEPT ![c] = [Doing("udp_recv") EXCEPT !.slot = s]]
             /\ UNCHANGED <<free, emptied>>
    <3>1. UdpTypes'
      BY <1>0, <2>3, UdpStateTypes
    <3>2. FrameTypes'
      BY <1>0, <2>3, FrameStep, WaitingFrames
    <3> QED BY <2>1, <2>3, <3>1, <3>2, <1>0, <1>2, ReceiveTypes, SameTypes DEF UdpRecv
  <2> QED BY <1>2, <2>2, <2>3 DEF UdpRecv
<1>3. ASSUME NEW s \in Slot, UdpRelease(c, s)
      PROVE  /\ load' = load /\ UdpTypes' /\ PingTypes' /\ ArpTypes' /\ ipoqueue' = ipoqueue
             /\ free' \in Nat /\ FrameTypes' /\ MessageTypes' /\ HistTypes'
  <2>1. HistTypes'
    BY <1>0, <1>3, ShareFacts DEF UdpRelease, HistTypes
  <2>2. UdpTypes'
    BY <1>0, <1>3, UdpStateTypes DEF UdpRelease
  <2>3. Len(udptab[s].queue) \in Nat
    BY <1>0, LenProperties DEF UdpTypes, Endpoint
  <2> QED BY <2>1, <2>2, <2>3, <1>0, <1>3, SameTypes DEF UdpRelease, NoMessages
<1>4. ASSUME NEW s \in Slot, UdpSend(c, s)
      PROVE  /\ load' = load /\ UdpTypes' /\ PingTypes' /\ ArpTypes' /\ ipoqueue' = ipoqueue
             /\ free' \in Nat /\ FrameTypes' /\ MessageTypes' /\ HistTypes'
  <2>1. PICK pkt \in Packet : pkt = UdpPacket(s, udptab[s].remip, udptab[s].remport)
    BY <1>0, UdpPacketTypes DEF UdpTypes, Endpoint
  <2>2. PICK f \in Frame : f = [Doing("send") EXCEPT !.pkt = pkt] /\ SlotOK(f)
    BY WaitingFrames
  <2>3. SendOrWait(c, pkt, f) /\ UNCHANGED <<ipoqueue, load, strays, strayed, shared, emptied>>
    BY <1>4, <2>1, <2>2 DEF UdpSend
  <2>4. StackTypes' /\ free' \in Nat
    BY <1>0, <2>2, <2>3, SendOrWaitTypes
  <2> QED BY <2>3, <2>4, <1>0 DEF StackTypes, HistTypes
<1>5. ASSUME NEW s \in Slot, NEW d \in load.dests, UdpSendto(c, s, d)
      PROVE  /\ load' = load /\ UdpTypes' /\ PingTypes' /\ ArpTypes' /\ ipoqueue' = ipoqueue
             /\ free' \in Nat /\ FrameTypes' /\ MessageTypes' /\ HistTypes'
  <2>0. d.ip \in Addr /\ d.port \in Nat
    BY <1>0, <1>5 DEF Load
  <2>1. PICK pkt \in Packet : pkt = UdpPacket(s, d.ip, d.port)
    BY <1>0, <2>0, UdpPacketTypes
  <2>2. PICK f \in Frame : f = [Doing("udp_sendto") EXCEPT !.slot = s, !.pkt = pkt] /\ SlotOK(f)
    BY WaitingFrames
  <2>3. SendOrWait(c, pkt, f) /\ UNCHANGED <<ipoqueue, load, strays, strayed, shared, emptied>>
    BY <1>5, <2>1, <2>2 DEF UdpSendto
  <2>4. StackTypes' /\ free' \in Nat
    BY <1>0, <2>2, <2>3, SendOrWaitTypes
  <2> QED BY <2>3, <2>4, <1>0 DEF StackTypes, HistTypes
<1>6. ASSUME NEW ip \in load.pings, IcmpRegister(c, ip)
      PROVE  /\ load' = load /\ UdpTypes' /\ PingTypes' /\ ArpTypes' /\ ipoqueue' = ipoqueue
             /\ free' \in Nat /\ FrameTypes' /\ MessageTypes' /\ HistTypes'
  <2>1. ip \in Addr
    BY <1>0, <1>6 DEF Load
  <2>2. PICK s \in PingSlot : icmptab' = [icmptab EXCEPT ![s] =
             [FreePing EXCEPT !.state = "USED", !.remip = ip, !.user = c]]
    BY <1>6, IcmpRegisterCase
  <2>3. PICK e \in PingEndpoint : e = FreePing
    BY RecordFacts
  <2>4. [e EXCEPT !.state = "USED", !.remip = ip, !.user = c] \in PingEndpoint
    BY <2>1 DEF PingEndpoint
  <2>5. PingTypes'
    BY <1>0, <1>6, <2>2, <2>3, <2>4 DEF PingTypes, IcmpRegister
  <2> QED BY <1>0, <1>6, <2>5, SameTypes DEF IcmpRegister, histVars, HistTypes, NoMessages
<1>7. ASSUME NEW s \in PingSlot, IcmpSend(c, s)
      PROVE  /\ load' = load /\ UdpTypes' /\ PingTypes' /\ ArpTypes' /\ ipoqueue' = ipoqueue
             /\ free' \in Nat /\ FrameTypes' /\ MessageTypes' /\ HistTypes'
  <2>0. icmptab[s].remip \in Addr /\ s \in Nat
    BY <1>0, SizeFacts DEF PingTypes, PingEndpoint
  <2>1. PICK pkt \in Packet :
          pkt = [NoPkt EXCEPT !.proto = "ping", !.src = Me, !.dst = icmptab[s].remip, !.dport = s]
    BY <2>0, RecordFacts, SizeFacts DEF Packet
  <2>2. PICK f \in Frame : f = [Doing("send") EXCEPT !.pkt = pkt] /\ SlotOK(f)
    BY WaitingFrames
  <2>3. SendOrWait(c, pkt, f) /\ UNCHANGED <<ipoqueue, load, strays, strayed, shared, emptied>>
    BY <1>7, <2>1, <2>2 DEF IcmpSend
  <2>4. StackTypes' /\ free' \in Nat
    BY <1>0, <2>2, <2>3, SendOrWaitTypes
  <2> QED BY <2>3, <2>4, <1>0 DEF StackTypes, HistTypes
<1>8. ASSUME NEW s \in PingSlot, IcmpRecv(c, s)
      PROVE  /\ load' = load /\ UdpTypes' /\ PingTypes' /\ ArpTypes' /\ ipoqueue' = ipoqueue
             /\ free' \in Nat /\ FrameTypes' /\ MessageTypes' /\ HistTypes'
  <2>1. HistTypes'
    BY <1>0, <1>8 DEF IcmpRecv, HistTypes
  <2>2. CASE IcmpDequeue(c, s, 1, "USED") /\ NoMessages /\ UNCHANGED frame
    BY <2>1, <2>2, <1>0, <1>8, IcmpDequeueTypes, SameTypes DEF IcmpRecv
  <2>3. CASE /\ icmptab' = [icmptab EXCEPT ![s].state = "RECV", ![s].pid = c]
             /\ RecvtimeCleared(c)
             /\ frame' = [frame EXCEPT ![c] = [Doing("icmp_recv") EXCEPT !.slot = s]]
             /\ UNCHANGED <<free, emptied>>
    <3>1. PingTypes'
      BY <1>0, <1>8, <2>3, PingStateTypes DEF IcmpRecv
    <3>2. FrameTypes'
      BY <1>0, <2>3, FrameStep, WaitingFrames
    <3> QED BY <2>1, <2>3, <3>1, <3>2, <1>0, <1>8, ReceiveTypes, SameTypes DEF IcmpRecv
  <2> QED BY <1>8, <2>2, <2>3 DEF IcmpRecv
<1>9. ASSUME NEW s \in PingSlot, IcmpRelease(c, s)
      PROVE  /\ load' = load /\ UdpTypes' /\ PingTypes' /\ ArpTypes' /\ ipoqueue' = ipoqueue
             /\ free' \in Nat /\ FrameTypes' /\ MessageTypes' /\ HistTypes'
  <2>1. icmptab[s].count \in Int
    BY <1>0 DEF PingTypes, PingEndpoint
  <2>2. PingTypes' /\ free' \in Nat
    BY <1>0, <1>9, <2>1, IcmpDequeueTypes DEF IcmpRelease
  <2> QED BY <1>0, <1>9, <2>2, SameTypes DEF IcmpRelease, NoMessages, HistTypes
<1>10. ASSUME UdpRecvWoken(c)
      PROVE  /\ load' = load /\ UdpTypes' /\ PingTypes' /\ ArpTypes' /\ ipoqueue' = ipoqueue
             /\ free' \in Nat /\ FrameTypes' /\ MessageTypes' /\ HistTypes'
  <2>1. frame[c].slot \in Slot
    BY <1>0, <1>10 DEF UdpRecvWoken, At, FrameTypes, SlotOK
  <2>2. UdpTypes' /\ free' \in Nat
    BY <1>0, <1>10, <2>1, DequeueTypes, UdpStateTypes DEF UdpRecvWoken
  <2>3. FrameTypes' /\ MessageTypes'
    BY <1>0, <1>10, FrameReturn, ReceiveTypes DEF UdpRecvWoken
  <2> QED BY <1>0, <1>10, <2>2, <2>3, SameTypes DEF UdpRecvWoken, HistTypes
<1>11. ASSUME IcmpRecvWoken(c)
      PROVE  /\ load' = load /\ UdpTypes' /\ PingTypes' /\ ArpTypes' /\ ipoqueue' = ipoqueue
             /\ free' \in Nat /\ FrameTypes' /\ MessageTypes' /\ HistTypes'
  <2>1. frame[c].slot \in PingSlot
    BY <1>0, <1>11 DEF IcmpRecvWoken, At, FrameTypes, SlotOK
  <2>2. PingTypes' /\ free' \in Nat
    <3>1. CASE IcmpDequeue(c, frame[c].slot, 1, "USED")
      BY <3>1, <1>0, <1>11, <2>1, IcmpDequeueTypes DEF IcmpRecvWoken
    <3>2. CASE icmptab' = [icmptab EXCEPT ![frame[c].slot].state = "USED"] /\ UNCHANGED free
      BY <3>2, <1>0, <1>11, <2>1, PingStateTypes DEF IcmpRecvWoken
    <3> QED BY <3>1, <3>2, <1>11 DEF IcmpRecvWoken
  <2>3. FrameTypes' /\ MessageTypes'
    BY <1>0, <1>11, FrameReturn, ReceiveTypes DEF IcmpRecvWoken
  <2> QED BY <1>0, <1>11, <2>2, <2>3, SameTypes DEF IcmpRecvWoken, HistTypes
<1>12. ASSUME SendWoken(c) \/ UdpSendtoWoken(c)
      PROVE  /\ load' = load /\ UdpTypes' /\ PingTypes' /\ ArpTypes' /\ ipoqueue' = ipoqueue
             /\ free' \in Nat /\ FrameTypes' /\ MessageTypes' /\ HistTypes'
  <2>0. frame[c] \in Frame /\ frame[c].pkt \in Packet /\ SlotOK(frame[c])
    BY <1>0 DEF FrameTypes, Frame
  <2>1. PICK pkt \in Packet : IpSend(c, pkt, free - 1) /\ free > 0
    <3>1. CASE SendWoken(c)
      BY <2>0, <3>1 DEF SendWoken
    <3>2. CASE UdpSendtoWoken(c)
      <4>1. frame[c].slot \in Slot
        BY <2>0, <3>2 DEF UdpSendtoWoken, At, SlotOK
      <4>2. udptab[frame[c].slot].locport \in Nat
        BY <4>1, <1>0 DEF UdpTypes, Endpoint
      <4>3. [frame[c].pkt EXCEPT !.sport = udptab[frame[c].slot].locport] \in Packet
        BY <4>2, <2>0 DEF Packet
      <4> QED BY <4>3, <3>2 DEF UdpSendtoWoken
    <3> QED BY <3>1, <3>2, <1>12
  <2>2. StackTypes' /\ free' \in Nat
    BY <1>0, <2>1, IpSendTypes
  <2> QED BY <1>0, <1>12, <2>2 DEF StackTypes, SendWoken, UdpSendtoWoken, HistTypes
<1>13. ASSUME ChildExits(c)
      PROVE  /\ load' = load /\ UdpTypes' /\ PingTypes' /\ ArpTypes' /\ ipoqueue' = ipoqueue
             /\ free' \in Nat /\ FrameTypes' /\ MessageTypes' /\ HistTypes'
  BY <1>0, <1>13, SendTypes, SameTypes DEF ChildExits, tabVars, HistTypes
<1> QED
  BY <1>1, <1>2, <1>3, <1>4, <1>5, <1>6, <1>7, <1>8, <1>9, <1>10, <1>11, <1>12, <1>13

\* by what is done when a wait for ARP is over,
LEMMA ArpWokenTypes ==
  ASSUME NetTypes, NEW p \in Proc, ArpWoken(p)
  PROVE  /\ ArpTypes' /\ FrameTypes' /\ MessageTypes' /\ free' \in Nat
         /\ strayed' \subseteq Proc /\ misaddressed' \subseteq Proc
<1>0. /\ ArpTypes /\ FrameTypes /\ MessageTypes /\ free \in Nat
      /\ strayed \subseteq Proc /\ misaddressed \subseteq Proc
  BY DEF NetTypes, HistTypes
<1>1. frame[p] \in Frame /\ SlotOK(frame[p])
  BY <1>0 DEF FrameTypes
<1>2. PICK f \in Frame : f = frame[p]
  BY <1>1
<1>3. CASE /\ frame' = [frame EXCEPT ![p].tries = @ + 1]
           /\ RecvtimeCleared(p)
           /\ UNCHANGED <<arpcache, free, misaddressed, strayed>>
  <2>1. PICK g : g = [f EXCEPT !.tries = f.tries + 1]
    OBVIOUS
  <2>2. g \in Frame /\ g.at = f.at /\ g.slot = f.slot
    BY <2>1 DEF Frame
  <2>3. SlotOK(g)
    BY <1>1, <1>2, <2>2 DEF SlotOK
  <2>4. frame' = [frame EXCEPT ![p] = g]
    BY <1>2, <1>3, <2>1
  <2> QED BY <1>0, <1>3, <2>2, <2>3, <2>4, FrameStep, ReceiveTypes, SameTypes
<1>4. CASE /\ GiveUp(p) /\ free' = free + 1
           /\ Return(p) /\ NoMessages /\ UNCHANGED <<misaddressed, strayed>>
  <2>1. frame[p].entry \in Entry
    BY <1>1 DEF Frame
  <2>2. ArpTypes'
    BY <1>0, <1>4, <2>1 DEF GiveUp, ArpTypes, CacheEntry
  <2> QED BY <1>0, <1>4, <2>2, FrameReturn, SameTypes
<1>5. CASE /\ IpOut(p, frame[p].pkt.dst, arpcache[frame[p].entry].mac, free)
           /\ strayed' = IF prmsg[p] = "pid" THEN strayed \cup {p} ELSE strayed
           /\ Received(p) /\ Return(p) /\ UNCHANGED arpcache
  BY <1>0, <1>5, FrameReturn, ReceiveTypes, SameTypes DEF IpOut
<1> QED BY <1>3, <1>4, <1>5 DEF ArpWoken

\* by what arp_in does,
LEMMA ArpInTypes ==
  ASSUME ArpTypes, MessageTypes, robbed \subseteq Proc, NEW a, a.sndpa \in Addr, ArpIn(a)
  PROVE  ArpTypes' /\ MessageTypes' /\ robbed' \subseteq Proc
<1>1. CASE Cached(a.sndpa) # {}
  <2>1. PICK e \in Entry : e = Min(Cached(a.sndpa))
    BY <1>1, UnusedFacts DEF Cached
  <2>2. /\ arpcache' = [arpcache EXCEPT ![e].mac = a.sndpa, ![e].state = "RESOLVED"]
        /\ IF arpcache[e].state = "PENDING" THEN Send(arpcache[e].pid, "OK") ELSE NoMessages
        /\ UNCHANGED robbed
    BY <1>1, <2>1 DEF ArpIn
  <2>3. ArpTypes'
    <3>1. PICK d \in CacheEntry : d = arpcache[e]
      BY DEF ArpTypes
    <3>2. [[d EXCEPT !.mac = a.sndpa] EXCEPT !.state = "RESOLVED"] \in CacheEntry
      BY DEF CacheEntry
    <3>3. /\ arpcache'[e] = [[d EXCEPT !.mac = a.sndpa] EXCEPT !.state = "RESOLVED"]
          /\ \A c \in Entry \ {e} : arpcache'[c] = arpcache[c]
      BY <2>2, <3>1 DEF ArpTypes
    <3> QED BY <2>2, <3>2, <3>3 DEF ArpTypes
  <2> QED BY <2>2, <2>3, SendTypes, SameTypes
<1>2. CASE NoMessages /\ UNCHANGED <<arpcache, robbed>>
  BY <1>2, SameTypes
<1>3. CASE /\ NoMessages /\ ArpAlloc # {}
           /\ arpcache' = [arpcache EXCEPT ![Min(ArpAlloc)] =
                             [NoEntry EXCEPT !.state = "RESOLVED", !.ip = a.sndpa, !.mac = a.sndpa]]
           /\ Rob(Min(ArpAlloc))
  <2>1. PICK e \in Entry : e = Min(ArpAlloc)
    BY <1>3, AllocFacts
  <2>2. [NoEntry EXCEPT !.state = "RESOLVED", !.ip = a.sndpa, !.mac = a.sndpa] \in CacheEntry
    BY RecordFacts DEF CacheEntry
  <2>3. ArpTypes'
    BY <1>3, <2>1, <2>2 DEF ArpTypes
  <2> QED BY <1>3, <2>3, SameTypes DEF Rob
<1> QED BY <1>1, <1>2, <1>3 DEF ArpIn

\* by the answer to a ping, which is queued if there is room,
LEMMA IcmpAnswerRing ==
  ASSUME FrameTypes, RingInv, ipoqueue \in Seq(Packet), NEW p \in Proc, IcmpAnswer(p)
  PROVE  RingInv'
<1>1. Moves(p) /\ frame[p].at = "icmp_mkpkt" /\ frame[p].pkt \in Packet
  BY ReturnMoves DEF IcmpAnswer, At, FrameTypes, Frame
<1>2. CASE UNCHANGED ipoqueue
  BY <1>1, <1>2, RingKept
<1>3. CASE ~OutputFull /\ ipoqueue' = Append(ipoqueue, frame[p].pkt)
  <2>1. frame'["ipout"].at = "dequeue" <=> frame["ipout"].at = "dequeue"
    BY <1>1, SizeFacts DEF Moves, FrameTypes
  <2>2. PICK k \in Nat : k = Len(ipoqueue) /\ Len(ipoqueue') = k + 1 /\ ipoqueue' # <<>>
    BY <1>1, <1>3, AppendProperties, LenProperties
  <2>3. PICK h \in {0, 1} : h = IF frame["ipout"].at = "dequeue" THEN 1 ELSE 0
    OBVIOUS
  <2>4. Unpermitted = k - h /\ Unpermitted' = k + 1 - h
    BY <2>1, <2>2, <2>3 DEF Unpermitted
  <2>5. Unpermitted' <= IP_OQSIZ
    BY <1>3, <2>4, SizeFacts DEF OutputFull
  <2> QED BY <2>2, <2>5 DEF RingInv
<1> QED BY <1>2, <1>3 DEF IcmpAnswer

\* by ipout when it gets its permit,
LEMMA IpoutWaitRing ==
  ASSUME FrameTypes, RingInv, ipoqueue \in Seq(Packet), IpoutWait
  PROVE  RingInv'
<1>1. /\ frame["ipout"].at = "wait" /\ ipoqueue # <<>> /\ ipoqueue' = ipoqueue
      /\ frame'["ipout"].at = "dequeue"
  BY SizeFacts, DoingFacts DEF IpoutWait, At, FrameTypes, tabVars
<1>2. PICK k \in Nat : k = Len(ipoqueue)
  BY LenProperties
<1>3. Unpermitted = k /\ Unpermitted' = k - 1
  BY <1>1, <1>2 DEF Unpermitted
<1>4. Unpermitted' <= IP_OQSIZ
  BY <1>3, SizeFacts DEF RingInv
<1> QED BY <1>1, <1>4 DEF RingInv

\* and when it takes the packet,
LEMMA IpoutRing ==
  ASSUME FrameTypes, RingInv, ipoqueue \in Seq(Packet), Ipout
  PROVE  RingInv'
<1>1. Moves("ipout")
  BY IpSendMoves, ReturnMoves DEF Ipout, NoRoute
<1>2. frame["ipout"].at = "dequeue" /\ frame'["ipout"].at # "dequeue"
  BY <1>1, SizeFacts DEF Ipout, At, Moves, FrameTypes
<1>3. PICK k \in Nat : k = Len(ipoqueue) /\ Len(ipoqueue') = k - 1
  BY <1>2, HeadTailProperties, LenProperties DEF RingInv, Ipout
<1>4. Unpermitted = k - 1 /\ Unpermitted' = k - 1
  BY <1>2, <1>3 DEF Unpermitted
<1> QED BY <1>2, <1>4 DEF RingInv

\* and by what the stack does.
LEMMA NetStepTypes ==
  ASSUME NetTypes, NetStep
  PROVE  NetTypes'
<1>0. /\ load \in Loads /\ UdpTypes /\ PingTypes /\ ArpTypes /\ ipoqueue \in Seq(Packet)
      /\ free \in Nat /\ FrameTypes /\ MessageTypes /\ HistTypes /\ StackTypes
      /\ load \in Load /\ "netin" \in Proc /\ "ipout" \in Proc /\ RingInv
  BY NetSizes, SizeFacts DEF NetTypes, StackTypes, HistTypes
<1> SUFFICES /\ load' = load /\ UdpTypes' /\ PingTypes' /\ ArpTypes' /\ ipoqueue' \in Seq(Packet)
             /\ free' \in Nat /\ FrameTypes' /\ MessageTypes' /\ HistTypes' /\ RingInv'
  BY <1>0 DEF NetTypes
<1>1. ASSUME NEW p \in Proc, Timeout(p)
      PROVE  /\ load' = load /\ UdpTypes' /\ PingTypes' /\ ArpTypes' /\ ipoqueue' \in Seq(Packet)
             /\ free' \in Nat /\ FrameTypes' /\ MessageTypes' /\ HistTypes' /\ RingInv'
  <2>1. MessageTypes'
    BY <1>0, <1>1 DEF Timeout, MessageTypes
  <2>2. RingInv'
    BY <1>0, <1>1, RingKept DEF Timeout, tabVars
  <2> QED BY <1>0, <1>1, <2>1, <2>2, SameTypes DEF Timeout, tabVars, histVars, HistTypes
<1>2. ASSUME NEW p \in Proc, ArpWoken(p)
      PROVE  /\ load' = load /\ UdpTypes' /\ PingTypes' /\ ArpTypes' /\ ipoqueue' \in Seq(Packet)
             /\ free' \in Nat /\ FrameTypes' /\ MessageTypes' /\ HistTypes' /\ RingInv'
  <2>1. UNCHANGED <<udptab, pingVars, ipoqueue, load, strays, robbed, shared, emptied>>
    BY <1>2 DEF ArpWoken
  <2>2. frame[p].at = "arp"
    BY <1>2 DEF ArpWoken, At
  <2>3. Moves(p)
    <3>1. CASE frame' = [frame EXCEPT ![p].tries = @ + 1]
      <4>1. PICK f : f = [frame[p] EXCEPT !.tries = @ + 1]
        OBVIOUS
      <4>2. frame' = [frame EXCEPT ![p] = f] /\ f.at = "arp"
        BY <1>0, <2>2, <3>1, <4>1 DEF FrameTypes, Frame
      <4> QED BY <4>2 DEF Moves
    <3> QED BY <1>2, <3>1, ReturnMoves DEF ArpWoken
  <2>4. RingInv'
    BY <1>0, <2>1, <2>2, <2>3, RingKept
  <2> QED BY <1>0, <1>2, <2>1, <2>4, ArpWokenTypes, SameTypes DEF HistTypes
<1>3. ASSUME NEW p \in Proc, IcmpAnswer(p)
      PROVE  /\ load' = load /\ UdpTypes' /\ PingTypes' /\ ArpTypes' /\ ipoqueue' \in Seq(Packet)
             /\ free' \in Nat /\ FrameTypes' /\ MessageTypes' /\ HistTypes' /\ RingInv'
  <2>1. frame[p].pkt \in Packet
    BY <1>0 DEF FrameTypes, Frame
  <2>2. ipoqueue' \in Seq(Packet) /\ free' \in Nat
    BY <1>0, <1>3, <2>1 DEF IcmpAnswer
  <2>3. RingInv'
    BY <1>0, <1>3, IcmpAnswerRing
  <2> QED BY <1>0, <1>3, <2>2, <2>3, FrameReturn, SameTypes DEF IcmpAnswer, histVars, HistTypes, NoMessages
<1>4. ASSUME NetinGetbuf
      PROVE  /\ load' = load /\ UdpTypes' /\ PingTypes' /\ ArpTypes' /\ ipoqueue' \in Seq(Packet)
             /\ free' \in Nat /\ FrameTypes' /\ MessageTypes' /\ HistTypes' /\ RingInv'
  <2>1. FrameTypes'
    BY <1>0, <1>4, FrameStep, WaitingFrames DEF NetinGetbuf
  <2>2. RingInv'
    <3>1. PICK f : f = Doing("read") /\ f.at # "dequeue"
      BY DoingFacts
    <3>2. Moves("netin")
      BY <1>4, <3>1 DEF NetinGetbuf, Moves
    <3> QED BY <1>0, <1>4, <3>2, RingKept DEF NetinGetbuf, tabVars
  <2> QED BY <1>0, <1>4, <2>1, <2>2, SameTypes DEF NetinGetbuf, tabVars, histVars, HistTypes, NoMessages
<1>5. ASSUME Ipout
      PROVE  /\ load' = load /\ UdpTypes' /\ PingTypes' /\ ArpTypes' /\ ipoqueue' \in Seq(Packet)
             /\ free' \in Nat /\ FrameTypes' /\ MessageTypes' /\ HistTypes' /\ RingInv'
  <2>1. ipoqueue # <<>> /\ Head(ipoqueue) \in Packet /\ Tail(ipoqueue) \in Seq(Packet)
    BY <1>0, <1>5 DEF Ipout, At, RingInv
  <2>2. StackTypes' /\ free' \in Nat
    <3>1. CASE NoRoute("ipout", free)
      BY <1>0, <3>1, FrameReturn, SameTypes DEF NoRoute, StackTypes
    <3>2. CASE IpSend("ipout", Head(ipoqueue), free)
      BY <1>0, <2>1, <3>2, IpSendTypes
    <3> QED BY <1>5, <3>1, <3>2 DEF Ipout
  <2>3. RingInv'
    BY <1>0, <1>5, IpoutRing
  <2> QED BY <1>0, <1>5, <2>1, <2>2, <2>3 DEF Ipout, StackTypes, HistTypes
<1>6. ASSUME NEW a \in load.arps, NetinArp(a)
      PROVE  /\ load' = load /\ UdpTypes' /\ PingTypes' /\ ArpTypes' /\ ipoqueue' \in Seq(Packet)
             /\ free' \in Nat /\ FrameTypes' /\ MessageTypes' /\ HistTypes' /\ RingInv'
  <2>1. a.sndpa \in Addr
    BY <1>0, <1>6 DEF Load
  <2>2. ArpTypes' /\ MessageTypes' /\ robbed' \subseteq Proc
    BY <1>0, <1>6, <2>1, ArpInTypes DEF NetinArp, HistTypes
  <2>3. RingInv'
    BY <1>0, <1>6, ReturnMoves, RingKept DEF NetinArp
  <2> QED BY <1>0, <1>6, <2>2, <2>3, FrameReturn, SameTypes DEF NetinArp, HistTypes
<1>7. ASSUME NEW pkt \in load.packets, NetinIp(pkt)
      PROVE  /\ load' = load /\ UdpTypes' /\ PingTypes' /\ ArpTypes' /\ ipoqueue' \in Seq(Packet)
             /\ free' \in Nat /\ FrameTypes' /\ MessageTypes' /\ HistTypes' /\ RingInv'
  <2>1. pkt \in Packet
    BY <1>0, <1>7 DEF Load
  <2>2. UdpTypes' /\ PingTypes' /\ FrameTypes' /\ MessageTypes' /\ free' \in Nat
    <3>1. CASE IpLocal("netin", pkt, free)
      BY <1>0, <2>1, <3>1, IpLocalTypes
    <3>2. CASE free' = free + 1 /\ Return("netin") /\ NoMessages /\ UNCHANGED <<udptab, pingVars>>
      BY <1>0, <3>2, FrameReturn, SameTypes
    <3> QED BY <1>7, <3>1, <3>2 DEF NetinIp
  <2>3. Moves("netin")
    BY <1>7, IpLocalMoves, ReturnMoves DEF NetinIp
  <2>4. RingInv'
    BY <1>0, <1>7, <2>3, RingKept DEF NetinIp
  <2> QED BY <1>0, <1>7, <2>2, <2>4, SameTypes DEF NetinIp, histVars, HistTypes
<1>8. ASSUME IpoutWait
      PROVE  /\ load' = load /\ UdpTypes' /\ PingTypes' /\ ArpTypes' /\ ipoqueue' \in Seq(Packet)
             /\ free' \in Nat /\ FrameTypes' /\ MessageTypes' /\ HistTypes' /\ RingInv'
  <2>1. FrameTypes'
    BY <1>0, <1>8, FrameStep, PermitFrame DEF IpoutWait
  <2>2. RingInv'
    BY <1>0, <1>8, IpoutWaitRing
  <2> QED BY <1>0, <1>8, <2>1, <2>2, SameTypes DEF IpoutWait, tabVars, histVars, HistTypes, NoMessages
<1> QED BY <1>1, <1>2, <1>3, <1>4, <1>5, <1>6, <1>7, <1>8 DEF NetStep

\* The types hold at first,
LEMMA NetTypesStart == NetInit => NetTypes
<1> SUFFICES ASSUME NetInit PROVE NetTypes
  OBVIOUS
<1>1. UdpTypes
  BY RecordFacts DEF NetInit, UdpTypes
<1>2. PingTypes
  BY RecordFacts DEF NetInit, PingTypes
<1>3. ArpTypes
  BY RecordFacts DEF NetInit, ArpTypes
<1>4. FrameTypes /\ MessageTypes
  BY RestFacts DEF NetInit, FrameTypes, MessageTypes
<1>5. free \in Nat
  <2>1. \A x, y \in Nat : x * y \in Nat
    OBVIOUS
  <2>2. UDP_SLOTS * UDP_QSIZ \in Nat /\ ICMP_SLOTS * ICMP_QSIZ \in Nat
    BY <2>1, SizeFacts
  <2> QED BY <2>2 DEF NetInit, NetBufs
<1>6. ipoqueue \in Seq(Packet)
  BY EmptySeq DEF NetInit
<1>7. RingInv
  <2>1. frame["ipout"].at = "wait"
    BY SizeFacts, RestFacts DEF NetInit
  <2>2. Len(ipoqueue) = 0
    BY EmptySeq DEF NetInit
  <2> QED BY <2>1, <2>2, SizeFacts DEF RingInv, Unpermitted
<1> QED BY <1>1, <1>2, <1>3, <1>4, <1>5, <1>6, <1>7 DEF NetInit, NetTypes, HistTypes

\* and every step keeps them.
LEMMA NetTypesStep ==
  ASSUME NetTypes, [NetNext]_netVars
  PROVE  NetTypes'
<1>1. CASE NetStep
  BY <1>1, NetStepTypes
<1>2. CASE ClientStep
  BY <1>2, ClientStepTypes DEF ClientStep
<1>3. CASE UNCHANGED netVars
  <2>1. RingInv'
    BY <1>3, RingKept DEF NetTypes, netVars, tabVars
  <2> QED BY <1>3, <2>1, SameTypes DEF NetTypes, HistTypes, netVars, tabVars, histVars, NoMessages
<1> QED BY <1>1, <1>2, <1>3 DEF NetNext
-----------------------------------------------------------------------------
(* What a step may tell the processes that wait for packets.               *)

\* A step leaves a UDP endpoint as it was, or puts a packet into it and tells the
\* process that is registered.
UdpKept(s) ==
  \/ udptab'[s] = udptab[s]
  \/ /\ udptab[s].state # "FREE" /\ udptab'[s].state = "USED"
     /\ udptab'[s].queue # <<>> /\ udptab'[s].pid = udptab[s].pid
     /\ udptab[s].state = "RECV" => udptab[s].pid \notin timing'
\* The same of a ping endpoint e that becomes r, while flooded becomes more.
PingGiven(s, e, r) ==
  /\ e.state # "FREE" /\ r.state = "USED" /\ r.pid = e.pid /\ r.user = e.user
  /\ r.count = e.count + 1 /\ r.head = e.head
  /\ r.tail = Successor(e.tail, ICMP_QSIZ)
  /\ r.given = (IF e.given <= ICMP_QSIZ THEN e.given + 1 ELSE ICMP_QSIZ + 1)
  /\ r.queue = [e.queue EXCEPT ![e.tail] = TRUE]
  /\ s \notin flooded' => e.given < ICMP_QSIZ
  /\ e.state = "RECV" => e.pid \notin timing'
\* What a step may do to a ping endpoint: nothing, or give it a reply.
PingKept(s) ==
  \/ icmptab'[s] = icmptab[s]
  \/ PingGiven(s, icmptab[s], icmptab'[s])

\* What a step may do to the messages of q: an answer, only if it is inside of the
\* call that the packet is for.
Heard(q) ==
  /\ q \in timing' => q \in timing /\ prmsg'[q] = prmsg[q]
  /\ \/ prmsg'[q] = prmsg[q]
     \/ prmsg'[q] = "pid"
     \/ /\ frame[q].at = "udp_recv" /\ udptab'[frame[q].slot].queue # <<>>
     \/ /\ frame[q].at = "icmp_recv" /\ icmptab'[frame[q].slot].count > 0

\* Who is sent a message waits no longer, and nobody else hears of it.
LEMMA SendHeard ==
  ASSUME MessageTypes, NEW p, NEW m, Send(p, m), NEW q \in Proc
  PROVE  /\ q # p => prmsg'[q] = prmsg[q]
         /\ prmsg'[q] \in {prmsg[q], m}
         /\ q \in timing' => q \in timing /\ prmsg'[q] = prmsg[q]
         /\ p \notin timing'
BY DEF Send, MessageTypes

\* Where no message is sent, nobody hears anything.
LEMMA QuietHeard ==
  ASSUME NoMessages
  PROVE  \A q \in Proc : Heard(q)
BY DEF NoMessages, Heard

\* udp_in tells the process that is registered, and it is in udp_recv.
LEMMA UdpInKeeps ==
  ASSUME UdpTypes, MessageTypes, UdpReceivers, NEW pkt \in Packet, NEW n, UdpIn(pkt, n)
  PROVE  /\ \A s \in Slot : UdpKept(s)
         /\ \A q \in Proc : Heard(q)
<1>1. CASE UNCHANGED udptab /\ NoMessages
  BY <1>1, QuietHeard DEF UdpKept
<1>2. ASSUME NEW s \in Slot, Matches(udptab[s], pkt),
             udptab' = [udptab EXCEPT ![s].queue = Append(@, pkt),
                                      ![s].state = IF @ = "RECV" THEN "USED" ELSE @],
             IF udptab[s].state = "RECV" THEN Send(udptab[s].pid, "OK") ELSE NoMessages
      PROVE  /\ \A t \in Slot : UdpKept(t)
             /\ \A q \in Proc : Heard(q)
  <2>3. udptab[s] \in Endpoint /\ udptab[s].queue \in Seq(Packet)
    BY DEF UdpTypes, Endpoint
  <2>4. Append(udptab[s].queue, pkt) # <<>>
    BY <2>3
  <2>5. /\ udptab'[s].queue = Append(udptab[s].queue, pkt)
        /\ udptab'[s].state = (IF udptab[s].state = "RECV" THEN "USED" ELSE udptab[s].state)
        /\ udptab'[s].pid = udptab[s].pid
        /\ \A t \in Slot \ {s} : udptab'[t] = udptab[t]
    BY <1>2, <2>3 DEF UdpTypes, Endpoint
  <2>6. udptab[s].state \in {"USED", "RECV"}
    BY <1>2, <2>3 DEF Matches, Endpoint
  <2>7. \A t \in Slot : UdpKept(t)
    BY <1>2, <2>4, <2>5, <2>6, SendHeard DEF UdpKept, Send
  <2>8. ASSUME NEW q \in Proc PROVE Heard(q)
    <3>1. CASE udptab[s].state # "RECV"
      BY <1>2, <3>1, QuietHeard
    <3>2. CASE udptab[s].state = "RECV"
      <4>1. frame[udptab[s].pid].at = "udp_recv" /\ frame[udptab[s].pid].slot = s
        BY <3>2 DEF UdpReceivers
      <4>2. Send(udptab[s].pid, "OK")
        BY <1>2, <3>2
      <4>3. /\ q \in timing' => q \in timing /\ prmsg'[q] = prmsg[q]
            /\ q # udptab[s].pid => prmsg'[q] = prmsg[q]
        BY <4>2, SendHeard
      <4> QED BY <4>1, <4>3, <2>4, <2>5 DEF Heard
    <3> QED BY <3>1, <3>2
  <2> QED BY <2>7, <2>8
<1> QED BY <1>1, <1>2, UdpInCases

\* An endpoint in use counts at least the replies stored in it.
LEMMA CountsNatural ==
  ASSUME PingTypes, PingQueues, NEW s \in PingSlot, icmptab[s].state # "FREE"
  PROVE  icmptab[s].count \in Nat
<1>1. icmptab[s].count \in Int
  BY DEF PingTypes, PingEndpoint
<1>2. Cardinality(Replies(s)) \in Nat /\ Cardinality(Replies(s)) <= icmptab[s].count
  BY RepliesFinite DEF PingQueues, PingAt
<1> QED BY <1>1, <1>2

\* icmp_in tells the process that is registered, and it is in icmp_recv.
LEMMA IcmpReplyKeeps ==
  ASSUME PingTypes, MessageTypes, PingReceivers, PingQueues,
         NEW pkt \in Packet, NEW n, IcmpReply(pkt, n)
  PROVE  /\ \A s \in PingSlot : PingKept(s)
         /\ \A q \in Proc : Heard(q)
         /\ flooded \subseteq flooded'
<1> DEFINE s == pkt.dport
           r == Replied(icmptab[s])
<1>1. CASE UNCHANGED pingVars /\ NoMessages
  BY <1>1, QuietHeard DEF pingVars, PingKept
<1>2. CASE /\ ~(s >= ICMP_SLOTS \/ icmptab[s].state = "FREE" \/ icmptab[s].remip # pkt.src)
           /\ icmptab' = [icmptab EXCEPT ![s] = r]
           /\ IF icmptab[s].state = "RECV" THEN Send(icmptab[s].pid, "OK") ELSE NoMessages
           /\ flooded' = IF icmptab[s].given >= ICMP_QSIZ THEN flooded \cup {s} ELSE flooded
  <2>1. s \in PingSlot
    BY <1>2, SizeFacts DEF Packet, PingSlot
  <2>2. PICK e \in PingEndpoint : e = icmptab[s]
    BY <2>1 DEF PingTypes
  <2>3. icmptab'[s] = r /\ \A t \in PingSlot \ {s} : icmptab'[t] = icmptab[t]
    BY <1>2, <2>1 DEF PingTypes
  <2>4. /\ r.count = e.count + 1 /\ r.tail = Successor(e.tail, ICMP_QSIZ)
        /\ r.given = (IF e.given <= ICMP_QSIZ THEN e.given + 1 ELSE ICMP_QSIZ + 1)
        /\ r.state = (IF e.state = "RECV" THEN "USED" ELSE e.state)
        /\ r.head = e.head /\ r.user = e.user /\ r.pid = e.pid /\ r.remip = e.remip
        /\ r.queue = [e.queue EXCEPT ![e.tail] = TRUE]
    BY <2>2, ReplyStored
  <2> HIDE DEF s, r
  <2>5. e.state \in {"USED", "RECV"} /\ r.state = "USED"
    BY <1>2, <2>2, <2>4 DEF PingEndpoint
  <2>6. e.count \in Nat /\ e.given \in Nat
    BY <2>1, <2>2, <2>5, CountsNatural DEF PingEndpoint
  <2>7. s \notin flooded' => e.given < ICMP_QSIZ
    BY <1>2, <2>2, <2>6, SizeFacts
  <2>8. e.state = "RECV" => e.pid \notin timing'
    BY <1>2, <2>2, SendHeard DEF Send
  <2>9. PingGiven(s, e, r)
    BY <2>4, <2>5, <2>7, <2>8 DEF PingGiven
  <2>10. \A t \in PingSlot : PingKept(t)
    BY <2>2, <2>3, <2>9 DEF PingKept
  <2>11. ASSUME NEW q \in Proc PROVE Heard(q)
    <3>1. CASE e.state # "RECV"
      BY <1>2, <2>2, <3>1, QuietHeard
    <3>2. CASE e.state = "RECV"
      <4>1. frame[e.pid].at = "icmp_recv" /\ frame[e.pid].slot = s
        BY <2>1, <2>2, <3>2 DEF PingReceivers
      <4>2. Send(e.pid, "OK")
        BY <1>2, <2>2, <3>2
      <4>3. /\ q \in timing' => q \in timing /\ prmsg'[q] = prmsg[q]
            /\ q # e.pid => prmsg'[q] = prmsg[q]
        BY <4>2, SendHeard
      <4>4. icmptab'[s].count > 0
        BY <2>3, <2>4, <2>6
      <4> QED BY <4>1, <4>3, <4>4 DEF Heard
    <3> QED BY <3>1, <3>2
  <2> QED BY <2>10, <2>11, <1>2
<1> QED BY <1>1, <1>2 DEF IcmpReply, Replied

\* Where the process is that carries a packet through the stack, afterwards.
Carried(p) ==
  /\ \A q \in Proc \ {p} : frame'[q] = frame[q]
  /\ frame'[p].at \in {"getbuf", "wait", "user", "dequeue", "icmp_mkpkt", "send", "udp_sendto",
                        "read"}

\* A process that returns goes where it waits for no packet.
LEMMA ReturnCarried ==
  ASSUME FrameTypes, NEW p \in Proc, Return(p)
  PROVE  Carried(p) /\ frame'[p].at \in {"getbuf", "wait", "user"}
BY RestFacts DEF Carried, FrameTypes, Return

\* The process that answers a ping goes to wait for a buffer.
LEMMA AnswerCarried ==
  ASSUME FrameTypes, NEW p \in Proc, NEW pkt \in Packet, Answer(p, pkt)
  PROVE  Carried(p) /\ frame'[p].at = "icmp_mkpkt"
BY DEF Carried, FrameTypes, Answer, Doing

\* The invariant, before anybody has taken a packet that was not there.
PacketInv ==
  NetTypes /\ Waiting /\ UdpReceivers /\ PingReceivers /\ ArpInv /\ UdpInv /\ PingUsers /\ PingQueues

\* What handing a packet on may do to the endpoints and to those who wait.
Delivered(p) ==
  /\ Carried(p)
  /\ \A s \in Slot : UdpKept(s)
  /\ \A s \in PingSlot : PingKept(s)
  /\ flooded \subseteq flooded'
  /\ \A q \in Proc : Heard(q)

\* Handing a packet to its protocol tells those who wait for it, and nobody else.
LEMMA IpLocalKeeps ==
  ASSUME PacketInv, NEW p \in Proc, NEW pkt \in Packet, NEW n, IpLocal(p, pkt, n)
  PROVE  Delivered(p)
<1>0. UdpTypes /\ PingTypes /\ MessageTypes /\ FrameTypes /\ UdpReceivers /\ PingReceivers /\ PingQueues
  BY DEF PacketInv, NetTypes
<1>1. CASE UdpIn(pkt, n) /\ Return(p) /\ UNCHANGED pingVars
  BY <1>0, <1>1, UdpInKeeps, ReturnCarried DEF pingVars, PingKept, Delivered
<1>2. CASE IcmpReply(pkt, n) /\ Return(p) /\ UNCHANGED udptab
  BY <1>0, <1>2, IcmpReplyKeeps, ReturnCarried DEF UdpKept, Delivered
<1>3. CASE Answer(p, pkt) /\ free' = n /\ NoMessages /\ UNCHANGED <<udptab, pingVars>>
  BY <1>0, <1>3, QuietHeard, AnswerCarried DEF UdpKept, PingKept, pingVars, Delivered
<1>4. CASE free' = n + 1 /\ Return(p) /\ NoMessages /\ UNCHANGED <<udptab, pingVars>>
  BY <1>0, <1>4, QuietHeard, ReturnCarried DEF UdpKept, PingKept, pingVars, Delivered
<1> QED BY <1>1, <1>2, <1>3, <1>4 DEF IpLocal

\* arp_resolve waits for an answer.
ArpAsks(p, hop, pkt) ==
  /\ Cached(hop) = {} /\ ArpAlloc # {}
  /\ arpcache' = [arpcache EXCEPT ![Min(ArpAlloc)] = PendingEntry(p, hop)]
  /\ Rob(Min(ArpAlloc))
  /\ frame' = [frame EXCEPT ![p] = AskFrame(Min(ArpAlloc), hop, pkt)]
  /\ RecvtimeCleared(p)
  /\ UNCHANGED <<udptab, pingVars, misaddressed>>

\* ip_send hands the packet on or drops it, or asks ARP.
LEMMA IpSendKeeps ==
  ASSUME PacketInv, NEW p \in Proc, NEW pkt \in Packet, NEW n, IpSend(p, pkt, n)
  PROVE  \/ Delivered(p) /\ UNCHANGED <<arpcache, robbed, misaddressed>>
         \/ \E hop \in Addr : ArpAsks(p, hop, pkt)
<1>0. MessageTypes /\ FrameTypes /\ load \in Loads
  BY DEF PacketInv, NetTypes
<1>a. ASSUME Return(p), NoMessages, UNCHANGED <<udptab, pingVars>> PROVE Delivered(p)
  BY <1>0, <1>a, QuietHeard, ReturnCarried DEF UdpKept, PingKept, pingVars, Delivered
<1>1. CASE IpLocal(p, pkt, n) /\ UNCHANGED <<arpcache, robbed, misaddressed>>
  BY <1>1, IpLocalKeeps
<1>2. CASE /\ IpOut(p, Bcast, Bcast, n)
           /\ Return(p) /\ NoMessages /\ UNCHANGED <<udptab, pingVars, arpcache, robbed>>
  BY <1>2, <1>a DEF IpOut
<1>3. CASE NoRoute(p, n)
  BY <1>3, <1>a DEF NoRoute
<1>4. CASE /\ ArpResolve(p, NextHop(pkt.dst), pkt, n)
           /\ UNCHANGED <<udptab, pingVars>>
  <2>1. PICK hop \in Addr : hop = NextHop(pkt.dst)
    BY <1>0, NetSizes DEF NextHop, Load, Packet
  <2>2. CASE /\ \E e \in Cached(hop) : arpcache[e].state = "RESOLVED" /\ IpOut(p, hop, arpcache[e].mac, n)
             /\ Return(p) /\ NoMessages /\ UNCHANGED <<arpcache, robbed>>
    <3>1. PICK e \in Cached(hop) : arpcache[e].state = "RESOLVED" /\ IpOut(p, hop, arpcache[e].mac, n)
      BY <2>2
    <3>2. arpcache[e].mac = hop
      BY <3>1 DEF PacketInv, ArpInv, ResolvedRight, Cached
    <3> QED BY <1>a, <1>4, <2>2, <3>1, <3>2 DEF IpOut
  <2>3. CASE Return(p) /\ NoMessages /\ UNCHANGED <<arpcache, robbed, misaddressed>>
    BY <2>3, <1>4, <1>a
  <2>4. CASE ArpAsks(p, hop, pkt)
    BY <2>4
  <2> QED BY <1>4, <2>1, <2>2, <2>3, <2>4 DEF ArpResolve, ArpAsks, PendingEntry, AskFrame
<1> QED BY <1>1, <1>2, <1>3, <1>4 DEF IpSend
-----------------------------------------------------------------------------
(* What the receivers rely on survives a step that tells nobody else.      *)

\* Who is registered with a UDP endpoint and does not move stays registered.
LEMMA UdpReceiversKeep ==
  ASSUME UdpReceivers,
         \A s \in Slot : udptab'[s].state = "RECV" =>
           udptab[s].state = "RECV" /\ udptab'[s].pid = udptab[s].pid
             /\ frame'[udptab[s].pid] = frame[udptab[s].pid]
  PROVE  UdpReceivers'
BY DEF UdpReceivers

\* Who is registered with a ping endpoint and does not move stays registered.
LEMMA PingReceiversKeep ==
  ASSUME PingReceivers,
         \A s \in PingSlot : icmptab'[s].state = "RECV" =>
           icmptab[s].state = "RECV" /\ icmptab'[s].pid = icmptab[s].pid
             /\ frame'[icmptab[s].pid] = frame[icmptab[s].pid]
  PROVE  PingReceivers'
BY DEF PingReceivers

\* A step that ARP has no part in.
LEMMA ArpQuiet ==
  ASSUME ArpInv, UNCHANGED <<arpcache, robbed, strayed, misaddressed>>,
         \A q \in Proc : /\ frame[q].at = "arp" \/ frame'[q].at = "arp" => frame'[q] = frame[q]
                         /\ frame[q].at = "arp" => prmsg'[q] \in {prmsg[q], "pid"}
  PROVE  ArpInv'
<1>1. OneEntry' /\ ResolvedRight'
  BY DEF ArpInv, OneEntry, ResolvedRight
<1>2. PendingAsked'
  BY DEF ArpInv, PendingAsked
<1>3. AskersPend'
  BY DEF ArpInv, AskersPend, Pending
<1>4. AnswersRight'
  BY DEF ArpInv, AnswersRight, Answered
<1> QED BY <1>1, <1>2, <1>3, <1>4 DEF ArpInv

\* A step in which nobody begins to wait for a packet of a UDP endpoint.
LEMMA UdpQuiet ==
  ASSUME UdpInv, UdpTypes, FrameTypes, HistTypes, shared \subseteq shared', strayed \subseteq strayed',
         \A q \in Client : frame'[q].at = "udp_recv" =>
           /\ frame'[q] = frame[q]
           /\ q \in timing' => q \in timing
           /\ prmsg'[q] = "OK" => prmsg[q] = "OK" \/ q \in strayed
                                    \/ udptab'[frame[q].slot].queue # <<>>
           /\ frame[q].slot \in shared' \/ UdpKept(frame[q].slot)
  PROVE  UdpInv'
<1> SUFFICES ASSUME NEW s \in Slot \ shared', NEW p \in Client,
                    frame'[p].at = "udp_recv" /\ frame'[p].slot = s
             PROVE  /\ \A q \in Client : frame'[q].at = "udp_recv" /\ frame'[q].slot = s => q = p
                    /\ udptab'[s].state # "FREE"
                    /\ p \in timing' => udptab'[s].state = "RECV" /\ udptab'[s].pid = p /\ udptab'[s].queue = <<>>
                    /\ prmsg'[p] = "OK" => p \in strayed' \/ udptab'[s].queue # <<>>
  BY DEF UdpInv
<1>1. s \notin shared /\ frame[p].at = "udp_recv" /\ frame[p].slot = s
  OBVIOUS
<1>2. /\ \A q \in Client : frame[q].at = "udp_recv" /\ frame[q].slot = s => q = p
      /\ udptab[s].state # "FREE"
      /\ p \in timing => udptab[s].state = "RECV" /\ udptab[s].pid = p /\ udptab[s].queue = <<>>
      /\ prmsg[p] = "OK" => p \in strayed \/ udptab[s].queue # <<>>
  BY <1>1 DEF UdpInv
<1>3. UdpKept(s)
  BY <1>1
<1> QED BY <1>1, <1>2, <1>3 DEF UdpKept

\* A step that PingUsers does not notice: who is in icmp_recv was there before, and was
\* told only of what is there.
LEMMA PingUsersQuiet ==
  ASSUME PingUsers, PingTypes, PingQueues, FrameTypes, flooded \subseteq flooded', strayed \subseteq strayed',
         \A q \in Client : frame'[q].at = "icmp_recv" =>
           /\ frame'[q] = frame[q]
           /\ q \in timing' => q \in timing
           /\ prmsg'[q] = "OK" => prmsg[q] = "OK" \/ q \in strayed
                                    \/ icmptab'[frame[q].slot].count > 0
           /\ PingKept(frame[q].slot)
  PROVE  PingUsers'
<1> SUFFICES ASSUME NEW p \in Client, frame'[p].at = "icmp_recv", NEW s, s = frame'[p].slot
             PROVE  /\ icmptab'[s].user = p /\ icmptab'[s].state # "FREE"
                    /\ p \in timing' => icmptab'[s].state = "RECV" /\ icmptab'[s].pid = p /\ icmptab'[s].count = 0
                    /\ prmsg'[p] = "OK" => p \in strayed' \/ s \in flooded' \/ icmptab'[s].count > 0
  BY DEF PingUsers
<1>1. frame[p].at = "icmp_recv" /\ frame[p].slot = s
  OBVIOUS
<1>2. s \in PingSlot
  BY <1>1, SizeFacts DEF FrameTypes, SlotOK
<1>3. /\ icmptab[s].user = p /\ icmptab[s].state # "FREE"
      /\ p \in timing => icmptab[s].state = "RECV" /\ icmptab[s].pid = p /\ icmptab[s].count = 0
      /\ prmsg[p] = "OK" => p \in strayed \/ s \in flooded \/ icmptab[s].count > 0
  BY <1>1 DEF PingUsers
<1>4. PingKept(s)
  BY <1>1
<1>5. icmptab[s].count \in Nat
  BY <1>2, <1>3, CountsNatural
<1>6. PICK e, r : e = icmptab[s] /\ r = icmptab'[s]
  OBVIOUS
<1>7. CASE r = e
  <2>1. r.user = p /\ r.state # "FREE"
    BY <1>3, <1>6, <1>7
  <2>2. p \in timing' => r.state = "RECV" /\ r.pid = p /\ r.count = 0
    BY <1>1, <1>3, <1>6, <1>7
  <2>3. prmsg'[p] = "OK" => p \in strayed' \/ s \in flooded' \/ r.count > 0
    BY <1>1, <1>3, <1>6, <1>7
  <2> QED BY <1>6, <2>1, <2>2, <2>3
<1>8. CASE PingGiven(s, e, r)
  <2>1. r.user = e.user /\ r.state = "USED" /\ r.count = e.count + 1
    BY <1>8 DEF PingGiven
  <2>2. r.user = p /\ r.state # "FREE"
    BY <1>3, <1>6, <2>1
  <2>3. p \notin timing'
    <3>1. e.state = "RECV" => e.pid \notin timing'
      BY <1>8 DEF PingGiven
    <3> QED BY <1>1, <1>3, <1>6, <3>1
  <2>4. r.count > 0
    BY <1>5, <1>6, <2>1
  <2> QED BY <1>6, <2>2, <2>3, <2>4
<1> QED BY <1>4, <1>6, <1>7, <1>8 DEF PingKept

\* A reply is stored behind the others, as long as the writer has not wrapped.
LEMMA PingQueueGiven ==
  ASSUME NEW s, NEW e \in PingEndpoint, NEW r \in PingEndpoint, PingGiven(s, e, r),
         PingQueue(e), s \notin flooded'
  PROVE  PingQueue(r)
<1>1. /\ e.given \in Nat /\ e.count \in Int /\ e.tail \in PingPlace /\ e.head \in Int
      /\ e.queue \in [PingPlace -> BOOLEAN]
  BY SizeFacts DEF PingEndpoint
<1>2. /\ e.given < ICMP_QSIZ /\ e.given - e.count >= 0 /\ e.count >= 0 /\ e.tail = e.given
      /\ e.head = (IF e.given - e.count = ICMP_SLOTS THEN 0 ELSE e.given - e.count)
      /\ \A i \in PingPlace : e.queue[i] <=> e.given - e.count <= i /\ i < e.given
  BY <1>1, SizeFacts DEF PingGiven, PingQueue
<1>3. /\ r.given = e.given + 1 /\ r.count = e.count + 1 /\ r.head = e.head
      /\ r.tail = Successor(e.given, ICMP_QSIZ) /\ r.queue = [e.queue EXCEPT ![e.given] = TRUE]
  BY <1>1, <1>2, SizeFacts DEF PingGiven
<1>4. r.given - r.count = e.given - e.count
  BY <1>1, <1>3
<1>5. r.tail = IF r.given = ICMP_QSIZ THEN 0 ELSE r.given
  BY <1>1, <1>2, <1>3, SizeFacts DEF Successor
<1>6. ASSUME NEW i \in PingPlace PROVE r.queue[i] <=> e.given - e.count <= i /\ i < e.given + 1
  <2>0. i \in Nat
    BY SizeFacts
  <2>1. CASE i = e.given
    <3>1. r.queue[i] = TRUE
      BY <1>1, <1>3, <2>1
    <3>2. e.given - e.count <= i /\ i < e.given + 1
      BY <1>1, <1>2, <2>1
    <3> QED BY <3>1, <3>2
  <2>2. CASE i # e.given
    <3>1. r.queue[i] = e.queue[i]
      BY <1>1, <1>3, <2>2
    <3>2. i < e.given + 1 <=> i < e.given
      BY <1>1, <2>0, <2>2
    <3> QED BY <3>1, <3>2, <1>2
  <2> QED BY <2>1, <2>2
<1>7. r.given <= ICMP_QSIZ /\ r.count >= 0
  BY <1>1, <1>2, <1>3, SizeFacts
<1>8. \A i \in PingPlace : r.queue[i] <=> r.given - r.count <= i /\ i < r.given
  BY <1>3, <1>4, <1>6
<1> QED BY <1>2, <1>3, <1>4, <1>5, <1>7, <1>8 DEF PingQueue

\* An endpoint that is given a reply keeps its queue in order.
LEMMA PingAtKeeps ==
  ASSUME PingTypes, PingTypes', NEW s \in PingSlot, PingAt(s), PingKept(s), flooded \subseteq flooded'
  PROVE  PingAt(s)'
<1> SUFFICES /\ icmptab'[s].state = "FREE" => \A i \in PingPlace : ~icmptab'[s].queue[i]
             /\ icmptab'[s].state # "FREE" => Cardinality(Replies(s)') <= icmptab'[s].count
             /\ icmptab'[s].state # "FREE" /\ s \notin flooded' => PingQueue(icmptab'[s])
  BY DEF PingAt
<1>1. CASE icmptab'[s] = icmptab[s]
  <2>1. Replies(s)' = Replies(s)
    BY <1>1 DEF Replies
  <2> QED BY <1>1, <2>1 DEF PingAt
<1>2. CASE PingGiven(s, icmptab[s], icmptab'[s])
  <2>1. PICK e \in PingEndpoint, r \in PingEndpoint : e = icmptab[s] /\ r = icmptab'[s]
    BY DEF PingTypes
  <2>2. /\ e.state # "FREE" /\ r.state = "USED" /\ r.count = e.count + 1
        /\ r.queue = [e.queue EXCEPT ![e.tail] = TRUE] /\ e.count \in Int
        /\ e.queue \in [PingPlace -> BOOLEAN] /\ e.tail \in PingPlace
    BY <1>2, <2>1 DEF PingGiven, PingEndpoint
  <2>3. Replies(s)' = Replies(s) \cup {e.tail}
    BY <2>1, <2>2 DEF Replies
  <2>4. /\ IsFiniteSet(Replies(s)) /\ Cardinality(Replies(s)) \in Nat
        /\ Cardinality(Replies(s)) <= e.count
    BY <2>1, <2>2, RepliesFinite DEF PingAt
  <2>5. Cardinality(Replies(s)') <= Cardinality(Replies(s)) + 1 /\ Cardinality(Replies(s)') \in Nat
    <3>1. PICK S : S = Replies(s) /\ IsFiniteSet(S) /\ Cardinality(S) \in Nat
      BY <2>4
    <3>2. Cardinality(S \cup {e.tail}) = IF e.tail \in S THEN Cardinality(S) ELSE Cardinality(S)+1
      BY <3>1, FS_AddElement
    <3>3. Replies(s)' = S \cup {e.tail}
      BY <2>3, <3>1
    <3> QED BY <3>1, <3>2, <3>3
  <2>6. Cardinality(Replies(s)') <= r.count
    <3>1. PICK a \in Nat, b \in Nat : a = Cardinality(Replies(s)) /\ b = Cardinality(Replies(s)')
      BY <2>4, <2>5
    <3>2. PICK k \in Int : k = e.count
      BY <2>2
    <3>3. a <= k /\ b <= a + 1 /\ r.count = k + 1
      BY <2>2, <2>4, <2>5, <3>1, <3>2
    <3> QED BY <3>1, <3>3
  <2>7. ASSUME s \notin flooded' PROVE PingQueue(r)
    <3>1. PingQueue(e)
      BY <2>1, <2>2, <2>7 DEF PingAt
    <3> QED BY <1>2, <2>1, <2>7, <3>1, PingQueueGiven
  <2> QED BY <2>1, <2>2, <2>6, <2>7
<1> QED BY <1>1, <1>2 DEF PingKept

\* A step that gives endpoint s to nobody: who receives from it shares it.
UdpAbandoned(s) ==
  /\ udptab'[s].state # "RECV"
  /\ s \in shared' \/ \A q \in Client : ~(frame'[q].at = "udp_recv" /\ frame'[q].slot = s)
\* An endpoint that nobody is in icmp_recv for.
PingAbandoned(s) ==
  /\ icmptab'[s].state # "RECV" /\ PingAt(s)'
  /\ \A q \in Client : ~(frame'[q].at = "icmp_recv" /\ frame'[q].slot = s)

\* What a process in udp_recv or icmp_recv is told is for it, unless it strayed.
Told(q) == Heard(q) \/ (q \notin timing' /\ (frame[q].at = "arp" \/ q \in strayed))
\* Process q stays where it is, and hears nothing or what is for it; or it goes where
\* it waits for no packet, and an endpoint it leaves does not name it any more.
Settled(q) ==
  \/ /\ frame'[q] = frame[q]
     /\ Told(q)
  \/ /\ frame'[q].at \notin {"udp_recv", "icmp_recv"}
     /\ q \in timing' => prmsg'[q] = "none" /\ frame'[q].at = "arp"
     /\ frame[q].at = "udp_recv" => emptied' # {} \/ udptab'[frame[q].slot].state # "RECV"
     /\ frame[q].at = "icmp_recv" => emptied' # {} \/ icmptab'[frame[q].slot].state # "RECV"

\* A step that takes no endpoint from who waits for it, and tells nobody else.
Undisturbed ==
  /\ \A s \in Slot : UdpKept(s) \/ UdpAbandoned(s)
  /\ \A s \in PingSlot : PingKept(s) \/ PingAbandoned(s)
  /\ flooded \subseteq flooded'
  /\ \A q \in Proc : Settled(q)

\* A step that tells nobody but who waits for a packet, and takes away no endpoint that
\* is waited for, keeps what the receivers rely on.
LEMMA UndisturbedKeeps ==
  ASSUME PacketInv, NetTypes', Undisturbed, shared \subseteq shared', strayed \subseteq strayed'
  PROVE  Waiting' /\ Receivers' /\ UdpInv' /\ PingUsers' /\ PingQueues'
<1>0. /\ NetTypes /\ Waiting /\ UdpReceivers /\ PingReceivers /\ ArpInv /\ UdpInv /\ PingUsers
      /\ PingQueues /\ UdpTypes /\ PingTypes /\ PingTypes' /\ MessageTypes /\ FrameTypes /\ HistTypes
      /\ timing' \subseteq Proc
  BY DEF PacketInv, NetTypes, MessageTypes
<1>1. /\ \A s \in Slot : UdpKept(s) \/ UdpAbandoned(s)
      /\ \A s \in PingSlot : PingKept(s) \/ PingAbandoned(s)
      /\ flooded \subseteq flooded'
      /\ \A q \in Proc : Settled(q)
  BY DEF Undisturbed
<1>2. Waiting'
  <2> SUFFICES ASSUME NEW q \in timing'
               PROVE  prmsg'[q] = "none" /\ frame'[q].at \in {"arp", "udp_recv", "icmp_recv"}
    BY DEF Waiting
  <2>1. Settled(q)
    BY <1>0, <1>1
  <2> QED BY <1>0, <2>1 DEF Settled, Told, Heard, Waiting
<1>3. ASSUME emptied' = {} PROVE UdpReceivers'
  <2>1. ASSUME NEW s \in Slot, udptab'[s].state = "RECV"
        PROVE  udptab'[s] = udptab[s] /\ frame'[udptab[s].pid] = frame[udptab[s].pid]
    <3>1. udptab'[s] = udptab[s]
      BY <1>1, <2>1 DEF UdpKept, UdpAbandoned
    <3>2. /\ udptab[s].pid \in Client /\ frame[udptab[s].pid].at = "udp_recv"
          /\ frame[udptab[s].pid].slot = s
      BY <1>0, <2>1, <3>1 DEF UdpReceivers
    <3>3. Settled(udptab[s].pid)
      BY <1>1, <3>2, SizeFacts
    <3> QED BY <1>3, <2>1, <3>1, <3>2, <3>3 DEF Settled, Told
  <2> QED BY <1>0, <2>1, UdpReceiversKeep
<1>4. ASSUME emptied' = {} PROVE PingReceivers'
  <2>1. ASSUME NEW s \in PingSlot, icmptab'[s].state = "RECV"
        PROVE  icmptab'[s] = icmptab[s] /\ frame'[icmptab[s].pid] = frame[icmptab[s].pid]
    <3>1. icmptab'[s] = icmptab[s]
      BY <1>1, <2>1 DEF PingKept, PingGiven, PingAbandoned
    <3>2. /\ icmptab[s].pid \in Client /\ frame[icmptab[s].pid].at = "icmp_recv"
          /\ frame[icmptab[s].pid].slot = s
      BY <1>0, <2>1, <3>1 DEF PingReceivers
    <3>3. Settled(icmptab[s].pid)
      BY <1>1, <3>2, SizeFacts
    <3> QED BY <1>4, <2>1, <3>1, <3>2, <3>3 DEF Settled, Told
  <2> QED BY <1>0, <2>1, PingReceiversKeep
<1>5. UdpInv'
  <2>1. ASSUME NEW q \in Client, frame'[q].at = "udp_recv"
        PROVE  /\ frame'[q] = frame[q]
               /\ q \in timing' => q \in timing
               /\ prmsg'[q] = "OK" => prmsg[q] = "OK" \/ q \in strayed
                                        \/ udptab'[frame[q].slot].queue # <<>>
               /\ frame[q].slot \in shared' \/ UdpKept(frame[q].slot)
    <3>1. Settled(q)
      BY <1>1, SizeFacts
    <3>2. /\ frame'[q] = frame[q]
          /\ Heard(q) \/ (q \notin timing' /\ q \in strayed)
      BY <2>1, <3>1 DEF Settled, Told
    <3>3. frame[q].slot \in Slot
      BY <1>0, <2>1, <3>2, SizeFacts DEF FrameTypes, SlotOK
    <3>4. UdpKept(frame[q].slot) \/ UdpAbandoned(frame[q].slot)
      BY <1>1, <3>3
    <3> QED BY <2>1, <3>2, <3>4 DEF Heard, UdpAbandoned
  <2> QED BY <1>0, <2>1, UdpQuiet
<1>6. PingUsers'
  <2>1. ASSUME NEW q \in Client, frame'[q].at = "icmp_recv"
        PROVE  /\ frame'[q] = frame[q]
               /\ q \in timing' => q \in timing
               /\ prmsg'[q] = "OK" => prmsg[q] = "OK" \/ q \in strayed
                                        \/ icmptab'[frame[q].slot].count > 0
               /\ PingKept(frame[q].slot)
    <3>1. Settled(q)
      BY <1>1, SizeFacts
    <3>2. /\ frame'[q] = frame[q]
          /\ Heard(q) \/ (q \notin timing' /\ q \in strayed)
      BY <2>1, <3>1 DEF Settled, Told
    <3>3. frame[q].slot \in PingSlot
      BY <1>0, <2>1, <3>2, SizeFacts DEF FrameTypes, SlotOK
    <3>4. PingKept(frame[q].slot) \/ PingAbandoned(frame[q].slot)
      BY <1>1, <3>3
    <3> QED BY <2>1, <3>2, <3>4 DEF Heard, PingAbandoned
  <2> QED BY <1>0, <1>1, <2>1, PingUsersQuiet
<1>7. PingQueues'
  <2> SUFFICES ASSUME NEW s \in PingSlot PROVE PingAt(s)'
    BY DEF PingQueues
  <2>1. PingAt(s)
    BY <1>0 DEF PingQueues
  <2> QED BY <1>0, <1>1, <2>1, PingAtKeeps DEF PingAbandoned
<1> QED BY <1>2, <1>3, <1>4, <1>5, <1>6, <1>7 DEF Receivers
-----------------------------------------------------------------------------
(* Sending.                                                                *)

\* Everything that the properties about packets and answers rest on.
PacketFlow == Waiting /\ Receivers /\ ArpInv /\ UdpInv /\ PingUsers /\ PingQueues

\* Process p moves, from where it waits for no packet, and the rest stays.
LEMMA BystandersKeep ==
  ASSUME PacketInv, NetTypes', NEW p \in Proc,
         frame[p].at \notin {"udp_recv", "icmp_recv"},
         frame'[p].at \notin {"udp_recv", "icmp_recv"},
         \A q \in Proc \ {p} : frame'[q] = frame[q] /\ prmsg'[q] = prmsg[q],
         timing' \ {p} \subseteq timing,
         p \in timing' => prmsg'[p] = "none" /\ frame'[p].at = "arp",
         UNCHANGED <<udptab, pingVars>>, shared \subseteq shared', strayed \subseteq strayed'
  PROVE  Waiting' /\ Receivers' /\ UdpInv' /\ PingUsers' /\ PingQueues'
<1>1. \A q \in Proc \ {p} : Settled(q)
  BY DEF Settled, Told, Heard
<1>2. Settled(p)
  BY DEF Settled, Told
<1>3. Undisturbed
  BY <1>1, <1>2 DEF Undisturbed, UdpKept, PingKept, pingVars
<1> QED BY <1>3, UndisturbedKeeps

\* Packets come to nobody but those who wait for them.
LEMMA DeliveredKeeps ==
  ASSUME PacketInv, NetTypes', NEW p \in Proc, p \notin timing,
         frame[p].at \notin {"arp", "udp_recv", "icmp_recv"},
         Delivered(p), UNCHANGED <<arpcache, robbed, strayed, misaddressed>>,
         shared \subseteq shared'
  PROVE  PacketFlow'
<1>1. /\ \A q \in Proc \ {p} : frame'[q] = frame[q]
      /\ frame'[p].at \notin {"arp", "udp_recv", "icmp_recv"}
      /\ \A q \in Proc : Heard(q)
  BY DEF Delivered, Carried
<1>2. \A q \in Proc : Settled(q)
  BY <1>1 DEF Settled, Told, Heard
<1>3. Undisturbed
  BY <1>2 DEF Undisturbed, Delivered
<1>4. Waiting' /\ Receivers' /\ UdpInv' /\ PingUsers' /\ PingQueues'
  BY <1>3, UndisturbedKeeps
<1>5. ArpInv'
  <2>1. ASSUME NEW q \in Proc
        PROVE  /\ frame[q].at = "arp" \/ frame'[q].at = "arp" => frame'[q] = frame[q]
               /\ frame[q].at = "arp" => prmsg'[q] \in {prmsg[q], "pid"}
    BY <1>1 DEF Heard
  <2> QED BY <2>1, ArpQuiet DEF PacketInv
<1> QED BY <1>4, <1>5 DEF PacketFlow

\* A process that asks for an address takes an entry that nobody waits for.
LEMMA ArpAsksKeeps ==
  ASSUME PacketInv, NetTypes', NEW p \in Proc, p \notin timing,
         frame[p].at \notin {"arp", "udp_recv", "icmp_recv"},
         NEW hop \in Addr, NEW pkt \in Packet, ArpAsks(p, hop, pkt),
         UNCHANGED strayed, shared \subseteq shared'
  PROVE  PacketFlow'
<1>0. /\ ArpInv /\ MessageTypes /\ FrameTypes /\ ArpTypes
  BY DEF PacketInv, NetTypes
<1>1. PICK e \in Entry : e = Min(ArpAlloc) /\ arpcache[e].state \in {"FREE", "RESOLVED"}
  BY AllocFacts DEF ArpAsks
<1>2. PICK r \in CacheEntry : /\ r = PendingEntry(p, hop)
                              /\ r.state = "PENDING" /\ r.ip = hop /\ r.pid = p /\ r.mac = NoAddr
  BY PendingFacts
<1>3. PICK f \in Frame : f = AskFrame(e, hop, pkt) /\ f.at = "arp" /\ f.entry = e /\ f.pkt.dst = hop
  BY PendingFacts
<1>4. /\ Cached(hop) = {}
      /\ arpcache' = [arpcache EXCEPT ![e] = r]
      /\ Rob(e) /\ frame' = [frame EXCEPT ![p] = f]
      /\ RecvtimeCleared(p)
      /\ UNCHANGED <<udptab, pingVars, misaddressed>>
  BY <1>1, <1>2, <1>3, Zenon DEF ArpAsks
<1>5. /\ arpcache'[e] = r /\ \A d \in Entry \ {e} : arpcache'[d] = arpcache[d]
  BY <1>0, <1>4 DEF ArpTypes
<1>6. /\ frame'[p] = f /\ \A q \in Proc \ {p} : frame'[q] = frame[q]
  BY <1>0, <1>4 DEF FrameTypes
<1>7. /\ prmsg'[p] = "none" /\ \A q \in Proc \ {p} : prmsg'[q] = prmsg[q]
      /\ timing' = timing \cup {p}
  BY <1>0, <1>4 DEF MessageTypes, RecvtimeCleared
<1>8. Waiting' /\ Receivers' /\ UdpInv' /\ PingUsers' /\ PingQueues'
  <2>1. /\ frame'[p].at \notin {"udp_recv", "icmp_recv"}
        /\ \A q \in Proc \ {p} : frame'[q] = frame[q] /\ prmsg'[q] = prmsg[q]
        /\ timing' \ {p} \subseteq timing
        /\ p \in timing' => prmsg'[p] = "none" /\ frame'[p].at = "arp"
        /\ strayed \subseteq strayed'
    BY <1>3, <1>6, <1>7
  <2> QED BY <1>4, <2>1, BystandersKeep
<1>9. robbed' = robbed \cup {q \in Proc : frame[q].at = "arp" /\ frame[q].entry = e}
  BY <1>4 DEF Rob
<1>10. \A d \in Entry : arpcache[d].state # "FREE" => arpcache[d].ip # hop
  BY <1>4 DEF Cached
<1>11. OneEntry'
  <2> SUFFICES ASSUME NEW c \in Entry, NEW d \in Entry, c # d,
                      arpcache'[c].state # "FREE" /\ arpcache'[d].state # "FREE"
               PROVE  arpcache'[c].ip # arpcache'[d].ip
    BY DEF OneEntry
  <2>1. CASE c # e /\ d # e
    BY <2>1, <1>0, <1>5 DEF ArpInv, OneEntry
  <2>2. CASE c = e
    BY <2>2, <1>2, <1>5, <1>10
  <2>3. CASE d = e
    BY <2>3, <1>2, <1>5, <1>10
  <2> QED BY <2>1, <2>2, <2>3
<1>12. ResolvedRight'
  BY <1>0, <1>2, <1>5 DEF ArpInv, ResolvedRight
<1>13. PendingAsked'
  <2> SUFFICES ASSUME NEW d \in Entry, arpcache'[d].state = "PENDING", NEW q, q = arpcache'[d].pid
               PROVE  /\ q \in Proc
                      /\ q \in strayed \/ (frame'[q].at = "arp" /\ frame'[q].entry = d /\ prmsg'[q] # "OK")
    BY DEF PendingAsked
  <2>1. CASE d = e
    BY <2>1, <1>2, <1>3, <1>5, <1>6, <1>7
  <2>2. CASE d # e
    <3>1. /\ q \in Proc
          /\ q \in strayed \/ (frame[q].at = "arp" /\ frame[q].entry = d /\ prmsg[q] # "OK")
      BY <2>2, <1>0, <1>5 DEF ArpInv, PendingAsked
    <3> QED BY <3>1, <1>6, <1>7
  <2> QED BY <2>1, <2>2
<1>14. AskersPend'
  <2> SUFFICES ASSUME NEW q \in Proc, frame'[q].at = "arp", prmsg'[q] = "none"
               PROVE  Pending(q)'
    BY DEF AskersPend
  <2>1. CASE q = p
    BY <2>1, <1>2, <1>3, <1>5, <1>6 DEF Pending
  <2>2. CASE q # p
    <3>1. Pending(q) /\ frame'[q] = frame[q]
      BY <2>2, <1>0, <1>6, <1>7 DEF ArpInv, AskersPend
    <3>2. frame[q].entry # e /\ frame[q].entry \in Entry
      BY <3>1, <1>0, <1>1 DEF Pending, FrameTypes, Frame
    <3> QED BY <3>1, <3>2, <1>5 DEF Pending
  <2> QED BY <2>1, <2>2
<1>15. AnswersRight'
  <2> SUFFICES ASSUME NEW q \in Proc \ (strayed' \cup robbed'), frame'[q].at = "arp", prmsg'[q] = "OK"
               PROVE  Answered(q)'
    BY DEF AnswersRight
  <2>1. q # p /\ frame'[q] = frame[q] /\ prmsg[q] = "OK"
    BY <1>6, <1>7
  <2>2. Answered(q)
    BY <2>1, <1>0, <1>9 DEF ArpInv, AnswersRight
  <2>3. frame[q].entry # e /\ frame[q].entry \in Entry
    BY <2>1, <1>0, <1>9 DEF FrameTypes, Frame
  <2> QED BY <2>1, <2>2, <2>3, <1>5 DEF Answered
<1>16. misaddressed' \subseteq strayed' \cup robbed'
  BY <1>0, <1>4, <1>9 DEF ArpInv
<1> QED BY <1>8, <1>11, <1>12, <1>13, <1>14, <1>15, <1>16 DEF PacketFlow, ArpInv

\* ip_send keeps the invariant,
LEMMA IpSendFlows ==
  ASSUME PacketInv, NetTypes', NEW p \in Proc, p \notin timing,
         frame[p].at \notin {"arp", "udp_recv", "icmp_recv"},
         NEW pkt \in Packet, NEW n, IpSend(p, pkt, n), UNCHANGED <<strayed, shared>>
  PROVE  PacketFlow'
<1>1. CASE Delivered(p) /\ UNCHANGED <<arpcache, robbed, misaddressed>>
  BY <1>1, DeliveredKeeps
<1>2. ASSUME NEW hop \in Addr, ArpAsks(p, hop, pkt) PROVE PacketFlow'
  BY <1>2, ArpAsksKeeps
<1> QED BY <1>1, <1>2, IpSendKeeps

\* and so does waiting for a buffer.
LEMMA SendOrWaitFlows ==
  ASSUME PacketInv, NetTypes', NEW p \in Proc, p \notin timing,
         frame[p].at \notin {"arp", "udp_recv", "icmp_recv"},
         NEW pkt \in Packet, NEW f, f.at \in {"send", "udp_sendto"},
         SendOrWait(p, pkt, f), UNCHANGED <<strayed, shared>>
  PROVE  PacketFlow'
<1>1. CASE IpSend(p, pkt, free - 1)
  BY <1>1, IpSendFlows
<1>2. CASE /\ frame' = [frame EXCEPT ![p] = f]
           /\ NoMessages /\ UNCHANGED <<udptab, pingVars, arpcache, free, robbed, misaddressed>>
  <2>1. Carried(p)
    BY <1>2 DEF Carried, PacketInv, NetTypes, FrameTypes
  <2>2. Delivered(p)
    BY <1>2, <2>1, QuietHeard DEF Delivered, UdpKept, PingKept, pingVars
  <2> QED BY <1>2, <2>2, DeliveredKeeps
<1> QED BY <1>1, <1>2 DEF SendOrWait
-----------------------------------------------------------------------------
(* What ARP learns.                                                        *)

\* arp_in finds an entry for the sender and completes it.
LEMMA ArpUpdates ==
  ASSUME ArpInv, ArpTypes, MessageTypes, FrameTypes, NEW e \in Entry, arpcache[e].state # "FREE",
         arpcache' = [arpcache EXCEPT ![e].mac = arpcache[e].ip, ![e].state = "RESOLVED"],
         IF arpcache[e].state = "PENDING" THEN Send(arpcache[e].pid, "OK") ELSE NoMessages,
         \A q \in Proc : frame[q].at = "arp" \/ frame'[q].at = "arp" => frame'[q] = frame[q],
         UNCHANGED <<robbed, strayed, misaddressed>>
  PROVE  ArpInv'
<1>1. /\ arpcache'[e].state = "RESOLVED" /\ arpcache'[e].mac = arpcache[e].ip
      /\ arpcache'[e].ip = arpcache[e].ip
      /\ \A d \in Entry \ {e} : arpcache'[d] = arpcache[d]
  <2>1. PICK r \in CacheEntry : r = arpcache[e]
    BY DEF ArpTypes
  <2>a. PICK w : w = [r EXCEPT !.mac = r.ip]
    OBVIOUS
  <2>2. w \in CacheEntry /\ w.ip = r.ip /\ w.mac = r.ip
    BY <2>a DEF CacheEntry
  <2>b. PICK v : v = [w EXCEPT !.state = "RESOLVED"]
    OBVIOUS
  <2>3. v \in CacheEntry /\ v.state = "RESOLVED" /\ v.ip = r.ip /\ v.mac = r.ip
    BY <2>2, <2>b DEF CacheEntry
  <2>4. PICK h : h = [arpcache EXCEPT ![e] = w]
    OBVIOUS
  <2>5. h \in [Entry -> CacheEntry] /\ h[e] = w
    BY <2>2, <2>4 DEF ArpTypes
  <2>6. arpcache' = [h EXCEPT ![e].state = "RESOLVED"]
    BY <2>1, <2>a, <2>4
  <2>7. arpcache' = [h EXCEPT ![e] = v]
    BY <2>b, <2>5, <2>6
  <2> QED BY <2>1, <2>3, <2>4, <2>5, <2>7 DEF ArpTypes
<1>2. /\ OneEntry /\ ResolvedRight /\ PendingAsked /\ AskersPend /\ AnswersRight
  BY DEF ArpInv
<1>3. OneEntry'
  <2> SUFFICES ASSUME NEW c \in Entry, NEW d \in Entry, c # d,
                      arpcache'[c].state # "FREE" /\ arpcache'[d].state # "FREE"
               PROVE  arpcache'[c].ip # arpcache'[d].ip
    BY DEF OneEntry
  <2>1. /\ arpcache'[c].ip = arpcache[c].ip /\ arpcache[c].state # "FREE"
        /\ arpcache'[d].ip = arpcache[d].ip /\ arpcache[d].state # "FREE"
    BY <1>1
  <2> QED BY <1>2, <2>1 DEF OneEntry
<1>4. ResolvedRight'
  BY <1>1, <1>2 DEF ResolvedRight
<1>5. ASSUME NEW q \in Proc
      PROVE  /\ prmsg'[q] # prmsg[q] => /\ arpcache[e].state = "PENDING" /\ q = arpcache[e].pid
                                        /\ prmsg[q] = "none" /\ prmsg'[q] = "OK"
             /\ arpcache[e].state = "PENDING" /\ q = arpcache[e].pid => prmsg'[q] # "none"
  BY DEF Send, NoMessages, MessageTypes
<1>6. PendingAsked'
  <2> SUFFICES ASSUME NEW d \in Entry, arpcache'[d].state = "PENDING", NEW q, q = arpcache'[d].pid
               PROVE  /\ q \in Proc
                      /\ q \in strayed \/ (frame'[q].at = "arp" /\ frame'[q].entry = d /\ prmsg'[q] # "OK")
    BY DEF PendingAsked
  <2>1. d # e /\ arpcache[d].state = "PENDING" /\ q = arpcache[d].pid
    BY <1>1
  <2>2. /\ q \in Proc
        /\ q \in strayed \/ (frame[q].at = "arp" /\ frame[q].entry = d /\ prmsg[q] # "OK")
    BY <1>2, <2>1 DEF PendingAsked
  <2>3. ASSUME q \notin strayed PROVE prmsg'[q] = prmsg[q]
    <3>1. CASE arpcache[e].state = "PENDING" /\ q = arpcache[e].pid
      <4>1. frame[q].entry = e
        BY <1>2, <2>3, <3>1 DEF PendingAsked
      <4> QED BY <2>1, <2>2, <2>3, <4>1
    <3> QED BY <1>5, <2>2, <3>1
  <2> QED BY <2>2, <2>3
<1>7. AskersPend'
  <2> SUFFICES ASSUME NEW q \in Proc, frame'[q].at = "arp", prmsg'[q] = "none"
               PROVE  Pending(q)'
    BY DEF AskersPend
  <2>1. prmsg[q] = "none" /\ frame'[q] = frame[q]
    BY <1>5
  <2>2. Pending(q)
    BY <1>2, <2>1 DEF AskersPend
  <2>3. PICK d : d = frame[q].entry
    OBVIOUS
  <2>4. d # e /\ d \in Entry /\ arpcache'[d] = arpcache[d]
    <3>1. d # e /\ d \in Entry
      BY <1>5, <2>2, <2>3 DEF Pending, FrameTypes, Frame
    <3> QED BY <1>1, <3>1
  <2> QED BY <2>1, <2>2, <2>3, <2>4 DEF Pending
<1>8. AnswersRight'
  <2> SUFFICES ASSUME NEW q \in Proc \ (strayed' \cup robbed'), frame'[q].at = "arp", prmsg'[q] = "OK"
               PROVE  Answered(q)'
    BY DEF AnswersRight
  <2>0. frame'[q] = frame[q] /\ frame[q].entry \in Entry
    BY DEF FrameTypes, Frame
  <2>1. CASE prmsg[q] = "OK"
    <3>1. Answered(q)
      BY <1>2, <2>0, <2>1 DEF AnswersRight
    <3>2. PICK d \in Entry : d = frame[q].entry
      BY <2>0
    <3>3. /\ arpcache[d].state = "RESOLVED" /\ arpcache[d].ip = frame[q].pkt.dst
          /\ arpcache[d].mac = frame[q].pkt.dst
      BY <3>1, <3>2 DEF Answered
    <3>4. /\ arpcache'[d].state = "RESOLVED" /\ arpcache'[d].ip = frame[q].pkt.dst
          /\ arpcache'[d].mac = frame[q].pkt.dst
      BY <1>1, <3>3
    <3> QED BY <2>0, <3>2, <3>4 DEF Answered
  <2>2. CASE prmsg[q] # "OK"
    <3>1. arpcache[e].state = "PENDING" /\ q = arpcache[e].pid /\ prmsg[q] = "none"
      BY <1>5, <2>2
    <3>2. frame[q].entry = e
      BY <1>2, <3>1 DEF PendingAsked
    <3>3. arpcache[e].ip = frame[q].pkt.dst
      BY <1>2, <2>0, <3>1, <3>2 DEF AskersPend, Pending
    <3> QED BY <1>1, <2>0, <3>2, <3>3 DEF Answered
  <2> QED BY <2>1, <2>2
<1>9. misaddressed' \subseteq strayed' \cup robbed'
  BY DEF ArpInv
<1> QED BY <1>3, <1>4, <1>6, <1>7, <1>8, <1>9 DEF ArpInv

\* An entry that is free or resolved is taken for the sender of a request.
LEMMA ArpLearns ==
  ASSUME ArpInv, ArpTypes, MessageTypes, FrameTypes, NEW ip \in Addr, Cached(ip) = {}, ArpAlloc # {},
         arpcache' = [arpcache EXCEPT ![Min(ArpAlloc)] =
                        [NoEntry EXCEPT !.state = "RESOLVED", !.ip = ip, !.mac = ip]],
         Rob(Min(ArpAlloc)), NoMessages,
         \A q \in Proc : frame[q].at = "arp" \/ frame'[q].at = "arp" => frame'[q] = frame[q],
         UNCHANGED <<strayed, misaddressed>>
  PROVE  ArpInv'
<1>1. PICK e \in Entry : e = Min(ArpAlloc) /\ arpcache[e].state \in {"FREE", "RESOLVED"}
  BY AllocFacts
<1>2. /\ arpcache'[e].state = "RESOLVED" /\ arpcache'[e].mac = ip /\ arpcache'[e].ip = ip
      /\ \A d \in Entry \ {e} : arpcache'[d] = arpcache[d]
  BY <1>1 DEF ArpTypes, NoEntry
<1>3. robbed' = robbed \cup {q \in Proc : frame[q].at = "arp" /\ frame[q].entry = e}
  BY <1>1 DEF Rob
<1>4. /\ OneEntry /\ ResolvedRight /\ PendingAsked /\ AskersPend /\ AnswersRight
  BY DEF ArpInv
<1>5. \A d \in Entry : arpcache[d].state # "FREE" => arpcache[d].ip # ip
  BY DEF Cached
<1>6. prmsg' = prmsg
  BY DEF NoMessages
<1>7. OneEntry'
  <2> SUFFICES ASSUME NEW c \in Entry, NEW d \in Entry, c # d,
                      arpcache'[c].state # "FREE" /\ arpcache'[d].state # "FREE"
               PROVE  arpcache'[c].ip # arpcache'[d].ip
    BY DEF OneEntry
  <2>1. CASE c # e /\ d # e
    BY <2>1, <1>2, <1>4 DEF OneEntry
  <2>2. CASE c = e
    BY <2>2, <1>2, <1>5
  <2>3. CASE d = e
    BY <2>3, <1>2, <1>5
  <2> QED BY <2>1, <2>2, <2>3
<1>8. ResolvedRight'
  BY <1>2, <1>4 DEF ResolvedRight
<1>9. PendingAsked'
  BY <1>2, <1>4, <1>6 DEF PendingAsked
<1>10. AskersPend'
  <2> SUFFICES ASSUME NEW q \in Proc, frame'[q].at = "arp", prmsg'[q] = "none"
               PROVE  Pending(q)'
    BY DEF AskersPend
  <2>1. Pending(q) /\ frame'[q] = frame[q] /\ frame[q].entry \in Entry
    BY <1>4, <1>6 DEF AskersPend, FrameTypes, Frame
  <2>2. frame[q].entry # e
    BY <2>1, <1>1 DEF Pending
  <2>3. arpcache'[frame[q].entry] = arpcache[frame[q].entry]
    BY <1>2, <2>1, <2>2
  <2> QED BY <2>1, <2>3 DEF Pending
<1>11. AnswersRight'
  <2> SUFFICES ASSUME NEW q \in Proc \ (strayed' \cup robbed'), frame'[q].at = "arp", prmsg'[q] = "OK"
               PROVE  Answered(q)'
    BY DEF AnswersRight
  <2>1. Answered(q) /\ frame'[q] = frame[q] /\ frame[q].entry \in Entry
    BY <1>3, <1>4, <1>6 DEF AnswersRight, FrameTypes, Frame
  <2>2. frame[q].entry # e
    BY <2>1, <1>3
  <2>3. arpcache'[frame[q].entry] = arpcache[frame[q].entry]
    BY <1>2, <2>1, <2>2
  <2> QED BY <2>1, <2>3 DEF Answered
<1>12. misaddressed' \subseteq strayed' \cup robbed'
  BY <1>3 DEF ArpInv
<1> QED BY <1>7, <1>8, <1>9, <1>10, <1>11, <1>12 DEF ArpInv

\* netin hands a frame to arp_in: nobody but who asks for the address hears of it.
LEMMA NetinArpFlows ==
  ASSUME PacketInv, NetTypes', NEW a, a.sndpa \in Addr, NetinArp(a)
  PROVE  PacketFlow'
<1>0. /\ ArpInv /\ ArpTypes /\ MessageTypes /\ FrameTypes /\ Waiting /\ PendingAsked
      /\ UNCHANGED <<udptab, pingVars, shared, strayed, misaddressed>>
      /\ ArpIn(a) /\ Return("netin") /\ "netin" \in Proc
      /\ frame["netin"].at = "read" /\ "netin" \notin timing
  BY SizeFacts DEF PacketInv, NetTypes, NetinArp, At, ArpInv
<1>1. /\ \A q \in Proc \ {"netin"} : frame'[q] = frame[q]
      /\ frame'["netin"].at \in {"getbuf", "wait", "user"}
  BY <1>0, ReturnCarried DEF Carried
<1>2. \A q \in Proc : frame[q].at = "arp" \/ frame'[q].at = "arp" => frame'[q] = frame[q]
  BY <1>0, <1>1
<1>a. NoMessages => (\A q \in Proc : Told(q)) /\ timing' \subseteq timing
  <2>1. ASSUME NoMessages PROVE timing' = timing
    BY <2>1 DEF NoMessages
  <2> QED BY <2>1, QuietHeard DEF Told
<1>3. ArpInv' /\ (\A q \in Proc : Told(q)) /\ timing' \subseteq timing
  <2>1. CASE Cached(a.sndpa) # {}
    <3>1. PICK e \in Entry : e = Min(Cached(a.sndpa)) /\ e \in Cached(a.sndpa)
      BY <2>1, UnusedFacts DEF Cached
    <3>2. arpcache[e].state # "FREE" /\ a.sndpa = arpcache[e].ip
      BY <3>1 DEF Cached
    <3>3. /\ arpcache' = [arpcache EXCEPT ![e].mac = arpcache[e].ip, ![e].state = "RESOLVED"]
          /\ IF arpcache[e].state = "PENDING" THEN Send(arpcache[e].pid, "OK") ELSE NoMessages
          /\ UNCHANGED robbed
      BY <1>0, <2>1, <3>1, <3>2 DEF ArpIn
    <3>4. ArpInv'
      BY <1>0, <1>2, <3>2, <3>3, ArpUpdates
    <3>5. CASE arpcache[e].state # "PENDING"
      BY <3>3, <3>4, <3>5, <1>a
    <3>6. CASE arpcache[e].state = "PENDING"
      <4>1. Send(arpcache[e].pid, "OK") /\ timing' = timing \ {arpcache[e].pid}
        BY <3>3, <3>6 DEF Send
      <4>2. frame[arpcache[e].pid].at = "arp" \/ arpcache[e].pid \in strayed
        BY <1>0, <3>6 DEF PendingAsked
      <4>3. ASSUME NEW q \in Proc, q # arpcache[e].pid PROVE Heard(q)
        BY <1>0, <4>1, <4>3, SendHeard DEF Heard
      <4>4. ASSUME NEW q \in Proc PROVE Told(q)
        <5>1. CASE q = arpcache[e].pid
          BY <4>1, <4>2, <5>1 DEF Told
        <5>2. CASE q # arpcache[e].pid
          BY <4>3, <5>2 DEF Told
        <5> QED BY <5>1, <5>2
      <4>5. timing' \subseteq timing
        BY <4>1
      <4> QED BY <3>4, <4>4, <4>5
    <3> QED BY <3>5, <3>6
  <2>2. CASE NoMessages /\ UNCHANGED <<arpcache, robbed>>
    <3>1. ArpInv'
      <4>1. prmsg' = prmsg
        BY <2>2 DEF NoMessages
      <4> QED BY <1>0, <1>2, <2>2, <4>1, ArpQuiet
    <3> QED BY <2>2, <3>1, <1>a
  <2>3. CASE /\ NoMessages /\ Cached(a.sndpa) = {} /\ ArpAlloc # {}
             /\ arpcache' = [arpcache EXCEPT ![Min(ArpAlloc)] =
                               [NoEntry EXCEPT !.state = "RESOLVED", !.ip = a.sndpa, !.mac = a.sndpa]]
             /\ Rob(Min(ArpAlloc))
    <3>1. ArpInv'
      BY <1>0, <1>2, <2>3, ArpLearns
    <3> QED BY <2>3, <3>1, <1>a
  <2> QED BY <1>0, <2>1, <2>2, <2>3 DEF ArpIn
<1>4. \A q \in Proc : Settled(q)
  <2>1. ASSUME NEW q \in Proc \ {"netin"} PROVE Settled(q)
    BY <1>1, <1>3 DEF Settled, Told
  <2>2. Settled("netin")
    BY <1>0, <1>1, <1>3 DEF Settled, Told
  <2> QED BY <2>1, <2>2
<1>5. Undisturbed
  BY <1>0, <1>4 DEF Undisturbed, UdpKept, PingKept, pingVars
<1>6. Waiting' /\ Receivers' /\ UdpInv' /\ PingUsers' /\ PingQueues'
  BY <1>0, <1>5, UndisturbedKeeps
<1> QED BY <1>3, <1>6 DEF PacketFlow
-----------------------------------------------------------------------------
(* Processes that go on, timers, and waits for ARP that are over.          *)

\* A process that waits for no packet and no answer goes on, and tells nobody.
LEMMA MovesOnFlows ==
  ASSUME PacketInv, NetTypes', NEW p \in Proc, p \notin timing,
         frame[p].at \notin {"arp", "udp_recv", "icmp_recv"}, Carried(p), NoMessages,
         UNCHANGED <<udptab, pingVars, arpcache, robbed, strayed, misaddressed, shared>>
  PROVE  PacketFlow'
<1>1. Delivered(p)
  BY QuietHeard DEF Delivered, UdpKept, PingKept, pingVars
<1> QED BY <1>1, DeliveredKeeps

\* Nobody moves: a wait ends, or a child exits.
LEMMA InterruptFlows ==
  ASSUME PacketInv, NetTypes', NEW p \in Proc, Timeout(p) \/ ChildExits(p)
  PROVE  PacketFlow'
<1>0. /\ MessageTypes /\ ArpInv
      /\ UNCHANGED <<frame, udptab, pingVars, arpcache, robbed, strayed, misaddressed, shared>>
  BY DEF PacketInv, NetTypes, Timeout, ChildExits, tabVars, histVars
<1>1. ASSUME NEW q \in Proc
      PROVE  /\ prmsg'[q] \in {prmsg[q], "pid"}
             /\ q \in timing' => q \in timing /\ prmsg'[q] = prmsg[q]
  BY <1>0, SendHeard DEF Timeout, ChildExits
<1>2. \A q \in Proc : Settled(q)
  BY <1>0, <1>1 DEF Settled, Told, Heard
<1>3. Undisturbed
  BY <1>0, <1>2 DEF Undisturbed, UdpKept, PingKept, pingVars
<1>4. Waiting' /\ Receivers' /\ UdpInv' /\ PingUsers' /\ PingQueues'
  BY <1>0, <1>3, UndisturbedKeeps
<1>5. ArpInv'
  BY <1>0, <1>1, ArpQuiet
<1> QED BY <1>4, <1>5 DEF PacketFlow

\* arp_resolve asks once more.
LEMMA ArpRetryKeeps ==
  ASSUME ArpInv, FrameTypes, MessageTypes, NEW p \in Proc, prmsg[p] = "none",
         frame' = [frame EXCEPT ![p].tries = @ + 1], RecvtimeCleared(p),
         UNCHANGED <<arpcache, misaddressed, strayed, robbed>>
  PROVE  /\ ArpInv' /\ prmsg' = prmsg /\ timing' = timing \cup {p}
         /\ \A q \in Proc : /\ frame'[q].at = frame[q].at
                            /\ q # p => frame'[q] = frame[q]
<1>1. prmsg' = prmsg /\ timing' = timing \cup {p}
  BY DEF RecvtimeCleared, MessageTypes
<1>2. ASSUME NEW q \in Proc
      PROVE  /\ frame'[q].at = frame[q].at /\ frame'[q].entry = frame[q].entry
             /\ frame'[q].pkt = frame[q].pkt
             /\ q # p => frame'[q] = frame[q]
  BY DEF FrameTypes, Frame
<1>3. OneEntry' /\ ResolvedRight'
  BY DEF ArpInv, OneEntry, ResolvedRight
<1>4. PendingAsked'
  BY <1>1, <1>2 DEF ArpInv, PendingAsked
<1>5. AskersPend'
  BY <1>1, <1>2 DEF ArpInv, AskersPend, Pending
<1>6. AnswersRight'
  BY <1>1, <1>2 DEF ArpInv, AnswersRight, Answered
<1> QED BY <1>1, <1>2, <1>3, <1>4, <1>5, <1>6 DEF ArpInv

\* arp_resolve gives up: the entry is its own, so that nobody else misses it.
LEMMA ArpGiveUpKeeps ==
  ASSUME ArpInv, FrameTypes, ArpTypes, NEW p \in Proc, frame[p].at = "arp", prmsg[p] = "none",
         GiveUp(p), Return(p), NoMessages, UNCHANGED <<misaddressed, strayed, robbed>>
  PROVE  ArpInv'
<1>1. /\ OneEntry /\ ResolvedRight /\ PendingAsked /\ AskersPend /\ AnswersRight
  BY DEF ArpInv
<1>2. PICK e \in Entry : /\ e = frame[p].entry /\ arpcache[e].state = "PENDING"
                         /\ arpcache[e].pid = p
  BY <1>1 DEF AskersPend, Pending, FrameTypes, Frame
<1>3. /\ arpcache'[e].state = "FREE"
      /\ \A d \in Entry \ {e} : arpcache'[d] = arpcache[d]
  BY <1>2 DEF GiveUp, ArpTypes, CacheEntry
<1>4. /\ \A q \in Proc \ {p} : frame'[q] = frame[q]
      /\ frame'[p].at # "arp"
  BY ReturnCarried DEF Carried
<1>5. prmsg' = prmsg
  BY DEF NoMessages
<1>6. OneEntry'
  BY <1>1, <1>3 DEF OneEntry
<1>7. ResolvedRight'
  BY <1>1, <1>3 DEF ResolvedRight
<1>8. PendingAsked'
  <2> SUFFICES ASSUME NEW d \in Entry, arpcache'[d].state = "PENDING", NEW q, q = arpcache'[d].pid
               PROVE  /\ q \in Proc
                      /\ q \in strayed \/ (frame'[q].at = "arp" /\ frame'[q].entry = d /\ prmsg'[q] # "OK")
    BY DEF PendingAsked
  <2>1. d # e /\ arpcache[d].state = "PENDING" /\ q = arpcache[d].pid
    BY <1>3
  <2>2. /\ q \in Proc
        /\ q \in strayed \/ (frame[q].at = "arp" /\ frame[q].entry = d /\ prmsg[q] # "OK")
    BY <1>1, <2>1 DEF PendingAsked
  <2>3. CASE q = p
    BY <1>2, <2>1, <2>2, <2>3
  <2>4. CASE q # p
    BY <1>4, <1>5, <2>2, <2>4
  <2> QED BY <2>3, <2>4
<1>9. AskersPend'
  <2> SUFFICES ASSUME NEW q \in Proc, frame'[q].at = "arp", prmsg'[q] = "none"
               PROVE  Pending(q)'
    BY DEF AskersPend
  <2>1. q # p /\ frame'[q] = frame[q] /\ Pending(q) /\ frame[q].entry \in Entry
    BY <1>1, <1>4, <1>5 DEF AskersPend, FrameTypes, Frame
  <2>2. frame[q].entry # e
    BY <1>2, <2>1 DEF Pending
  <2>3. arpcache'[frame[q].entry] = arpcache[frame[q].entry]
    BY <1>3, <2>1, <2>2
  <2> QED BY <2>1, <2>3 DEF Pending
<1>10. AnswersRight'
  <2> SUFFICES ASSUME NEW q \in Proc \ (strayed' \cup robbed'), frame'[q].at = "arp", prmsg'[q] = "OK"
               PROVE  Answered(q)'
    BY DEF AnswersRight
  <2>1. q # p /\ frame'[q] = frame[q] /\ Answered(q) /\ frame[q].entry \in Entry
    BY <1>1, <1>4, <1>5 DEF AnswersRight, FrameTypes, Frame
  <2>2. frame[q].entry # e
    BY <1>2, <2>1 DEF Answered
  <2>3. arpcache'[frame[q].entry] = arpcache[frame[q].entry]
    BY <1>3, <2>1, <2>2
  <2> QED BY <2>1, <2>3 DEF Answered
<1>11. misaddressed' \subseteq strayed' \cup robbed'
  BY DEF ArpInv
<1> QED BY <1>6, <1>7, <1>8, <1>9, <1>10, <1>11 DEF ArpInv

\* arp_resolve takes any message for the answer, and reads its entry.
LEMMA ArpReadKeeps ==
  ASSUME ArpInv, FrameTypes, MessageTypes, NEW p \in Proc, frame[p].at = "arp", prmsg[p] # "none",
         misaddressed' = IF arpcache[frame[p].entry].mac = frame[p].pkt.dst
                         THEN misaddressed ELSE misaddressed \cup {p},
         strayed' = IF prmsg[p] = "pid" THEN strayed \cup {p} ELSE strayed,
         Received(p), Return(p), UNCHANGED <<arpcache, robbed>>
  PROVE  ArpInv'
<1>1. /\ OneEntry /\ ResolvedRight /\ PendingAsked /\ AskersPend /\ AnswersRight
  BY DEF ArpInv
<1>2. /\ \A q \in Proc \ {p} : frame'[q] = frame[q] /\ prmsg'[q] = prmsg[q]
      /\ frame'[p].at # "arp"
  BY ReturnCarried DEF Carried, Received, MessageTypes
<1>3. prmsg[p] = "OK" \/ p \in strayed'
  BY DEF MessageTypes
<1>4. strayed \subseteq strayed'
  OBVIOUS
<1>5. OneEntry' /\ ResolvedRight'
  BY <1>1 DEF OneEntry, ResolvedRight
<1>6. PendingAsked'
  <2> SUFFICES ASSUME NEW d \in Entry, arpcache[d].state = "PENDING", NEW q, q = arpcache[d].pid
               PROVE  /\ q \in Proc
                      /\ q \in strayed' \/ (frame'[q].at = "arp" /\ frame'[q].entry = d /\ prmsg'[q] # "OK")
    BY DEF PendingAsked
  <2>1. /\ q \in Proc
        /\ q \in strayed \/ (frame[q].at = "arp" /\ frame[q].entry = d /\ prmsg[q] # "OK")
    BY <1>1 DEF PendingAsked
  <2>2. CASE q = p
    BY <1>3, <1>4, <2>1, <2>2
  <2>3. CASE q # p
    BY <1>2, <1>4, <2>1, <2>3
  <2> QED BY <2>2, <2>3
<1>7. AskersPend'
  BY <1>1, <1>2 DEF AskersPend, Pending
<1>8. AnswersRight'
  BY <1>1, <1>2, <1>4 DEF AnswersRight, Answered
<1>9. misaddressed' \subseteq strayed' \cup robbed'
  <2>1. misaddressed \subseteq strayed \cup robbed
    BY DEF ArpInv
  <2>2. ASSUME p \notin strayed' \cup robbed
        PROVE  arpcache[frame[p].entry].mac = frame[p].pkt.dst
    BY <1>1, <1>3, <1>4, <2>2 DEF AnswersRight, Answered
  <2> QED BY <1>4, <2>1, <2>2
<1> QED BY <1>5, <1>6, <1>7, <1>8, <1>9 DEF ArpInv

\* The wait of arp_resolve is over: it asks again, gives up, or reads the entry.
LEMMA ArpWokenFlows ==
  ASSUME PacketInv, NetTypes', NEW p \in Proc, ArpWoken(p)
  PROVE  PacketFlow'
<1>0. /\ ArpInv /\ FrameTypes /\ MessageTypes /\ ArpTypes
      /\ frame[p].at = "arp" /\ p \notin timing
      /\ UNCHANGED <<udptab, pingVars, robbed, shared>>
  BY DEF PacketInv, NetTypes, ArpWoken, At
<1>1. CASE /\ prmsg[p] = "none" /\ frame' = [frame EXCEPT ![p].tries = @ + 1]
           /\ RecvtimeCleared(p)
           /\ UNCHANGED <<arpcache, free, misaddressed, strayed>>
  <2>1. /\ ArpInv' /\ prmsg' = prmsg /\ timing' = timing \cup {p}
        /\ \A q \in Proc : /\ frame'[q].at = frame[q].at
                           /\ q # p => frame'[q] = frame[q]
    BY <1>0, <1>1, ArpRetryKeeps
  <2>2. Waiting' /\ Receivers' /\ UdpInv' /\ PingUsers' /\ PingQueues'
    BY <1>0, <1>1, <2>1, BystandersKeep
  <2> QED BY <2>1, <2>2 DEF PacketFlow
<1>2. CASE /\ prmsg[p] = "none" /\ GiveUp(p)
           /\ Return(p) /\ NoMessages /\ UNCHANGED <<misaddressed, strayed>>
  <2>1. ArpInv'
    BY <1>0, <1>2, ArpGiveUpKeeps
  <2>2. Carried(p) /\ frame'[p].at \in {"getbuf", "wait", "user"}
    BY <1>0, <1>2, ReturnCarried
  <2>3. Waiting' /\ Receivers' /\ UdpInv' /\ PingUsers' /\ PingQueues'
    BY <1>0, <1>2, <2>2, BystandersKeep DEF Carried, NoMessages
  <2> QED BY <2>1, <2>3 DEF PacketFlow
<1>3. CASE /\ prmsg[p] # "none"
           /\ IpOut(p, frame[p].pkt.dst, arpcache[frame[p].entry].mac, free)
           /\ strayed' = IF prmsg[p] = "pid" THEN strayed \cup {p} ELSE strayed
           /\ Received(p) /\ Return(p) /\ UNCHANGED arpcache
  <2>1. ArpInv'
    BY <1>0, <1>3, ArpReadKeeps DEF IpOut
  <2>2. Carried(p) /\ frame'[p].at \in {"getbuf", "wait", "user"}
    BY <1>0, <1>3, ReturnCarried
  <2>3. /\ \A q \in Proc \ {p} : prmsg'[q] = prmsg[q]
        /\ timing' = timing /\ strayed \subseteq strayed'
    BY <1>0, <1>3 DEF Received, MessageTypes
  <2>4. Waiting' /\ Receivers' /\ UdpInv' /\ PingUsers' /\ PingQueues'
    BY <1>0, <2>2, <2>3, BystandersKeep DEF Carried
  <2> QED BY <2>1, <2>4 DEF PacketFlow
<1> QED BY <1>1, <1>2, <1>3 DEF ArpWoken

\* What the processes of the stack do.
LEMMA NetStepFlows ==
  ASSUME PacketInv, NetTypes', NetStep
  PROVE  PacketFlow'
<1>0. /\ MessageTypes /\ FrameTypes /\ RingInv /\ Waiting /\ load \in Load
      /\ ipoqueue \in Seq(Packet) /\ "netin" \in Proc /\ "ipout" \in Proc
  BY NetSizes, SizeFacts DEF PacketInv, NetTypes
<1>1. ASSUME NEW p \in Proc, Timeout(p) PROVE PacketFlow'
  BY <1>1, InterruptFlows
<1>2. ASSUME NEW p \in Proc, ArpWoken(p) PROVE PacketFlow'
  BY <1>2, ArpWokenFlows
<1>3. ASSUME NEW p \in Proc, IcmpAnswer(p) PROVE PacketFlow'
  <2>1. Carried(p)
    BY <1>0, <1>3, ReturnCarried DEF IcmpAnswer
  <2> QED BY <1>3, <2>1, MovesOnFlows DEF IcmpAnswer, At, NoMessages, histVars
<1>4. ASSUME NetinGetbuf PROVE PacketFlow'
  <2>1. Carried("netin")
    <3>1. PICK f \in Frame : f = Doing("read") /\ f.at = "read"
      BY WaitingFrames
    <3>2. frame' = [frame EXCEPT !["netin"] = f]
      BY <1>4, <3>1 DEF NetinGetbuf
    <3> QED BY <1>0, <3>1, <3>2 DEF Carried, FrameTypes
  <2> QED BY <1>0, <1>4, <2>1, MovesOnFlows DEF NetinGetbuf, At, NoMessages, histVars, tabVars
<1>5. ASSUME Ipout PROVE PacketFlow'
  <2>1. /\ frame["ipout"].at = "dequeue" /\ ipoqueue # <<>> /\ UNCHANGED <<strayed, shared>>
    BY <1>0, <1>5 DEF Ipout, At, RingInv
  <2>2. "ipout" \notin timing /\ Head(ipoqueue) \in Packet
    BY <1>0, <2>1 DEF Waiting
  <2>3. CASE NoRoute("ipout", free)
    <3>1. Carried("ipout")
      BY <1>0, <2>3, ReturnCarried DEF NoRoute
    <3> QED BY <1>0, <2>1, <2>2, <2>3, <3>1, MovesOnFlows DEF NoRoute
  <2>4. CASE IpSend("ipout", Head(ipoqueue), free)
    BY <1>0, <2>1, <2>2, <2>4, IpSendFlows
  <2> QED BY <1>5, <2>3, <2>4 DEF Ipout
<1>6. ASSUME NEW a \in load.arps, NetinArp(a) PROVE PacketFlow'
  BY <1>0, <1>6, NetinArpFlows DEF Load
<1>7. ASSUME NEW pkt \in load.packets, NetinIp(pkt) PROVE PacketFlow'
  <2>1. pkt \in Packet
    BY <1>0, <1>7 DEF Load
  <2>2. /\ frame["netin"].at = "read" /\ "netin" \notin timing
        /\ UNCHANGED <<arpcache, robbed, strayed, misaddressed, shared>>
    BY <1>7 DEF NetinIp, At, histVars
  <2>3. CASE IpLocal("netin", pkt, free)
    BY <1>0, <2>1, <2>2, <2>3, IpLocalKeeps, DeliveredKeeps
  <2>4. CASE Return("netin") /\ NoMessages /\ UNCHANGED <<udptab, pingVars>>
    BY <1>0, <2>2, <2>4, ReturnCarried, MovesOnFlows
  <2> QED BY <1>7, <2>3, <2>4 DEF NetinIp
<1>8. ASSUME IpoutWait PROVE PacketFlow'
  <2>1. Carried("ipout")
    <3>1. PICK f \in Frame : f = Doing("dequeue") /\ f.at = "dequeue"
      BY PermitFrame
    <3>2. frame' = [frame EXCEPT !["ipout"] = f]
      BY <1>8, <3>1 DEF IpoutWait
    <3> QED BY <1>0, <3>1, <3>2 DEF Carried, FrameTypes
  <2> QED BY <1>0, <1>8, <2>1, MovesOnFlows DEF IpoutWait, At, NoMessages, histVars, tabVars
<1> QED BY <1>1, <1>2, <1>3, <1>4, <1>5, <1>6, <1>7, <1>8 DEF NetStep
-----------------------------------------------------------------------------
(* The users of UDP.                                                       *)

\* A step that nobody hears of, and in which nobody moves, but an endpoint is changed
\* by its user, or a process leaves the endpoint that it has waited for.
LEMMA AbandonedFlows ==
  ASSUME PacketInv, NetTypes', NEW c \in Client, frame[c].at # "arp",
         \A s \in Slot : UdpKept(s) \/ UdpAbandoned(s),
         \A s \in PingSlot : PingKept(s) \/ PingAbandoned(s),
         \A q \in Proc \ {c} : frame'[q] = frame[q] /\ prmsg'[q] = prmsg[q],
         timing' = timing, Settled(c), frame'[c].at # "arp",
         UNCHANGED <<flooded, arpcache, robbed, strayed, misaddressed>>, shared \subseteq shared'
  PROVE  PacketFlow'
<1>1. \A q \in Proc : Settled(q)
  BY DEF Settled, Told, Heard
<1>2. Undisturbed
  BY <1>1 DEF Undisturbed
<1>3. Waiting' /\ Receivers' /\ UdpInv' /\ PingUsers' /\ PingQueues'
  BY <1>2, UndisturbedKeeps
<1>4. ArpInv'
  BY SizeFacts, ArpQuiet DEF PacketInv
<1> QED BY <1>3, <1>4 DEF PacketFlow

\* A process that uses an endpoint is alone with it, or it is recorded as shared.
LEMMA ShareLeaves ==
  ASSUME NEW c \in Client, NEW s, Share(c, s)
  PROVE  /\ shared \subseteq shared'
         /\ \/ s \in shared'
            \/ \A q \in Client \ {c} : ~(frame[q].at = "udp_recv" /\ frame[q].slot = s)
BY DEF Share

\* What a user does with an endpoint that another process receives from, it shares.
LEMMA UdpUserFlows ==
  ASSUME PacketInv, NetTypes', NEW c \in Client, NEW s \in Slot, frame[c].at = "user",
         \A t \in Slot \ {s} : udptab'[t] = udptab[t],
         udptab'[s].state # "RECV", NoMessages,
         s \in shared' \/ (\A q \in Client \ {c} : ~(frame[q].at = "udp_recv" /\ frame[q].slot = s)),
         UNCHANGED <<pingVars, frame, arpcache, robbed, strayed, misaddressed>>,
         shared \subseteq shared'
  PROVE  PacketFlow'
<1>1. prmsg' = prmsg /\ timing' = timing
  BY DEF NoMessages
<1>2. UdpAbandoned(s)
  BY DEF UdpAbandoned
<1>3. \A t \in Slot : UdpKept(t) \/ UdpAbandoned(t)
  BY <1>2 DEF UdpKept
<1>4. \A t \in PingSlot : PingKept(t)
  BY DEF PingKept, pingVars
<1>5. Settled(c)
  BY <1>1 DEF Settled, Told, Heard
<1> QED BY <1>1, <1>3, <1>4, <1>5, AbandonedFlows DEF pingVars

\* udp_register fills an endpoint that nobody is in udp_recv for, or it is shared.
LEMMA UdpRegisterFlows ==
  ASSUME PacketInv, NetTypes', NEW c \in Client, NEW r, UdpRegister(c, r)
  PROVE  PacketFlow'
<1>0. /\ UdpTypes /\ UdpTypes' /\ frame[c].at = "user" /\ UdpInv /\ NoMessages
      /\ UNCHANGED <<pingVars, frame, arpcache, robbed, strayed, misaddressed, shared>>
  BY DEF PacketInv, NetTypes, UdpRegister, At, histVars, NoMessages
<1>1. PICK s \in Slot :
        /\ udptab[s].state = "FREE"
        /\ udptab' = [udptab EXCEPT ![s] =
             [FreeEndpoint EXCEPT !.state = "USED", !.remip = r.remip,
                                  !.remport = r.remport, !.locport = r.locport]]
  BY UdpRegisterCase
<1>2. udptab'[s].state = "USED" /\ \A t \in Slot \ {s} : udptab'[t] = udptab[t]
  BY <1>0, <1>1 DEF UdpTypes, FreeEndpoint
<1>3. s \in shared \/ \A q \in Client : ~(frame[q].at = "udp_recv" /\ frame[q].slot = s)
  BY <1>0, <1>1 DEF UdpInv
<1> QED BY <1>0, <1>2, <1>3, UdpUserFlows

\* What taking a packet off a UDP endpoint does, field by field.
LEMMA DequeueFacts ==
  ASSUME UdpTypes, NEW c, NEW s \in Slot, Dequeue(c, s)
  PROVE  \/ /\ udptab[s].queue = <<>> /\ UNCHANGED <<udptab, free>>
            /\ emptied' = emptied \cup {<<c, "udp", s>>}
         \/ /\ udptab[s].queue # <<>> /\ free' = free + 1 /\ UNCHANGED emptied
            /\ udptab'[s].state = "USED" /\ udptab'[s].queue = Tail(udptab[s].queue)
            /\ udptab'[s].pid = udptab[s].pid
            /\ \A t \in Slot \ {s} : udptab'[t] = udptab[t]
<1>1. CASE udptab[s].queue = <<>>
  BY <1>1 DEF Dequeue
<1>2. CASE udptab[s].queue # <<>>
  <2>1. /\ udptab' = [udptab EXCEPT ![s].state = "USED", ![s].queue = Tail(@)]
        /\ free' = free + 1 /\ UNCHANGED emptied
    BY <1>2 DEF Dequeue
  <2>2. /\ udptab'[s].state = "USED" /\ udptab'[s].queue = Tail(udptab[s].queue)
        /\ udptab'[s].pid = udptab[s].pid
        /\ \A t \in Slot \ {s} : udptab'[t] = udptab[t]
    BY <2>1 DEF UdpTypes, Endpoint
  <2> QED BY <1>2, <2>1, <2>2
<1> QED BY <1>1, <1>2

\* What the other writes to a UDP endpoint do, field by field.
LEMMA UdpStored ==
  ASSUME UdpTypes, NEW s \in Slot, NEW state, NEW c
  PROVE  /\ udptab' = [udptab EXCEPT ![s].state = state] =>
              /\ udptab'[s].state = state /\ udptab'[s].queue = udptab[s].queue
              /\ \A t \in Slot \ {s} : udptab'[t] = udptab[t]
         /\ udptab' = [udptab EXCEPT ![s].state = state, ![s].pid = c] =>
              /\ udptab'[s].state = state /\ udptab'[s].pid = c /\ udptab'[s].queue = udptab[s].queue
              /\ \A t \in Slot \ {s} : udptab'[t] = udptab[t]
         /\ udptab' = [udptab EXCEPT ![s].queue = <<>>, ![s].state = "FREE"] =>
              /\ udptab'[s].state = "FREE" /\ udptab'[s].queue = <<>>
              /\ \A t \in Slot \ {s} : udptab'[t] = udptab[t]
BY DEF UdpTypes, Endpoint

\* udp_release frees an endpoint that nobody is in udp_recv for, or it is shared.
LEMMA UdpReleaseFlows ==
  ASSUME PacketInv, NetTypes', NEW c \in Client, NEW s \in Slot, UdpRelease(c, s)
  PROVE  PacketFlow'
<1>0. /\ UdpTypes /\ UdpTypes' /\ frame[c].at = "user" /\ NoMessages /\ Share(c, s)
      /\ udptab' = [udptab EXCEPT ![s].queue = <<>>, ![s].state = "FREE"]
      /\ UNCHANGED <<pingVars, frame, arpcache, robbed, strayed, misaddressed>>
  BY DEF PacketInv, NetTypes, UdpRelease, At, NoMessages
<1>1. udptab'[s].state = "FREE" /\ \A t \in Slot \ {s} : udptab'[t] = udptab[t]
  BY <1>0, UdpStored
<1> QED BY <1>0, <1>1, ShareLeaves, UdpUserFlows

\* udp_recv finds a packet at once.
LEMMA UdpTakeFlows ==
  ASSUME PacketInv, NetTypes', NEW c \in Client, NEW s \in Slot, frame[c].at = "user",
         udptab[s].queue # <<>>, Dequeue(c, s), NoMessages, Share(c, s),
         UNCHANGED <<frame, pingVars, arpcache, strayed, robbed, misaddressed>>
  PROVE  PacketFlow'
<1>1. udptab'[s].state = "USED" /\ \A t \in Slot \ {s} : udptab'[t] = udptab[t]
  BY DequeueFacts DEF PacketInv, NetTypes
<1> QED BY <1>1, ShareLeaves, UdpUserFlows

\* A process begins to wait in udp_recv.
UdpWaits(c, s) ==
  /\ At(c, "user") /\ udptab[s].queue = <<>>
  /\ udptab' = [udptab EXCEPT ![s].state = "RECV", ![s].pid = c]
  /\ RecvtimeCleared(c)
  /\ frame' = [frame EXCEPT ![c] = [Doing("udp_recv") EXCEPT !.slot = s]]
  /\ Share(c, s)
  /\ UNCHANGED <<pingVars, arpcache, strayed, robbed, misaddressed>>

\* udp_recv finds none, and waits.
LEMMA UdpWaitFlows ==
  ASSUME PacketInv, NetTypes', NEW c \in Client, NEW s \in Slot, UdpWaits(c, s)
  PROVE  PacketFlow'
<1>0. /\ UdpTypes /\ FrameTypes /\ MessageTypes /\ PingTypes /\ HistTypes
      /\ Waiting /\ UdpReceivers /\ PingReceivers /\ ArpInv /\ UdpInv /\ PingUsers /\ PingQueues
      /\ PingTypes' /\ c \in Proc /\ frame[c].at = "user" /\ c \notin timing
      /\ UNCHANGED <<pingVars, arpcache, strayed, robbed, misaddressed>> /\ Share(c, s)
  BY SizeFacts DEF PacketInv, NetTypes, At, UdpWaits
<1>a. PICK f : f = [Doing("udp_recv") EXCEPT !.slot = s]
  OBVIOUS
<1>1. /\ f = [Doing("udp_recv") EXCEPT !.slot = s]
      /\ f \in Frame /\ f.at = "udp_recv" /\ f.slot = s
  BY <1>a, WaitingFrames
<1>2. frame'[c] = f /\ \A q \in Proc \ {c} : frame'[q] = frame[q]
  BY <1>0, <1>1 DEF FrameTypes, UdpWaits
<1>3. /\ prmsg'[c] = "none" /\ \A q \in Proc \ {c} : prmsg'[q] = prmsg[q]
      /\ timing' = timing \cup {c}
  BY <1>0 DEF RecvtimeCleared, MessageTypes, UdpWaits
<1>4. /\ udptab'[s].state = "RECV" /\ udptab'[s].pid = c /\ udptab'[s].queue = <<>>
      /\ \A t \in Slot \ {s} : udptab'[t] = udptab[t]
  BY <1>0 DEF UdpTypes, Endpoint, UdpWaits
<1>5. Waiting'
  BY <1>0, <1>1, <1>2, <1>3 DEF Waiting, MessageTypes
<1>6. UdpReceivers'
  <2> SUFFICES ASSUME NEW t \in Slot, udptab'[t].state = "RECV", NEW p, p = udptab'[t].pid
               PROVE  p \in Client /\ frame'[p].at = "udp_recv" /\ frame'[p].slot = t
    BY DEF UdpReceivers
  <2>1. CASE t = s
    BY <1>1, <1>2, <1>4, <2>1
  <2>2. CASE t # s
    <3>1. udptab[t].state = "RECV" /\ p = udptab[t].pid
      BY <1>4, <2>2
    <3>2. p \in Client /\ frame[p].at = "udp_recv" /\ frame[p].slot = t
      BY <1>0, <3>1 DEF UdpReceivers
    <3> QED BY <1>0, <1>2, <3>2, SizeFacts
  <2> QED BY <2>1, <2>2
<1>7. PingReceivers'
  <2>1. icmptab' = icmptab
    BY <1>0 DEF pingVars
  <2>2. ASSUME NEW t \in PingSlot, icmptab[t].state = "RECV"
        PROVE  frame'[icmptab[t].pid] = frame[icmptab[t].pid]
    BY <1>0, <1>2, <2>2, SizeFacts DEF PingReceivers
  <2> QED BY <1>0, <2>1, <2>2, PingReceiversKeep
<1>8. UdpInv'
  <2> SUFFICES ASSUME NEW t \in Slot \ shared', NEW p \in Client,
                      frame'[p].at = "udp_recv" /\ frame'[p].slot = t
               PROVE  /\ \A q \in Client : frame'[q].at = "udp_recv" /\ frame'[q].slot = t => q = p
                      /\ udptab'[t].state # "FREE"
                      /\ p \in timing' => udptab'[t].state = "RECV" /\ udptab'[t].pid = p /\ udptab'[t].queue = <<>>
                      /\ prmsg'[p] = "OK" => p \in strayed' \/ udptab'[t].queue # <<>>
    BY DEF UdpInv
  <2>0. t \in Slot \ shared /\ Client \subseteq Proc
    BY <1>0, ShareLeaves, SizeFacts
  <2>1. CASE t = s
    <3>1. \A q \in Client \ {c} : ~(frame[q].at = "udp_recv" /\ frame[q].slot = s)
      BY <1>0, <2>1, ShareLeaves
    <3>2. \A q \in Client : frame'[q].at = "udp_recv" /\ frame'[q].slot = s => q = c
      BY <1>2, <2>0, <3>1
    <3> QED BY <1>3, <1>4, <2>1, <3>2
  <2>2. CASE t # s
    <3>1. p # c /\ frame[p] = frame'[p]
      BY <1>1, <1>2, <2>0, <2>2
    <3>2. \A q \in Client : frame'[q].at = "udp_recv" /\ frame'[q].slot = t =>
                              frame[q].at = "udp_recv" /\ frame[q].slot = t
      BY <1>1, <1>2, <2>0, <2>2
    <3>3. udptab'[t] = udptab[t] /\ prmsg'[p] = prmsg[p] /\ (p \in timing' => p \in timing)
      BY <1>3, <1>4, <2>0, <2>2, <3>1
    <3> QED BY <1>0, <2>0, <3>1, <3>2, <3>3 DEF UdpInv
  <2> QED BY <2>1, <2>2
<1>9. \A t \in PingSlot : PingKept(t)
  BY <1>0 DEF PingKept, pingVars
<1>10. PingUsers'
  <2>1. ASSUME NEW q \in Client, frame'[q].at = "icmp_recv"
        PROVE  /\ frame'[q] = frame[q]
               /\ q \in timing' => q \in timing
               /\ prmsg'[q] = prmsg[q]
               /\ frame[q].slot \in PingSlot
    <3>1. q # c /\ q \in Proc
      BY <1>1, <1>2, <2>1, SizeFacts
    <3> QED BY <1>0, <1>2, <1>3, <2>1, <3>1 DEF FrameTypes, SlotOK
  <2> QED BY <1>0, <1>9, <2>1, PingUsersQuiet DEF pingVars
<1>11. PingQueues'
  <2> SUFFICES ASSUME NEW t \in PingSlot PROVE PingAt(t)'
    BY DEF PingQueues
  <2>1. PingAt(t) /\ PingKept(t) /\ flooded \subseteq flooded'
    BY <1>0, <1>9 DEF PingQueues, pingVars
  <2> QED BY <1>0, <2>1, PingAtKeeps
<1>12. ArpInv'
  <2>1. ASSUME NEW q \in Proc
        PROVE  /\ frame[q].at = "arp" \/ frame'[q].at = "arp" => frame'[q] = frame[q]
               /\ frame[q].at = "arp" => prmsg'[q] \in {prmsg[q], "pid"}
    BY <1>0, <1>1, <1>2, <1>3
  <2> QED BY <1>0, <2>1, ArpQuiet
<1> QED BY <1>5, <1>6, <1>7, <1>8, <1>10, <1>11, <1>12 DEF PacketFlow, Receivers

\* The wait of udp_recv is over, with a packet or without.
LEMMA UdpRecvWokenFlows ==
  ASSUME PacketInv, NetTypes', NEW c \in Client, UdpRecvWoken(c)
  PROVE  PacketFlow'
<1>0. /\ UdpTypes /\ FrameTypes /\ MessageTypes /\ UdpInv /\ c \in Proc
      /\ frame[c].at = "udp_recv" /\ c \notin timing /\ Return(c) /\ Received(c)
      /\ UNCHANGED <<pingVars, arpcache, strayed, robbed, misaddressed, shared>>
  BY SizeFacts DEF PacketInv, NetTypes, UdpRecvWoken, At
<1>1. PICK s \in Slot : s = frame[c].slot
  BY <1>0 DEF FrameTypes, SlotOK
<1>2. /\ \A q \in Proc \ {c} : frame'[q] = frame[q]
      /\ frame'[c].at \in {"getbuf", "wait", "user"}
  BY <1>0, ReturnCarried DEF Carried
<1>3. timing' = timing /\ \A q \in Proc \ {c} : prmsg'[q] = prmsg[q]
  BY <1>0 DEF Received, MessageTypes
<1>4. s \in shared \/ \A q \in Client : ~(frame'[q].at = "udp_recv" /\ frame'[q].slot = s)
  BY <1>0, <1>1, <1>2, SizeFacts DEF UdpInv
<1>5. (\A t \in Slot : UdpKept(t) \/ UdpAbandoned(t)) /\ Settled(c)
  <2>1. CASE UNCHANGED udptab /\ emptied' # {}
    BY <1>0, <1>2, <1>3, <2>1 DEF UdpKept, Settled
  <2>2. CASE udptab'[s].state = "USED" /\ \A t \in Slot \ {s} : udptab'[t] = udptab[t]
    <3>1. UdpAbandoned(s)
      BY <1>0, <1>4, <2>2 DEF UdpAbandoned
    <3> QED BY <1>0, <1>1, <1>2, <1>3, <2>2, <3>1 DEF UdpKept, Settled
  <2>3. CASE Dequeue(c, s)
    BY <1>0, <2>1, <2>2, <2>3, DequeueFacts
  <2>4. CASE udptab' = [udptab EXCEPT ![s].state = "USED"]
    BY <1>0, <2>2, <2>4, UdpStored
  <2> QED BY <1>1, <2>3, <2>4 DEF UdpRecvWoken
<1>6. \A t \in PingSlot : PingKept(t)
  BY <1>0 DEF PingKept, pingVars
<1> QED BY <1>0, <1>2, <1>3, <1>5, <1>6, AbandonedFlows DEF pingVars
-----------------------------------------------------------------------------
(* The queue of replies of a ping endpoint.                                *)

\* Remainders, as far as the reader of a ping endpoint gets.
LEMMA WrapFacts ==
  /\ \A a \in 0 .. ICMP_SLOTS-1 : a % ICMP_SLOTS = a
  /\ ICMP_SLOTS % ICMP_SLOTS = 0
<1>1. ICMP_SLOTS \in Nat \ {0}
  BY SizeFacts
<1> QED BY <1>1

\* The packets that the reader of a ping endpoint counts are there, as long as the
\* writer has not wrapped: the reader wraps no earlier.
LEMMA TakenPresent ==
  ASSUME NEW e \in PingEndpoint, PingQueue(e), NEW k \in Nat, k <= e.count
  PROVE  LET t == e.given - e.count
         IN  /\ Taken(e, k) = t .. t+k-1 /\ Cardinality(Taken(e, k)) = k
             /\ \A i \in Taken(e, k) : i \in PingPlace /\ e.queue[i]
<1> DEFINE t == e.given - e.count
<1>1. /\ e.given \in Nat /\ e.count \in Int /\ e.head \in Nat /\ t \in Nat
      /\ e.given <= ICMP_QSIZ /\ ICMP_QSIZ <= ICMP_SLOTS
      /\ ICMP_QSIZ \in Nat /\ ICMP_SLOTS \in Nat
      /\ e.head = (IF t = ICMP_SLOTS THEN 0 ELSE t)
  BY SizeFacts DEF PingEndpoint, PingQueue
<1>2. \A i \in PingPlace : e.queue[i] <=> t <= i /\ i < e.given
  BY DEF PingQueue
<1>3. e.given = t + e.count
  BY <1>1
<1> HIDE DEF t
<1>4. Taken(e, k) = t .. t+k-1
  <2>1. CASE k = 0
    <3>1. 0 .. k-1 = {} /\ t .. t+k-1 = {}
      BY <1>1, <2>1
    <3> QED BY <3>1 DEF Taken
  <2>2. CASE k > 0
    <3>1. e.head = t
      BY <1>1, <1>3, <2>2
    <3>2. ASSUME NEW i \in 0 .. k-1 PROVE t + i \in 0 .. ICMP_SLOTS-1
      BY <1>1, <1>3
    <3>3. \A i \in 0 .. k-1 : (e.head + i) % ICMP_SLOTS = t + i
      BY <3>1, <3>2, WrapFacts
    <3>4. Taken(e, k) = {t + i : i \in 0 .. k-1}
      BY <3>3 DEF Taken
    <3>5. ASSUME NEW j \in t .. t+k-1 PROVE j \in {t + i : i \in 0 .. k-1}
      <4>1. j - t \in 0 .. k-1 /\ j = t + (j - t)
        BY <1>1
      <4> QED BY <4>1
    <3>6. ASSUME NEW i \in 0 .. k-1 PROVE t + i \in t .. t+k-1
      BY <1>1
    <3> QED BY <3>4, <3>5, <3>6
  <2> QED BY <2>1, <2>2
<1>5. Cardinality(t .. t+k-1) = k
  <2>1. t \in Int /\ t+k-1 \in Int
    BY <1>1
  <2>2. Cardinality(t .. t+k-1) = IF t > t+k-1 THEN 0 ELSE (t+k-1) - t + 1
    BY <2>1, FS_Interval
  <2> QED BY <1>1, <2>2
<1>6. ASSUME NEW i \in t .. t+k-1 PROVE i \in PingPlace /\ e.queue[i]
  <2>1. i \in PingPlace /\ t <= i /\ i < e.given
    BY <1>1, <1>3 DEF PingPlace
  <2> QED BY <1>2, <2>1
<1> QED BY <1>4, <1>5, <1>6 DEF t

\* A queue that packets were taken off is still in order.
LEMMA TakenOffQueue ==
  ASSUME NEW e \in PingEndpoint, PingQueue(e), NEW k \in Nat, k <= e.count,
         NEW state \in {"FREE", "USED"}
  PROVE  PingQueue(TakenOff(e, k, state))
<1>1. PICK r \in PingEndpoint :
             /\ r = TakenOff(e, k, state)
             /\ r.count = e.count - k /\ r.head = (e.head + k) % ICMP_SLOTS
             /\ r.tail = e.tail /\ r.given = e.given
             /\ r.queue = [i \in PingPlace |-> e.queue[i] /\ i \notin Taken(e, k)]
  BY TakenOffFacts
<1>2. PICK t \in Nat : t = e.given - e.count
  BY DEF PingEndpoint, PingQueue
<1>3. /\ e.given \in Nat /\ e.count \in Nat /\ e.head \in Nat
      /\ e.given <= ICMP_QSIZ /\ ICMP_QSIZ <= ICMP_SLOTS
      /\ ICMP_QSIZ \in Nat /\ ICMP_SLOTS \in Nat \ {0}
      /\ e.head = (IF t = ICMP_SLOTS THEN 0 ELSE t)
  BY <1>2, SizeFacts DEF PingEndpoint, PingQueue
<1>4. /\ \A i \in PingPlace : e.queue[i] <=> t <= i /\ i < e.given
      /\ e.tail = IF e.given = ICMP_QSIZ THEN 0 ELSE e.given
  BY <1>2 DEF PingQueue
<1>5. Taken(e, k) = t .. t+k-1
  BY <1>2, TakenPresent
<1>6. r.given - r.count = t + k /\ t + k <= ICMP_SLOTS /\ r.count >= 0
  BY <1>1, <1>2, <1>3
<1>7. r.head = IF t + k = ICMP_SLOTS THEN 0 ELSE t + k
  <2>1. CASE t = ICMP_SLOTS
    <3>1. e.head = 0 /\ k = 0
      BY <1>3, <1>6, <2>1
    <3> QED BY <1>1, <1>3, <2>1, <3>1, WrapFacts
  <2>2. CASE t # ICMP_SLOTS
    <3>1. e.head + k = t + k
      BY <1>3, <2>2
    <3>2. CASE t + k = ICMP_SLOTS
      BY <1>1, <3>1, <3>2, WrapFacts
    <3>3. CASE t + k # ICMP_SLOTS
      <4>1. t + k \in 0 .. ICMP_SLOTS-1
        BY <1>3, <1>6, <3>3
      <4> QED BY <1>1, <3>1, <3>3, <4>1, WrapFacts
    <3> QED BY <3>2, <3>3
  <2> QED BY <2>1, <2>2
<1>8. ASSUME NEW i \in PingPlace PROVE r.queue[i] <=> t + k <= i /\ i < r.given
  <2>1. r.queue[i] <=> e.queue[i] /\ i \notin t .. t+k-1
    BY <1>1, <1>5
  <2>2. i \in Nat
    BY SizeFacts
  <2>3. e.queue[i] <=> t <= i /\ i < e.given
    BY <1>4
  <2>4. i \in t .. t+k-1 <=> t <= i /\ i < t + k
    BY <2>2
  <2>5. r.given = e.given
    BY <1>1
  <2>6. (t <= i /\ i < e.given) /\ ~(t <= i /\ i < t + k) <=> t + k <= i /\ i < e.given
    BY <2>2, <1>3
  <2> QED BY <2>1, <2>3, <2>4, <2>5, <2>6, Zenon
<1>9. r.given <= ICMP_QSIZ /\ r.tail = IF r.given = ICMP_QSIZ THEN 0 ELSE r.given
  BY <1>1, <1>3, <1>4
<1>10. t + k >= 0
  BY <1>2
<1>11. PingQueue(r)
  BY <1>6, <1>7, <1>8, <1>9, <1>10 DEF PingQueue
<1> QED BY <1>1, <1>11

\* A ping endpoint from which its user takes k packets.
LEMMA PingTaken ==
  ASSUME PingTypes, PingQueues, NEW s \in PingSlot, NEW k \in Int, NEW state \in {"FREE", "USED"},
         icmptab[s].state # "FREE", state = "FREE" => k = icmptab[s].count,
         Taken(icmptab[s], k) \subseteq Replies(s), Cardinality(Taken(icmptab[s], k)) = k,
         icmptab' = [icmptab EXCEPT ![s] = TakenOff(icmptab[s], k, state)], UNCHANGED flooded
  PROVE  PingAt(s)' /\ icmptab'[s].state = state
<1>1. PICK e \in PingEndpoint : e = icmptab[s]
  BY DEF PingTypes
<1>2. PICK r \in PingEndpoint :
             /\ r = TakenOff(e, k, state)
             /\ r.state = state /\ r.count = e.count - k
             /\ r.queue = [i \in PingPlace |-> e.queue[i] /\ i \notin Taken(e, k)]
  BY TakenOffFacts
<1>3. icmptab'[s] = r
  BY <1>1, <1>2 DEF PingTypes
<1>4. PICK S : S = Replies(s) /\ IsFiniteSet(S) /\ Cardinality(S) \in Nat
  BY RepliesFinite
<1>5. PICK T : T = Taken(e, k)
  OBVIOUS
<1>6. T \in SUBSET S /\ Cardinality(T) = k /\ IsFiniteSet(T) /\ k \in Nat /\ k <= Cardinality(S)
  BY <1>1, <1>4, <1>5, FS_Subset, FS_CardinalityType
<1>7. Cardinality(S) <= e.count
  BY <1>1, <1>4 DEF PingQueues, PingAt
<1>8. Replies(s)' = S \ T
  BY <1>1, <1>2, <1>3, <1>4, <1>5 DEF Replies
<1>9. Cardinality(S \ T) = Cardinality(S) - k
  <2>1. S \cap T = T
    BY <1>6
  <2>2. Cardinality(S \ T) = Cardinality(S) - Cardinality(S \cap T)
    BY <1>4, FS_Difference, Zenon
  <2> QED BY <1>6, <2>1, <2>2
<1>10. Cardinality(Replies(s)') <= r.count
  <2>1. PICK a \in Nat, b \in Int : a = Cardinality(S) /\ b = e.count
    BY <1>1, <1>4 DEF PingEndpoint
  <2> QED BY <1>2, <1>6, <1>7, <1>8, <1>9, <2>1
<1>11. ASSUME state = "FREE" PROVE \A i \in PingPlace : ~r.queue[i]
  <2>1. Cardinality(S) = Cardinality(T)
    <3>1. PICK a \in Nat, b \in Int : a = Cardinality(S) /\ b = e.count
      BY <1>1, <1>4 DEF PingEndpoint
    <3>2. k = b
      BY <1>1, <1>11, <3>1
    <3> QED BY <1>6, <1>7, <3>1, <3>2
  <2>2. S = T
    BY <1>4, <1>6, <2>1, FS_Subset
  <2>3. \A i \in PingPlace : e.queue[i] => i \in Taken(e, k)
    BY <1>1, <1>4, <1>5, <2>2 DEF Replies
  <2>4. \A i \in PingPlace : r.queue[i] <=> e.queue[i] /\ i \notin Taken(e, k)
    BY <1>2
  <2> QED BY <2>3, <2>4
<1>12. ASSUME s \notin flooded PROVE PingQueue(r)
  <2>1. PingQueue(e)
    BY <1>1, <1>12 DEF PingQueues, PingAt
  <2>2. k <= e.count
    <3>1. PICK a \in Nat, b \in Int : a = Cardinality(S) /\ b = e.count
      BY <1>1, <1>4 DEF PingEndpoint
    <3> QED BY <1>6, <1>7, <3>1
  <2> QED BY <1>2, <1>6, <2>1, <2>2, TakenOffQueue
<1>13. PingAt(s)'
  BY <1>2, <1>3, <1>10, <1>11, <1>12 DEF PingAt
<1> QED BY <1>2, <1>3, <1>13

\* A reader of an endpoint that has not been flooded finds what it counts.
LEMMA PingFound ==
  ASSUME PingTypes, PingQueues, NEW s \in PingSlot, NEW k \in Int, NEW c, NEW state,
         icmptab[s].state # "FREE", 0 <= k, k <= icmptab[s].count, s \notin flooded,
         IcmpDequeue(c, s, k, state)
  PROVE  UNCHANGED emptied
<1>1. PICK e \in PingEndpoint : e = icmptab[s]
  BY DEF PingTypes
<1>2. PingQueue(e) /\ k \in Nat /\ k <= e.count
  BY <1>1 DEF PingQueues, PingAt
<1>3. Taken(e, k) \subseteq Replies(s) /\ Cardinality(Taken(e, k)) = k
  BY <1>1, <1>2, TakenPresent DEF Replies
<1> QED BY <1>1, <1>3, IcmpDequeueCases
-----------------------------------------------------------------------------
(* The users of ping endpoints.                                            *)

\* A step of a user of ping leaves UDP, ARP and the history of both alone.
PingPlain ==
  /\ \A t \in Slot : UdpKept(t)
  /\ UNCHANGED <<flooded, arpcache, robbed, strayed, misaddressed, shared>>

\* What the only user of a ping endpoint does with it, while it does not wait.
LEMMA PingUserFlows ==
  ASSUME PacketInv, NetTypes', NEW c \in Client, NEW s \in PingSlot,
         \A t \in PingSlot \ {s} : icmptab'[t] = icmptab[t],
         icmptab'[s].state # "RECV", PingAt(s)',
         icmptab[s].state # "FREE" => icmptab[s].user = c,
         \/ frame[c].at = "user" /\ UNCHANGED frame /\ NoMessages
         \/ /\ frame[c].at = "icmp_recv" /\ frame[c].slot = s /\ c \notin timing
            /\ Return(c) /\ Received(c),
         PingPlain
  PROVE  PacketFlow'
<1>0. PingUsers /\ FrameTypes /\ MessageTypes /\ c \in Proc
  BY SizeFacts DEF PacketInv, NetTypes
<1>1. /\ \A q \in Proc \ {c} : frame'[q] = frame[q] /\ prmsg'[q] = prmsg[q]
      /\ timing' = timing /\ frame'[c].at \in {"getbuf", "wait", "user"}
  BY <1>0, ReturnCarried DEF Carried, Received, MessageTypes, NoMessages
<1>2. ASSUME NEW q \in Client PROVE ~(frame'[q].at = "icmp_recv" /\ frame'[q].slot = s)
  <2>1. CASE q = c
    BY <1>1, <2>1
  <2>2. CASE q # c
    <3>1. frame'[q] = frame[q]
      BY <1>1, <2>2, SizeFacts
    <3> QED BY <1>0, <2>2, <3>1 DEF PingUsers
  <2> QED BY <2>1, <2>2
<1>3. PingAbandoned(s)
  BY <1>2 DEF PingAbandoned
<1>4. \A t \in PingSlot : PingKept(t) \/ PingAbandoned(t)
  BY <1>3 DEF PingKept
<1>5. Settled(c)
  BY <1>1 DEF Settled, Told, Heard, NoMessages
<1>6. frame[c].at # "arp" /\ frame'[c].at # "arp"
  BY <1>1
<1> QED BY <1>1, <1>4, <1>5, <1>6, AbandonedFlows DEF PingPlain

\* It misses a packet.
LEMMA PingMissedFlows ==
  ASSUME PacketInv, NetTypes', NEW c \in Client, UNCHANGED icmptab, emptied' # {},
         \/ frame[c].at = "user" /\ UNCHANGED frame /\ NoMessages
         \/ /\ frame[c].at = "icmp_recv" /\ c \notin timing
            /\ Return(c) /\ Received(c),
         PingPlain
  PROVE  PacketFlow'
<1>0. FrameTypes /\ MessageTypes /\ c \in Proc
  BY SizeFacts DEF PacketInv, NetTypes
<1>1. /\ \A q \in Proc \ {c} : frame'[q] = frame[q] /\ prmsg'[q] = prmsg[q]
      /\ timing' = timing /\ frame'[c].at \in {"getbuf", "wait", "user"}
  BY <1>0, ReturnCarried DEF Carried, Received, MessageTypes, NoMessages
<1>2. \A t \in PingSlot : PingKept(t)
  BY DEF PingKept
<1>3. Settled(c)
  BY <1>1 DEF Settled, Told, Heard, NoMessages
<1>4. frame[c].at # "arp" /\ frame'[c].at # "arp"
  BY <1>1
<1> QED BY <1>1, <1>2, <1>3, <1>4, AbandonedFlows DEF PingPlain

\* Its user takes packets off a ping endpoint, or misses them.
LEMMA PingDequeueFlows ==
  ASSUME PacketInv, NetTypes', NEW c \in Client, NEW s \in PingSlot, NEW k \in Int,
         NEW state \in {"FREE", "USED"}, IcmpDequeue(c, s, k, state),
         icmptab[s].state # "FREE", icmptab[s].user = c, state = "FREE" => k = icmptab[s].count,
         \/ frame[c].at = "user" /\ UNCHANGED frame /\ NoMessages
         \/ /\ frame[c].at = "icmp_recv" /\ frame[c].slot = s /\ c \notin timing
            /\ Return(c) /\ Received(c),
         PingPlain
  PROVE  PacketFlow'
<1>0. PingTypes /\ PingQueues
  BY DEF PacketInv, NetTypes
<1>1. CASE /\ Taken(icmptab[s], k) \subseteq Replies(s) /\ Cardinality(Taken(icmptab[s], k)) = k
           /\ icmptab' = [icmptab EXCEPT ![s] = TakenOff(icmptab[s], k, state)]
  <2>1. PingAt(s)' /\ icmptab'[s].state = state
    BY <1>0, <1>1, PingTaken DEF PingPlain
  <2>2. \A t \in PingSlot \ {s} : icmptab'[t] = icmptab[t]
    BY <1>0, <1>1 DEF PingTypes
  <2> QED BY <2>1, <2>2, PingUserFlows
<1>2. CASE /\ emptied' = emptied \cup {<<c, "icmp", s>>} /\ UNCHANGED <<icmptab, free>>
  BY <1>2, PingMissedFlows
<1> QED BY <1>1, <1>2, IcmpDequeueCases

\* icmp_register fills an endpoint with an empty queue.
LEMMA IcmpRegisterFlows ==
  ASSUME PacketInv, NetTypes', NEW c \in Client, NEW ip, IcmpRegister(c, ip)
  PROVE  PacketFlow'
<1>0. PingTypes /\ PingTypes'
  BY DEF PacketInv, NetTypes
<1>1. PICK s \in PingSlot :
        /\ icmptab[s].state = "FREE"
        /\ icmptab' = [icmptab EXCEPT ![s] =
             [FreePing EXCEPT !.state = "USED", !.remip = ip, !.user = c]]
  BY IcmpRegisterCase
<1>2. PICK e : e = icmptab'[s]
  OBVIOUS
<1>3. e = [FreePing EXCEPT !.state = "USED", !.remip = ip, !.user = c]
  BY <1>0, <1>1, <1>2 DEF PingTypes
<1>4. /\ e.state = "USED" /\ e.given = 0 /\ e.count = 0 /\ e.head = 0 /\ e.tail = 0
      /\ e.queue = [i \in PingPlace |-> FALSE]
  BY <1>3 DEF FreePing
<1>5. Replies(s)' = {}
  BY <1>2, <1>4 DEF Replies
<1>6. Cardinality(Replies(s)') = 0
  BY <1>5, FS_EmptySet
<1>7. PingQueue(e)
  <2>1. \A i \in PingPlace : i \in Nat /\ ~e.queue[i]
    BY <1>4, SizeFacts
  <2>2. \A i \in PingPlace : e.queue[i] <=> 0 <= i /\ i < 0
    BY <2>1
  <2> QED BY <1>4, <2>2, SizeFacts DEF PingQueue
<1>8. PingAt(s)'
  BY <1>2, <1>4, <1>6, <1>7 DEF PingAt
<1>9. \A t \in PingSlot \ {s} : icmptab'[t] = icmptab[t]
  BY <1>0, <1>1 DEF PingTypes
<1>10. frame[c].at = "user" /\ UNCHANGED frame /\ NoMessages /\ PingPlain
  BY DEF IcmpRegister, At, PingPlain, UdpKept, histVars, NoMessages
<1> QED BY <1>1, <1>2, <1>4, <1>8, <1>9, <1>10, PingUserFlows

\* icmp_release takes off all the packets that are counted.
LEMMA IcmpReleaseFlows ==
  ASSUME PacketInv, NetTypes', NEW c \in Client, NEW s \in PingSlot, IcmpRelease(c, s)
  PROVE  PacketFlow'
<1>1. frame[c].at = "user" /\ UNCHANGED frame /\ NoMessages /\ PingPlain
  BY DEF IcmpRelease, At, PingPlain, UdpKept, NoMessages
<1>2. icmptab[s].count \in Int
  BY DEF PacketInv, NetTypes, PingTypes, PingEndpoint
<1>3. /\ icmptab[s].state # "FREE" /\ icmptab[s].user = c
      /\ IcmpDequeue(c, s, icmptab[s].count, "FREE")
  BY DEF IcmpRelease
<1> QED BY <1>1, <1>2, <1>3, PingDequeueFlows

\* A process begins to wait in icmp_recv.
PingWaits(c, s) ==
  /\ At(c, "user") /\ icmptab[s].user = c /\ icmptab[s].state = "USED" /\ icmptab[s].count = 0
  /\ icmptab' = [icmptab EXCEPT ![s].state = "RECV", ![s].pid = c]
  /\ RecvtimeCleared(c)
  /\ frame' = [frame EXCEPT ![c] = [Doing("icmp_recv") EXCEPT !.slot = s]]
  /\ PingPlain /\ UNCHANGED udptab

\* icmp_recv finds no packet, and waits.
LEMMA PingWaitFlows ==
  ASSUME PacketInv, NetTypes', NEW c \in Client, NEW s \in PingSlot, PingWaits(c, s)
  PROVE  PacketFlow'
<1>0. /\ UdpTypes /\ FrameTypes /\ MessageTypes /\ PingTypes /\ HistTypes
      /\ Waiting /\ UdpReceivers /\ PingReceivers /\ ArpInv /\ UdpInv /\ PingUsers /\ PingQueues
      /\ PingTypes' /\ c \in Proc /\ frame[c].at = "user" /\ c \notin timing
      /\ UNCHANGED <<udptab, flooded, arpcache, strayed, robbed, misaddressed, shared>>
  BY SizeFacts DEF PacketInv, NetTypes, At, PingWaits, PingPlain
<1>1. PICK f \in Frame : /\ f = [Doing("icmp_recv") EXCEPT !.slot = s]
                         /\ f.at = "icmp_recv" /\ f.slot = s
  BY WaitingFrames
<1>2. frame'[c] = f /\ \A q \in Proc \ {c} : frame'[q] = frame[q]
  BY <1>0, <1>1 DEF FrameTypes, PingWaits
<1>3. /\ prmsg'[c] = "none" /\ \A q \in Proc \ {c} : prmsg'[q] = prmsg[q]
      /\ timing' = timing \cup {c}
  BY <1>0 DEF RecvtimeCleared, MessageTypes, PingWaits
<1>4. /\ icmptab'[s].state = "RECV" /\ icmptab'[s].pid = c
      /\ icmptab'[s].user = c /\ icmptab'[s].count = 0
      /\ icmptab'[s].queue = icmptab[s].queue /\ icmptab'[s].given = icmptab[s].given
      /\ icmptab'[s].head = icmptab[s].head /\ icmptab'[s].tail = icmptab[s].tail
      /\ \A t \in PingSlot \ {s} : icmptab'[t] = icmptab[t]
      /\ icmptab[s].count = 0 /\ icmptab[s].state = "USED" /\ icmptab[s].user = c
  BY <1>0 DEF PingTypes, PingEndpoint, PingWaits
<1>5. Waiting'
  BY <1>0, <1>1, <1>2, <1>3 DEF Waiting, MessageTypes
<1>6. PingReceivers'
  <2> SUFFICES ASSUME NEW t \in PingSlot, icmptab'[t].state = "RECV", NEW p, p = icmptab'[t].pid
               PROVE  p \in Client /\ frame'[p].at = "icmp_recv" /\ frame'[p].slot = t
    BY DEF PingReceivers
  <2>1. CASE t = s
    BY <1>1, <1>2, <1>4, <2>1
  <2>2. CASE t # s
    <3>1. icmptab[t].state = "RECV" /\ p = icmptab[t].pid
      BY <1>4, <2>2
    <3>2. p \in Client /\ frame[p].at = "icmp_recv" /\ frame[p].slot = t
      BY <1>0, <3>1 DEF PingReceivers
    <3> QED BY <1>0, <1>2, <3>2, SizeFacts
  <2> QED BY <2>1, <2>2
<1>7. UdpReceivers'
  <2>1. ASSUME NEW t \in Slot, udptab[t].state = "RECV"
        PROVE  frame'[udptab[t].pid] = frame[udptab[t].pid]
    BY <1>0, <1>2, <2>1, SizeFacts DEF UdpReceivers
  <2> QED BY <1>0, <2>1, UdpReceiversKeep
<1>8. UdpInv'
  <2>1. ASSUME NEW q \in Client, frame'[q].at = "udp_recv"
        PROVE  /\ frame'[q] = frame[q]
               /\ q \in timing' => q \in timing
               /\ prmsg'[q] = prmsg[q]
               /\ frame[q].slot \in Slot
    <3>1. q # c /\ q \in Proc
      BY <1>1, <1>2, <2>1, SizeFacts
    <3> QED BY <1>0, <1>2, <1>3, <2>1, <3>1 DEF FrameTypes, SlotOK
  <2>2. \A t \in Slot : UdpKept(t)
    BY <1>0 DEF UdpKept
  <2> QED BY <1>0, <2>1, <2>2, UdpQuiet
<1>9. PingUsers'
  <2> SUFFICES ASSUME NEW p \in Client, frame'[p].at = "icmp_recv", NEW t, t = frame'[p].slot
               PROVE  /\ icmptab'[t].user = p /\ icmptab'[t].state # "FREE"
                      /\ p \in timing' => icmptab'[t].state = "RECV" /\ icmptab'[t].pid = p /\ icmptab'[t].count = 0
                      /\ prmsg'[p] = "OK" => p \in strayed' \/ t \in flooded' \/ icmptab'[t].count > 0
    BY DEF PingUsers
  <2>1. CASE p = c
    BY <1>1, <1>2, <1>3, <1>4, <2>1
  <2>2. CASE p # c
    <3>1. p \in Proc /\ frame'[p] = frame[p] /\ prmsg'[p] = prmsg[p] /\ (p \in timing' => p \in timing)
      BY <1>2, <1>3, <2>2, SizeFacts
    <3>2. /\ icmptab[t].user = p /\ icmptab[t].state # "FREE"
          /\ p \in timing => icmptab[t].state = "RECV" /\ icmptab[t].pid = p /\ icmptab[t].count = 0
          /\ prmsg[p] = "OK" => p \in strayed \/ t \in flooded \/ icmptab[t].count > 0
      BY <1>0, <3>1 DEF PingUsers
    <3>3. t \in PingSlot \ {s}
      BY <1>0, <1>4, <2>2, <3>1, <3>2 DEF FrameTypes, SlotOK
    <3> QED BY <1>0, <1>4, <3>1, <3>2, <3>3
  <2> QED BY <2>1, <2>2
<1>10. PingQueues'
  <2> SUFFICES ASSUME NEW t \in PingSlot PROVE PingAt(t)'
    BY DEF PingQueues
  <2>0. PingAt(t)
    BY <1>0 DEF PingQueues
  <2>1. CASE t = s
    <3>1. Replies(s)' = Replies(s)
      BY <1>4 DEF Replies
    <3>2. Cardinality(Replies(s)') = Cardinality(Replies(s))
      BY <3>1
    <3>3. /\ Cardinality(Replies(s)) <= 0
          /\ s \notin flooded => PingQueue(icmptab[s])
      BY <1>4, <2>0, <2>1 DEF PingAt
    <3>4. s \notin flooded => PingQueue(icmptab'[s])
      BY <1>4, <3>3 DEF PingQueue
    <3> QED BY <1>0, <1>4, <2>1, <3>2, <3>3, <3>4 DEF PingAt
  <2>2. CASE t # s
    <3>1. PingKept(t) /\ flooded \subseteq flooded'
      BY <1>0, <1>4, <2>2 DEF PingKept
    <3> QED BY <1>0, <2>0, <3>1, PingAtKeeps
  <2> QED BY <2>1, <2>2
<1>11. ArpInv'
  <2>1. ASSUME NEW q \in Proc
        PROVE  /\ frame[q].at = "arp" \/ frame'[q].at = "arp" => frame'[q] = frame[q]
               /\ frame[q].at = "arp" => prmsg'[q] \in {prmsg[q], "pid"}
    BY <1>0, <1>1, <1>2, <1>3
  <2> QED BY <1>0, <2>1, ArpQuiet
<1> QED BY <1>5, <1>6, <1>7, <1>8, <1>9, <1>10, <1>11 DEF PacketFlow, Receivers

\* icmp_recv takes a packet or waits.
LEMMA IcmpRecvFlows ==
  ASSUME PacketInv, NetTypes', NEW c \in Client, NEW s \in PingSlot, IcmpRecv(c, s)
  PROVE  PacketFlow'
<1>1. PingPlain /\ UNCHANGED udptab /\ frame[c].at = "user"
  BY DEF IcmpRecv, PingPlain, UdpKept, At
<1>2. icmptab[s].user = c /\ icmptab[s].state = "USED"
  BY DEF IcmpRecv
<1>3. CASE IcmpDequeue(c, s, 1, "USED") /\ NoMessages /\ UNCHANGED frame
  BY <1>1, <1>2, <1>3, PingDequeueFlows
<1>4. CASE /\ icmptab[s].count = 0
           /\ icmptab' = [icmptab EXCEPT ![s].state = "RECV", ![s].pid = c]
           /\ RecvtimeCleared(c)
           /\ frame' = [frame EXCEPT ![c] = [Doing("icmp_recv") EXCEPT !.slot = s]]
  <2>1. PingWaits(c, s)
    BY <1>1, <1>4 DEF PingWaits, IcmpRecv
  <2> QED BY <2>1, PingWaitFlows
<1> QED BY <1>3, <1>4 DEF IcmpRecv

\* The wait of icmp_recv is over, with a packet or without.
LEMMA IcmpRecvWokenFlows ==
  ASSUME PacketInv, NetTypes', NEW c \in Client, IcmpRecvWoken(c)
  PROVE  PacketFlow'
<1>0. /\ PingTypes /\ FrameTypes /\ PingUsers /\ PingQueues /\ c \in Proc
      /\ frame[c].at = "icmp_recv" /\ c \notin timing /\ Return(c) /\ Received(c)
      /\ PingPlain
  BY SizeFacts DEF PacketInv, NetTypes, IcmpRecvWoken, At, PingPlain, UdpKept
<1>1. PICK s \in PingSlot : s = frame[c].slot
  BY <1>0 DEF FrameTypes, SlotOK
<1>2. icmptab[s].user = c /\ icmptab[s].state # "FREE"
  BY <1>0, <1>1 DEF PingUsers
<1>3. CASE IcmpDequeue(c, s, 1, "USED")
  BY <1>0, <1>1, <1>2, <1>3, PingDequeueFlows
<1>4. CASE icmptab' = [icmptab EXCEPT ![s].state = "USED"]
  <2>1. /\ icmptab'[s].state = "USED" /\ icmptab'[s].count = icmptab[s].count
        /\ icmptab'[s].queue = icmptab[s].queue /\ icmptab'[s].given = icmptab[s].given
        /\ icmptab'[s].head = icmptab[s].head /\ icmptab'[s].tail = icmptab[s].tail
        /\ \A t \in PingSlot \ {s} : icmptab'[t] = icmptab[t]
    BY <1>0, <1>4 DEF PingTypes, PingEndpoint
  <2>2. Replies(s)' = Replies(s)
    BY <2>1 DEF Replies
  <2>3. Cardinality(Replies(s)') = Cardinality(Replies(s))
    BY <2>2
  <2>4. PingAt(s)
    BY <1>0 DEF PingQueues
  <2>5. PingQueue(icmptab[s]) => PingQueue(icmptab'[s])
    BY <2>1 DEF PingQueue
  <2>6. PingAt(s)'
    BY <1>0, <1>2, <2>1, <2>3, <2>4, <2>5 DEF PingAt, PingPlain
  <2> QED BY <1>0, <1>1, <1>2, <2>1, <2>6, PingUserFlows
<1> QED BY <1>1, <1>3, <1>4 DEF IcmpRecvWoken
-----------------------------------------------------------------------------
(* The invariant, and what follows from it.                                *)

\* What the processes do that use the endpoints.
LEMMA ClientStepFlows ==
  ASSUME PacketInv, NetTypes', NEW c \in Client,
         \/ \E r \in load.endpoints : UdpRegister(c, r)
         \/ \E s \in Slot :
              \/ UdpRecv(c, s) \/ UdpRelease(c, s) \/ UdpSend(c, s)
              \/ \E d \in load.dests : UdpSendto(c, s, d)
         \/ \E ip \in load.pings : IcmpRegister(c, ip)
         \/ \E s \in PingSlot : IcmpSend(c, s) \/ IcmpRecv(c, s) \/ IcmpRelease(c, s)
         \/ UdpRecvWoken(c) \/ IcmpRecvWoken(c) \/ SendWoken(c) \/ UdpSendtoWoken(c)
         \/ ChildExits(c)
  PROVE  PacketFlow'
<1>0. /\ load \in Load /\ UdpTypes /\ PingTypes /\ FrameTypes /\ c \in Proc
  BY NetSizes, SizeFacts DEF PacketInv, NetTypes
<1>1. ASSUME NEW r, UdpRegister(c, r) PROVE PacketFlow'
  BY <1>1, UdpRegisterFlows
<1>2. ASSUME NEW s \in Slot, UdpRecv(c, s) PROVE PacketFlow'
  <2>1. /\ frame[c].at = "user" /\ Share(c, s)
        /\ UNCHANGED <<pingVars, arpcache, strayed, robbed, misaddressed>>
    BY <1>2 DEF UdpRecv, At
  <2>2. CASE udptab[s].queue # <<>> /\ Dequeue(c, s) /\ NoMessages /\ UNCHANGED frame
    BY <2>1, <2>2, UdpTakeFlows
  <2>3. CASE UdpWaits(c, s)
    BY <2>3, UdpWaitFlows
  <2> QED BY <1>2, <2>1, <2>2, <2>3 DEF UdpRecv, UdpWaits
<1>3. ASSUME NEW s \in Slot, UdpRelease(c, s) PROVE PacketFlow'
  BY <1>3, UdpReleaseFlows
<1>4. ASSUME NEW s \in Slot, UdpSend(c, s) PROVE PacketFlow'
  <2>1. PICK pkt \in Packet : pkt = UdpPacket(s, udptab[s].remip, udptab[s].remport)
    BY <1>0, UdpPacketTypes DEF UdpTypes, Endpoint
  <2>2. PICK f : f = [Doing("send") EXCEPT !.pkt = pkt]
    OBVIOUS
  <2>5. f.at \in {"send", "udp_sendto"}
    BY <2>2 DEF Doing
  <2>3. SendOrWait(c, pkt, f) /\ UNCHANGED <<strayed, shared>>
    BY <1>4, <2>1, <2>2 DEF UdpSend
  <2>4. frame[c].at = "user" /\ c \notin timing
    BY <1>4 DEF UdpSend, At
  <2> QED BY <1>0, <2>3, <2>4, <2>5, SendOrWaitFlows
<1>5. ASSUME NEW s \in Slot, NEW d \in load.dests, UdpSendto(c, s, d) PROVE PacketFlow'
  <2>0. d.ip \in Addr /\ d.port \in Nat
    BY <1>0, <1>5 DEF Load
  <2>1. PICK pkt \in Packet : pkt = UdpPacket(s, d.ip, d.port)
    BY <1>0, <2>0, UdpPacketTypes
  <2>2. PICK f : f = [Doing("udp_sendto") EXCEPT !.slot = s, !.pkt = pkt]
    OBVIOUS
  <2>5. f.at \in {"send", "udp_sendto"}
    BY <2>2 DEF Doing
  <2>3. SendOrWait(c, pkt, f) /\ UNCHANGED <<strayed, shared>>
    BY <1>5, <2>1, <2>2 DEF UdpSendto
  <2>4. frame[c].at = "user" /\ c \notin timing
    BY <1>5 DEF UdpSendto, At
  <2> QED BY <1>0, <2>3, <2>4, <2>5, SendOrWaitFlows
<1>6. ASSUME NEW ip, IcmpRegister(c, ip) PROVE PacketFlow'
  BY <1>6, IcmpRegisterFlows
<1>7. ASSUME NEW s \in PingSlot, IcmpSend(c, s) PROVE PacketFlow'
  <2>0. icmptab[s].remip \in Addr /\ s \in Nat
    BY <1>0, SizeFacts DEF PingTypes, PingEndpoint
  <2>1. PICK pkt \in Packet :
          pkt = [NoPkt EXCEPT !.proto = "ping", !.src = Me, !.dst = icmptab[s].remip, !.dport = s]
    BY <2>0, RecordFacts, SizeFacts DEF Packet
  <2>2. PICK f : f = [Doing("send") EXCEPT !.pkt = pkt]
    OBVIOUS
  <2>5. f.at \in {"send", "udp_sendto"}
    BY <2>2 DEF Doing
  <2>3. SendOrWait(c, pkt, f) /\ UNCHANGED <<strayed, shared>>
    BY <1>7, <2>1, <2>2 DEF IcmpSend
  <2>4. frame[c].at = "user" /\ c \notin timing
    BY <1>7 DEF IcmpSend, At
  <2> QED BY <1>0, <2>3, <2>4, <2>5, SendOrWaitFlows
<1>8. ASSUME NEW s \in PingSlot, IcmpRecv(c, s) \/ IcmpRelease(c, s) PROVE PacketFlow'
  BY <1>8, IcmpRecvFlows, IcmpReleaseFlows
<1>9. ASSUME UdpRecvWoken(c) \/ IcmpRecvWoken(c) PROVE PacketFlow'
  BY <1>9, UdpRecvWokenFlows, IcmpRecvWokenFlows
<1>10. ASSUME SendWoken(c) \/ UdpSendtoWoken(c) PROVE PacketFlow'
  <2>0. frame[c] \in Frame /\ frame[c].pkt \in Packet /\ SlotOK(frame[c])
    BY <1>0 DEF FrameTypes, Frame
  <2>1. /\ frame[c].at \in {"send", "udp_sendto"} /\ c \notin timing
        /\ UNCHANGED <<strayed, shared>>
    BY <1>10 DEF SendWoken, UdpSendtoWoken, At
  <2>2. PICK pkt \in Packet : IpSend(c, pkt, free - 1)
    <3>1. CASE SendWoken(c)
      BY <2>0, <3>1 DEF SendWoken
    <3>2. CASE UdpSendtoWoken(c)
      <4>1. frame[c].slot \in Slot
        BY <2>0, <3>2 DEF UdpSendtoWoken, At, SlotOK
      <4>2. udptab[frame[c].slot].locport \in Nat
        BY <4>1, <1>0 DEF UdpTypes, Endpoint
      <4>3. [frame[c].pkt EXCEPT !.sport = udptab[frame[c].slot].locport] \in Packet
        BY <4>2, <2>0 DEF Packet
      <4> QED BY <4>3, <3>2 DEF UdpSendtoWoken
    <3> QED BY <3>1, <3>2, <1>10
  <2> QED BY <1>0, <2>1, <2>2, IpSendFlows
<1>11. ASSUME ChildExits(c) PROVE PacketFlow'
  BY <1>0, <1>11, InterruptFlows
<1> QED
  BY <1>1, <1>2, <1>3, <1>4, <1>5, <1>6, <1>7, <1>8, <1>9, <1>10, <1>11

\* Who takes a packet that is not there has strayed, or what it takes it from is
\* shared or flooded.
LEMMA PacketArrivedStep ==
  ASSUME PacketInv, PacketArrived, emptied = {}, NetStep \/ ClientStep
  PROVE  PacketArrived'
<1>0. /\ UdpTypes /\ PingTypes /\ FrameTypes /\ UdpInv /\ PingUsers /\ PingQueues
  BY DEF PacketInv, NetTypes
<1>1. CASE UNCHANGED emptied
  BY <1>1 DEF PacketArrived
<1>2. ASSUME NEW c \in Client, NEW s \in Slot, udptab[s].queue # <<>>, Dequeue(c, s)
      PROVE  UNCHANGED emptied
  BY <1>2 DEF Dequeue
<1>3. ASSUME NEW c \in Client, UdpRecvWoken(c) PROVE PacketArrived'
  <2>1. PICK s \in Slot : s = frame[c].slot
    BY <1>0, <1>3, SizeFacts DEF UdpRecvWoken, At, FrameTypes, SlotOK
  <2>2. frame[c].at = "udp_recv" /\ UNCHANGED <<strayed, shared>>
    BY <1>3 DEF UdpRecvWoken, At
  <2>3. CASE UNCHANGED emptied
    BY <1>1, <2>3
  <2>4. CASE prmsg[c] = "OK" /\ udptab[s].queue = <<>> /\ emptied' = emptied \cup {<<c, "udp", s>>}
    <3>1. c \in strayed \/ s \in shared
      BY <1>0, <2>1, <2>2, <2>4 DEF UdpInv
    <3>2. emptied' = {<<c, "udp", s>>}
      BY <2>4
    <3> QED BY <2>2, <3>1, <3>2 DEF PacketArrived
  <2> QED BY <1>3, <2>1, <2>3, <2>4 DEF UdpRecvWoken, Dequeue
<1>4. ASSUME NEW c \in Client, NEW s \in PingSlot, NEW k \in Int, NEW state,
             IcmpDequeue(c, s, k, state), icmptab[s].state # "FREE", 0 <= k,
             k <= icmptab[s].count \/ s \in flooded \/ c \in strayed,
             UNCHANGED <<flooded, strayed>>
      PROVE  PacketArrived'
  <2>1. CASE k <= icmptab[s].count /\ s \notin flooded
    BY <1>0, <1>1, <1>4, <2>1, PingFound
  <2>2. CASE s \in flooded \/ c \in strayed
    <3>1. CASE emptied' = emptied \cup {<<c, "icmp", s>>}
      <4>1. emptied' = {<<c, "icmp", s>>}
        BY <3>1
      <4> QED BY <1>4, <2>2, <4>1 DEF PacketArrived
    <3> QED BY <1>1, <1>4, <3>1, IcmpDequeueCases
  <2> QED BY <1>4, <2>1, <2>2
<1>5. ASSUME NEW s \in PingSlot, icmptab[s].state # "FREE"
      PROVE  icmptab[s].count \in Nat
  BY <1>0, <1>5, CountsNatural
<1>6. ASSUME NEW c \in Client, NEW s \in PingSlot, IcmpRecv(c, s) PROVE PacketArrived'
  <2>1. CASE UNCHANGED emptied
    BY <1>1, <2>1
  <2>2. CASE icmptab[s].count # 0 /\ IcmpDequeue(c, s, 1, "USED")
    <3>1. icmptab[s].state = "USED" /\ UNCHANGED <<flooded, strayed>>
      BY <1>6 DEF IcmpRecv
    <3>2. 1 <= icmptab[s].count
      BY <1>5, <2>2, <3>1
    <3> QED BY <1>4, <2>2, <3>1, <3>2
  <2> QED BY <1>6, <2>1, <2>2 DEF IcmpRecv
<1>7. ASSUME NEW c \in Client, NEW s \in PingSlot, IcmpRelease(c, s) PROVE PacketArrived'
  <2>1. /\ icmptab[s].state = "USED" /\ UNCHANGED <<flooded, strayed>>
        /\ IcmpDequeue(c, s, icmptab[s].count, "FREE")
    BY <1>7 DEF IcmpRelease
  <2>2. icmptab[s].count \in Nat
    BY <1>5, <2>1
  <2> QED BY <1>4, <2>1, <2>2
<1>8. ASSUME NEW c \in Client, IcmpRecvWoken(c) PROVE PacketArrived'
  <2>1. PICK s \in PingSlot : s = frame[c].slot
    BY <1>0, <1>8, SizeFacts DEF IcmpRecvWoken, At, FrameTypes, SlotOK
  <2>2. frame[c].at = "icmp_recv" /\ UNCHANGED <<strayed, flooded>>
    BY <1>8 DEF IcmpRecvWoken, At
  <2>3. CASE UNCHANGED emptied
    BY <1>1, <2>3
  <2>4. CASE prmsg[c] = "OK" /\ IcmpDequeue(c, s, 1, "USED")
    <3>1. /\ icmptab[s].state # "FREE"
          /\ c \in strayed \/ s \in flooded \/ icmptab[s].count > 0
      BY <1>0, <2>1, <2>2, <2>4 DEF PingUsers
    <3>2. c \in strayed \/ s \in flooded \/ 1 <= icmptab[s].count
      BY <1>5, <3>1
    <3> QED BY <1>4, <2>2, <2>4, <3>1, <3>2
  <2> QED BY <1>8, <2>1, <2>3, <2>4 DEF IcmpRecvWoken
<1>9. CASE NetStep
  BY <1>1, <1>9 DEF NetStep, Timeout, ArpWoken, IcmpAnswer, NetinGetbuf, IpoutWait, Ipout,
         NetinArp, NetinIp, histVars
<1>10. ASSUME NEW c \in Client,
         \/ \E r \in load.endpoints : UdpRegister(c, r)
         \/ \E ip \in load.pings : IcmpRegister(c, ip)
         \/ SendWoken(c) \/ UdpSendtoWoken(c) \/ ChildExits(c)
         \/ \E s \in Slot : UdpRelease(c, s) \/ UdpSend(c, s) \/ \E d \in load.dests : UdpSendto(c, s, d)
         \/ \E s \in PingSlot : IcmpSend(c, s)
       PROVE PacketArrived'
  BY <1>1, <1>10 DEF UdpRegister, IcmpRegister, SendWoken, UdpSendtoWoken, ChildExits, UdpRelease,
                     UdpSend, UdpSendto, IcmpSend, histVars
<1>11. ASSUME NEW c \in Client, NEW s \in Slot, UdpRecv(c, s) PROVE PacketArrived'
  BY <1>1, <1>2, <1>11 DEF UdpRecv
<1> QED
  BY <1>3, <1>6, <1>7, <1>8, <1>9, <1>10, <1>11 DEF ClientStep

\* The invariant that the properties of the network stack follow from.
NetInv == NetTypes /\ PacketFlow /\ PacketArrived

\* It holds at first,
LEMMA NetInvStart == NetInit => NetInv
<1> SUFFICES ASSUME NetInit PROVE NetInv
  OBVIOUS
<1>1. NetTypes
  BY NetTypesStart
<1>2. ASSUME NEW p \in Proc
      PROVE  frame[p].at \in {"getbuf", "wait", "user"} /\ prmsg[p] = "none"
  BY RestFacts DEF NetInit
<1>3. Waiting /\ PacketArrived
  BY DEF NetInit, Waiting, PacketArrived
<1>4. Receivers
  <2>1. \A s \in Slot : udptab[s].state = "FREE"
    BY DEF NetInit, FreeEndpoint
  <2>2. \A s \in PingSlot : icmptab[s].state = "FREE"
    BY DEF NetInit, FreePing
  <2> QED BY <2>1, <2>2 DEF Receivers, UdpReceivers, PingReceivers
<1>5. ArpInv
  <2>1. \A e \in Entry : arpcache[e].state = "FREE"
    BY DEF NetInit, NoEntry
  <2>2. misaddressed = {}
    BY DEF NetInit
  <2> QED BY <1>2, <2>1, <2>2
          DEF ArpInv, OneEntry, ResolvedRight, PendingAsked, AskersPend, AnswersRight
<1>6. UdpInv /\ PingUsers
  BY <1>2, SizeFacts DEF UdpInv, PingUsers
<1>7. PingQueues
  <2> SUFFICES ASSUME NEW s \in PingSlot PROVE PingAt(s)
    BY DEF PingQueues
  <2>1. icmptab[s].state = "FREE" /\ icmptab[s].queue = [i \in PingPlace |-> FALSE]
    BY DEF NetInit, FreePing
  <2>2. \A i \in PingPlace : ~icmptab[s].queue[i]
    BY <2>1
  <2> QED BY <2>1, <2>2 DEF PingAt
<1> QED BY <1>1, <1>3, <1>4, <1>5, <1>6, <1>7 DEF NetInv, PacketFlow

\* every step keeps it,
LEMMA NetInvStep ==
  ASSUME NetInv, [NetNext]_netVars
  PROVE  NetInv'
<1>1. NetTypes'
  BY NetTypesStep DEF NetInv
<1>2. CASE NetNext
  <2>1. PacketInv /\ PacketArrived /\ emptied = {} /\ (NetStep \/ ClientStep)
    BY <1>2 DEF NetInv, NetNext, PacketFlow, PacketInv, Receivers
  <2>2. PacketArrived'
    BY <2>1, PacketArrivedStep
  <2>3. PacketFlow'
    BY <1>1, <2>1, NetStepFlows, ClientStepFlows DEF ClientStep
  <2> QED BY <1>1, <2>2, <2>3 DEF NetInv
<1>3. CASE UNCHANGED netVars
  <2>1. UNCHANGED <<udptab, icmptab, flooded, arpcache, frame, prmsg, timing, strayed, robbed,
                    shared, misaddressed, emptied>>
    BY <1>3 DEF netVars, tabVars, pingVars, histVars
  <2>2. Waiting' /\ Receivers' /\ PacketArrived'
    BY <2>1 DEF NetInv, PacketFlow, Waiting, Receivers, UdpReceivers, PingReceivers, PacketArrived
  <2>3. ArpInv'
    BY <2>1 DEF NetInv, PacketFlow, ArpInv, OneEntry, ResolvedRight, PendingAsked, AskersPend,
                AnswersRight, Pending, Answered
  <2>4. UdpInv' /\ PingUsers'
    BY <2>1 DEF NetInv, PacketFlow, UdpInv, PingUsers
  <2>5. PingQueues'
    BY <2>1 DEF NetInv, PacketFlow, PingQueues, PingAt, PingQueue, Replies
  <2> QED BY <1>1, <2>2, <2>3, <2>4, <2>5 DEF NetInv, PacketFlow
<1> QED BY <1>2, <1>3

\* and so it holds always.
LEMMA NetInvAlways == NetSpec => []NetInv
<1>1. NetInit => NetInv
  BY NetInvStart
<1>2. NetInv /\ [NetNext]_netVars => NetInv'
  BY NetInvStep
<1> QED BY <1>1, <1>2, PTL DEF NetSpec

\* udp_recv and icmp_recv take a packet that is there, unless the process strayed, or
\* the endpoint is shared or flooded.
THEOREM PacketsArrive == NetSpec => []PacketArrived
<1>1. NetInv => PacketArrived
  BY DEF NetInv
<1> QED BY <1>1, NetInvAlways, PTL

\* Nobody waits in udp_recv or icmp_recv while a packet is queued for it.
THEOREM NobodySleepsOnPackets == NetSpec => []NoSleepOnPacket
<1>1. NetInv => NoSleepOnPacket
  <2> SUFFICES ASSUME NetInv, NEW p \in Client \cap timing, NEW s, s = frame[p].slot
               PROVE  /\ frame[p].at = "udp_recv" /\ s \notin shared =>
                           udptab[s].state = "RECV" /\ udptab[s].pid = p /\ udptab[s].queue = <<>>
                      /\ frame[p].at = "icmp_recv" =>
                           icmptab[s].state = "RECV" /\ icmptab[s].pid = p /\ icmptab[s].count = 0
    BY DEF NoSleepOnPacket
  <2>1. frame[p].at = "udp_recv" => s \in Slot
    BY SizeFacts DEF NetInv, NetTypes, FrameTypes, SlotOK
  <2> QED BY <2>1 DEF NetInv, PacketFlow, UdpInv, PingUsers
<1> QED BY <1>1, NetInvAlways, PTL

\* What ARP answers is right, and frames go where they should, unless a process strayed
\* or its answer was evicted.
THEOREM ArpIsRight == NetSpec => []ArpAnswers
<1>1. NetInv => ArpAnswers
  <2> SUFFICES ASSUME NetInv PROVE ArpAnswers
    OBVIOUS
  <2>1. /\ OneEntry /\ ResolvedRight /\ PendingAsked /\ AskersPend
        /\ misaddressed \subseteq strayed \cup robbed
        /\ Waiting /\ ArpTypes /\ FrameTypes /\ MessageTypes
    BY DEF NetInv, PacketFlow, ArpInv, NetTypes
  <2>2. \A e \in InState("RESOLVED") : arpcache[e].mac = arpcache[e].ip
    BY <2>1 DEF ResolvedRight, InState
  <2>3. \A e \in InState("PENDING") :
          arpcache[e].pid \in strayed
            \/ (frame[arpcache[e].pid].at = "arp" /\ frame[arpcache[e].pid].entry = e)
    BY <2>1 DEF PendingAsked, InState
  <2>4. ASSUME NEW p \in {q \in timing : frame[q].at = "arp"}
        PROVE  arpcache[frame[p].entry] =
                 [NoEntry EXCEPT !.state = "PENDING", !.ip = frame[p].pkt.dst, !.pid = p]
    <3>1. p \in Proc /\ prmsg[p] = "none"
      BY <2>1 DEF MessageTypes, Waiting
    <3>2. PICK r \in CacheEntry : r = arpcache[frame[p].entry]
      BY <2>1, <3>1 DEF ArpTypes, FrameTypes, Frame
    <3>3. r.state = "PENDING" /\ r.ip = frame[p].pkt.dst /\ r.pid = p /\ r.mac = NoAddr
      BY <2>1, <3>1, <3>2 DEF AskersPend, Pending
    <3>4. r = [NoEntry EXCEPT !.state = "PENDING", !.ip = frame[p].pkt.dst, !.pid = p]
      <4>1. PICK ip \in Addr : ip = frame[p].pkt.dst
        BY <3>2, <3>3 DEF CacheEntry
      <4>2. PICK x \in CacheEntry : /\ x = PendingEntry(p, ip) /\ x.state = "PENDING"
                                    /\ x.ip = ip /\ x.pid = p /\ x.mac = NoAddr
        BY <3>1, PendingFacts, RecordFacts, SizeFacts
      <4>3. r = x
        BY <3>2, <3>3, <4>1, <4>2 DEF CacheEntry
      <4> QED BY <4>1, <4>2, <4>3 DEF PendingEntry
    <3> QED BY <3>2, <3>4
  <2> QED BY <2>1, <2>2, <2>3, <2>4 DEF ArpAnswers, OneEntry
<1> QED BY <1>1, NetInvAlways, PTL
-----------------------------------------------------------------------------
(* Counting buffers: what the queues hold, and who holds one.              *)

\* The places of a table whose entries F hold sets of elements of U.
Pairs(T, U, F) == {x \in T \X U : x[2] \in F[x[1]]}

CountsFollow(T, U, F, G, s) ==
  /\ Cardinality(Pairs(T, U, F)) \in Nat /\ Cardinality(Pairs(T, U, G)) \in Nat
  /\ Cardinality(F[s]) \in Nat /\ Cardinality(G[s]) \in Nat
  /\ Cardinality(Pairs(T, U, G)) + Cardinality(F[s])
       = Cardinality(Pairs(T, U, F)) + Cardinality(G[s])

\* If the set of one entry changes, the number of places changes by as much.
LEMMA PairsCounted ==
  ASSUME NEW T, NEW U, IsFiniteSet(T), IsFiniteSet(U),
         NEW F \in [T -> SUBSET U], NEW G \in [T -> SUBSET U], NEW s \in T,
         \A t \in T \ {s} : G[t] = F[t]
  PROVE  CountsFollow(T, U, F, G, s)
<1> DEFINE Row(H) == {x \in Pairs(T, U, H) : x[1] = s}
           Others(H) == {x \in Pairs(T, U, H) : x[1] # s}
<1>1. ASSUME NEW H \in [T -> SUBSET U]
      PROVE  /\ IsFiniteSet(Others(H)) /\ Cardinality(Others(H)) \in Nat
             /\ Cardinality(H[s]) \in Nat
             /\ Cardinality(Pairs(T, U, H)) = Cardinality(Others(H)) + Cardinality(H[s])
  <2>1. IsFiniteSet(T \X U)
    BY FS_Product
  <2>2. Pairs(T, U, H) \in SUBSET (T \X U)
    BY DEF Pairs
  <2>3. IsFiniteSet(Pairs(T, U, H))
    BY <2>1, <2>2, FS_Subset
  <2>4. Row(H) \in SUBSET Pairs(T, U, H) /\ Others(H) \in SUBSET Pairs(T, U, H)
    OBVIOUS
  <2>5. IsFiniteSet(Row(H)) /\ IsFiniteSet(Others(H))
    BY <2>3, <2>4, FS_Subset
  <2>6. IsFiniteSet(H[s])
    BY FS_Subset
  <2>7. PICK f : f = [u \in H[s] |-> <<s, u>>]
    OBVIOUS
  <2>8. \A u \in H[s] : <<s, u>> \in Row(H)
    BY DEF Pairs
  <2>9. f \in [H[s] -> Row(H)]
    BY <2>7, <2>8
  <2>10. \A x, y \in H[s] : f[x] = f[y] => x = y
    BY <2>7
  <2>11. \A t \in Row(H) : \E x \in H[s] : f[x] = t
    <3> SUFFICES ASSUME NEW t \in Row(H) PROVE \E x \in H[s] : f[x] = t
      OBVIOUS
    <3>1. t = <<s, t[2]>> /\ t[2] \in H[s]
      BY DEF Pairs
    <3> QED BY <2>7, <3>1
  <2>12. Cardinality(Row(H)) = Cardinality(H[s])
    <3> HIDE DEF Row
    <3> QED BY <2>6, <2>9, <2>10, <2>11, ImageCounted
  <2>13. Pairs(T, U, H) = Row(H) \cup Others(H) /\ Row(H) \cap Others(H) = {}
    OBVIOUS
  <2> HIDE DEF Row, Others
  <2>14. Cardinality(Row(H) \cup Others(H)) = Cardinality(Row(H)) + Cardinality(Others(H))
    <3>1. Cardinality(Row(H) \cup Others(H))
            = Cardinality(Row(H)) + Cardinality(Others(H)) - Cardinality(Row(H) \cap Others(H))
      BY <2>5, FS_Union
    <3>2. Cardinality(Row(H) \cap Others(H)) = 0
      BY <2>13, FS_EmptySet
    <3>3. Cardinality(Row(H)) \in Nat /\ Cardinality(Others(H)) \in Nat
      BY <2>5, FS_CardinalityType
    <3> QED BY <3>1, <3>2, <3>3
  <2>15. Cardinality(Others(H)) \in Nat /\ Cardinality(H[s]) \in Nat
    BY <2>5, <2>6, FS_CardinalityType
  <2> QED BY <2>5, <2>12, <2>13, <2>14, <2>15
<1>2. Others(G) = Others(F)
  BY DEF Pairs
<1> HIDE DEF Row, Others
<1>3. PICK a \in Nat, b \in Nat, c \in Nat :
        a = Cardinality(Others(F)) /\ b = Cardinality(F[s]) /\ c = Cardinality(G[s])
  BY <1>1
<1>4. Cardinality(Pairs(T, U, F)) = a + b /\ Cardinality(Pairs(T, U, G)) = a + c
  BY <1>1, <1>2, <1>3
<1> QED BY <1>3, <1>4 DEF CountsFollow

\* Queues are bounded, and their places can be numbered.
UdpFull == \A s \in Slot : Len(udptab[s].queue) <= UDP_QSIZ
UdpLengths(tab) == [s \in Slot |-> 1 .. Len(tab[s].queue)]

\* The packets of the UDP endpoints are such places.
LEMMA UdpPlacesPairs ==
  ASSUME NEW tab \in [Slot -> Endpoint], \A s \in Slot : Len(tab[s].queue) <= UDP_QSIZ
  PROVE  /\ {x \in Slot \X (1..UDP_QSIZ) : x[2] <= Len(tab[x[1]].queue)}
              = Pairs(Slot, 1..UDP_QSIZ, UdpLengths(tab))
         /\ UdpLengths(tab) \in [Slot -> SUBSET (1..UDP_QSIZ)]
         /\ \A s \in Slot : /\ Len(tab[s].queue) \in Nat
                            /\ UdpLengths(tab)[s] = 1 .. Len(tab[s].queue)
                            /\ Cardinality(UdpLengths(tab)[s]) = Len(tab[s].queue)
<1>1. \A s \in Slot : Len(tab[s].queue) \in Nat
  BY LenProperties DEF Endpoint
<1>2. \A s \in Slot : 1 .. Len(tab[s].queue) \subseteq 1..UDP_QSIZ
  BY <1>1, SizeFacts
<1>3. UdpLengths(tab) \in [Slot -> SUBSET (1..UDP_QSIZ)]
  BY <1>2 DEF UdpLengths
<1>4. ASSUME NEW s \in Slot
      PROVE  /\ UdpLengths(tab)[s] = 1 .. Len(tab[s].queue)
             /\ Cardinality(UdpLengths(tab)[s]) = Len(tab[s].queue)
  <2>1. PICK k \in Nat : k = Len(tab[s].queue)
    BY <1>1
  <2>2. Cardinality(1..k) = k
    BY FS_Interval
  <2> QED BY <2>1, <2>2 DEF UdpLengths
<1>5. {x \in Slot \X (1..UDP_QSIZ) : x[2] <= Len(tab[x[1]].queue)}
        = {x \in Slot \X (1..UDP_QSIZ) : x[2] \in UdpLengths(tab)[x[1]]}
  <2>1. ASSUME NEW x \in Slot \X (1..UDP_QSIZ)
        PROVE  x[2] <= Len(tab[x[1]].queue) <=> x[2] \in UdpLengths(tab)[x[1]]
    <3>1. x[1] \in Slot /\ x[2] \in 1..UDP_QSIZ
      OBVIOUS
    <3>2. PICK k \in Nat : k = Len(tab[x[1]].queue)
      BY <1>1, <3>1
    <3>3. UdpLengths(tab)[x[1]] = 1..k
      BY <1>4, <3>1, <3>2
    <3> QED BY <3>1, <3>2, <3>3
  <2> QED BY <2>1
<1> QED BY <1>1, <1>3, <1>4, <1>5 DEF Pairs

\* The queue of one UDP endpoint gets longer or shorter.
LEMMA UdpPlacesChange ==
  ASSUME UdpTypes, UdpTypes', UdpFull, NEW s \in Slot, Len(udptab'[s].queue) <= UDP_QSIZ,
         \A t \in Slot \ {s} : udptab'[t].queue = udptab[t].queue
  PROVE  /\ UdpFull'
         /\ Len(udptab[s].queue) \in Nat /\ Len(udptab'[s].queue) \in Nat
         /\ Cardinality(UdpPlaces) \in Nat /\ Cardinality(UdpPlaces') \in Nat
         /\ Cardinality(UdpPlaces') + Len(udptab[s].queue)
              = Cardinality(UdpPlaces) + Len(udptab'[s].queue)
<1>1. PICK a \in [Slot -> Endpoint], b \in [Slot -> Endpoint] : a = udptab /\ b = udptab'
  BY DEF UdpTypes
<1>2. /\ \A t \in Slot : Len(a[t].queue) <= UDP_QSIZ /\ Len(b[t].queue) <= UDP_QSIZ
      /\ \A t \in Slot \ {s} : b[t].queue = a[t].queue
  BY <1>1 DEF UdpFull
<1>3. /\ UdpPlaces = Pairs(Slot, 1..UDP_QSIZ, UdpLengths(a))
      /\ UdpPlaces' = Pairs(Slot, 1..UDP_QSIZ, UdpLengths(b))
  BY <1>1, <1>2, UdpPlacesPairs DEF UdpPlaces
<1>4. \A t \in Slot \ {s} : UdpLengths(b)[t] = UdpLengths(a)[t]
  BY <1>2 DEF UdpLengths
<1>5. IsFiniteSet(Slot)
  BY SizeFacts, FS_Interval DEF Slot
<1>p. PICK U : U = 1..UDP_QSIZ /\ IsFiniteSet(U)
  BY SizeFacts, FS_Interval
<1>6. PICK F \in [Slot -> SUBSET U], G \in [Slot -> SUBSET U] :
        F = UdpLengths(a) /\ G = UdpLengths(b)
  BY <1>2, <1>p, UdpPlacesPairs
<1>7. /\ Cardinality(Pairs(Slot, U, F)) \in Nat
      /\ Cardinality(Pairs(Slot, U, G)) \in Nat
      /\ Cardinality(Pairs(Slot, U, G)) + Cardinality(F[s])
           = Cardinality(Pairs(Slot, U, F)) + Cardinality(G[s])
  <2>1. \A t \in Slot \ {s} : G[t] = F[t]
    BY <1>4, <1>6
  <2>2. IsFiniteSet(U)
    BY <1>p
  <2>3. F \in [Slot -> SUBSET U] /\ G \in [Slot -> SUBSET U]
    BY <1>6
  <2>4. CountsFollow(Slot, U, F, G, s)
    BY <1>5, <2>1, <2>2, <2>3, PairsCounted, Zenon
  <2> QED BY <2>4 DEF CountsFollow
<1>8. /\ Len(a[s].queue) \in Nat /\ Cardinality(F[s]) = Len(a[s].queue)
      /\ Len(b[s].queue) \in Nat /\ Cardinality(G[s]) = Len(b[s].queue)
  BY <1>2, <1>6, UdpPlacesPairs
<1>9. UdpFull'
  BY <1>1, <1>2 DEF UdpFull
<1> QED BY <1>1, <1>3, <1>p, <1>6, <1>7, <1>8, <1>9

\* The replies that each ping endpoint holds.
PingHeld(tab) == [s \in PingSlot |-> {i \in PingPlace : tab[s].queue[i]}]

\* The replies in one ping endpoint become more or less.
LEMMA PingPlacesChange ==
  ASSUME PingTypes, PingTypes', NEW s \in PingSlot,
         \A t \in PingSlot \ {s} : icmptab'[t].queue = icmptab[t].queue
  PROVE  /\ Cardinality(Replies(s)) \in Nat /\ Cardinality(Replies(s)') \in Nat
         /\ Cardinality(PingPlaces) \in Nat /\ Cardinality(PingPlaces') \in Nat
         /\ Cardinality(PingPlaces') + Cardinality(Replies(s))
              = Cardinality(PingPlaces) + Cardinality(Replies(s)')
<1>1. PICK a, b : a = icmptab /\ b = icmptab'
  OBVIOUS
<1>2. PICK F \in [PingSlot -> SUBSET PingPlace], G \in [PingSlot -> SUBSET PingPlace] :
        F = PingHeld(a) /\ G = PingHeld(b)
  BY DEF PingHeld
<1>3. \A t \in PingSlot \ {s} : G[t] = F[t]
  BY <1>1, <1>2 DEF PingHeld
<1>4. IsFiniteSet(PingSlot) /\ IsFiniteSet(PingPlace)
  <2>1. IsFiniteSet(PingSlot)
    BY SizeFacts, FS_Interval DEF PingSlot
  <2>2. IsFiniteSet(PingPlace)
    BY SizeFacts, FS_Interval DEF PingPlace
  <2> QED BY <2>1, <2>2
<1>5. PingPlaces = Pairs(PingSlot, PingPlace, F) /\ PingPlaces' = Pairs(PingSlot, PingPlace, G)
  BY <1>1, <1>2 DEF PingPlaces, Pairs, PingHeld
<1>6. Replies(s) = F[s] /\ Replies(s)' = G[s]
  BY <1>1, <1>2 DEF Replies, PingHeld
<1>7. /\ Cardinality(Pairs(PingSlot, PingPlace, F)) \in Nat
      /\ Cardinality(Pairs(PingSlot, PingPlace, G)) \in Nat
      /\ Cardinality(F[s]) \in Nat /\ Cardinality(G[s]) \in Nat
      /\ Cardinality(Pairs(PingSlot, PingPlace, G)) + Cardinality(F[s])
           = Cardinality(Pairs(PingSlot, PingPlace, F)) + Cardinality(G[s])
  <2>1. CountsFollow(PingSlot, PingPlace, F, G, s)
    BY <1>3, <1>4, PairsCounted, Zenon
  <2> QED BY <2>1 DEF CountsFollow
<1> QED BY <1>5, <1>6, <1>7

\* One process takes or leaves a buffer.
LEMMA HoldersChange ==
  ASSUME NEW p \in Proc, \A q \in Proc \ {p} : frame'[q].at = frame[q].at
  PROVE  /\ Cardinality(Holders) \in Nat /\ Cardinality(Holders') \in Nat
         /\ Cardinality(Holders \ {p}) \in Nat
         /\ Cardinality(Holders) =
              IF p \in Holders THEN Cardinality(Holders \ {p}) + 1 ELSE Cardinality(Holders \ {p})
         /\ Cardinality(Holders') =
              IF p \in Holders' THEN Cardinality(Holders \ {p}) + 1 ELSE Cardinality(Holders \ {p})
<1>1. PICK H, K : H = Holders /\ K = Holders'
  OBVIOUS
<1>2. H \in SUBSET Proc /\ K \in SUBSET Proc /\ K \ {p} = H \ {p}
  BY <1>1 DEF Holders
<1>3. IsFiniteSet(H) /\ IsFiniteSet(K) /\ IsFiniteSet(H \ {p})
  BY <1>2, ProcFacts, FS_Subset
<1>4. ASSUME NEW S, IsFiniteSet(S), S \ {p} = H \ {p}
      PROVE  Cardinality(S) = IF p \in S THEN Cardinality(H \ {p}) + 1 ELSE Cardinality(H \ {p})
  <2>1. CASE p \notin S
    <3>1. S = H \ {p}
      BY <1>4, <2>1
    <3> QED BY <2>1, <3>1
  <2>2. CASE p \in S
    <3>1. S = (H \ {p}) \cup {p} /\ p \notin H \ {p}
      BY <1>4, <2>2
    <3>2. Cardinality((H \ {p}) \cup {p}) = Cardinality(H \ {p}) + 1
      BY <1>3, <3>1, FS_AddElement
    <3> QED BY <2>2, <3>1, <3>2
  <2> QED BY <2>1, <2>2
<1>5. /\ Cardinality(H) = IF p \in H THEN Cardinality(H \ {p}) + 1 ELSE Cardinality(H \ {p})
      /\ Cardinality(K) = IF p \in K THEN Cardinality(H \ {p}) + 1 ELSE Cardinality(H \ {p})
  BY <1>2, <1>3, <1>4
<1>6. Cardinality(H) \in Nat /\ Cardinality(K) \in Nat /\ Cardinality(H \ {p}) \in Nat
  BY <1>3, FS_CardinalityType
<1> QED BY <1>1, <1>5, <1>6

\* What the queues of endpoints hold, or have lost.
Stock == leaked + Cardinality(UdpPlaces) + Cardinality(PingPlaces)
\* A free UDP endpoint is empty, and packets are lost only to a flood.
UdpEmpty == \A s \in Slot : udptab[s].state = "FREE" => udptab[s].queue = <<>>
StockSound == UdpFull /\ UdpEmpty /\ (leaked > 0 => flooded # {})

\* Process p disposes of a packet while n other buffers are free.
Passed(p, n) ==
  /\ StockSound'
  /\ free' + Cardinality(Holders') + Stock' = n + 1 + Cardinality(Holders \ {p}) + Stock

\* The numbers that are added up are numbers.
LEMMA StockCounts ==
  /\ Cardinality(UdpPlaces) \in Nat /\ Cardinality(UdpPlaces') \in Nat
  /\ Cardinality(PingPlaces) \in Nat /\ Cardinality(PingPlaces') \in Nat
<1>1. PICK U : U = 1..UDP_QSIZ /\ IsFiniteSet(U)
  BY SizeFacts, FS_Interval
<1>2. IsFiniteSet(Slot) /\ IsFiniteSet(PingSlot)
  <2>1. IsFiniteSet(Slot)
    BY SizeFacts, FS_Interval DEF Slot
  <2>2. IsFiniteSet(PingSlot)
    BY SizeFacts, FS_Interval DEF PingSlot
  <2> QED BY <2>1, <2>2
<1>3. IsFiniteSet(PingPlace)
  BY SizeFacts, FS_Interval DEF PingPlace
<1>4. IsFiniteSet(Slot \X U) /\ IsFiniteSet(PingSlot \X PingPlace)
  BY <1>1, <1>2, <1>3, FS_Product
<1>5. PICK A, B, C, D : A = UdpPlaces /\ B = UdpPlaces' /\ C = PingPlaces /\ D = PingPlaces'
  OBVIOUS
<1>6. A \in SUBSET (Slot \X U) /\ B \in SUBSET (Slot \X U)
  BY <1>1, <1>5 DEF UdpPlaces
<1>7. C \in SUBSET (PingSlot \X PingPlace) /\ D \in SUBSET (PingSlot \X PingPlace)
  BY <1>5 DEF PingPlaces
<1>8. IsFiniteSet(A) /\ IsFiniteSet(B) /\ IsFiniteSet(C) /\ IsFiniteSet(D)
  BY <1>4, <1>6, <1>7, FS_Subset
<1>9. /\ Cardinality(A) \in Nat /\ Cardinality(B) \in Nat
      /\ Cardinality(C) \in Nat /\ Cardinality(D) \in Nat
  BY <1>8, FS_CardinalityType
<1> QED BY <1>5, <1>9

\* udp_in stores the packet or frees it.
LEMMA UdpInPassed ==
  ASSUME UdpTypes, UdpTypes', UdpFull, UdpEmpty, NEW pkt \in Packet, NEW n \in Nat, UdpIn(pkt, n)
  PROVE  /\ UdpFull' /\ UdpEmpty' /\ free' \in Nat
         /\ free' + Cardinality(UdpPlaces') = n + 1 + Cardinality(UdpPlaces)
<1>1. CASE free' = n + 1 /\ UNCHANGED udptab
  <2>1. free' = n + 1 /\ UNCHANGED udptab
    BY <1>1
  <2>2. UdpFull' /\ UdpEmpty' /\ UdpPlaces' = UdpPlaces
    BY <2>1 DEF UdpFull, UdpEmpty, UdpPlaces
  <2> QED BY <2>1, <2>2, StockCounts
<1>2. ASSUME NEW s \in Slot, Matches(udptab[s], pkt), Len(udptab[s].queue) < UDP_QSIZ,
             udptab' = [udptab EXCEPT ![s].queue = Append(@, pkt),
                                      ![s].state = IF @ = "RECV" THEN "USED" ELSE @],
             free' = n
      PROVE  /\ UdpFull' /\ UdpEmpty' /\ free' \in Nat
             /\ free' + Cardinality(UdpPlaces') = n + 1 + Cardinality(UdpPlaces)
  <2>3. PICK u \in Endpoint : u = udptab[s]
    BY DEF UdpTypes
  <2>4. /\ udptab'[s].queue = Append(u.queue, pkt) /\ udptab'[s].state # "FREE"
        /\ \A t \in Slot \ {s} : udptab'[t] = udptab[t]
    <3>1. u.state # "FREE"
      BY <1>2, <2>3 DEF Matches
    <3> QED BY <1>2, <2>3, <3>1 DEF UdpTypes, Endpoint
  <2>5. Len(udptab'[s].queue) = Len(u.queue) + 1 /\ Len(u.queue) \in Nat
    BY <2>4, LenProperties DEF Endpoint
  <2>6. Len(udptab'[s].queue) <= UDP_QSIZ
    <3>1. PICK x \in Nat, y \in Nat : x = Len(u.queue) /\ y = Len(udptab'[s].queue)
      BY <2>5
    <3>2. x < UDP_QSIZ /\ UDP_QSIZ \in Nat
      BY <1>2, <2>3, <3>1, SizeFacts
    <3>3. y = x + 1
      BY <2>5, <3>1
    <3>4. y <= UDP_QSIZ
      BY <3>2, <3>3
    <3> QED BY <3>1, <3>4
  <2>7. /\ UdpFull'
        /\ Cardinality(UdpPlaces') + Len(udptab[s].queue)
             = Cardinality(UdpPlaces) + Len(udptab'[s].queue)
    BY <2>4, <2>6, UdpPlacesChange
  <2>8. UdpEmpty'
    BY <2>4 DEF UdpEmpty
  <2>9. Cardinality(UdpPlaces') = Cardinality(UdpPlaces) + 1
    <3>1. PICK k \in Nat : k = Len(udptab[s].queue) /\ Len(udptab'[s].queue) = k + 1
      BY <2>3, <2>5
    <3>2. PICK a \in Nat, b \in Nat : a = Cardinality(UdpPlaces) /\ b = Cardinality(UdpPlaces')
      BY StockCounts
    <3>3. b + k = a + (k + 1)
      BY <2>7, <3>1, <3>2
    <3>4. b = a + 1
      BY <3>3
    <3> QED BY <3>2, <3>4
  <2> QED BY <1>2, <2>7, <2>8, <2>9, StockCounts
<1> QED BY <1>1, <1>2, UdpInCases

\* icmp_in stores a reply or frees it, or overwrites one that was stored before.
LEMMA IcmpReplyPassed ==
  ASSUME PingTypes, PingTypes', PingQueues, leaked > 0 => flooded # {},
         NEW pkt \in Packet, NEW n \in Nat, IcmpReply(pkt, n)
  PROVE  /\ leaked' > 0 => flooded' # {}
         /\ free' \in Nat
         /\ free' + leaked' + Cardinality(PingPlaces') = n + 1 + leaked + Cardinality(PingPlaces)
<1> DEFINE s == pkt.dport
           e == icmptab[s]
<1>0. leaked \in Nat
  BY DEF PingTypes
<1>1. CASE s >= ICMP_SLOTS \/ e.state = "FREE" \/ e.remip # pkt.src
  <2>1. free' = n + 1 /\ UNCHANGED pingVars
    BY <1>1 DEF IcmpReply
  <2>2. PingPlaces' = PingPlaces
    BY <2>1 DEF PingPlaces, pingVars
  <2> QED BY <1>0, <2>1, <2>2, StockCounts DEF pingVars
<1>2. CASE ~(s >= ICMP_SLOTS \/ e.state = "FREE" \/ e.remip # pkt.src)
  <2>1. s \in PingSlot
    BY <1>2, SizeFacts DEF Packet, PingSlot
  <2>2. e \in PingEndpoint
    BY <2>1 DEF PingTypes
  <2>3. /\ icmptab' = [icmptab EXCEPT ![s] = Replied(e)]
        /\ flooded' = IF e.given >= ICMP_QSIZ THEN flooded \cup {s} ELSE flooded
        /\ leaked' = IF e.queue[e.tail] THEN leaked + 1 ELSE leaked
        /\ free' = n
    BY <1>2 DEF IcmpReply, Replied
  <2>4. PICK r : /\ r = Replied(e) /\ r.queue = [e.queue EXCEPT ![e.tail] = TRUE]
    BY <2>2, ReplyStored
  <2>5. icmptab'[s] = r /\ \A t \in PingSlot \ {s} : icmptab'[t] = icmptab[t]
    BY <2>1, <2>3, <2>4 DEF PingTypes
  <2>6. e.tail \in PingPlace /\ e.queue \in [PingPlace -> BOOLEAN] /\ e.given \in Nat
    BY <2>2 DEF PingEndpoint
  <2>7. Replies(s)' = Replies(s) \cup {e.tail}
    BY <2>4, <2>5, <2>6 DEF Replies
  <2>8. e.queue[e.tail] <=> e.tail \in Replies(s)
    BY <2>6 DEF Replies
  <2>9. Cardinality(Replies(s)') = IF e.queue[e.tail] THEN Cardinality(Replies(s))
                                   ELSE Cardinality(Replies(s)) + 1
    <3>1. PICK R : R = Replies(s) /\ IsFiniteSet(R)
      BY RepliesFinite
    <3>2. Cardinality(R \cup {e.tail}) = IF e.tail \in R THEN Cardinality(R) ELSE Cardinality(R) + 1
      BY <3>1, FS_AddElement
    <3> QED BY <2>7, <2>8, <3>1, <3>2
  <2>10. /\ Cardinality(Replies(s)) \in Nat /\ Cardinality(Replies(s)') \in Nat
         /\ Cardinality(PingPlaces') + Cardinality(Replies(s))
              = Cardinality(PingPlaces) + Cardinality(Replies(s)')
    BY <2>1, <2>5, PingPlacesChange
  <2>11. ASSUME e.queue[e.tail] PROVE flooded' # {}
    <3>1. CASE s \in flooded
      BY <2>3, <3>1
    <3>2. CASE s \notin flooded
      <4>1. PingQueue(e)
        BY <1>2, <2>1, <3>2 DEF PingQueues, PingAt
      <4>2. e.given >= ICMP_QSIZ
        BY <2>6, <2>11, <4>1, SizeFacts DEF PingQueue
      <4> QED BY <2>3, <4>2
    <3> QED BY <3>1, <3>2
  <2>12. leaked' > 0 => flooded' # {}
    BY <2>3, <2>11
  <2> QED BY <1>0, <2>3, <2>9, <2>10, <2>12, StockCounts
<1> QED BY <1>1, <1>2
-----------------------------------------------------------------------------
(* Passing packets on.                                                     *)

\* The frame of a process that moves says whether it holds a buffer.
LEMMA HolderMoves ==
  ASSUME FrameTypes, NEW p \in Proc, NEW h \in {0, 1},
         \A q \in Proc \ {p} : frame'[q] = frame[q],
         h = 1 <=> frame'[p].at \in {"arp", "read", "icmp_mkpkt"}
  PROVE  /\ Cardinality(Holders) \in Nat /\ Cardinality(Holders \ {p}) \in Nat
         /\ Cardinality(Holders') = Cardinality(Holders \ {p}) + h
<1>1. p \in Holders' <=> h = 1
  BY DEF Holders
<1>2. \A q \in Proc \ {p} : frame'[q].at = frame[q].at
  OBVIOUS
<1> QED BY <1>1, <1>2, HoldersChange

\* A process that holds a buffer is one more, and one that does not is none.
LEMMA HolderWas ==
  ASSUME NEW p \in Proc
  PROVE  /\ Cardinality(Holders) \in Nat /\ Cardinality(Holders \ {p}) \in Nat
         /\ frame[p].at \in {"arp", "read", "icmp_mkpkt"} =>
              Cardinality(Holders) = Cardinality(Holders \ {p}) + 1
         /\ frame[p].at \notin {"arp", "read", "icmp_mkpkt"} =>
              Holders \ {p} = Holders
<1>1. PICK H : H = Holders /\ H \in SUBSET Proc
  BY DEF Holders
<1>2. IsFiniteSet(H) /\ IsFiniteSet(H \ {p})
  BY <1>1, ProcFacts, FS_Subset
<1>3. Cardinality(H) \in Nat /\ Cardinality(H \ {p}) \in Nat
  BY <1>2, FS_CardinalityType
<1>4. CASE frame[p].at \in {"arp", "read", "icmp_mkpkt"}
  <2>1. p \in H
    BY <1>1, <1>4 DEF Holders
  <2>2. Cardinality(H \ {p}) = Cardinality(H) - 1
    BY <1>2, <2>1, FS_RemoveElement
  <2> QED BY <1>1, <1>3, <1>4, <2>2
<1>5. CASE frame[p].at \notin {"arp", "read", "icmp_mkpkt"}
  BY <1>1, <1>3, <1>5 DEF Holders
<1> QED BY <1>4, <1>5

\* The tables are left alone: what counts are the buffers and who holds them.
LEMMA StockKept ==
  ASSUME StockSound, UNCHANGED <<udptab, pingVars>>
  PROVE  StockSound' /\ Stock' = Stock
<1>1. UNCHANGED <<udptab, icmptab, flooded, leaked>>
  BY DEF pingVars
<1>2. UdpPlaces' = UdpPlaces /\ PingPlaces' = PingPlaces
  BY <1>1 DEF UdpPlaces, PingPlaces
<1> QED BY <1>1, <1>2 DEF StockSound, UdpFull, UdpEmpty, Stock

\* A process frees its packet, or keeps it.
LEMMA KeptPassed ==
  ASSUME StockSound, FrameTypes, PingTypes, NEW p \in Proc, NEW n \in Nat, NEW h \in {0, 1},
         UNCHANGED <<udptab, pingVars>>, \A q \in Proc \ {p} : frame'[q] = frame[q],
         h = 1 <=> frame'[p].at \in {"arp", "read", "icmp_mkpkt"}, free' = n + 1 - h
  PROVE  Passed(p, n)
<1>1. StockSound' /\ Stock' = Stock
  BY StockKept
<1>2. /\ Cardinality(Holders \ {p}) \in Nat
      /\ Cardinality(Holders') = Cardinality(Holders \ {p}) + h
  BY HolderMoves
<1>3. Stock \in Nat
  BY StockCounts DEF Stock, PingTypes
<1> QED BY <1>1, <1>2, <1>3 DEF Passed

\* A process frees its packet and returns.
LEMMA FreedPassed ==
  ASSUME StockSound, FrameTypes, PingTypes, NEW p \in Proc, NEW n \in Nat,
         UNCHANGED <<udptab, pingVars>>, Return(p), free' = n + 1
  PROVE  Passed(p, n)
<1>1. /\ \A q \in Proc \ {p} : frame'[q] = frame[q]
      /\ frame'[p].at \notin {"arp", "read", "icmp_mkpkt"}
  BY ReturnCarried DEF Carried
<1>2. PICK h \in {0, 1} : h = 0
  OBVIOUS
<1>3. h = 1 <=> frame'[p].at \in {"arp", "read", "icmp_mkpkt"}
  BY <1>1, <1>2
<1>4. free' = n + 1 - h
  BY <1>2
<1> QED BY <1>1, <1>3, <1>4, KeptPassed

\* A packet that is handed to its protocol is stored, kept or freed.
LEMMA IpLocalPassed ==
  ASSUME NetTypes, NetTypes', StockSound, PingQueues, NEW p \in Proc, NEW pkt \in Packet,
         NEW n \in Nat, IpLocal(p, pkt, n)
  PROVE  Passed(p, n)
<1>0. /\ UdpTypes /\ UdpTypes' /\ PingTypes /\ PingTypes' /\ FrameTypes
      /\ UdpFull /\ UdpEmpty /\ (leaked > 0 => flooded # {})
      /\ leaked \in Nat /\ leaked' \in Nat /\ free' \in Nat
  BY DEF NetTypes, StockSound, PingTypes
<1>1. ASSUME Return(p)
      PROVE  /\ Cardinality(Holders \ {p}) \in Nat
             /\ Cardinality(Holders') = Cardinality(Holders \ {p})
  <2>1. /\ \A q \in Proc \ {p} : frame'[q] = frame[q]
        /\ frame'[p].at \notin {"arp", "read", "icmp_mkpkt"}
    BY <1>0, <1>1, ReturnCarried DEF Carried
  <2>2. PICK h \in {0, 1} : h = 0
    OBVIOUS
  <2>3. h = 1 <=> frame'[p].at \in {"arp", "read", "icmp_mkpkt"}
    BY <2>1, <2>2
  <2>4. /\ Cardinality(Holders \ {p}) \in Nat
        /\ Cardinality(Holders') = Cardinality(Holders \ {p}) + h
    BY <1>0, <2>1, <2>3, HolderMoves
  <2> QED BY <2>2, <2>4
<1>2. CASE UdpIn(pkt, n) /\ Return(p) /\ UNCHANGED pingVars
  <2>1. /\ UdpFull' /\ UdpEmpty'
        /\ free' + Cardinality(UdpPlaces') = n + 1 + Cardinality(UdpPlaces)
    BY <1>0, <1>2, UdpInPassed
  <2>2. UNCHANGED <<icmptab, flooded, leaked>>
    BY <1>2 DEF pingVars
  <2>3. PingPlaces' = PingPlaces
    BY <2>2 DEF PingPlaces
  <2>4. StockSound'
    BY <1>0, <2>1, <2>2 DEF StockSound
  <2> QED BY <1>0, <1>1, <1>2, <2>1, <2>2, <2>3, <2>4, StockCounts DEF Passed, Stock
<1>3. CASE IcmpReply(pkt, n) /\ Return(p) /\ UNCHANGED udptab
  <2>1. /\ leaked' > 0 => flooded' # {}
        /\ free' + leaked' + Cardinality(PingPlaces') = n + 1 + leaked + Cardinality(PingPlaces)
    BY <1>0, <1>3, IcmpReplyPassed
  <2>2. UdpFull' /\ UdpEmpty' /\ UdpPlaces' = UdpPlaces
    BY <1>0, <1>3 DEF UdpFull, UdpEmpty, UdpPlaces
  <2>3. StockSound'
    BY <2>1, <2>2 DEF StockSound
  <2>4. PICK a \in Nat, b \in Nat, u \in Nat :
          a = Cardinality(PingPlaces) /\ b = Cardinality(PingPlaces') /\ u = Cardinality(UdpPlaces)
    BY StockCounts
  <2>5. PICK g \in Nat : g = Cardinality(Holders \ {p}) /\ g = Cardinality(Holders')
    BY <1>1, <1>3
  <2>6. free' + leaked' + b = n + 1 + leaked + a
    BY <2>1, <2>4
  <2>7. free' + g + (leaked' + u + b) = n + 1 + g + (leaked + u + a)
    <3>1. PICK x \in Nat, y \in Nat, z \in Nat : x = free' /\ y = leaked' /\ z = leaked
      BY <1>0
    <3>2. x + y + b = n + 1 + z + a
      BY <2>6, <3>1
    <3>3. x + g + (y + u + b) = n + 1 + g + (z + u + a)
      BY <3>2
    <3> QED BY <3>1, <3>3
  <2> QED BY <2>2, <2>3, <2>4, <2>5, <2>7 DEF Passed, Stock
<1>4. CASE Answer(p, pkt) /\ free' = n /\ UNCHANGED <<udptab, pingVars>>
  <2>1. /\ \A q \in Proc \ {p} : frame'[q] = frame[q]
        /\ frame'[p].at \in {"arp", "read", "icmp_mkpkt"}
    BY <1>0, <1>4, AnswerCarried DEF Carried
  <2>2. PICK h \in {0, 1} : h = 1
    OBVIOUS
  <2>3. h = 1 <=> frame'[p].at \in {"arp", "read", "icmp_mkpkt"}
    BY <2>1, <2>2
  <2>4. free' = n + 1 - h
    BY <1>4, <2>2
  <2> QED BY <1>0, <1>4, <2>1, <2>3, <2>4, KeptPassed
<1>5. CASE free' = n + 1 /\ Return(p) /\ UNCHANGED <<udptab, pingVars>>
  BY <1>0, <1>5, FreedPassed
<1> QED BY <1>2, <1>3, <1>4, <1>5 DEF IpLocal

\* arp_resolve sends the packet and frees it, drops it, or keeps it while it waits.
LEMMA ArpResolvePassed ==
  ASSUME NetTypes, StockSound, UNCHANGED <<udptab, pingVars>>, NEW p \in Proc,
         NEW hop, NEW pkt \in Packet, NEW n \in Nat, ArpResolve(p, hop, pkt, n)
  PROVE  Passed(p, n)
<1>0. FrameTypes /\ PingTypes
  BY DEF NetTypes
<1>1. CASE free' = n + 1 /\ Return(p)
  BY <1>0, <1>1, FreedPassed
<1>2. CASE /\ \E e \in Entry : frame' = [frame EXCEPT ![p] =
                [Doing("arp") EXCEPT !.entry = e, !.pkt = [pkt EXCEPT !.dst = hop], !.tries = 1]]
           /\ free' = n
  <2>e. PICK e \in Entry : frame' = [frame EXCEPT ![p] =
          [Doing("arp") EXCEPT !.entry = e, !.pkt = [pkt EXCEPT !.dst = hop], !.tries = 1]]
    BY <1>2
  <2>f. PICK d, v : d = [pkt EXCEPT !.dst = hop]
                    /\ v = [Doing("arp") EXCEPT !.entry = e, !.pkt = d, !.tries = 1]
    OBVIOUS
  <2>1. frame' = [frame EXCEPT ![p] = v] /\ v.at = "arp"
    BY <2>e, <2>f DEF Doing
  <2>2. /\ \A q \in Proc \ {p} : frame'[q] = frame[q]
        /\ frame'[p].at \in {"arp", "read", "icmp_mkpkt"}
    BY <1>0, <2>1 DEF FrameTypes
  <2>3. PICK h \in {0, 1} : h = 1
    OBVIOUS
  <2>4. h = 1 <=> frame'[p].at \in {"arp", "read", "icmp_mkpkt"}
    BY <2>2, <2>3
  <2>5. free' = n + 1 - h
    BY <1>2, <2>3
  <2> QED BY <1>0, <2>2, <2>4, <2>5, KeptPassed
<1> QED BY <1>1, <1>2, AllocFacts DEF ArpResolve, IpOut

\* Whatever ip_send does with a packet, it is accounted for.
LEMMA IpSendPassed ==
  ASSUME NetTypes, NetTypes', StockSound, PingQueues, NEW p \in Proc, NEW pkt \in Packet,
         NEW n \in Nat, IpSend(p, pkt, n)
  PROVE  Passed(p, n)
<1>0. FrameTypes /\ PingTypes
  BY DEF NetTypes
<1>1. CASE IpLocal(p, pkt, n)
  BY <1>1, IpLocalPassed
<1>2. CASE free' = n + 1 /\ Return(p) /\ UNCHANGED <<udptab, pingVars>>
  BY <1>0, <1>2, FreedPassed
<1>3. CASE ArpResolve(p, NextHop(pkt.dst), pkt, n) /\ UNCHANGED <<udptab, pingVars>>
  BY <1>3, ArpResolvePassed
<1> QED BY <1>1, <1>2, <1>3 DEF IpSend, NoRoute, IpOut
-----------------------------------------------------------------------------
(* Conservation of buffers, step by step.                                  *)

\* The invariant of the buffers: each is free, held, or in one place of one queue.
BufInv ==
  /\ StockSound
  /\ free + Cardinality(Holders) + Len(ipoqueue) + Stock = NetBufs

\* The numbers that are added up are numbers.
LEMMA BufNumbers ==
  ASSUME NetTypes, NetTypes'
  PROVE  /\ free \in Nat /\ free' \in Nat
         /\ Len(ipoqueue) \in Nat /\ Len(ipoqueue') \in Nat
         /\ Stock \in Nat /\ Stock' \in Nat
         /\ FrameTypes /\ PingTypes /\ UdpTypes /\ PingTypes' /\ UdpTypes'
<1>1. PICK q \in Seq(Packet), r \in Seq(Packet) : q = ipoqueue /\ r = ipoqueue'
  BY DEF NetTypes
<1>2. Len(ipoqueue) \in Nat /\ Len(ipoqueue') \in Nat
  BY <1>1, LenProperties
<1>3. leaked \in Nat /\ leaked' \in Nat
  BY DEF NetTypes, PingTypes
<1>4. Stock \in Nat /\ Stock' \in Nat
  BY <1>3, StockCounts DEF Stock
<1> QED BY <1>2, <1>4 DEF NetTypes

\* So are those of who holds a buffer.
LEMMA HoldersNumber == Cardinality(Holders) \in Nat /\ Cardinality(Holders') \in Nat
<1>0. PICK H, K : H = Holders /\ K = Holders'
  OBVIOUS
<1>1. /\ H = Holders /\ H \in SUBSET Proc
      /\ K = Holders' /\ K \in SUBSET Proc
  <2>1. H \in SUBSET Proc
    BY <1>0 DEF Holders
  <2>2. K \in SUBSET Proc
    BY <1>0 DEF Holders
  <2> QED BY <1>0, <2>1, <2>2
<1>2. IsFiniteSet(H) /\ IsFiniteSet(K)
  BY <1>1, ProcFacts, FS_Subset
<1>3. Cardinality(H) \in Nat /\ Cardinality(K) \in Nat
  BY <1>2, FS_CardinalityType
<1> QED BY <1>1, <1>3

\* What p disposes of it had, got from the pool, or took from the output queue.
LEMMA PassedConserves ==
  ASSUME NetTypes, NetTypes', BufInv, NEW p \in Proc, NEW n \in Nat, Passed(p, n),
         \/ /\ frame[p].at \in {"arp", "read", "icmp_mkpkt"} /\ n = free /\ ipoqueue' = ipoqueue
         \/ /\ frame[p].at \notin {"arp", "read", "icmp_mkpkt"} /\ n = free - 1 /\ ipoqueue' = ipoqueue
         \/ /\ frame[p].at \notin {"arp", "read", "icmp_mkpkt"} /\ n = free
            /\ Len(ipoqueue') = Len(ipoqueue) - 1
         \/ /\ frame[p].at \in {"arp", "read", "icmp_mkpkt"} /\ n = free - 1
            /\ Len(ipoqueue') = Len(ipoqueue) + 1
  PROVE  BufInv'
<1>1. PICK f \in Nat, g \in Nat, k \in Nat, m \in Nat, x \in Nat, y \in Nat :
        /\ f = free /\ g = free' /\ k = Len(ipoqueue) /\ m = Len(ipoqueue')
        /\ x = Stock /\ y = Stock'
  BY BufNumbers
<1>2. PICK a \in Nat, b \in Nat, r \in Nat :
        a = Cardinality(Holders) /\ b = Cardinality(Holders') /\ r = Cardinality(Holders \ {p})
  BY HolderWas, HoldersNumber
<1>3. f + a + k + x = NetBufs
  BY <1>1, <1>2 DEF BufInv
<1>4. g + b + y = n + 1 + r + x /\ StockSound'
  BY <1>1, <1>2 DEF Passed
<1>5. /\ frame[p].at \in {"arp", "read", "icmp_mkpkt"} => a = r + 1
      /\ frame[p].at \notin {"arp", "read", "icmp_mkpkt"} => a = r
  BY <1>2, HolderWas
<1>6. \/ a = r + 1 /\ n = f /\ m = k
      \/ a = r /\ n = f - 1 /\ m = k
      \/ a = r /\ n = f /\ m = k - 1
      \/ a = r + 1 /\ n = f - 1 /\ m = k + 1
  BY <1>1, <1>5
<1>7. g + b + m + y = f + a + k + x
  BY <1>4, <1>6
<1> QED BY <1>1, <1>2, <1>3, <1>4, <1>7 DEF BufInv

\* A step in which nobody gets a buffer or gives one away, but to the pool.
LEMMA StockConserves ==
  ASSUME NetTypes, NetTypes', BufInv, Holders' = Holders, ipoqueue' = ipoqueue,
         StockSound', free' + Stock' = free + Stock
  PROVE  BufInv'
<1>1. PICK f \in Nat, g \in Nat, k \in Nat, x \in Nat, y \in Nat :
        /\ f = free /\ g = free' /\ k = Len(ipoqueue) /\ x = Stock /\ y = Stock'
  BY BufNumbers
<1>2. PICK a \in Nat : a = Cardinality(Holders)
  BY HoldersNumber
<1>3. f + a + k + x = NetBufs /\ g + y = f + x
  BY <1>1, <1>2 DEF BufInv
<1>4. g + a + k + y = NetBufs
  BY <1>3
<1> QED BY <1>1, <1>2, <1>3, <1>4 DEF BufInv

\* A process moves, with a buffer neither before nor after.
LEMMA HoldersSame ==
  ASSUME NEW p \in Proc, \A q \in Proc \ {p} : frame'[q] = frame[q],
         frame[p].at \notin {"arp", "read", "icmp_mkpkt"},
         frame'[p].at \notin {"arp", "read", "icmp_mkpkt"}
  PROVE  Holders' = Holders
BY DEF Holders

\* A step that has nothing to do with buffers.
LEMMA QuietConserves ==
  ASSUME NetTypes, NetTypes', BufInv, Holders' = Holders,
         UNCHANGED <<ipoqueue, udptab, pingVars, free>>
  PROVE  BufInv'
<1>1. StockSound' /\ Stock' = Stock
  BY StockKept DEF BufInv
<1> QED BY <1>1, StockConserves

\* One queue of a UDP endpoint changes, and what it loses is free.
LEMMA UdpConserves ==
  ASSUME NetTypes, NetTypes', BufInv, Holders' = Holders, UNCHANGED <<ipoqueue, pingVars>>,
         NEW s \in Slot, \A t \in Slot \ {s} : udptab'[t] = udptab[t],
         udptab'[s].state = "FREE" => udptab'[s].queue = <<>>,
         free' + Len(udptab'[s].queue) = free + Len(udptab[s].queue),
         Len(udptab'[s].queue) <= Len(udptab[s].queue)
  PROVE  BufInv'
<1>0. /\ UdpTypes /\ UdpTypes' /\ UdpFull /\ UdpEmpty /\ (leaked > 0 => flooded # {})
      /\ leaked \in Nat /\ UNCHANGED <<icmptab, flooded, leaked>>
  BY BufNumbers DEF BufInv, StockSound, PingTypes, pingVars
<1>1. PICK k \in Nat, m \in Nat : k = Len(udptab[s].queue) /\ m = Len(udptab'[s].queue)
  <2>1. udptab[s] \in Endpoint /\ udptab'[s] \in Endpoint
    BY <1>0 DEF UdpTypes
  <2>2. Len(udptab[s].queue) \in Nat /\ Len(udptab'[s].queue) \in Nat
    BY <2>1, LenProperties DEF Endpoint
  <2> QED BY <2>2
<1>2. k <= UDP_QSIZ
  BY <1>0, <1>1 DEF UdpFull
<1>3. m <= UDP_QSIZ
  BY <1>1, <1>2, SizeFacts
<1>4. \A t \in Slot \ {s} : udptab'[t].queue = udptab[t].queue
  OBVIOUS
<1>5. PICK a \in Nat, b \in Nat, u \in Nat :
        a = Cardinality(UdpPlaces) /\ b = Cardinality(UdpPlaces') /\ u = Cardinality(PingPlaces)
  BY StockCounts
<1>6. UdpFull' /\ b + k = a + m
  BY <1>0, <1>1, <1>3, <1>4, <1>5, UdpPlacesChange
<1>7. UdpEmpty'
  BY <1>0 DEF UdpEmpty
<1>8. StockSound'
  BY <1>0, <1>6, <1>7 DEF StockSound
<1>9. PingPlaces' = PingPlaces
  BY <1>0 DEF PingPlaces
<1>10. PICK f \in Nat, g \in Nat, l \in Nat : f = free /\ g = free' /\ l = leaked
  BY <1>0, BufNumbers
<1>11. g + m = f + k
  BY <1>1, <1>10
<1>12. g + (l + b + u) = f + (l + a + u)
  BY <1>6, <1>11
<1>13. free' + Stock' = free + Stock
  BY <1>0, <1>5, <1>9, <1>10, <1>12 DEF Stock
<1> QED BY <1>8, <1>13, StockConserves

\* One queue of a ping endpoint changes, and what it loses is free.
LEMMA PingConserves ==
  ASSUME NetTypes, NetTypes', BufInv, Holders' = Holders,
         UNCHANGED <<ipoqueue, udptab, flooded, leaked>>,
         NEW s \in PingSlot, \A t \in PingSlot \ {s} : icmptab'[t].queue = icmptab[t].queue,
         free' + Cardinality(Replies(s)') = free + Cardinality(Replies(s))
  PROVE  BufInv'
<1>0. /\ PingTypes /\ PingTypes' /\ leaked \in Nat /\ leaked' = leaked
  BY BufNumbers DEF PingTypes
<1>1. PICK k \in Nat, m \in Nat : k = Cardinality(Replies(s)) /\ m = Cardinality(Replies(s)')
  BY <1>0, PingPlacesChange
<1>2. PICK a \in Nat, b \in Nat, u \in Nat :
        a = Cardinality(PingPlaces) /\ b = Cardinality(PingPlaces') /\ u = Cardinality(UdpPlaces)
  BY StockCounts
<1>3. b + k = a + m
  BY <1>0, <1>1, <1>2, PingPlacesChange
<1>4. StockSound' /\ UdpPlaces' = UdpPlaces
  BY DEF BufInv, StockSound, UdpFull, UdpEmpty, UdpPlaces
<1>5. PICK f \in Nat, g \in Nat, l \in Nat : f = free /\ g = free' /\ l = leaked
  BY <1>0, BufNumbers
<1>6. g + m = f + k
  BY <1>1, <1>5
<1>7. g + (l + u + b) = f + (l + u + a)
  BY <1>3, <1>6
<1>8. free' + Stock' = free + Stock
  BY <1>0, <1>2, <1>4, <1>5, <1>7 DEF Stock
<1> QED BY <1>4, <1>8, StockConserves

\* The buffer of a packet that is taken off a UDP endpoint is freed.
LEMMA DequeueConserves ==
  ASSUME NetTypes, NetTypes', BufInv, Holders' = Holders, UNCHANGED <<ipoqueue, pingVars>>,
         NEW c, NEW s \in Slot, Dequeue(c, s)
  PROVE  BufInv'
<1>0. UdpTypes /\ free \in Nat
  BY DEF NetTypes
<1>1. CASE UNCHANGED <<udptab, free>>
  BY <1>1, QuietConserves
<1>2. CASE /\ udptab[s].queue # <<>> /\ free' = free + 1
           /\ udptab'[s].state = "USED" /\ udptab'[s].queue = Tail(udptab[s].queue)
           /\ \A t \in Slot \ {s} : udptab'[t] = udptab[t]
  <2>1. PICK q \in Seq(Packet) : q = udptab[s].queue
    BY <1>0 DEF UdpTypes, Endpoint
  <2>2. Len(Tail(q)) = Len(q) - 1 /\ Len(q) \in Nat
    BY <1>2, <2>1, LenProperties, HeadTailProperties
  <2>3. /\ free' + Len(udptab'[s].queue) = free + Len(udptab[s].queue)
        /\ Len(udptab'[s].queue) <= Len(udptab[s].queue)
    <3>1. PICK k \in Nat : k = Len(q) /\ Len(Tail(q)) = k - 1
      BY <2>2
    <3>2. Len(udptab[s].queue) = k /\ Len(udptab'[s].queue) = k - 1
      BY <1>2, <2>1, <3>1
    <3>3. free + 1 + (k - 1) = free + k /\ k - 1 <= k
      BY <1>0
    <3> QED BY <1>2, <3>2, <3>3
  <2> QED BY <1>2, <2>3, UdpConserves
<1> QED BY <1>0, <1>1, <1>2, DequeueFacts

\* An endpoint that is used in another way holds the same packets.
LEMMA UdpUsedConserves ==
  ASSUME NetTypes, NetTypes', BufInv, Holders' = Holders, UNCHANGED <<ipoqueue, pingVars, free>>,
         NEW s \in Slot, \A t \in Slot \ {s} : udptab'[t] = udptab[t],
         udptab'[s].state # "FREE", udptab'[s].queue = udptab[s].queue
  PROVE  BufInv'
<1>1. free \in Nat /\ UdpTypes
  BY DEF NetTypes
<1>2. PICK k \in Nat : k = Len(udptab[s].queue)
  BY <1>1, LenProperties DEF UdpTypes, Endpoint
<1>3. /\ free' + Len(udptab'[s].queue) = free + Len(udptab[s].queue)
      /\ Len(udptab'[s].queue) <= Len(udptab[s].queue)
  BY <1>1, <1>2
<1> QED BY <1>3, UdpConserves

\* The buffers of packets that are taken off a ping endpoint are freed.
LEMMA IcmpDequeueConserves ==
  ASSUME NetTypes, NetTypes', BufInv, Holders' = Holders,
         UNCHANGED <<ipoqueue, udptab, flooded, leaked>>,
         NEW c, NEW s \in PingSlot, NEW k \in Int, NEW state \in {"FREE", "USED"},
         IcmpDequeue(c, s, k, state)
  PROVE  BufInv'
<1>0. PingTypes /\ free \in Nat
  BY DEF NetTypes
<1>1. CASE UNCHANGED <<icmptab, free>>
  BY <1>1, QuietConserves DEF pingVars
<1>2. CASE /\ Taken(icmptab[s], k) \subseteq Replies(s) /\ Cardinality(Taken(icmptab[s], k)) = k
           /\ icmptab' = [icmptab EXCEPT ![s] = TakenOff(icmptab[s], k, state)]
           /\ free' = free + k
  <2>1. PICK e \in PingEndpoint : e = icmptab[s]
    BY <1>0 DEF PingTypes
  <2>2. PICK r : /\ r = TakenOff(e, k, state)
                 /\ r.queue = [i \in PingPlace |-> e.queue[i] /\ i \notin Taken(e, k)]
    BY <2>1, TakenOffFacts
  <2>3. icmptab'[s] = r /\ \A t \in PingSlot \ {s} : icmptab'[t] = icmptab[t]
    BY <1>0, <1>2, <2>1, <2>2 DEF PingTypes
  <2>4. PICK R, T : /\ R = Replies(s) /\ T = Taken(e, k) /\ T \subseteq R
                    /\ Cardinality(T) = k
    BY <1>2, <2>1
  <2>5. Replies(s)' = R \ T
    <3>1. R = {i \in PingPlace : e.queue[i]}
      BY <2>1, <2>4 DEF Replies
    <3>2. ASSUME NEW i \in PingPlace PROVE icmptab'[s].queue[i] <=> e.queue[i] /\ i \notin T
      BY <2>2, <2>3, <2>4
    <3>3. Replies(s)' = {i \in PingPlace : icmptab'[s].queue[i]}
      BY DEF Replies
    <3> QED BY <3>1, <3>2, <3>3
  <2>6. Cardinality(R \ T) + k = Cardinality(R) /\ Cardinality(R) \in Nat /\ Cardinality(R \ T) \in Nat
    <3>1. IsFiniteSet(R) /\ Cardinality(R) \in Nat
      BY <2>4, RepliesFinite
    <3>2. IsFiniteSet(R \ T) /\ Cardinality(R \ T) = Cardinality(R) - Cardinality(R \cap T)
      BY <3>1, FS_Difference
    <3>3. R \cap T = T
      BY <2>4
    <3>4. Cardinality(R \ T) \in Nat
      BY <3>2, FS_CardinalityType
    <3>5. PICK a \in Nat, b \in Nat : a = Cardinality(R) /\ b = Cardinality(R \ T)
      BY <3>1, <3>4
    <3>6. Cardinality(R \cap T) = k
      BY <2>4, <3>3
    <3>7. b = a - k
      BY <3>2, <3>5, <3>6
    <3> QED BY <3>5, <3>7
  <2>7. PICK a \in Nat, b \in Nat : a = Cardinality(Replies(s)) /\ b = Cardinality(Replies(s)') /\ b + k = a
    BY <2>4, <2>5, <2>6
  <2>8. free' + Cardinality(Replies(s)') = free + Cardinality(Replies(s))
    BY <1>0, <1>2, <2>7
  <2> QED BY <2>3, <2>8, PingConserves
<1> QED BY <1>1, <1>2, IcmpDequeueCases

\* A ping endpoint that is used in another way holds the same replies.
LEMMA PingUsedConserves ==
  ASSUME NetTypes, NetTypes', BufInv, Holders' = Holders,
         UNCHANGED <<ipoqueue, udptab, flooded, leaked, free>>, NEW s \in PingSlot,
         \A t \in PingSlot \ {s} : icmptab'[t] = icmptab[t], Replies(s)' = Replies(s)
  PROVE  BufInv'
<1>1. free' + Cardinality(Replies(s)') = free + Cardinality(Replies(s))
  OBVIOUS
<1> QED BY <1>1, PingConserves

\* A process sends a packet for which it gets a buffer.
LEMMA SendConserves ==
  ASSUME NetTypes, NetTypes', BufInv, PingQueues, NEW c \in Proc,
         frame[c].at \notin {"arp", "read", "icmp_mkpkt"}, NEW pkt \in Packet,
         free > 0, IpSend(c, pkt, free - 1), ipoqueue' = ipoqueue
  PROVE  BufInv'
<1>1. PICK n \in Nat : n = free - 1
  BY BufNumbers
<1>2. Passed(c, n)
  BY <1>1, IpSendPassed DEF BufInv
<1> QED BY <1>1, <1>2, PassedConserves

\* A process that sends has a buffer, or waits and has none.
LEMMA SendOrWaitConserves ==
  ASSUME NetTypes, NetTypes', BufInv, PingQueues, NEW c \in Proc,
         frame[c].at \notin {"arp", "read", "icmp_mkpkt"}, NEW pkt \in Packet,
         NEW f, f.at \in {"send", "udp_sendto"}, SendOrWait(c, pkt, f), ipoqueue' = ipoqueue
  PROVE  BufInv'
<1>1. CASE free > 0 /\ IpSend(c, pkt, free - 1)
  BY <1>1, SendConserves
<1>2. CASE frame' = [frame EXCEPT ![c] = f] /\ UNCHANGED <<udptab, pingVars, free>>
  <2>1. /\ \A q \in Proc \ {c} : frame'[q] = frame[q]
        /\ frame'[c].at \notin {"arp", "read", "icmp_mkpkt"}
    BY <1>2 DEF NetTypes, FrameTypes
  <2>2. Holders' = Holders
    BY <2>1, HoldersSame
  <2> QED BY <1>2, <2>2, QuietConserves
<1> QED BY <1>1, <1>2 DEF SendOrWait

\* A step of a client, which holds a buffer only inside of arp_resolve.
LEMMA ClientConserves ==
  ASSUME PacketInv, NetTypes', BufInv, NEW c \in Client,
         \/ \E r \in load.endpoints : UdpRegister(c, r)
         \/ \E s \in Slot :
              \/ UdpRecv(c, s) \/ UdpRelease(c, s) \/ UdpSend(c, s)
              \/ \E d \in load.dests : UdpSendto(c, s, d)
         \/ \E ip \in load.pings : IcmpRegister(c, ip)
         \/ \E s \in PingSlot : IcmpSend(c, s) \/ IcmpRecv(c, s) \/ IcmpRelease(c, s)
         \/ UdpRecvWoken(c) \/ IcmpRecvWoken(c) \/ SendWoken(c) \/ UdpSendtoWoken(c)
         \/ ChildExits(c)
  PROVE  BufInv'
<1>0. /\ NetTypes /\ PingQueues /\ load \in Load /\ UdpTypes /\ PingTypes /\ PingTypes' /\ FrameTypes
      /\ free \in Nat /\ c \in Proc
  BY NetSizes, SizeFacts DEF PacketInv, NetTypes
<1>h. ASSUME UNCHANGED frame PROVE Holders' = Holders
  BY <1>h DEF Holders
<1>r. ASSUME frame[c].at \in {"user", "udp_recv", "icmp_recv"}, Return(c) PROVE Holders' = Holders
  BY <1>0, <1>r, ReturnCarried, HoldersSame DEF Carried
<1>w. ASSUME frame[c].at = "user", NEW s,
             \/ frame' = [frame EXCEPT ![c] = [Doing("udp_recv") EXCEPT !.slot = s]]
             \/ frame' = [frame EXCEPT ![c] = [Doing("icmp_recv") EXCEPT !.slot = s]]
      PROVE  Holders' = Holders
  <2>1. PICK f : frame' = [frame EXCEPT ![c] = f] /\ f.at \in {"udp_recv", "icmp_recv"}
    <3>1. PICK d, e : /\ d = [Doing("udp_recv") EXCEPT !.slot = s]
                      /\ e = [Doing("icmp_recv") EXCEPT !.slot = s]
      OBVIOUS
    <3>2. d.at = "udp_recv" /\ e.at = "icmp_recv"
      BY <3>1 DEF Doing
    <3> QED BY <1>w, <3>1, <3>2
  <2>2. /\ \A q \in Proc \ {c} : frame'[q] = frame[q]
        /\ frame'[c].at \notin {"arp", "read", "icmp_mkpkt"}
    BY <1>0, <2>1 DEF FrameTypes
  <2> QED BY <1>0, <1>w, <2>2, HoldersSame
<1>1. ASSUME NEW r, UdpRegister(c, r) PROVE BufInv'
  <2>1. PICK s \in Slot :
        /\ udptab[s].state = "FREE"
        /\ udptab' = [udptab EXCEPT ![s] =
             [FreeEndpoint EXCEPT !.state = "USED", !.remip = r.remip,
                                  !.remport = r.remport, !.locport = r.locport]]
    BY <1>1, UdpRegisterCase
  <2>2. PICK u : u = [FreeEndpoint EXCEPT !.state = "USED", !.remip = r.remip,
                                          !.remport = r.remport, !.locport = r.locport]
    OBVIOUS
  <2>6. u.state = "USED" /\ u.queue = <<>>
    BY <2>2 DEF FreeEndpoint
  <2>3. udptab'[s] = u /\ \A t \in Slot \ {s} : udptab'[t] = udptab[t]
    BY <1>0, <2>1, <2>2 DEF UdpTypes
  <2>4. udptab'[s].queue = udptab[s].queue
    BY <2>1, <2>3, <2>6 DEF BufInv, StockSound, UdpEmpty
  <2>5. UNCHANGED <<ipoqueue, pingVars, free, frame>>
    BY <1>1 DEF UdpRegister
  <2> QED BY <1>0, <1>h, <2>3, <2>4, <2>5, <2>6, UdpUsedConserves
<1>2. ASSUME NEW s \in Slot, UdpRecv(c, s) PROVE BufInv'
  <2>1. frame[c].at = "user" /\ udptab[s].state = "USED" /\ UNCHANGED <<ipoqueue, pingVars>>
    BY <1>2 DEF UdpRecv, At
  <2>2. CASE Dequeue(c, s) /\ UNCHANGED frame
    BY <1>0, <1>h, <2>1, <2>2, DequeueConserves
  <2>3. CASE /\ udptab' = [udptab EXCEPT ![s].state = "RECV", ![s].pid = c]
             /\ frame' = [frame EXCEPT ![c] = [Doing("udp_recv") EXCEPT !.slot = s]]
             /\ UNCHANGED free
    <3>1. /\ udptab'[s].state = "RECV" /\ udptab'[s].queue = udptab[s].queue
          /\ \A t \in Slot \ {s} : udptab'[t] = udptab[t]
      BY <1>0, <2>3, UdpStored
    <3>2. Holders' = Holders
      BY <1>w, <2>1, <2>3
    <3> QED BY <1>0, <2>1, <2>3, <3>1, <3>2, UdpUsedConserves
  <2> QED BY <1>2, <2>2, <2>3 DEF UdpRecv
<1>3. ASSUME NEW s \in Slot, UdpRelease(c, s) PROVE BufInv'
  <2>1. /\ free' = free + Len(udptab[s].queue)
        /\ udptab' = [udptab EXCEPT ![s].queue = <<>>, ![s].state = "FREE"]
        /\ UNCHANGED <<ipoqueue, pingVars, frame>>
    BY <1>3 DEF UdpRelease
  <2>2. udptab'[s].queue = <<>> /\ \A t \in Slot \ {s} : udptab'[t] = udptab[t]
    BY <1>0, <2>1, UdpStored
  <2>3. PICK k \in Nat : k = Len(udptab[s].queue)
    BY <1>0, LenProperties DEF UdpTypes, Endpoint
  <2>4. Len(udptab'[s].queue) = 0
    BY <2>2, EmptySeq
  <2>5. /\ free' + Len(udptab'[s].queue) = free + Len(udptab[s].queue)
        /\ Len(udptab'[s].queue) <= Len(udptab[s].queue)
    BY <1>0, <2>1, <2>3, <2>4
  <2> QED BY <1>0, <1>h, <2>1, <2>2, <2>5, UdpConserves
<1>4. ASSUME NEW s \in Slot, UdpSend(c, s) PROVE BufInv'
  <2>1. PICK pkt \in Packet : pkt = UdpPacket(s, udptab[s].remip, udptab[s].remport)
    BY <1>0, UdpPacketTypes DEF UdpTypes, Endpoint
  <2>2. PICK f : f = [Doing("send") EXCEPT !.pkt = pkt]
    OBVIOUS
  <2>5. f.at \in {"send", "udp_sendto"}
    BY <2>2 DEF Doing
  <2>3. SendOrWait(c, pkt, f) /\ ipoqueue' = ipoqueue
    BY <1>4, <2>1, <2>2 DEF UdpSend
  <2>4. frame[c].at \notin {"arp", "read", "icmp_mkpkt"}
    BY <1>4 DEF UdpSend, At
  <2> QED BY <1>0, <2>3, <2>4, <2>5, SendOrWaitConserves
<1>5. ASSUME NEW s \in Slot, NEW d \in load.dests, UdpSendto(c, s, d) PROVE BufInv'
  <2>0. d.ip \in Addr /\ d.port \in Nat
    BY <1>0, <1>5 DEF Load
  <2>1. PICK pkt \in Packet : pkt = UdpPacket(s, d.ip, d.port)
    BY <1>0, <2>0, UdpPacketTypes
  <2>2. PICK f : f = [Doing("udp_sendto") EXCEPT !.slot = s, !.pkt = pkt]
    OBVIOUS
  <2>5. f.at \in {"send", "udp_sendto"}
    BY <2>2 DEF Doing
  <2>3. SendOrWait(c, pkt, f) /\ ipoqueue' = ipoqueue
    BY <1>5, <2>1, <2>2 DEF UdpSendto
  <2>4. frame[c].at \notin {"arp", "read", "icmp_mkpkt"}
    BY <1>5 DEF UdpSendto, At
  <2> QED BY <1>0, <2>3, <2>4, <2>5, SendOrWaitConserves
<1>6. ASSUME NEW ip, IcmpRegister(c, ip) PROVE BufInv'
  <2>1. PICK s \in PingSlot :
        /\ icmptab[s].state = "FREE"
        /\ icmptab' = [icmptab EXCEPT ![s] =
             [FreePing EXCEPT !.state = "USED", !.remip = ip, !.user = c]]
    BY <1>6, IcmpRegisterCase
  <2>2. PICK e : e = [FreePing EXCEPT !.state = "USED", !.remip = ip, !.user = c]
    OBVIOUS
  <2>7. e.queue = [i \in PingPlace |-> FALSE]
    BY <2>2 DEF FreePing
  <2>3. icmptab'[s] = e /\ \A t \in PingSlot \ {s} : icmptab'[t] = icmptab[t]
    BY <1>0, <2>1, <2>2 DEF PingTypes
  <2>4. Replies(s) = {}
    BY <1>0, <2>1 DEF PingQueues, PingAt, Replies
  <2>5. Replies(s)' = {}
    BY <2>3, <2>7 DEF Replies
  <2>6. UNCHANGED <<ipoqueue, udptab, flooded, leaked, free, frame>>
    BY <1>6 DEF IcmpRegister
  <2> QED BY <1>0, <1>h, <2>3, <2>4, <2>5, <2>6, PingUsedConserves
<1>7. ASSUME NEW s \in PingSlot, IcmpSend(c, s) PROVE BufInv'
  <2>0. icmptab[s].remip \in Addr /\ s \in Nat
    BY <1>0, SizeFacts DEF PingTypes, PingEndpoint
  <2>1. PICK pkt \in Packet :
          pkt = [NoPkt EXCEPT !.proto = "ping", !.src = Me, !.dst = icmptab[s].remip, !.dport = s]
    BY <2>0, RecordFacts, SizeFacts DEF Packet
  <2>2. PICK f : f = [Doing("send") EXCEPT !.pkt = pkt]
    OBVIOUS
  <2>5. f.at \in {"send", "udp_sendto"}
    BY <2>2 DEF Doing
  <2>3. SendOrWait(c, pkt, f) /\ ipoqueue' = ipoqueue
    BY <1>7, <2>1, <2>2 DEF IcmpSend
  <2>4. frame[c].at \notin {"arp", "read", "icmp_mkpkt"}
    BY <1>7 DEF IcmpSend, At
  <2> QED BY <1>0, <2>3, <2>4, <2>5, SendOrWaitConserves
<1>8. ASSUME NEW s \in PingSlot, IcmpRecv(c, s) PROVE BufInv'
  <2>1. frame[c].at = "user" /\ UNCHANGED <<ipoqueue, udptab, flooded, leaked>>
    BY <1>8 DEF IcmpRecv, At
  <2>2. CASE IcmpDequeue(c, s, 1, "USED") /\ UNCHANGED frame
    BY <1>0, <1>h, <2>1, <2>2, IcmpDequeueConserves
  <2>3. CASE /\ icmptab' = [icmptab EXCEPT ![s].state = "RECV", ![s].pid = c]
             /\ frame' = [frame EXCEPT ![c] = [Doing("icmp_recv") EXCEPT !.slot = s]]
             /\ UNCHANGED free
    <3>1. /\ icmptab'[s].queue = icmptab[s].queue
          /\ \A t \in PingSlot \ {s} : icmptab'[t] = icmptab[t]
      BY <1>0, <2>3 DEF PingTypes, PingEndpoint
    <3>2. Replies(s)' = Replies(s)
      BY <3>1 DEF Replies
    <3>3. Holders' = Holders
      BY <1>w, <2>1, <2>3
    <3> QED BY <1>0, <2>1, <2>3, <3>1, <3>2, <3>3, PingUsedConserves
  <2> QED BY <1>8, <2>2, <2>3 DEF IcmpRecv
<1>9. ASSUME NEW s \in PingSlot, IcmpRelease(c, s) PROVE BufInv'
  <2>1. /\ IcmpDequeue(c, s, icmptab[s].count, "FREE")
        /\ UNCHANGED <<ipoqueue, udptab, flooded, leaked, frame>>
    BY <1>9 DEF IcmpRelease
  <2>2. icmptab[s].count \in Int
    BY <1>0 DEF PingTypes, PingEndpoint
  <2> QED BY <1>0, <1>h, <2>1, <2>2, IcmpDequeueConserves
<1>10. ASSUME UdpRecvWoken(c) PROVE BufInv'
  <2>1. PICK s \in Slot : s = frame[c].slot
    BY <1>0, <1>10 DEF UdpRecvWoken, At, FrameTypes, SlotOK
  <2>2. frame[c].at = "udp_recv" /\ Return(c) /\ UNCHANGED <<ipoqueue, pingVars>>
    BY <1>10 DEF UdpRecvWoken, At
  <2>3. Holders' = Holders
    BY <1>r, <2>2
  <2>4. CASE Dequeue(c, s)
    BY <1>0, <2>2, <2>3, <2>4, DequeueConserves
  <2>5. CASE udptab' = [udptab EXCEPT ![s].state = "USED"] /\ UNCHANGED free
    <3>1. /\ udptab'[s].state = "USED" /\ udptab'[s].queue = udptab[s].queue
          /\ \A t \in Slot \ {s} : udptab'[t] = udptab[t]
      BY <1>0, <2>5, UdpStored
    <3> QED BY <1>0, <2>2, <2>3, <2>5, <3>1, UdpUsedConserves
  <2> QED BY <1>10, <2>1, <2>4, <2>5 DEF UdpRecvWoken
<1>11. ASSUME IcmpRecvWoken(c) PROVE BufInv'
  <2>1. PICK s \in PingSlot : s = frame[c].slot
    BY <1>0, <1>11 DEF IcmpRecvWoken, At, FrameTypes, SlotOK
  <2>2. /\ frame[c].at = "icmp_recv" /\ Return(c)
        /\ UNCHANGED <<ipoqueue, udptab, flooded, leaked>>
    BY <1>11 DEF IcmpRecvWoken, At
  <2>3. Holders' = Holders
    BY <1>r, <2>2
  <2>4. CASE IcmpDequeue(c, s, 1, "USED")
    BY <1>0, <2>2, <2>3, <2>4, IcmpDequeueConserves
  <2>5. CASE icmptab' = [icmptab EXCEPT ![s].state = "USED"] /\ UNCHANGED free
    <3>1. /\ icmptab'[s].queue = icmptab[s].queue
          /\ \A t \in PingSlot \ {s} : icmptab'[t] = icmptab[t]
      BY <1>0, <2>5 DEF PingTypes, PingEndpoint
    <3>2. Replies(s)' = Replies(s)
      BY <3>1 DEF Replies
    <3> QED BY <1>0, <2>2, <2>3, <2>5, <3>1, <3>2, PingUsedConserves
  <2> QED BY <1>11, <2>1, <2>4, <2>5 DEF IcmpRecvWoken
<1>12. ASSUME SendWoken(c) \/ UdpSendtoWoken(c) PROVE BufInv'
  <2>0. frame[c] \in Frame /\ frame[c].pkt \in Packet /\ SlotOK(frame[c])
    BY <1>0 DEF FrameTypes, Frame
  <2>1. /\ frame[c].at \notin {"arp", "read", "icmp_mkpkt"} /\ free > 0 /\ ipoqueue' = ipoqueue
    BY <1>12 DEF SendWoken, UdpSendtoWoken, At
  <2>2. PICK pkt \in Packet : IpSend(c, pkt, free - 1)
    <3>1. CASE SendWoken(c)
      BY <2>0, <3>1 DEF SendWoken
    <3>2. CASE UdpSendtoWoken(c)
      <4>1. frame[c].slot \in Slot
        BY <2>0, <3>2 DEF UdpSendtoWoken, At, SlotOK
      <4>2. udptab[frame[c].slot].locport \in Nat
        BY <4>1, <1>0 DEF UdpTypes, Endpoint
      <4>3. [frame[c].pkt EXCEPT !.sport = udptab[frame[c].slot].locport] \in Packet
        BY <4>2, <2>0 DEF Packet
      <4> QED BY <4>3, <3>2 DEF UdpSendtoWoken
    <3> QED BY <3>1, <3>2, <1>12
  <2> QED BY <1>0, <2>1, <2>2, SendConserves
<1>13. ASSUME ChildExits(c) PROVE BufInv'
  <2>1. UNCHANGED <<ipoqueue, udptab, pingVars, free, frame>>
    BY <1>13 DEF ChildExits, tabVars
  <2> QED BY <1>0, <1>h, <2>1, QuietConserves
<1> QED
  BY <1>1, <1>2, <1>3, <1>4, <1>5, <1>6, <1>7, <1>8, <1>9, <1>10, <1>11, <1>12, <1>13

\* A step of the stack.
LEMMA StackConserves ==
  ASSUME PacketInv, NetTypes', BufInv, NetStep
  PROVE  BufInv'
<1>0. /\ NetTypes /\ PingQueues /\ load \in Load /\ UdpTypes /\ PingTypes /\ FrameTypes /\ StockSound
      /\ free \in Nat /\ ipoqueue \in Seq(Packet) /\ "netin" \in Proc /\ "ipout" \in Proc
  BY NetSizes, SizeFacts DEF PacketInv, NetTypes, BufInv
<1>1. ASSUME NEW p \in Proc, Timeout(p) PROVE BufInv'
  <2>1. UNCHANGED <<ipoqueue, udptab, pingVars, free, frame>>
    BY <1>1 DEF Timeout, tabVars
  <2>2. Holders' = Holders
    BY <2>1 DEF Holders
  <2> QED BY <1>0, <2>1, <2>2, QuietConserves
<1>2. ASSUME NEW p \in Proc, ArpWoken(p) PROVE BufInv'
  <2>1. frame[p].at = "arp" /\ UNCHANGED <<udptab, pingVars, ipoqueue>>
    BY <1>2 DEF ArpWoken, At
  <2>2. CASE frame' = [frame EXCEPT ![p].tries = @ + 1] /\ UNCHANGED free
    <3>1. \A q \in Proc : frame'[q].at = frame[q].at
      BY <1>0, <2>2 DEF FrameTypes, Frame
    <3>2. Holders' = Holders
      BY <3>1 DEF Holders
    <3> QED BY <1>0, <2>1, <2>2, <3>2, QuietConserves
  <2>3. CASE free' = free + 1 /\ Return(p)
    <3>1. Passed(p, free)
      BY <1>0, <2>1, <2>3, FreedPassed
    <3> QED BY <1>0, <2>1, <3>1, PassedConserves
  <2> QED BY <1>2, <2>2, <2>3 DEF ArpWoken, IpOut
<1>3. ASSUME NEW p \in Proc, IcmpAnswer(p) PROVE BufInv'
  <2>1. frame[p].at = "icmp_mkpkt" /\ free > 0 /\ Return(p) /\ UNCHANGED <<udptab, pingVars>>
    BY <1>3 DEF IcmpAnswer, At
  <2>2. CASE free' = free + 1 /\ UNCHANGED ipoqueue
    <3>1. Passed(p, free)
      BY <1>0, <2>1, <2>2, FreedPassed
    <3> QED BY <1>0, <2>1, <2>2, <3>1, PassedConserves
  <2>3. CASE ipoqueue' = Append(ipoqueue, frame[p].pkt) /\ UNCHANGED free
    <3>1. PICK n \in Nat : n = free - 1
      BY <1>0, <2>1
    <3>2. free' = n + 1
      BY <1>0, <2>3, <3>1
    <3>3. Passed(p, n)
      BY <1>0, <2>1, <3>2, FreedPassed
    <3>4. frame[p].pkt \in Packet
      BY <1>0 DEF FrameTypes, Frame
    <3>5. Len(ipoqueue') = Len(ipoqueue) + 1
      BY <1>0, <2>3, <3>4, AppendProperties
    <3> QED BY <1>0, <2>1, <3>1, <3>3, <3>5, PassedConserves
  <2> QED BY <1>3, <2>2, <2>3 DEF IcmpAnswer
<1>4. ASSUME NetinGetbuf PROVE BufInv'
  <2>1. /\ frame["netin"].at = "getbuf" /\ free > 0 /\ free' = free - 1
        /\ frame' = [frame EXCEPT !["netin"] = Doing("read")]
        /\ UNCHANGED <<udptab, pingVars, ipoqueue>>
    BY <1>4 DEF NetinGetbuf, At, tabVars
  <2>2. PICK n \in Nat : n = free - 1
    BY <1>0, <2>1
  <2>3. /\ \A q \in Proc \ {"netin"} : frame'[q] = frame[q]
        /\ frame'["netin"].at \in {"arp", "read", "icmp_mkpkt"}
    BY <1>0, <2>1, DoingFacts DEF FrameTypes
  <2>4. PICK h \in {0, 1} : h = 1
    OBVIOUS
  <2>5. h = 1 <=> frame'["netin"].at \in {"arp", "read", "icmp_mkpkt"}
    BY <2>3, <2>4
  <2>6. free' = n + 1 - h
    BY <2>1, <2>2, <2>4
  <2>7. Passed("netin", n)
    BY <1>0, <2>1, <2>3, <2>5, <2>6, KeptPassed
  <2> QED BY <1>0, <2>1, <2>2, <2>7, PassedConserves
<1>5. ASSUME NEW a, NetinArp(a) PROVE BufInv'
  <2>1. /\ frame["netin"].at = "read" /\ free' = free + 1 /\ Return("netin")
        /\ UNCHANGED <<udptab, pingVars, ipoqueue>>
    BY <1>5 DEF NetinArp, At
  <2>2. Passed("netin", free)
    BY <1>0, <2>1, FreedPassed
  <2> QED BY <1>0, <2>1, <2>2, PassedConserves
<1>6. ASSUME NEW pkt \in load.packets, NetinIp(pkt) PROVE BufInv'
  <2>1. frame["netin"].at = "read" /\ ipoqueue' = ipoqueue /\ pkt \in Packet
    BY <1>0, <1>6 DEF NetinIp, At, Load
  <2>2. CASE IpLocal("netin", pkt, free)
    <3>1. Passed("netin", free)
      BY <1>0, <2>1, <2>2, IpLocalPassed
    <3> QED BY <1>0, <2>1, <3>1, PassedConserves
  <2>3. CASE free' = free + 1 /\ Return("netin") /\ UNCHANGED <<udptab, pingVars>>
    <3>1. Passed("netin", free)
      BY <1>0, <2>3, FreedPassed
    <3> QED BY <1>0, <2>1, <3>1, PassedConserves
  <2> QED BY <1>6, <2>2, <2>3 DEF NetinIp
<1>7. ASSUME Ipout PROVE BufInv'
  <2>1. /\ frame["ipout"].at = "dequeue" /\ ipoqueue # <<>> /\ ipoqueue' = Tail(ipoqueue)
    BY <1>0, <1>7 DEF Ipout, At, NetTypes, RingInv
  <2>2. Head(ipoqueue) \in Packet /\ Len(ipoqueue') = Len(ipoqueue) - 1
    BY <1>0, <2>1, HeadTailProperties
  <2>3. Passed("ipout", free)
    <3>1. CASE NoRoute("ipout", free)
      BY <1>0, <3>1, FreedPassed DEF NoRoute
    <3>2. CASE IpSend("ipout", Head(ipoqueue), free)
      BY <1>0, <2>2, <3>2, IpSendPassed
    <3> QED BY <1>7, <3>1, <3>2 DEF Ipout
  <2> QED BY <1>0, <2>1, <2>2, <2>3, PassedConserves
<1>8. ASSUME IpoutWait PROVE BufInv'
  <2>1. /\ frame["ipout"].at = "wait" /\ frame' = [frame EXCEPT !["ipout"] = Doing("dequeue")]
        /\ UNCHANGED <<ipoqueue, udptab, pingVars, free>>
    BY <1>8 DEF IpoutWait, At, tabVars
  <2>2. Holders' = Holders
    BY <1>0, <2>1, DoingFacts, HoldersSame DEF FrameTypes
  <2> QED BY <1>0, <2>1, <2>2, QuietConserves
<1> QED BY <1>1, <1>2, <1>3, <1>4, <1>5, <1>6, <1>7, <1>8 DEF NetStep

\* At first all buffers are free.
LEMMA BufInvStart == NetInit => BufInv
<1> SUFFICES ASSUME NetInit PROVE BufInv
  OBVIOUS
<1>1. /\ \A s \in Slot : udptab[s].queue = <<>>
      /\ \A s \in PingSlot : \A i \in PingPlace : ~icmptab[s].queue[i]
  BY DEF NetInit, FreeEndpoint, FreePing
<1>2. \A s \in Slot : Len(udptab[s].queue) = 0
  BY <1>1, EmptySeq
<1>3. UdpFull /\ UdpEmpty
  BY <1>1, <1>2, SizeFacts DEF UdpFull, UdpEmpty
<1>4. UdpPlaces = {} /\ PingPlaces = {}
  <2>1. ASSUME NEW x \in UdpPlaces PROVE FALSE
    <3>1. x[1] \in Slot /\ x[2] \in 1..UDP_QSIZ /\ x[2] <= Len(udptab[x[1]].queue)
      BY DEF UdpPlaces
    <3>2. PICK j \in Int : j = x[2] /\ 1 <= j
      BY <3>1, SizeFacts
    <3>3. j <= 0
      BY <1>2, <3>1, <3>2
    <3> QED BY <3>2, <3>3
  <2> QED BY <1>1, <2>1 DEF PingPlaces
<1>5. Holders = {}
  <2>1. \A p \in Proc : frame[p].at \in {"getbuf", "wait", "user"}
    BY RestFacts DEF NetInit
  <2> QED BY <2>1 DEF Holders
<1>6. free = NetBufs /\ leaked = 0 /\ ipoqueue = <<>>
  BY DEF NetInit
<1>7. Cardinality(UdpPlaces) = 0 /\ Cardinality(PingPlaces) = 0 /\ Cardinality(Holders) = 0
  BY <1>4, <1>5, FS_EmptySet
<1>8. free \in Nat
  BY NetTypesStart DEF NetTypes
<1>9. Len(ipoqueue) = 0
  BY <1>6, EmptySeq
<1>10. Stock = 0
  BY <1>6, <1>7 DEF Stock
<1> QED BY <1>3, <1>6, <1>7, <1>8, <1>9, <1>10, SizeFacts DEF BufInv, StockSound

\* No step loses or doubles one.
LEMMA BufInvAlways == NetSpec => []BufInv
<1>1. NetInit => BufInv
  BY BufInvStart
<1>2. NetInv /\ NetInv' /\ BufInv /\ [NetNext]_netVars => BufInv'
  <2> SUFFICES ASSUME NetInv, NetInv', BufInv, [NetNext]_netVars PROVE BufInv'
    OBVIOUS
  <2>1. NetTypes /\ NetTypes'
    BY DEF NetInv
  <2>2. CASE NetNext
    <3>1. PacketInv /\ (NetStep \/ ClientStep)
      BY <2>2 DEF NetInv, NetNext, PacketFlow, PacketInv, Receivers
    <3> QED BY <2>1, <3>1, StackConserves, ClientConserves DEF ClientStep
  <2>3. CASE UNCHANGED netVars
    <3>1. UNCHANGED <<ipoqueue, udptab, pingVars, free, frame>>
      BY <2>3 DEF netVars, tabVars
    <3>2. Holders' = Holders
      BY <3>1 DEF Holders
    <3> QED BY <2>1, <3>1, <3>2, QuietConserves
  <2> QED BY <2>2, <2>3
<1> QED BY <1>1, <1>2, NetInvAlways, PTL DEF NetSpec

\* No packet buffer is lost.
THEOREM NoBufferIsLost == NetSpec => []BuffersConserved
<1>1. NetInv /\ BufInv => BuffersConserved
  <2> SUFFICES ASSUME NetInv, BufInv PROVE BuffersConserved
    OBVIOUS
  <2>1. NetTypes /\ leaked \in Nat
    BY DEF NetInv, NetTypes, PingTypes
  <2>2. PICK f \in Nat, a \in Nat, l \in Nat, u \in Nat, v \in Nat, k \in Nat :
          /\ f = free /\ a = Cardinality(Holders) /\ l = leaked /\ k = Len(ipoqueue)
          /\ u = Cardinality(UdpPlaces) /\ v = Cardinality(PingPlaces)
    BY <2>1, HoldersNumber, StockCounts, LenProperties DEF NetTypes
  <2>3. f + a + k + (l + u + v) = NetBufs
    BY <2>2 DEF BufInv, Stock
  <2>4. f + a + k + l + u + v = NetBufs
    BY <2>3
  <2>5. Lapped => frame["ipout"].at = "dequeue"
    <3>1. RingInv
      BY <2>1 DEF NetTypes
    <3> QED BY <2>2, <3>1, SizeFacts DEF RingInv, Unpermitted, Lapped
  <2> QED BY <2>2, <2>4, <2>5 DEF BufInv, StockSound, UdpFull, BuffersConserved
<1> QED BY <1>1, NetInvAlways, BufInvAlways, PTL
=============================================================================
