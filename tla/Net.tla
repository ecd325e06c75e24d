-------------------------------- MODULE Net ---------------------------------
(***************************************************************************)
(* The network stack (src/Xinu/net: net.c, arp.c, ip.c, udp.c, icmp.c).    *)
(* Process netin reads frames and hands them to ARP, to UDP and ping       *)
(* endpoints or to the ping responder; process ipout sends the ping        *)
(* replies from a queue; other processes send and receive on endpoints.    *)
(* They share the endpoints, the ARP cache and one pool of packet buffers, *)
(* and wake each other with messages, of which a process holds one at a    *)
(* time whoever has sent it.                                               *)
(*                                                                         *)
(* Calls run with interrupts disabled: a call is one action, plus one each *)
(* time it has waited (in getbuf, in recvtime or for a semaphore).  A wait *)
(* that has ended and the process running again are two steps.             *)
(***************************************************************************)
EXTENDS Integers, Sequences, FiniteSets, SequencesExt, FiniteSetsExt

CONSTANTS
  Client,                          \* the processes that use UDP
  Addr,                            \* the addresses of hosts, and among them:
  Me, Bcast, Local,                \* ours, broadcast, the hosts of our network
  NoAddr,                          \* the zero address: no router, any remote host
  UDP_SLOTS, UDP_QSIZ,             \* endpoints, and packets queued for each
  ARP_SIZ, ARP_RETRY, IP_OQSIZ,    \* cache entries, requests sent, packets queued for ipout
  ICMP_SLOTS, ICMP_QSIZ,           \* ping endpoints, and replies queued for each
  Loads   \* what happens: endpoints registered, destinations of udp_sendto, hosts pinged,
          \* the router, ARP and IP packets that arrive, and (a bound) how many children exit

Packet == [proto : {"none", "udp", "ping", "reply", "other"}, src : Addr, dst : Addr,
           sport : Nat, dport : Nat]
Load == [endpoints : SUBSET [remip : Addr, remport : Nat, locport : Nat],
         dests : SUBSET [ip : Addr, port : Nat], pings : SUBSET Addr, router : Addr,
         arps : SUBSET [op : {"request", "reply"}, sndpa : Addr, tarpa : Addr],
         packets : SUBSET Packet, exits : Nat]

\* A ping endpoint has no more places (8 in icmp.h) than there are endpoints (10), which
\* is where its reader wraps; Load says what a load is made of.
ASSUME NetSizes ==
  /\ {UDP_SLOTS, UDP_QSIZ, ICMP_SLOTS, ICMP_QSIZ} \subseteq Nat \ {0}
  /\ {ARP_SIZ, ARP_RETRY, IP_OQSIZ} \subseteq Nat \ {0}
  /\ ICMP_QSIZ <= ICMP_SLOTS
  /\ IsFiniteSet(Client) /\ Client \cap {"netin", "ipout", "nobody"} = {}
  /\ {Me, Bcast, NoAddr} \cup Local \subseteq Addr
  /\ Loads \subseteq Load

VARIABLES
  load,               \* the element of Loads that happens
  udptab, icmptab,    \* the endpoints
  arpcache,           \* the ARP cache
  ipoqueue,           \* the packets queued for ipout
  free,               \* how many buffers of netbufpool are free
  frame,              \* what each process is inside of
  prmsg, timing,      \* the message each process holds; who is waiting in recvtime
  strays,             \* how many children have exited
  strayed,            \* history: processes whose wait for ARP a foreign message ended
  robbed,             \* history: processes whose answer was evicted before they read it
  shared,             \* history: endpoints used by one process while another received
  misaddressed,       \* history: processes that sent a frame to a wrong hardware address
  flooded,            \* history: ping endpoints that were given more than ICMP_QSIZ replies
  leaked,             \* history: how many buffers were overwritten in a queue of replies
  emptied             \* history: (process, endpoint) that took a packet that was not there

pingVars == <<icmptab, flooded, leaked>>
tabVars == <<udptab, pingVars, arpcache, ipoqueue>>
histVars == <<load, strays, strayed, robbed, shared, misaddressed, emptied>>
netVars == <<tabVars, free, frame, prmsg, timing, histVars>>

Proc == Client \cup {"netin", "ipout"}
Slot == 0 .. UDP_SLOTS-1
PingSlot == 0 .. ICMP_SLOTS-1
PingPlace == 0 .. ICMP_QSIZ-1
Entry == 0 .. ARP_SIZ-1
\* net_init: a buffer for each place in a queue, and one for netin.
NetBufs == UDP_SLOTS * UDP_QSIZ + ICMP_SLOTS * ICMP_QSIZ + 1

NoPkt == [proto |-> "none", src |-> NoAddr, dst |-> NoAddr, sport |-> 0, dport |-> 0]
Doing(at) == [at |-> at, slot |-> 0, entry |-> 0, tries |-> 0, pkt |-> NoPkt]
FreeEndpoint == [state |-> "FREE", remip |-> NoAddr, remport |-> 0, locport |-> 0,
                 pid |-> "nobody", queue |-> <<>>]
\* What a ping endpoint's queue holds is whether a packet is in each place of its
\* array; user and given are history: who uses it and how many replies it was given.
FreePing == [state |-> "FREE", remip |-> NoAddr, pid |-> "nobody", head |-> 0, tail |-> 0,
             count |-> 0, queue |-> [i \in PingPlace |-> FALSE], user |-> "nobody", given |-> 0]
NoEntry == [state |-> "FREE", ip |-> NoAddr, pid |-> "nobody", mac |-> NoAddr]
\* What a process does when it is in no call.
Rest(p) == Doing(IF p = "netin" THEN "getbuf" ELSE IF p = "ipout" THEN "wait" ELSE "user")

NetInit ==
  /\ load \in Loads
  /\ udptab = [s \in Slot |-> FreeEndpoint]
  /\ icmptab = [s \in PingSlot |-> FreePing] /\ flooded = {} /\ leaked = 0
  /\ arpcache = [e \in Entry |-> NoEntry]
  /\ ipoqueue = <<>> /\ free = NetBufs
  /\ frame = [p \in Proc |-> Rest(p)]
  /\ prmsg = [p \in Proc |-> "none"] /\ timing = {}
  /\ strays = 0 /\ strayed = {} /\ robbed = {} /\ shared = {}
  /\ misaddressed = {} /\ emptied = {}

At(p, at) == frame[p].at = at /\ p \notin timing
Return(p) == frame' = [frame EXCEPT ![p] = Rest(p)]
-----------------------------------------------------------------------------
(* Messages: send fails if the receiver holds one; recvtime waits.         *)

Send(p, m) ==
  /\ prmsg' = IF prmsg[p] = "none" THEN [prmsg EXCEPT ![p] = m] ELSE prmsg
  /\ timing' = timing \ {p}

\* The message that p holds is thrown away (recvclr), and p waits for another.
RecvtimeCleared(p) ==
  prmsg' = [prmsg EXCEPT ![p] = "none"] /\ timing' = timing \cup {p}

Received(p) == prmsg' = [prmsg EXCEPT ![p] = "none"] /\ UNCHANGED timing
NoMessages == UNCHANGED <<prmsg, timing>>

\* The timer of a wait expires.
Timeout(p) ==
  /\ p \in timing
  /\ timing' = timing \ {p}
  /\ UNCHANGED <<tabVars, free, frame, prmsg, histVars>>

\* kill sends the pid of a process that exits to its parent.
ChildExits(c) ==
  /\ strays < load.exits /\ strays' = strays + 1
  /\ Send(c, "pid")
  /\ UNCHANGED <<tabVars, free, frame, load, strayed, robbed, shared, misaddressed, emptied>>
-----------------------------------------------------------------------------
(***************************************************************************)
(* UDP endpoints.  n is the number of free buffers besides the one that    *)
(* the packet in question is in.                                           *)
(***************************************************************************)
Matches(u, pkt) ==
  /\ u.state # "FREE" /\ pkt.dport = u.locport
  /\ u.remport \in {0, pkt.sport} /\ u.remip \in {NoAddr, pkt.src}

\* Mutant: nobody is told of the packet.
UdpInSilent(pkt, n) ==
  LET fits == {s \in Slot : Matches(udptab[s], pkt) /\ Len(udptab[s].queue) < UDP_QSIZ}
      s    == Min(fits)
  IN IF fits = {} THEN free' = n + 1 /\ UNCHANGED udptab /\ NoMessages
     ELSE /\ udptab' = [udptab EXCEPT ![s].queue = Append(@, pkt)]
          /\ NoMessages
          /\ free' = n

\* udp_in: the first endpoint that matches and has room gets the packet.
UdpIn(pkt, n) ==
  LET fits == {s \in Slot : Matches(udptab[s], pkt) /\ Len(udptab[s].queue) < UDP_QSIZ}
      s    == Min(fits)
  IN IF fits = {} THEN free' = n + 1 /\ UNCHANGED udptab /\ NoMessages
     ELSE /\ udptab' = [udptab EXCEPT ![s].queue = Append(@, pkt),
                                      ![s].state = IF @ = "RECV" THEN "USED" ELSE @]
          /\ IF udptab[s].state = "RECV" THEN Send(udptab[s].pid, "OK") ELSE NoMessages
          /\ free' = n

Registered(r) ==
  \E s \in Slot : /\ udptab[s].state # "FREE"
                  /\ [f \in DOMAIN r |-> udptab[s][f]] = r

UdpRegister(c, r) ==
  /\ At(c, "user") /\ ~Registered(r)
  /\ LET unused == {s \in Slot : udptab[s].state = "FREE"}
     IN /\ unused # {}
        /\ udptab' = [udptab EXCEPT ![Min(unused)] =
             [FreeEndpoint EXCEPT !.state = "USED", !.remip = r.remip,
                                  !.remport = r.remport, !.locport = r.locport]]
  /\ UNCHANGED <<pingVars, arpcache, ipoqueue, free, frame, prmsg, timing, histVars>>

\* c uses endpoint s in spite of a process that is inside udp_recv for it.
Share(c, s) ==
  shared' = IF \E p \in Client \ {c} : frame[p].at = "udp_recv" /\ frame[p].slot = s
            THEN shared \cup {s} ELSE shared

\* A packet is taken off endpoint s and its buffer is freed; the count of an
\* empty queue becomes negative, and what is freed is no packet.
Dequeue(p, s) ==
  IF udptab[s].queue = <<>>
  THEN emptied' = emptied \cup {<<p, "udp", s>>} /\ UNCHANGED <<udptab, free>>
  ELSE /\ udptab' = [udptab EXCEPT ![s].state = "USED", ![s].queue = Tail(@)]
       /\ free' = free + 1 /\ UNCHANGED emptied

\* udp_recv and udp_recvaddr.
UdpRecv(c, s) ==
  /\ At(c, "user") /\ udptab[s].state = "USED"
  /\ \/ /\ udptab[s].queue # <<>>
        /\ Dequeue(c, s)
        /\ NoMessages /\ UNCHANGED frame
     \/ /\ udptab[s].queue = <<>>
        /\ udptab' = [udptab EXCEPT ![s].state = "RECV", ![s].pid = c]
        /\ RecvtimeCleared(c)
        /\ frame' = [frame EXCEPT ![c] = [Doing("udp_recv") EXCEPT !.slot = s]]
        /\ UNCHANGED <<free, emptied>>
  /\ Share(c, s)
  /\ UNCHANGED <<pingVars, arpcache, ipoqueue, load, strays, strayed, robbed, misaddressed>>

\* Mutant: any message is taken for a packet.
UdpRecvWokenAny(c) ==
  LET s == frame[c].slot
  IN /\ At(c, "udp_recv")
     /\ IF prmsg[c] # "none" THEN Dequeue(c, s)
        ELSE udptab' = [udptab EXCEPT ![s].state = "USED"] /\ UNCHANGED <<free, emptied>>
     /\ Received(c) /\ Return(c)
     /\ UNCHANGED <<pingVars, arpcache, ipoqueue, load, strays, strayed, robbed, shared,
                    misaddressed>>

\* The wait of udp_recv is over: a packet, a timeout or any other message.
UdpRecvWoken(c) ==
  LET s == frame[c].slot
  IN /\ At(c, "udp_recv")
     /\ IF prmsg[c] = "OK" THEN Dequeue(c, s)
        ELSE udptab' = [udptab EXCEPT ![s].state = "USED"] /\ UNCHANGED <<free, emptied>>
     /\ Received(c) /\ Return(c)
     /\ UNCHANGED <<pingVars, arpcache, ipoqueue, load, strays, strayed, robbed, shared,
                    misaddressed>>

\* udp_release: the packets that are queued are freed, who waits is not told.
UdpRelease(c, s) ==
  /\ At(c, "user") /\ udptab[s].state # "FREE"
  /\ free' = free + Len(udptab[s].queue)
  /\ udptab' = [udptab EXCEPT ![s].queue = <<>>, ![s].state = "FREE"]
  /\ Share(c, s)
  /\ UNCHANGED <<pingVars, arpcache, ipoqueue, frame, prmsg, timing, load, strays, strayed,
                 robbed, misaddressed, emptied>>
-----------------------------------------------------------------------------
(***************************************************************************)
(* The ARP cache.                                                          *)
(***************************************************************************)
Cached(ip) == {e \in Entry : arpcache[e].state # "FREE" /\ arpcache[e].ip = ip}
InState(state) == {e \in Entry : arpcache[e].state = state}

\* Mutant: an entry that is pending can be evicted.
ArpAllocAny == IF InState("FREE") # {} THEN InState("FREE") ELSE Entry

\* arp_alloc picks the first of these: an unused entry, or else a resolved one.
ArpAlloc == IF InState("FREE") # {} THEN InState("FREE") ELSE InState("RESOLVED")

\* The processes inside arp_resolve that have yet to read entry e, which somebody
\* else takes over.
Rob(e) == robbed' = robbed \cup {p \in Proc : frame[p].at = "arp" /\ frame[p].entry = e}

\* ip_out: the frame is sent to hardware address mac and its buffer is freed.
IpOut(p, hop, mac, n) ==
  /\ misaddressed' = IF mac = hop THEN misaddressed ELSE misaddressed \cup {p}
  /\ free' = n + 1

\* arp_resolve, for packet pkt of process p: found in the cache, refused because
\* somebody asks for it already or no entry is left, or asked for and waited for.
ArpResolve(p, hop, pkt, n) ==
  \/ /\ \E e \in Cached(hop) : arpcache[e].state = "RESOLVED" /\ IpOut(p, hop, arpcache[e].mac, n)
     /\ Return(p) /\ NoMessages /\ UNCHANGED <<arpcache, robbed>>
  \/ /\ \/ \E e \in Cached(hop) : arpcache[e].state = "PENDING"
        \/ Cached(hop) = {} /\ ArpAlloc = {}
     /\ free' = n + 1
     /\ Return(p) /\ NoMessages /\ UNCHANGED <<arpcache, robbed, misaddressed>>
  \/ /\ Cached(hop) = {} /\ ArpAlloc # {}
     /\ LET e == Min(ArpAlloc)
        IN /\ arpcache' = [arpcache EXCEPT ![e] =
                [NoEntry EXCEPT !.state = "PENDING", !.ip = hop, !.pid = p]]
           /\ Rob(e)
           /\ frame' = [frame EXCEPT ![p] =
                [Doing("arp") EXCEPT !.entry = e, !.pkt = [pkt EXCEPT !.dst = hop], !.tries = 1]]
     /\ RecvtimeCleared(p)
     /\ free' = n /\ UNCHANGED misaddressed

\* After the last request the entry is freed.
GiveUp(p) == arpcache' = [arpcache EXCEPT ![frame[p].entry].state = "FREE"]

\* The wait of arp_resolve is over.  Without a message the request is repeated, or
\* given up; any message is taken for the answer, and the entry is read.
ArpWoken(p) ==
  LET f == frame[p]
      e == arpcache[f.entry]
  IN /\ At(p, "arp")
     /\ \/ /\ prmsg[p] = "none" /\ f.tries < ARP_RETRY
           /\ frame' = [frame EXCEPT ![p].tries = @ + 1]
           /\ RecvtimeCleared(p)
           /\ UNCHANGED <<arpcache, free, misaddressed, strayed>>
        \/ /\ prmsg[p] = "none" /\ f.tries = ARP_RETRY
           /\ GiveUp(p) /\ free' = free + 1
           /\ Return(p) /\ NoMessages /\ UNCHANGED <<misaddressed, strayed>>
        \/ /\ prmsg[p] # "none"
           /\ IpOut(p, f.pkt.dst, e.mac, free)
           /\ strayed' = IF prmsg[p] = "pid" THEN strayed \cup {p} ELSE strayed
           /\ Received(p) /\ Return(p) /\ UNCHANGED arpcache
     /\ UNCHANGED <<udptab, pingVars, ipoqueue, load, strays, robbed, shared, emptied>>

\* arp_in.  Packet a carries the addresses of its sender, which are equal: the
\* hardware address of a host is modelled by its IP address.
ArpIn(a) ==
  LET found == Cached(a.sndpa)
      news  == a.op = "request" /\ a.tarpa = Me /\ found = {} /\ ArpAlloc # {}
  IN /\ IF found # {}
        THEN LET e == Min(found)
             IN /\ arpcache' = [arpcache EXCEPT ![e].mac = a.sndpa, ![e].state = "RESOLVED"]
                /\ IF arpcache[e].state = "PENDING" THEN Send(arpcache[e].pid, "OK") ELSE NoMessages
                /\ UNCHANGED robbed
        ELSE /\ NoMessages
             /\ IF news
                THEN LET e == Min(ArpAlloc)
                     IN /\ arpcache' = [arpcache EXCEPT ![e] =
                             [NoEntry EXCEPT !.state = "RESOLVED", !.ip = a.sndpa, !.mac = a.sndpa]]
                        /\ Rob(e)
                ELSE UNCHANGED <<arpcache, robbed>>
-----------------------------------------------------------------------------
(***************************************************************************)
(* Ping endpoints.  Their queues are arrays: the writer wraps at ICMP_QSIZ *)
(* and does not look at the count, the reader wraps at ICMP_SLOTS.  A user *)
(* is somebody like xsh_ping, who uses no other's endpoint.                *)
(***************************************************************************)
Successor(i, limit) == IF i + 1 >= limit THEN 0 ELSE i + 1

\* icmp_in, for a reply: the endpoint that it names gets it if it comes from the
\* host that was pinged.
IcmpReply(pkt, n) ==
  LET s == pkt.dport
      e == icmptab[s]
  IN IF s >= ICMP_SLOTS \/ e.state = "FREE" \/ e.remip # pkt.src
     THEN free' = n + 1 /\ UNCHANGED pingVars /\ NoMessages
     ELSE /\ icmptab' = [icmptab EXCEPT ![s] =
               [e EXCEPT !.count = @ + 1, !.queue[e.tail] = TRUE,
                         !.tail = Successor(@, ICMP_QSIZ),
                         !.given = Min({@ + 1, ICMP_QSIZ + 1}),
                         !.state = IF @ = "RECV" THEN "USED" ELSE @]]
          /\ IF e.state = "RECV" THEN Send(e.pid, "OK") ELSE NoMessages
          /\ flooded' = IF e.given >= ICMP_QSIZ THEN flooded \cup {s} ELSE flooded
          /\ leaked' = IF e.queue[e.tail] THEN leaked + 1 ELSE leaked
          /\ free' = n

IcmpRegister(c, ip) ==
  /\ At(c, "user")
  /\ \A s \in PingSlot : icmptab[s].state = "FREE" \/ icmptab[s].remip # ip
  /\ LET unused == {s \in PingSlot : icmptab[s].state = "FREE"}
     IN /\ unused # {}
        /\ icmptab' = [icmptab EXCEPT ![Min(unused)] =
             [FreePing EXCEPT !.state = "USED", !.remip = ip, !.user = c]]
  /\ UNCHANGED <<udptab, flooded, leaked, arpcache, ipoqueue, free, frame, prmsg, timing,
                 histVars>>

\* k packets are taken off endpoint s and their buffers are freed.  What is beyond
\* the array, or was taken before, is no packet.
IcmpDequeue(c, s, k, state) ==
  LET e     == icmptab[s]
      taken == {(e.head + i) % ICMP_SLOTS : i \in 0 .. k-1}
  IN IF taken \subseteq {i \in PingPlace : e.queue[i]} /\ Cardinality(taken) = k
     THEN /\ icmptab' = [icmptab EXCEPT ![s] =
               [e EXCEPT !.state = state, !.count = @ - k, !.head = (@ + k) % ICMP_SLOTS,
                         !.queue = [i \in PingPlace |-> @[i] /\ i \notin taken]]]
          /\ free' = free + k /\ UNCHANGED emptied
     ELSE emptied' = emptied \cup {<<c, "icmp", s>>} /\ UNCHANGED <<icmptab, free>>

IcmpRecv(c, s) ==
  /\ At(c, "user") /\ icmptab[s].user = c /\ icmptab[s].state = "USED"
  /\ \/ /\ icmptab[s].count # 0
        /\ IcmpDequeue(c, s, 1, "USED")
        /\ NoMessages /\ UNCHANGED frame
     \/ /\ icmptab[s].count = 0
        /\ icmptab' = [icmptab EXCEPT ![s].state = "RECV", ![s].pid = c]
        /\ RecvtimeCleared(c)
        /\ frame' = [frame EXCEPT ![c] = [Doing("icmp_recv") EXCEPT !.slot = s]]
        /\ UNCHANGED <<free, emptied>>
  /\ UNCHANGED <<udptab, flooded, leaked, arpcache, ipoqueue, load, strays, strayed, robbed,
                 shared, misaddressed>>

IcmpRecvWoken(c) ==
  LET s == frame[c].slot
  IN /\ At(c, "icmp_recv")
     /\ IF prmsg[c] = "OK" THEN IcmpDequeue(c, s, 1, "USED")
        ELSE icmptab' = [icmptab EXCEPT ![s].state = "USED"] /\ UNCHANGED <<free, emptied>>
     /\ Received(c) /\ Return(c)
     /\ UNCHANGED <<udptab, flooded, leaked, arpcache, ipoqueue, load, strays, strayed, robbed,
                    shared, misaddressed>>

\* icmp_release: the packets that are counted are freed.
IcmpRelease(c, s) ==
  /\ At(c, "user") /\ icmptab[s].user = c /\ icmptab[s].state = "USED"
  /\ IcmpDequeue(c, s, icmptab[s].count, "FREE")
  /\ UNCHANGED <<udptab, flooded, leaked, arpcache, ipoqueue, frame, prmsg, timing, load,
                 strays, strayed, robbed, shared, misaddressed>>

\* icmp_mkpkt waits for the buffer of the answer to a ping.
Answer(p, pkt) ==
  frame' = [frame EXCEPT ![p] =
    [Doing("icmp_mkpkt") EXCEPT !.pkt = [pkt EXCEPT !.proto = "reply", !.src = Me, !.dst = pkt.src]]]

\* ip_local, in process p: the packet goes to the protocol it is of.
IpLocal(p, pkt, n) ==
  \/ pkt.proto = "udp" /\ UdpIn(pkt, n) /\ Return(p) /\ UNCHANGED pingVars
  \/ pkt.proto = "reply" /\ IcmpReply(pkt, n) /\ Return(p) /\ UNCHANGED udptab
  \/ /\ pkt.proto = "ping" /\ Answer(p, pkt)
     /\ free' = n /\ NoMessages /\ UNCHANGED <<udptab, pingVars>>
  \/ /\ pkt.proto = "other" /\ free' = n + 1
     /\ Return(p) /\ NoMessages /\ UNCHANGED <<udptab, pingVars>>
-----------------------------------------------------------------------------
(***************************************************************************)
(* Sending.                                                                *)
(***************************************************************************)
NextHop(d) == IF d \in Local THEN d ELSE load.router

\* No next hop is known: the packet is freed.
NoRoute(p, n) ==
  /\ free' = n + 1 /\ Return(p) /\ NoMessages
  /\ UNCHANGED <<udptab, pingVars, arpcache, robbed, misaddressed>>

\* ip_send: loop back, broadcast, or send to the next hop.
IpSend(p, pkt, n) ==
  \/ /\ pkt.dst = Me /\ IpLocal(p, pkt, n)
     /\ UNCHANGED <<arpcache, robbed, misaddressed>>
  \/ /\ pkt.dst = Bcast /\ IpOut(p, Bcast, Bcast, n)
     /\ Return(p) /\ NoMessages /\ UNCHANGED <<udptab, pingVars, arpcache, robbed>>
  \/ /\ pkt.dst \notin {Me, Bcast} /\ NextHop(pkt.dst) = NoAddr
     /\ NoRoute(p, n)
  \/ /\ pkt.dst \notin {Me, Bcast} /\ NextHop(pkt.dst) # NoAddr
     /\ ArpResolve(p, NextHop(pkt.dst), pkt, n)
     /\ UNCHANGED <<udptab, pingVars>>

UdpPacket(s, ip, port) ==
  [proto |-> "udp", src |-> Me, dst |-> ip, sport |-> udptab[s].locport, dport |-> port]

\* udp_send, udp_sendto and icmp_send get a buffer, and wait if there is none.
SendOrWait(c, pkt, waiting) ==
  \/ free > 0 /\ IpSend(c, pkt, free - 1)
  \/ /\ free = 0 /\ frame' = [frame EXCEPT ![c] = waiting]
     /\ NoMessages /\ UNCHANGED <<udptab, pingVars, arpcache, free, robbed, misaddressed>>

\* udp_send reads the endpoint before it gets the buffer,
UdpSend(c, s) ==
  LET pkt == UdpPacket(s, udptab[s].remip, udptab[s].remport)
  IN /\ At(c, "user") /\ udptab[s].state # "FREE" /\ udptab[s].remip # NoAddr
     /\ SendOrWait(c, pkt, [Doing("send") EXCEPT !.pkt = pkt])
     /\ UNCHANGED <<ipoqueue, load, strays, strayed, shared, emptied>>

\* icmp_send, for a ping that names the sender's endpoint,
IcmpSend(c, s) ==
  LET pkt == [NoPkt EXCEPT !.proto = "ping", !.src = Me, !.dst = icmptab[s].remip, !.dport = s]
  IN /\ At(c, "user") /\ icmptab[s].user = c /\ icmptab[s].state = "USED"
     /\ SendOrWait(c, pkt, [Doing("send") EXCEPT !.pkt = pkt])
     /\ UNCHANGED <<ipoqueue, load, strays, strayed, shared, emptied>>

SendWoken(c) ==
  /\ At(c, "send") /\ free > 0
  /\ IpSend(c, frame[c].pkt, free - 1)
  /\ UNCHANGED <<ipoqueue, load, strays, strayed, shared, emptied>>

\* and udp_sendto reads its local port afterwards.
UdpSendto(c, s, d) ==
  LET pkt == UdpPacket(s, d.ip, d.port)
  IN /\ At(c, "user") /\ udptab[s].state # "FREE"
     /\ SendOrWait(c, pkt, [Doing("udp_sendto") EXCEPT !.slot = s, !.pkt = pkt])
     /\ UNCHANGED <<ipoqueue, load, strays, strayed, shared, emptied>>

UdpSendtoWoken(c) ==
  LET f == frame[c]
  IN /\ At(c, "udp_sendto") /\ free > 0
     /\ IpSend(c, [f.pkt EXCEPT !.sport = udptab[f.slot].locport], free - 1)
     /\ UNCHANGED <<ipoqueue, load, strays, strayed, shared, emptied>>
-----------------------------------------------------------------------------
(***************************************************************************)
(* The two processes of the stack.  They have the same priority, so that   *)
(* every rescheduling may give the CPU to the other one: ipout may lose it *)
(* between wait, which gives it a permit of iqsem, and the packet.         *)
(***************************************************************************)
NetinGetbuf ==
  /\ At("netin", "getbuf") /\ free > 0
  /\ free' = free - 1
  /\ frame' = [frame EXCEPT !["netin"] = Doing("read")]
  /\ UNCHANGED <<tabVars, prmsg, timing, histVars>>

NetinArp(a) ==
  /\ At("netin", "read")
  /\ ArpIn(a) /\ free' = free + 1 /\ Return("netin")
  /\ UNCHANGED <<udptab, pingVars, ipoqueue, load, strays, strayed, shared, misaddressed,
                 emptied>>

\* ip_in: what is for somebody else is dropped.
NetinIp(pkt) ==
  /\ At("netin", "read")
  /\ \/ pkt.dst \in {Me, Bcast} /\ IpLocal("netin", pkt, free)
     \/ /\ pkt.dst \notin {Me, Bcast} /\ free' = free + 1
        /\ Return("netin") /\ NoMessages /\ UNCHANGED <<udptab, pingVars>>
  /\ UNCHANGED <<arpcache, ipoqueue, histVars>>

\* semcount(iqsem): the packets for which ipout has not been given a permit.
Unpermitted == Len(ipoqueue) - (IF frame["ipout"].at = "dequeue" THEN 1 ELSE 0)

\* Mutant: the queue is taken for full one packet later.
OutputFullLate == Unpermitted > IP_OQSIZ

\* ip_enqueue's test.
OutputFull == Unpermitted >= IP_OQSIZ

\* icmp_in, for a ping: the answer is queued, or freed if there is no room; the
\* ping is freed.
IcmpAnswer(p) ==
  /\ At(p, "icmp_mkpkt") /\ free > 0
  /\ IF OutputFull THEN free' = free + 1 /\ UNCHANGED ipoqueue
     ELSE ipoqueue' = Append(ipoqueue, frame[p].pkt) /\ UNCHANGED free
  /\ Return(p)
  /\ UNCHANGED <<udptab, pingVars, arpcache, prmsg, timing, histVars>>

\* ipout is given a permit, at once or when it is signalled.
IpoutWait ==
  /\ At("ipout", "wait") /\ ipoqueue # <<>>
  /\ frame' = [frame EXCEPT !["ipout"] = Doing("dequeue")]
  /\ UNCHANGED <<tabVars, free, prmsg, timing, histVars>>

\* It takes the next packet; a broadcast is dropped.
Ipout ==
  /\ At("ipout", "dequeue")
  /\ ipoqueue' = Tail(ipoqueue)
  /\ IF Head(ipoqueue).dst = Bcast THEN NoRoute("ipout", free)
     ELSE IpSend("ipout", Head(ipoqueue), free)
  /\ UNCHANGED <<load, strays, strayed, shared, emptied>>

NetStep ==
  \/ \E p \in Proc : Timeout(p) \/ ArpWoken(p) \/ IcmpAnswer(p)
  \/ NetinGetbuf \/ IpoutWait \/ Ipout
  \/ \E a \in load.arps : NetinArp(a)
  \/ \E pkt \in load.packets : NetinIp(pkt)

ClientStep ==
  \E c \in Client :
    \/ \E r \in load.endpoints : UdpRegister(c, r)
    \/ \E s \in Slot :
         \/ UdpRecv(c, s) \/ UdpRelease(c, s) \/ UdpSend(c, s)
         \/ \E d \in load.dests : UdpSendto(c, s, d)
    \/ \E ip \in load.pings : IcmpRegister(c, ip)
    \/ \E s \in PingSlot : IcmpSend(c, s) \/ IcmpRecv(c, s) \/ IcmpRelease(c, s)
    \/ UdpRecvWoken(c) \/ IcmpRecvWoken(c) \/ SendWoken(c) \/ UdpSendtoWoken(c)
    \/ ChildExits(c)

\* The ring of ipout has IP_OQSIZ places: a packet more is stored over the one that
\* ipout is about to take.
Lapped == Len(ipoqueue) > IP_OQSIZ

\* Behind a packet that was not there the data of the endpoint mean nothing, nor do
\* those of a ring that was lapped.
NetNext == emptied = {} /\ ~Lapped /\ (NetStep \/ ClientStep)

NetSpec == NetInit /\ [][NetNext]_netVars
-----------------------------------------------------------------------------
Holders == {p \in Proc : frame[p].at \in {"arp", "read", "icmp_mkpkt"}}
\* The places in the queues of endpoints that hold a packet.
UdpPlaces == {x \in Slot \X (1..UDP_QSIZ) : x[2] <= Len(udptab[x[1]].queue)}
PingPlaces == {x \in PingSlot \X PingPlace : icmptab[x[1]].queue[x[2]]}

\* No packet buffer is lost or freed twice on any way through the stack: each is
\* free, queued for an endpoint or for ipout, or in the hands of one process; and
\* no queue holds more than its array.  Buffers are lost only where a ping endpoint
\* is given more replies than its array has places, and where the ring of ipout is
\* lapped (which is counted as if it held them all), and that only while ipout has
\* its permit and not yet its packet.
BuffersConserved ==
  /\ free + Cardinality(Holders) + Len(ipoqueue) + leaked
       + Cardinality(UdpPlaces) + Cardinality(PingPlaces) = NetBufs
  /\ free >= 0 /\ (Lapped => frame["ipout"].at = "dequeue")
  /\ \A s \in Slot : Len(udptab[s].queue) <= UDP_QSIZ
  /\ leaked > 0 => flooded # {}

\* A process never waits in udp_recv or icmp_recv while a packet is queued for it,
\* as long as no other process receives from the UDP endpoint or releases it.
NoSleepOnPacket ==
  \A p \in Client \cap timing :
    LET s == frame[p].slot IN
    /\ frame[p].at = "udp_recv" /\ s \notin shared =>
         udptab[s].state = "RECV" /\ udptab[s].pid = p /\ udptab[s].queue = <<>>
    /\ frame[p].at = "icmp_recv" =>
         icmptab[s].state = "RECV" /\ icmptab[s].pid = p /\ icmptab[s].count = 0

\* udp_recv and icmp_recv take a packet that is there ("Packet has arrived --
\* dequeue it").  The exceptions: another process uses the UDP endpoint; the ping
\* endpoint was given more replies than its array has places, of which the reader
\* leaves the end; an answer of ARP comes late to a process whose wait for it a
\* foreign message had ended.
PacketArrived ==
  \A x \in emptied :
    \/ x[1] \in strayed
    \/ x[2] = "udp" /\ x[3] \in shared
    \/ x[2] = "icmp" /\ x[3] \in flooded

\* What ARP answers is right: an address has one entry, a resolved entry holds its
\* hardware address, a pending one the process that asks for it, and whoever waits
\* for an answer has an entry that is pending; so frames go where they should.  The
\* exceptions are a process whose wait a foreign message ended, and one whose answer
\* was evicted before it ran again.
ArpAnswers ==
  /\ \A d, e \in Entry :
       arpcache[d].state # "FREE" /\ arpcache[e].state # "FREE" /\ d # e =>
         arpcache[d].ip # arpcache[e].ip
  /\ \A e \in InState("RESOLVED") : arpcache[e].mac = arpcache[e].ip
  /\ \A e \in InState("PENDING") :
       LET p == arpcache[e].pid
       IN p \in strayed \/ (frame[p].at = "arp" /\ frame[p].entry = e)
  /\ \A p \in {q \in timing : frame[q].at = "arp"} :
       arpcache[frame[p].entry] =
         [NoEntry EXCEPT !.state = "PENDING", !.ip = frame[p].pkt.dst, !.pid = p]
  /\ misaddressed \subseteq strayed \cup robbed
=============================================================================
