------------------------------- MODULE MCNet ---------------------------------
(***************************************************************************)
(* Values of the constants with which TLC checks the network stack.        *)
(***************************************************************************)
EXTENDS Net, TLC

Datagram(src, dst) ==
  [proto |-> "udp", src |-> src, dst |-> dst, sport |-> 5, dport |-> 7]
Icmp(kind, src) == [NoPkt EXCEPT !.proto = kind, !.src = src, !.dst = Me]
Arp(op, host) == [op |-> op, sndpa |-> host, tarpa |-> Me]
Anybody == [remip |-> NoAddr, remport |-> 0, locport |-> 7]
Only(host) == [remip |-> host, remport |-> 5, locport |-> 7]
To(ip) == [ip |-> ip, port |-> 7]

\* One endpoint; resolvers compete for the ARP cache; a child of a client exits.
Resolving ==
  [endpoints |-> {Only("h1")}, dests |-> {To("far")}, pings |-> {}, router |-> "h1", exits |-> 1,
   arps |-> {Arp("reply", "h1"), Arp("request", "h2")},
   packets |-> {Datagram("h1", Me), Icmp("ping", "h2")}]

\* Two endpoints, one of which takes what the other takes; no router, no ARP.
Receiving ==
  [endpoints |-> {Anybody, Only("h1")}, dests |-> {To(Me), To(Bcast), To("far")},
   pings |-> {}, router |-> NoAddr, exits |-> 0, arps |-> {},
   packets |-> {Datagram("h1", Me), Datagram("h2", Me), Datagram("h2", "other")}]

\* Our own address and another host are pinged; replies come back more than once.
Pinging ==
  [endpoints |-> {}, dests |-> {}, pings |-> {Me, "h1"}, router |-> NoAddr, exits |-> 1,
   arps |-> {Arp("reply", "h1")},
   packets |-> {Icmp("reply", "h1"), Icmp("other", "h1")}]

ThreeLoads == {Resolving, Receiving, Pinging}
AnyClient == Permutations(Client)

(***************************************************************************)
(* States are compared without what is read no more: the contents of       *)
(* queued packets, fields of unused entries that no process in a call will *)
(* read, messages that will be cleared before the next wait.               *)
(***************************************************************************)
ReadsSlot(s) == \E p \in Proc : frame[p].at \in {"udp_recv", "udp_sendto"} /\ frame[p].slot = s
ReadsEntry(e) == \E p \in Proc : frame[p].at = "arp" /\ frame[p].entry = e
LiveEndpoint(s) ==
  LET u == udptab[s]
  IN IF u.state = "FREE" /\ ~ReadsSlot(s) THEN FreeEndpoint
     ELSE [u EXCEPT !.queue = Len(@), !.pid = IF u.state = "RECV" THEN @ ELSE "nobody"]
LiveEntry(e) == IF arpcache[e].state = "FREE" /\ ~ReadsEntry(e) THEN NoEntry ELSE arpcache[e]
LivePing(e) ==
  IF e.state = "FREE" THEN FreePing ELSE [e EXCEPT !.pid = IF e.state = "RECV" THEN @ ELSE "nobody"]
LiveFrame(f) ==
  IF f.at \in {"send", "udp_sendto", "icmp_mkpkt"} THEN f
  ELSE [f EXCEPT !.pkt = [NoPkt EXCEPT !.dst = f.pkt.dst]]
LiveNet ==
  << [s \in Slot |-> LiveEndpoint(s)],
     [s \in PingSlot |-> LivePing(icmptab[s])], flooded, leaked,
     [e \in Entry |-> LiveEntry(e)],
     [k \in DOMAIN ipoqueue |-> <<ipoqueue[k].dst, ipoqueue[k].dport>>], free,
     [p \in Proc |-> LiveFrame(frame[p])],
     [p \in Proc |-> IF frame[p].at \in {"arp", "udp_recv", "icmp_recv"} THEN prmsg[p] ELSE "none"],
     timing, histVars >>
=============================================================================
