\* The network stack: endpoints, ARP cache, output queue and packet buffers.
\* A packet that was not there stops it, hence no check for deadlock.
SPECIFICATION NetSpec
CONSTANTS
  Client = {c1, c2}
  Addr = {"me", "bcast", "h1", "h2", "far", "other", "zero"}
  Me = "me"
  Bcast = "bcast"
  Local = {"h1", "h2"}
  NoAddr = "zero"
  UDP_SLOTS = 2
  UDP_QSIZ = 1
  ARP_SIZ = 1
  ARP_RETRY = 2
  IP_OQSIZ = 1
  ICMP_SLOTS = 2
  ICMP_QSIZ = 1
  Loads <- ThreeLoads
CHECK_DEADLOCK FALSE
VIEW LiveNet
SYMMETRY AnyClient
INVARIANTS
  BuffersConserved
  NoSleepOnPacket
  PacketArrived
  ArpAnswers
