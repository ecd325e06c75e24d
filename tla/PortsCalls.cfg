SPECIFICATION Spec
CONSTANTS
  Proc = {p1, p2, p3}
  NoProc = NoProc
  NPORTS = 2
  PT_MSGS = 2
  NSEM = 3
  Msg = {m1, m2}
  Counts = {2}
  UINT16 = 4
  Killable = {"ptsend", "ptrecv"}
VIEW LivePorts
SYMMETRY AnyProc
INVARIANTS
  TypeOK
  LimboHasClearer
  NodesConserved
  PermitsAccounted
  PanicOnlyOversubscribed
PROPERTIES
  PortsAreFifo
