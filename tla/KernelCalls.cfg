SPECIFICATION Spec
CONSTANTS
  NPROC = 3
  NSEM = 1
  QUANTUM = 2
  InitPrio = 2
  Prios = {0, 1}
  Delays = {0, 2}
  Waits = {1}
  Counts = {0, 2}
  MaxCount = 2
  MaxLate = 2
  Calls = {"create", "resume", "suspend", "yield", "chprio", "send", "receive", "recvtime", "recvclr", "sleepms", "kill", "semcreate", "wait", "signal", "signaln", "semdelete", "semreset", "interrupt"}
VIEW LiveState
INVARIANTS
  TypeOK
  QueuesMatchStates
  CpuNeverIdle
  MessagesFound
  DeferralBalanced
  CountNotOver
