SPECIFICATION Spec
CONSTANTS
  NPROC = 4
  NSEM = 2
  QUANTUM = 2
  InitPrio = 2
  Prios = {1}
  Delays = {1}
  Waits = {1}
  Counts = {0, 1}
  MaxCount = 1
  MaxLate = 2
  Calls = {"create", "resume", "kill", "semcreate", "wait", "semdelete", "semreset", "interrupt"}
VIEW LiveState
INVARIANTS
  PriorityOrder
  SemaphoreLists
PROPERTIES
  FifoSemaphores
