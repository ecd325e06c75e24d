SPECIFICATION FairSpec
CONSTANTS
  NPROC = 4
  NSEM = 1
  QUANTUM = 2
  InitPrio = 1
  Prios = {1}
  Delays = {2}
  Waits = {1, 3}
  Counts = {0}
  MaxCount = 1
  MaxLate = 2
  Calls = {"create", "resume", "send", "recvtime", "sleepms", "interrupt"}
INVARIANTS
  DeltaKeys
  NoOversleep
PROPERTIES
  SleeperWakes
  NoStarvationAmongEquals
