SPECIFICATION FairSpec
CONSTANTS
  NPROC = 3
  NSEM = 1
  QUANTUM = 2
  InitPrio = 1
  Prios = {1}
  Delays = {2}
  Waits = {0}
  Counts = {0}
  MaxCount = 1
  MaxLate = 2
  Calls = {"create", "resume", "recvtime", "sleepms"}
PROPERTIES
  SleeperWakes
