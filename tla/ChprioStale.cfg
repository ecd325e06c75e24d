SPECIFICATION Spec
CONSTANTS
  NPROC = 3
  NSEM = 1
  QUANTUM = 2
  InitPrio = 2
  Prios = {1, 3}
  Delays = {2}
  Waits = {1}
  Counts = {0}
  MaxCount = 1
  MaxLate = 2
  Calls = {"create", "resume", "chprio", "yield"}
VIEW LiveState
PROPERTIES
  ReschedPicksHighest
