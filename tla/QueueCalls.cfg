\* The queue table: entries linked by every order of calls.
SPECIFICATION TabSpec
CONSTANTS
  NPROC = 3
  NSEM = 1
  MINKEY <- Lowest
  MAXKEY = 9
  Prios = {1, 2}
  Delays = {0, 2}
  MaxLate = 1
VIEW TableView
INVARIANTS
  TableSound
PROPERTIES
  QueuesAreLists
