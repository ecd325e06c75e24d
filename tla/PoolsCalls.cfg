\* The heap and its buffer pools: every order of allocation and release.
SPECIFICATION PoolsSpec
CONSTANTS
  MinHeap = 8
  MaxHeap = 56
  Request = {1, 13}
  User = {u1, u2, u3}
  NBPOOLS = 3
  PoolSems = 2
  PoolArgs <- Pools2
  Killed = 1
CHECK_DEADLOCK FALSE
SYMMETRY Symmetric
INVARIANTS
  PoolsTypeOK
  HeapSound
  NoLostBytes
  BuffersPromised
  BuffersApart
PROPERTIES
  HeapIsArena
