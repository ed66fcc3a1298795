SPECIFICATION FairSpec
CONSTANTS
  Procs = {a, b, c}
  Ids = {x, y}
  Mutexes = {m1, m2, m3}
  NoMutex = NoMutex
  NoProc = NoProc
INVARIANTS
  LockInv
  Exclusive
PROPERTIES
  ImplementsLock
  EveryCallLocks
