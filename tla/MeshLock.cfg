SPECIFICATION LockFairSpec
CONSTANTS
  Procs = {p1, p2, p3}
  MaxCalls = 1
  NoDir = NoDir
  NoFile = NoFile
  Empty = Empty
CHECK_DEADLOCK FALSE
INVARIANTS
  MutualExclusion
  NoLeakedLock
PROPERTY EveryCallEnds
