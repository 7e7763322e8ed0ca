\* An answer to an unpinned read that names a block past the reorg depth.
SPECIFICATION Spec
CONSTANTS
  A = A
  B = B
  a1 = a1
  a2 = a2
  a3 = a3
  a4 = a4
  a5 = a5
  x2 = x2
  x3 = x3
  p3 = p3
  b1 = b1
  k1 = k1
  k2 = k2
  k3 = k3
  k4 = k4
  k5 = k5
  k6 = k6
  Chain = {A}
  Block = {a1, a2, a3}
  ChainOf <- MCChainOf
  Num <- NumOf
  Parent <- ParentOf
  Pending <- PendingOf
  Depth <- MCDepth
  Key = {k4, k6}
  KeyChain <- KeyChainOf
  Class <- ClassOf
  At <- Heights
  TTLLatest = 1
  TTLBlock = 2
  MemEntries = 1
  MaxTime = 2
  Empty = Empty
  None = None
CHECK_DEADLOCK FALSE
INVARIANTS
  TipServedInTime
