\* Two chains and the clock: a read of one's tip, one of the other's that reverts.
SPECIFICATION Spec
CONSTANTS
  A = A
  B = B
  a1 = a1
  a2 = a2
  a3 = a3
  a4 = a4
  a5 = a5
  x2 = x2
  x3 = x3
  p3 = p3
  b1 = b1
  k1 = k1
  k2 = k2
  k3 = k3
  k4 = k4
  k5 = k5
  k6 = k6
  Chain = {A, B}
  Block = {a2, x2, p3}
  ChainOf <- MCChainOf
  Num <- NumOf
  Parent <- ParentOf
  Pending <- PendingOf
  Depth <- MCDepth
  Key = {k3, k5}
  KeyChain <- KeyChainOf
  Class <- ClassOf
  At <- Heights
  TTLLatest = 1
  TTLBlock = 2
  MemEntries = 2
  MaxTime = 3
  Empty = Empty
  None = None
CHECK_DEADLOCK FALSE
INVARIANTS
  TypeOK
  ServedInTime
PROPERTIES
  ReorgIsLocal
