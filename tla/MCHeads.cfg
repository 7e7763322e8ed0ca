\* Two connections send a forked chain to two clients that come and go.
SPECIFICATION Spec
CONSTANTS
  Client = {c1, c2}
  Conn = {k1, k2}
  MaxNumber = 3
  Hash = {ha, hb}
  NoHash = NoHash
  Depth = 1
  MaxFeed = 3
SYMMETRY Interchangeable
INVARIANTS
  TypeOK
  NoHeadMissed
PROPERTY FeedPromise
CHECK_DEADLOCK FALSE
