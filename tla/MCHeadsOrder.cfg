\* Two backends tell of a reorg at one height: the header replaced is sent last.
SPECIFICATION Spec
CONSTANTS
  Client = {c1}
  Conn = {k1, k2}
  MaxNumber = 2
  Hash = {ha, hb}
  NoHash = NoHash
  Depth = 1
  MaxFeed = 2
INVARIANT RecordedIsDelivered
CHECK_DEADLOCK FALSE
