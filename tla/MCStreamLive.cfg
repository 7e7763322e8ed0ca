\* One subscription, two backends that go quiet; a connection more than the limit.
SPECIFICATION FairSpec
CONSTANTS
  c1 = c1
  c2 = c2
  s1 = s1
  s2 = s2
  Client = {c1}
  Sub = {s1}
  Owner <- OneOnly
  Backend = {b1, b2}
  Conn = {k1, k2, k3}
  MaxConns = 1
  MaxSubs = 1
  MaxBreaks = 0
  Sanity = Sanity
  None = None
INVARIANT ConnectionsBounded
PROPERTY QuietBackendLeft
CHECK_DEADLOCK FALSE
