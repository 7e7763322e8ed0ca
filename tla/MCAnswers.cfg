\* Two handlers; batches through the processor and direct, multicalls.
SPECIFICATION Spec
CONSTANTS
  h1 = h1
  h2 = h2
  r1 = r1
  r2 = r2
  r3 = r3
  r4 = r4
  r5 = r5
  n1 = n1
  d1 = d1
  d2 = d2
  m1 = m1
  x = x
  y = y
  z = z
  Old = Old
  Latest = Latest
  Read = {r1, r2, r3, r4, r5, n1, d1, d2, m1}
  CallOf <- MCCallOf
  BlockOf <- MCBlockOf
  Handler = {h1, h2}
  ByObject = {r5}
  Aggregable = {r1, r2, r3, r4, r5, m1}
  Immutable = {d1, d2}
  Cached = {r1, r5}
  Id = {1, 2, 3}
  Asks <- MCAsks
  MaxCalls = 2
  MaxReply = 2
  None = None
INVARIANTS
  TypeOK
  EachItsOwn
  KeptIsOwn
