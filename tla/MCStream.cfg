\* One client with two subscriptions, two backends; connections that break.
SPECIFICATION Spec
CONSTANTS
  c1 = c1
  c2 = c2
  s1 = s1
  s2 = s2
  Client = {c1}
  Sub = {s1, s2}
  Owner <- BothOfOne
  Backend = {b1, b2}
  Conn = {k1, k2}
  MaxConns = 1
  MaxSubs = 1
  MaxBreaks = 1
  Sanity = Sanity
  None = None
INVARIANTS
  TypeOK
  RegisteredIsHeld
  NotStranded
SYMMETRY Swapped
CHECK_DEADLOCK FALSE
