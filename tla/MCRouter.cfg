\* A batch of two pinned reads over two backends, the second pruned and rate limited.
SPECIFICATION Spec
CONSTANTS
  b1 = b1
  b2 = b2
  r1 = r1
  Backend = {b1, b2}
  o1 = o1
  Others = {}
  NodeStates = {"synced", "dead"}
  FailsToDown = 1
  PassesToUp = 1
  MaxHeight = 2
  Request = {r1}
  Bes <- Both
  Needs <- Two
  MaxAttempts = 2
  Limited = {b2}
  Oldest <- PrunedTwo
INVARIANT TypeOK
PROPERTIES
  SentElsewhere
  ServedRatherThanFailed
