\* Liveness: one backend that has pruned, a pinned read, thresholds that differ.
SPECIFICATION FairSpec
CONSTANTS
  b1 = b1
  b2 = b2
  r1 = r1
  Backend = {b2}
  o1 = o1
  Others = {o1}
  NodeStates = {"synced", "blind", "dead"}
  FailsToDown = 2
  PassesToUp = 3
  MaxHeight = 2
  Request = {r1}
  Bes <- OnlyTwo
  Needs <- Two
  MaxAttempts = 2
  Limited = {b2}
  Oldest <- PrunedTwo
PROPERTIES
  RotationEarned
  RotationFollows
  RequestEnds
  HeadCatchesUp
