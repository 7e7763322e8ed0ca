\* Liveness: two backends, of which u2 need never answer.
SPECIFICATION FairSpec
CONSTANTS
  Req = {r1, r2}
  Url = {u1, u2}
  ClientIds = {c1}
  ClientId <- SharedId
  RangeScan = {}
  MaxBatchSize = 2
  MaxConcurrent = 1
  MaxRetries = 1
  MaxReply = 2
  Hung = {u2}
  None = None
PROPERTIES
  EveryRequestAnswered
  AbandonedBatchEnds
