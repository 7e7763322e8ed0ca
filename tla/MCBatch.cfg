\* One backend with one slot: two requests that may be coalesced, and a range scan.
SPECIFICATION Spec
CONSTANTS
  Req = {r1, r2, r3}
  Url = {u1}
  ClientIds = {r1, r2, r3}
  ClientId <- OwnIds
  RangeScan = {r3}
  MaxBatchSize = 2
  MaxConcurrent = 1
  MaxRetries = 1
  MaxReply = 2
  Hung = {}
  None = None
SYMMETRY Symmetry
INVARIANTS
  TypeOK
  AnsweredOnce
  OwnAnswer
  NoWaiterAbandoned
  WorkersAccounted
  NoneStranded
  DispatchOnce
  OpenBatchJoinable
  RangeScansAlone
  IInv
PROPERTY
  Promise
