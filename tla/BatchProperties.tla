-------------------------- MODULE BatchProperties --------------------------
(***************************************************************************)
(* What the batch processor has to get right, and the inductive invariant  *)
(* from which BatchProofs derives it.                                      *)
(***************************************************************************)
EXTENDS Batch

\* The refinement: AddRequest keeps the promise RequestReply states.
Promise == Contract!Spec

\* "exactly one response": nothing is sent on a channel a second time, where
\* the send would block processBatch for ever and strand the rest of its batch.
AnsweredOnce == \A r \in Req : Len(answers[r]) <= 1

\* Whatever the upstream repeats, drops or reorders and whoever was coalesced
\* beside r or dropped before sending, r gets its own payload under its own id.
OwnAnswer ==
  \A r \in Req : \A i \in DOMAIN answers[r] :
    answers[r][i].of = r /\ answers[r][i].id = ClientId[r]

\* A caller still waiting is never told it left, and one caller leaving never
\* cancels the upstream call another caller of the batch still waits for.
NoWaiterAbandoned ==
  /\ \A r \in Req : \A i \in DOMAIN answers[r] :
       answers[r][i].kind = "left" => caller[r] = "left"
  /\ \A b \in Req : cancelled[b] =>
       \A i \in DOMAIN live[b] : caller[live[b][i]] = "left"

\* The batches between taking a slot of u's and giving it back.
Holders(u) == {b \in Req : stage[b] \in Holding /\ target[b] = u}

\* The semaphore of each backend counts them, on every path out of processBatch,
\* and bounds them.
WorkersAccounted ==
  \A u \in Url :
    /\ workers[u] = Cardinality(Holders(u))
    /\ workers[u] <= MaxConcurrent

\* The requests batch b still has to answer.
Owed(b) ==
  CASE stage[b] \in {"open", "woken", "claimed"} -> Elements(entries[b])
    [] stage[b] = "acquiring" -> Elements(local[b])
    [] stage[b] = "filtering" ->
         Elements(live[b]) \cup {local[b][i] : i \in (pos[b] + 1)..Len(local[b])}
    [] stage[b] \in {"sending", "backoff", "failing"} -> Elements(live[b])
    [] stage[b] = "delivering" ->
         {live[b][i] : i \in (1..Len(live[b])) \ delivered[b]}
    [] OTHER -> {}

\* No request is lost between AddRequest, the map, the snapshot and the filter:
\* until it is answered, a batch on its way has it on its list.
NoneStranded ==
  \A r \in Req :
    caller[r] # "idle" /\ answers[r] = <<>> => \E b \in Req : r \in Owed(b)

\* dispatch is closed at most once, by the one who took the batch out of the
\* map: a second close panics.
DispatchOnce == \A b \in Req : closes[b] <= 1

\* A batch in the map can be joined: it is the backend's own, not dispatched,
\* not full and not past its claim.
OpenBatchJoinable ==
  \A u \in Url : batches[u] # None =>
    LET b == batches[u]
    IN /\ target[b] = u
       /\ closes[b] = 0
       /\ Len(entries[b]) < MaxBatchSize
       /\ stage[b] \in {"open", "woken"}

\* No request waits in an upstream batch beside a range scan.
RangeScansAlone ==
  \A b \in Req : Elements(entries[b]) \cap RangeScan # {} => Len(entries[b]) = 1

\* A request for a backend that answers is answered, whatever happens to the
\* batches before it and however long other backends hang.
EveryRequestAnswered ==
  \A r \in Req :
    (caller[r] = "waiting" /\ target[r] \notin Hung) ~> (answers[r] # <<>>)

\* Once every caller of a batch has left, the batch ends and its slot is free,
\* even at a backend that never answers.
AbandonedBatchEnds ==
  \A b \in Req :
    (stage[b] \in {"acquiring"} \cup Holding /\ \A i \in DOMAIN local[b] : caller[local[b][i]] = "left")
      ~> (stage[b] = "done")

-----------------------------------------------------------------------------
\* The inductive invariant.

\* A request that was not added yet is in no batch and has no answer.
Fresh ==
  \A r \in Req : caller[r] = "idle" =>
    /\ stage[r] = "none"
    /\ answers[r] = <<>>
    /\ \A b \in Req : r \notin Elements(entries[b])

\* A request is an entry of one batch only, and once.
EnteredOnce ==
  \A b, c \in Req : \A i \in DOMAIN entries[b], j \in DOMAIN entries[c] :
    entries[b][i] = entries[c][j] => b = c /\ i = j

\* Every request that was added is an entry of some batch.
Entered == \A r \in Req : caller[r] # "idle" => \E b \in Req : r \in Elements(entries[b])

\* A batch exists once its first request was added; the map holds open ones.
Created ==
  /\ \A b \in Req : IF stage[b] = "none" THEN entries[b] = <<>> ELSE target[b] \in Url
  /\ \A u \in Url : batches[u] # None =>
       stage[batches[u]] \in {"open", "woken"} /\ target[batches[u]] = u

\* What processBatch's variables hold at each stage.
Frame(b) ==
  /\ stage[b] \in Watching \cup {"delivering", "failing"} => local[b] = entries[b]
  /\ stage[b] \in {"none", "open", "woken", "claimed", "acquiring", "done"} =>
       live[b] = <<>> /\ pos[b] = 0
  /\ stage[b] \in {"none", "open", "woken", "claimed", "done"} => ~cancelled[b]
  /\ cancelled[b] => \A i \in DOMAIN local[b] : caller[local[b][i]] = "left"
  /\ Elements(live[b]) \subseteq Elements(local[b])
  /\ stage[b] = "backoff" => attempt[b] < MaxRetries
  /\ stage[b] # "delivering" => delivered[b] = {}
  /\ stage[b] = "filtering" =>
       \A i \in DOMAIN live[b], k \in (pos[b] + 1)..Len(local[b]) : live[b][i] # local[b][k]
  /\ \A i, j \in DOMAIN live[b] : live[b][i] = live[b][j] => i = j

Frames == \A b \in Req : Frame(b)

\* A batch owes an answer to exactly those of its entries that have none.
Ledger ==
  \A b \in Req : Owed(b) = {r \in Elements(entries[b]) : answers[r] = <<>>}

\* A channel has received nothing, or one response its caller may be sent.
Answers ==
  \A r \in Req : answers[r] = <<>> \/ \E m \in Contract!Admissible(r) : answers[r] = <<m>>

\* With the semaphores: what they count stays finite.
Slots == WorkersAccounted /\ \A u \in Url : IsFiniteSet(Holders(u))

IInv ==
  TypeOK /\ Fresh /\ EnteredOnce /\ Entered /\ Created /\ Frames /\ Ledger /\ Answers
=============================================================================
