------------------------------- MODULE Batch -------------------------------
(***************************************************************************)
(* The batch processor (internal/backend/batch.go): requests of            *)
(* independent clients for one backend are coalesced into one upstream     *)
(* JSON-RPC batch, sent by a goroutine of the batch's own under a bound on *)
(* the batches in flight to that backend, and the responses are routed     *)
(* back by position.                                                       *)
(*                                                                         *)
(* Every batch is created by a request, and no request creates two, so a   *)
(* batch is named by the request that created it.                          *)
(***************************************************************************)
EXTENDS Integers, Sequences, FiniteSets

CONSTANTS
  Req,            \* requests, each from a caller (and with a context) of its own
  Url,            \* backend URLs
  ClientIds,      \* JSON-RPC ids the clients use
  ClientId,       \* the id each request came with
  RangeScan,      \* the requests whose method is in rangeScans
  MaxBatchSize,
  MaxConcurrent,
  MaxRetries,
  MaxReply,       \* bound: envelopes in one upstream reply
  Hung,           \* the backends that need not answer (for fairness only)
  None            \* no batch

ASSUME BatchAssumption ==
  /\ ClientId \in [Req -> ClientIds]
  /\ RangeScan \subseteq Req
  /\ MaxBatchSize \in Nat \ {0}
  /\ MaxConcurrent \in Nat \ {0}
  /\ MaxRetries \in Nat
  /\ MaxReply \in Nat
  /\ Hung \subseteq Url
  /\ None \notin Req

VARIABLES
  caller,     \* the goroutine waiting on each response channel
  answers,    \* everything ever sent on each response channel
  target,     \* the backend each request was added for
  batches,    \* bp.batches: the batch each backend's requests join
  entries,    \* batch.entries
  closes,     \* how often batch.dispatch was closed
  workers,    \* slots taken in bp.workers[url]
  stage,      \* where processBatch(batch) stands
  local,      \* its entries, as snapshotted
  live,       \* its entries, once those whose callers left are dropped
  pos,        \* entries the filtering loop has looked at
  cancelled,  \* callers(entries): the context has ended
  attempt,    \* sendBatch: attempt
  body,       \* the wire ids of the reply that are still to be read
  delivered   \* the positions already answered

callerVars == <<caller, answers, target>>
sharedVars == <<batches, entries, closes>>
localVars == <<local, live, pos, cancelled, attempt, body, delivered>>
goVars == <<stage, localVars>>
vars == <<callerVars, sharedVars, workers, goVars>>

Stages ==
  {"none", "open", "woken", "claimed", "acquiring", "filtering", "sending",
   "backoff", "delivering", "failing", "done"}

\* From taking the worker slot to the deferred <-batch.workers.
Holding == {"filtering", "sending", "backoff"}

\* The batch has been snapshotted and its callers' contexts are watched.
\* Mutant: no longer once the slot is taken.
WatchingBefore == {"acquiring"}
Watching == {"acquiring"} \cup Holding

Contract == INSTANCE RequestReply WITH
  Req <- Req, ClientIds <- ClientIds, ClientId <- ClientId, caller <- caller, answers <- answers

TypeOK ==
  /\ caller \in [Req -> Contract!CallerStates]
  /\ answers \in [Req -> Seq(Contract!Response)]
  /\ target \in [Req -> Url \cup {None}]
  /\ batches \in [Url -> Req \cup {None}]
  /\ entries \in [Req -> Seq(Req)]
  /\ closes \in [Req -> Nat]
  /\ workers \in [Url -> Int]
  /\ stage \in [Req -> Stages]
  /\ local \in [Req -> Seq(Req)]
  /\ live \in [Req -> Seq(Req)]
  /\ pos \in [Req -> Nat]
  /\ cancelled \in [Req -> BOOLEAN]
  /\ attempt \in [Req -> 0..MaxRetries]
  /\ body \in [Req -> Seq(Nat)]
  /\ delivered \in [Req -> SUBSET Nat]

Init ==
  /\ caller = [r \in Req |-> "idle"]
  /\ answers = [r \in Req |-> <<>>]
  /\ target = [r \in Req |-> None]
  /\ batches = [u \in Url |-> None]
  /\ entries = [r \in Req |-> <<>>]
  /\ closes = [r \in Req |-> 0]
  /\ workers = [u \in Url |-> 0]
  /\ stage = [r \in Req |-> "none"]
  /\ local = [r \in Req |-> <<>>]
  /\ live = [r \in Req |-> <<>>]
  /\ pos = [r \in Req |-> 0]
  /\ cancelled = [r \in Req |-> FALSE]
  /\ attempt = [r \in Req |-> 0]
  /\ body = [r \in Req |-> <<>>]
  /\ delivered = [r \in Req |-> {}]

-----------------------------------------------------------------------------
\* Adding requests.

Elements(s) == {s[i] : i \in DOMAIN s}

\* Mutant: range scans are coalesced like any request.
SoloNever(r) == FALSE
Solo(r) == r \in RangeScan

\* A range scan travels alone, in a batch whose dispatch is closed already and
\* that never enters the map.
AddSolo(r, u) ==
  /\ entries' = [entries EXCEPT ![r] = <<r>>]
  /\ closes' = [closes EXCEPT ![r] = 1]
  /\ stage' = [stage EXCEPT ![r] = "open"]
  /\ UNCHANGED batches

Full(b) == Len(entries[b]) + 1 >= MaxBatchSize

\* What the map holds once batch b has its next entry.
\* Mutant: the full batch stays in the map.
OpenAlways(b) == b
OpenAfter(b) == IF Full(b) THEN None ELSE b

\* Any other request joins the backend's open batch, or opens one; a batch that
\* is full leaves the map and is dispatched.
Join(r, u) ==
  LET b == IF batches[u] = None THEN r ELSE batches[u]
  IN /\ entries' = [entries EXCEPT ![b] = Append(@, r)]
     /\ batches' = [batches EXCEPT ![u] = OpenAfter(b)]
     /\ closes' = [closes EXCEPT ![b] = IF Full(b) THEN @ + 1 ELSE @]
     /\ stage' = IF b = r THEN [stage EXCEPT ![r] = "open"] ELSE stage

AddRequest(r, u) ==
  /\ caller[r] = "idle"
  /\ caller' = [caller EXCEPT ![r] = "waiting"]
  /\ target' = [target EXCEPT ![r] = u]
  /\ IF Solo(r) THEN AddSolo(r, u) ELSE Join(r, u)
  /\ UNCHANGED <<answers, workers, localVars>>

\* Mutant: the flushed batches stay in the map.
KeptOpen == batches
NoneOpen == [u \in Url |-> None]

\* FlushAll: every open batch leaves the map and is dispatched.
FlushAll ==
  LET open == {batches[u] : u \in Url} \ {None}
  IN /\ open # {}
     /\ batches' = NoneOpen
     /\ closes' = [b \in Req |-> IF b \in open THEN closes[b] + 1 ELSE closes[b]]
     /\ UNCHANGED <<callerVars, entries, workers, goVars>>

\* The caller's context ends: its client hung up or its deadline passed.
CallerLeaves(r) ==
  /\ caller[r] = "waiting"
  /\ caller' = [caller EXCEPT ![r] = "left"]
  /\ UNCHANGED <<answers, target, sharedVars, workers, goVars>>

CallerReceives(r) ==
  /\ caller[r] = "waiting"
  /\ answers[r] # <<>>
  /\ caller' = [caller EXCEPT ![r] = "received"]
  /\ UNCHANGED <<answers, target, sharedVars, workers, goVars>>

-----------------------------------------------------------------------------
\* processBatch, up to the worker slot.

\* processBatch ends, and its variables go out of scope.
Return(b) ==
  /\ stage' = [stage EXCEPT ![b] = "done"]
  /\ local' = [local EXCEPT ![b] = <<>>]
  /\ live' = [live EXCEPT ![b] = <<>>]
  /\ pos' = [pos EXCEPT ![b] = 0]
  /\ cancelled' = [cancelled EXCEPT ![b] = FALSE]
  /\ attempt' = [attempt EXCEPT ![b] = 0]
  /\ body' = [body EXCEPT ![b] = <<>>]
  /\ delivered' = [delivered EXCEPT ![b] = {}]

\* The timer fires, whatever the batch holds, or dispatch was closed.
Wake(b) ==
  /\ stage[b] = "open"
  /\ stage' = [stage EXCEPT ![b] = "woken"]
  /\ UNCHANGED <<callerVars, sharedVars, workers, localVars>>

\* The map once b is unreachable, unless another has taken its place in it.
\* Mutant: b is snapshotted while requests can still join it.
ClaimedNot(b) == batches
Claimed(b) == [batches EXCEPT ![target[b]] = IF @ = b THEN None ELSE @]

Claim(b) ==
  /\ stage[b] = "woken"
  /\ batches' = Claimed(b)
  /\ stage' = [stage EXCEPT ![b] = "claimed"]
  /\ UNCHANGED <<callerVars, entries, closes, workers, localVars>>

Snapshot(b) ==
  /\ stage[b] = "claimed"
  /\ IF entries[b] = <<>>
     THEN Return(b)
     ELSE /\ local' = [local EXCEPT ![b] = entries[b]]
          /\ stage' = [stage EXCEPT ![b] = "acquiring"]
          /\ UNCHANGED <<live, pos, cancelled, attempt, body, delivered>>
  /\ UNCHANGED <<callerVars, sharedVars, workers>>

\* Mutant: the first caller to leave cancels the batch.
AnyLeft(b) == \E i \in DOMAIN local[b] : caller[local[b][i]] = "left"
AllLeft(b) == \A i \in DOMAIN local[b] : caller[local[b][i]] = "left"

\* callers: the last of the batch's contexts has ended, and its AfterFunc,
\* in a goroutine of its own, cancels the batch's.
CallersGone(b) ==
  /\ stage[b] \in Watching
  /\ ~cancelled[b]
  /\ AllLeft(b)
  /\ cancelled' = [cancelled EXCEPT ![b] = TRUE]
  /\ UNCHANGED <<callerVars, sharedVars, workers, stage, local, live, pos,
                 attempt, body, delivered>>

\* What is sent to the requests in R, each on its own channel.
Send(kind, R) ==
  [r \in Req |-> IF r \in R
                 THEN Append(answers[r], Contract!Envelope(kind, r, ClientId[r]))
                 ELSE answers[r]]

Abandon(b) ==
  /\ stage[b] = "acquiring"
  /\ cancelled[b]
  /\ answers' = Send("left", Elements(local[b]))
  /\ Return(b)
  /\ UNCHANGED <<caller, target, sharedVars, workers>>

\* Mutant: the semaphore is one too large.
SlotFreeOver(u) == workers[u] <= MaxConcurrent
SlotFree(u) == workers[u] < MaxConcurrent

AcquireWorker(b) ==
  /\ stage[b] = "acquiring"
  /\ SlotFree(target[b])
  /\ workers' = [workers EXCEPT ![target[b]] = @ + 1]
  /\ stage' = [stage EXCEPT ![b] = "filtering"]
  /\ UNCHANGED <<callerVars, sharedVars, localVars>>

-----------------------------------------------------------------------------
\* processBatch, while it holds the slot.

\* The workers left once b gives its slot back.
\* Mutant: it never does.
ReleasedNot(b) == workers
Released(b) == [workers EXCEPT ![target[b]] = @ - 1]

\* The loop reads each entry's context once: the entry stays, or is answered.
FilterNext(b) ==
  /\ stage[b] = "filtering"
  /\ pos[b] < Len(local[b])
  /\ LET r == local[b][pos[b] + 1]
     IN IF caller[r] = "left"
        THEN /\ answers' = Send("left", {r})
             /\ UNCHANGED live
        ELSE /\ live' = [live EXCEPT ![b] = Append(@, r)]
             /\ UNCHANGED answers
  /\ pos' = [pos EXCEPT ![b] = @ + 1]
  /\ UNCHANGED <<caller, target, sharedVars, workers, stage, local, cancelled,
                 attempt, body, delivered>>

\* Nobody is left: the slot is given back.  Otherwise the batch is sent.
FilterEnd(b) ==
  /\ stage[b] = "filtering"
  /\ pos[b] = Len(local[b])
  /\ IF live[b] = <<>>
     THEN /\ workers' = Released(b)
          /\ Return(b)
     ELSE /\ stage' = [stage EXCEPT ![b] = "sending"]
          /\ UNCHANGED <<workers, localVars>>
  /\ UNCHANGED <<callerVars, sharedVars>>

\* The requests a batch carries upstream: position i is wire id i.
Wire(b) == live[b]

\* A reply repeats, drops, reorders and invents ids as it pleases; 0 is one
\* that does not decode to a position.
Replies(n) == UNION {[1..k -> 0..n] : k \in 0..MaxReply}

SendSucceeds(b) ==
  /\ stage[b] = "sending"
  /\ \E reply \in Replies(Len(Wire(b))) : body' = [body EXCEPT ![b] = reply]
  /\ workers' = Released(b)
  /\ stage' = [stage EXCEPT ![b] = "delivering"]
  /\ UNCHANGED <<callerVars, sharedVars, local, live, pos, cancelled, attempt,
                 delivered>>

\* Mutant: one attempt too many.
AttemptsLeftOver(b) == attempt[b] <= MaxRetries
AttemptsLeft(b) == attempt[b] < MaxRetries

\* A timeout, a reply cut short, or a retryable status: another attempt, after
\* a backoff, while attempts are left.
SendRetryable(b) ==
  /\ stage[b] = "sending"
  /\ IF AttemptsLeft(b)
     THEN /\ stage' = [stage EXCEPT ![b] = "backoff"]
          /\ UNCHANGED workers
     ELSE /\ stage' = [stage EXCEPT ![b] = "failing"]
          /\ workers' = Released(b)
  /\ UNCHANGED <<callerVars, sharedVars, localVars>>

\* Any other failure ends the call at once, the context's end among them.
SendFails(b) ==
  /\ stage[b] = "sending"
  /\ workers' = Released(b)
  /\ stage' = [stage EXCEPT ![b] = "failing"]
  /\ UNCHANGED <<callerVars, sharedVars, localVars>>

BackoffElapses(b) ==
  /\ stage[b] = "backoff"
  /\ attempt' = [attempt EXCEPT ![b] = @ + 1]
  /\ stage' = [stage EXCEPT ![b] = "sending"]
  /\ UNCHANGED <<callerVars, sharedVars, workers, local, live, pos, cancelled,
                 body, delivered>>

BackoffCancelled(b) ==
  /\ stage[b] = "backoff"
  /\ cancelled[b]
  /\ workers' = Released(b)
  /\ stage' = [stage EXCEPT ![b] = "failing"]
  /\ UNCHANGED <<callerVars, sharedVars, localVars>>

-----------------------------------------------------------------------------
\* processBatch, once the slot is given back.

\* Mutant: a repeated id is delivered again.
AcceptsRepeats(b, id) == id \in 1..Len(live[b])

\* The guard of the delivery loop.
Accepts(b, id) == id \in 1..Len(live[b]) /\ id \notin delivered[b]

\* Mutant: ids index the entries as they were before the filter.
RecipientBeforeFilter(b, id) == local[b][id]

\* The caller that wire id `id' of batch b is routed to.
Recipient(b, id) == live[b][id]

\* The reply's next envelope carries the payload of the request sent under its
\* id; it goes, under the client's id, to the recipient, or is skipped.
DeliverNext(b) ==
  /\ stage[b] = "delivering"
  /\ body[b] # <<>>
  /\ LET id == Head(body[b])
     IN IF Accepts(b, id)
        THEN LET to == Recipient(b, id)
             IN /\ answers' = [answers EXCEPT ![to] =
                     Append(@, Contract!Envelope("answer", Wire(b)[id], ClientId[to]))]
                /\ delivered' = [delivered EXCEPT ![b] = @ \cup {id}]
        ELSE UNCHANGED <<answers, delivered>>
  /\ body' = [body EXCEPT ![b] = Tail(@)]
  /\ UNCHANGED <<caller, target, sharedVars, workers, stage, local, live, pos,
                 cancelled, attempt>>

\* Mutants: the error goes to every entry; to none.
UndeliveredAll(b) == Elements(live[b])
UndeliveredNone(b) == {}

\* Whoever the reply left out gets an error.
Undelivered(b) == {live[b][i] : i \in (1..Len(live[b])) \ delivered[b]}

DeliverMissing(b) ==
  /\ stage[b] = "delivering"
  /\ body[b] = <<>>
  /\ answers' = Send("missing", Undelivered(b))
  /\ Return(b)
  /\ UNCHANGED <<caller, target, sharedVars, workers>>

Fail(b) ==
  /\ stage[b] = "failing"
  /\ answers' = Send("failed", Elements(live[b]))
  /\ Return(b)
  /\ UNCHANGED <<caller, target, sharedVars, workers>>

-----------------------------------------------------------------------------
Upstream(b) == SendSucceeds(b) \/ SendRetryable(b) \/ SendFails(b)

\* The steps of processBatch that wait for nobody but the processor itself.
Process(b) ==
  \/ Wake(b) \/ Claim(b) \/ Snapshot(b) \/ Abandon(b) \/ AcquireWorker(b)
  \/ FilterNext(b) \/ FilterEnd(b) \/ BackoffElapses(b) \/ BackoffCancelled(b)
  \/ DeliverNext(b) \/ DeliverMissing(b) \/ Fail(b)

\* Every caller is gone and every batch has been processed.
Quiescent ==
  /\ \A r \in Req : caller[r] \in {"left", "received"} /\ stage[r] \in {"none", "done"}
  /\ UNCHANGED vars

Next ==
  \/ \E r \in Req, u \in Url : AddRequest(r, u)
  \/ \E r \in Req : CallerLeaves(r) \/ CallerReceives(r)
  \/ \E b \in Req : CallersGone(b) \/ Process(b) \/ Upstream(b)
  \/ FlushAll
  \/ Quiescent

Spec == Init /\ [][Next]_vars

\* Go runs every goroutine that can run, timers fire, and a call whose context
\* has ended returns.  Backends outside Hung answer or fail.
Fairness ==
  \A b \in Req :
    /\ WF_vars(Process(b))
    /\ WF_vars(CallersGone(b))
    /\ WF_vars(cancelled[b] /\ SendFails(b))
    /\ WF_vars(target[b] \notin Hung /\ Upstream(b))

FairSpec == Spec /\ Fairness
=============================================================================
