# A verification of sabre

sabre is a JSON-RPC proxy: clients send requests for a chain, sabre answers from
its cache or forwards them to one of the chain's backends, coalescing the
requests of independent clients into upstream batches. This directory holds TLA+
modules for the parts of it where order, concurrency and failure matter, the TLC
configurations that check them on small instances, and proofs that TLAPS checks.

Run from this directory:

    tlc -workers 2 -config MCBatch.cfg MCBatch      # one run
    tlapm BatchProofs.tla                           # the proofs of one module

## The system

| component | state | operations | talks to |
|---|---|---|---|
| router (`internal/router/router.go`) | none of its own; per request: attempt, minHead, picked backend | one handler per HTTP request: cache lookup, up to `max_attempts` of pick and send, answer, cache the answer; `/health` | all the others |
| load balancer, monitor (`balancer.go`, `backend.go`) | per backend: `HealthUp`, both streaks, `Head`, limiter, latencies, weights | `PickAtLeast`, `UpdateLatency`, `Monitor` (a round of `probe`s per tick), `ObserveHead`, `HeadBelow` | upstream nodes; the tracker, once per probe |
| batch processor (`batch.go`) | open batch and worker semaphore per backend URL; a goroutine per batch | `AddRequest`, `FlushAll`, `processBatch` (`callers`, `abandon`, `sendBatch`) | upstream nodes; answers through one channel per request |
| cache and reorg tracker (`cache.go`) | LRU memory tier, Pebble durable tier; per chain: hash by height, tip number and hash | `Lookup`, `Get`, `Store`, `Put`, `PutImmortal`, `putNegative`, `UpdateLatestBlock`, `PlanMulticall`, `CompleteMulticall` | nobody |
| multicall aggregation (`multicall.go`) | none: pure functions | `aggregateEthCalls`, `expandMulticallResponses`, ABI coding | called between the batch processor's filter and its send |
| stream (`stream.go`) | clients, subscriptions, connections per backend, heads delivered, time of each backend's last head | subscribe, unsubscribe, forward, ping, sanity check, migrate, shut down | load balancer, WebSocket clients and nodes |
| configuration (`config.go`), entry point (`main.go`) | | parsing; start-up and the signal handler | |

What is hard in it, per component, and the properties that make it correct
(`PROJECT.json`, "hazards", has each at its line):

- **Batch processor.** A request joins while the batch's goroutine wakes up,
  claims and snapshots it; callers leave at any point, one by one; the reply
  repeats, drops, reorders or invents ids; attempts fail and are repeated; every
  path out has to return the worker slot, and a second send on a response
  channel would block the goroutine for ever. *Each caller gets exactly one
  response, its own; nobody is stranded; slots are accounted for; a backend that
  hangs holds up nobody else.*
- **Cache.** Entries outlive the block they were read at: reorgs, late answers,
  promotion from disk after a purge, a crash that loses the latest writes while
  the tracker restarts empty, the unsigned subtraction for an entry above the
  tip. *No entry of a replaced block is served; near the tip an entry is served
  only if its block is confirmed; immutable reads survive everything; nothing
  outlives its TTL; the tracker stays small and keeps its tip.*
- **Load balancer, router.** Probes and answers move the same head up and down
  concurrently; a backend is held while its rate limit is waited for; retries
  must not go where the block is known to be missing, yet exclusion must not
  leave a request without a backend. *Rotation follows full streaks; a retry goes
  elsewhere; a request is failed for want of a backend only if none was in
  rotation all through its pick; every request ends; a head lowered is found again.*
- **Stream.** Two connections send heads of one chain: a head is marked as
  delivered under one lock and sent under another. Four maps tell of a
  subscription, and no lock covers two; connections break, clients leave, and the
  sanity loop migrates subscriptions, each working on what it read before.
  *No client that stays subscribed misses a head; a registered subscription is its
  client's and has a connection; connections stay bounded; a backend that has gone
  quiet is left.*
- **Answers (merge of batch items, multicalls).** Positions shift four times between a
  client's batch and its answer: cached items drop out, calls are packed by tag
  and chunk, replies come in any order, repeated, short or without ids. What is
  misplaced once is cached. *Where the reply tells what is whose, each item gets what was
  said of it, and nothing misplaced is kept.*
- **Shutdown.** Listed as a hazard; see the plan.

## Modules

| module | models |
|---|---|
| `RequestReply` | abstract: what `AddRequest` promises a caller |
| `Batch` | `batch.go`: one action per critical section, channel operation or call |
| `BatchProperties` | its properties and the inductive invariant |
| `Cache`, `CacheProperties` | `cache.go`: the tracker, the two tiers, crashes |
| `Balancer` | `Monitor`, `probe`, `markDown`, `ObserveHead`, `HeadBelow`, what `candidate` asks of a head |
| `Router` | extends `Balancer`: `PickAtLeast`, backend by backend, and the attempts of the `"/"` handler |
| `HeadFeed` | abstract: the feed of one chain's heads and what clients hear of it |
| `Heads` | `handleBlockNotification`, `markDelivered`, `notifyBlockSubscribers` |
| `Stream`, `StreamProperties` | the rest of `stream.go`: handlers, connections, the sanity loop |
| `Answers`, `AnswersProperties` | a batch from cache, through multicalls, order and merge, to cache; partly served multicalls |
| `BatchProofs`, `CacheProofs`, `RouterProofs`, `HeadsProofs`, `StreamProofs`, `AnswersProofs` | theorems about each and their proofs |
| `MC*` | instances for TLC, one `.cfg` per run |

`PROJECT.json`, "map", gives the source lines of every definition. An operator
under a comment "Mutant" is a faulty variant of the one that follows it; no
specification uses it, and replacing the one by the other must break the
property that guards the behaviour.

### Batch

A batch is named by the request that created it (no request creates two), so
`entries`, `closes`, `stage` and `processBatch`'s own variables (`local`, `live`,
`pos`, `cancelled`, `attempt`, `body`, `delivered`) are functions of that request.
The mutexes are steps: `AddRequest` and `FlushAll` hold `bp.mu` throughout, hence
one action each; `processBatch` is cut where it gives a lock up, receives, sends
or loops: `Wake`, `Claim`, `Snapshot`, `AcquireWorker` or `Abandon`, `FilterNext` for
each entry and `FilterEnd`, one of the `Send…` actions, `BackoffElapses` or
`BackoffCancelled`, `DeliverNext` for each envelope, `DeliverMissing` or `Fail`.
`CallersGone` is the `AfterFunc` of the last context, which runs in a goroutine of
its own. `Return` resets what goes out of scope.

Abstracted: the payload is the request it answers; a reply is any sequence of up
to `MaxReply` wire ids, 0 standing for an id that does not parse to a position;
errors are told apart only by who they are meant for; the timer may fire at any
time. The multicall aggregation, which rewrites the batch between the filter and
the send, is the subject of `Answers`. Requests of one client's batch share a
context in the code; here each has one of its own, which allows more.

### Cache

Each upstream node stands at some block of a small tree (`Num`, `Parent`), and a
step may bring word of any block: nodes disagree, fall behind and answer late.
Reads are in classes by what their answer says of its block and how long it is
kept (`Classes`); a key is the request with its chain, as `CanonicalKey` builds it.
`UpdateLatestBlock` is one step, under the tracker's lock. `Get` and `Put` read the
tracker under that lock and touch the tiers after it, so either goes on at once
or leaves its work in `tail`, for other calls and reorgs to come first; one call at
a time may be so slow. A block that is still being built (`Pending`) is reported with its
number and no hash, as a client's read of `pending` makes the router do, which asks
for a number only; the tracker then holds the hash `Empty`, and so do the entries stamped
with it (`Stamped`). `durable` is what a crash would leave of `disk`: every write is
`NoSync`, `Sync` is the database getting to it. The LRU evicts any entry at its
capacity. `Behind` keeps the `uint64` subtraction, modulo `Wrap`. `seen` and the field
`at` of an entry are history for the properties.

The clock counts units of `ttl_latest`; `MaxTime` bounds it.

### Balancer and Router

`Round` starts a probe of each backend and the next waits for all of them, as `Monitor`
does; the backends of other chains (`Others`) are probed in the same rounds, and of them
only that matters. A node (`NodeStates`) is in sync, answers without a block, or is dead,
and changes at will; heights only grow. The streaks count up to their threshold, past which
the code's count makes no difference. Weights never fall below 0.1, so each ready backend
may be drawn. A limiter's token is there or not, nondeterministically.

`PickAtLeast` holds no lock while it looks at the backends in turn (`Bes`), and loads the
health of each before its head, so each load is a step and probes come between any two:
`LoadsHealth` and `Trails` are `candidate`, in either loop; `Allow`, then `PickReady` or
`NoneReady`, are the first loop, `Reserve` and `Holds` the second, `FallBack` the
recursive call with minHead 0, `TokenComes` the end of the wait. `Unavailable` is
the branch on `BlockUnavailable`, with its `HeadBelow`; `Answer` is the rest, with
`ObserveHead` if the answer is a block. The client may leave at any point.
Two histories serve the properties: `steady`, the backends in rotation ever since a pick
began, and `lacking`, those that said they lack a request's block and were not seen
to have come to it since.

### Heads

Each connection's reader marks (`MarkDelivered`, one step under `deliveredMu`), then
takes `wm.mu` for reading, looks at the clients one by one and lets go. The write lock
for adding and removing a client waits for readers (`ReadLocked`). A client of
which a write failed stays listed until its own handler removes it. `feed`, `heard`
and `owed` are history. The abstract `HeadFeed` says: a head is announced unless it is
what the feed holds as the latest at its height within the reorg depth, and each
client hears each announcement at most once.
`Heads` implements it, the mapping being `feed` and `heard`.

### Stream

A handler reads one message at a time, so its steps are a sequence; what it looks at is cut
where it lets a lock go: `Subscribe` (both maps, no other reader comes between two of its
writes that could tell them apart), `ReadList`, one of the `Choose…` actions, `Dial`,
`Connected`; `Unsubscribe`, `Unregister`, `Unhook`. The sanity loop is one more caller of
`getOrCreateWSConnection`. `closeWSConnection` is the swap of `closed` (in `Breaks` or
`CloseNext`), `Unlist`, which takes the first occurrence off the list, and `Purge`. It
shifts the list in place, so a reader with an older slice header may see the shifted list,
cut at the length it read: `AsSeen`. A migration (`Migrate`) moves the subscriptions under
`wm.mu`, in the one step, and there settles as well which of the stale backend's connections
carry nothing and are to be closed. The code looks at these one by one afterwards, holding
no lock on the lists; a subscription or a connection that is added meanwhile is here as if
it had come just before the move, and that the lists may be read in pieces
(`closeBackendConnection`) is not modelled. What a connection carries once `Purge` is over
is never looked at and not kept, and its name is used again when nobody refers to it
(`IsFree`). Whether a write of a message succeeds only decides what the client is told. A
connection breaks at any time, the ping loop's doing included.

`lost` is history: a subscription whose connection could not be had, or closed
before it was added, stays registered without one; the client was told of the
failure in the first case only.

### Answers

`work[h]` is a client's request between the cache and its answer. `aggregateEthCalls` gives
the upstream requests as a set of sequences of positions: their order is not kept, as
nothing goes by it. `InOrder` lists a set of positions as a loop that appends them does. An
upstream reply is any sequence of up to `MaxReply` envelopes: repeated, missing, foreign,
with a result per call, or the wrong number of them, or none. What the upstream reports of a
call is about that call at the tag it was sent: the ABI coding is taken to be exact and the
node to be honest, so what can go wrong is the proxy's own bookkeeping. `last` is history:
the answer the last step gave and what was said of each item on the way. Entries of the
cache vanish at any time (`Forget`).

With batching disabled (`DirectReply`) the reply is any sequence of up to `MaxReply`
responses to the requests, each under its request's id or none: in order or not, short,
repeated. If it has not one response under the id of each request (`OneEach`),
`orderBatchResponses` leaves it as it came, and it is merged and kept by position. The model
does so too; the history `matched` is FALSE of such a response, wherever it goes, and the
properties except it. A reply that is no batch, or to a multicall that has not as many
results as calls, is passed to the client as it is (`PassesOn`, `CallsReply`), unless it is
the reply to a reduced multicall (`Planned`), which cannot be put together. A multicall of
one call, a single immutable call and `AllowFailure` are not told apart: every call may fail
by itself.

## Runs

| run | expects | shows | bounds |
|---|---|---|---|
| `batch` | pass | type, inductive invariant, one answer each, its own, nobody stranded, slots, dispatch closed once, refinement of `RequestReply` | 3 requests, one a range scan; batch size 2; 1 slot; 1 retry; replies of up to 2 envelopes |
| `batch_live` | pass | requests for a backend that answers are answered, abandoned batches end | 2 requests, 2 backends, one that may hang |
| `cache` | pass | replaced blocks not served, recent ones confirmed, immutable reads kept, tracker bounded, tip kept | a fork and a block being built, heights 1 to 4, depth 1 (window 2), 2 keys, 1 memory slot |
| `cache_time` | pass | type; TTLs hold, reorgs stay local | 2 chains, a fork and a block being built, time 0 to 3, ttl_latest 1, ttl_block 2 |
| `router` | pass | type; retries go elsewhere, served rather than failed | a batch of two pinned reads; 2 backends, one pruned and rate limited; heights up to 2, thresholds 1, 2 attempts |
| `router_live` | pass | rotation follows full streaks, both ways; every request ends, heads catch up | 1 backend, pruned and rate limited, and 1 of another chain; 3 node states, thresholds 2 and 3, 2 attempts |
| `heads` | pass | no head missed; refinement of `HeadFeed` | 2 connections, 2 clients, heights 1 to 3, 2 hashes, depth 1, a feed of 3 |
| `stream` | pass | maps stay together, nobody stranded | 1 client with 2 subscriptions, 2 backends, 2 connections, limits of 1, 1 break |
| `stream_live` | pass | connections bounded; a quiet backend is left | 1 subscription, 2 backends, 3 connections, limits of 1 |
| `answers` | pass | type; each item gets its own answer, nothing misplaced is kept | 2 handlers, 6 requests of 2 or 3 items (3 batches, 1 direct, 2 multicalls), chunks of 2, replies of up to 2 |
| `cache_old_tip`, `heads_order` | violation | the findings below | |

Why the bounds are enough: a batch of two with a third request opens the batch that takes
its place in the map, and one slot makes a second batch wait; a reply of two envelopes may
swap, repeat, drop or invent. A window of two with four heights forgets heights and keeps
others, one memory slot makes every second write evict and every eviction promote again, and
a fork of one block at an inner height reorgs by hash and, with the block above, by parent;
the block being built competes with one of its height. Two attempts are a failure and a
retry. Of two backends one can fail while the other is looked at; the pruned one answers
only one read of the batch, so it lacks a block at any height, and its limiter makes a
request wait with it in hand. Thresholds of 1 let a single probe change the rotation between
two looks; `router_live` has longer streaks. Two connections and two hashes of one height
are what it takes to overtake, and a third head reaches past the reorg depth. With a limit
of one, a second connection or subscription is always one too many, and with as many callers
as the limit all of them race. Chunks of two split three calls of a tag, two upstream
requests can be swapped, repeated and dropped in a reply of two, and three items let any
subset come from the cache. The inductive invariant is checked in `batch` too, where the
proofs extend it to every size.

Fairness. Go runs every goroutine that can run, timers fire and tickers tick;
each upstream call has a deadline or a context that ends it. So the steps of
`processBatch`, the rounds and probes, and the handler's steps are weakly fair.
In `Stream` the balancer's draw picks each backend again and again, and a dial
that is tried again and again succeeds at some time (strong fairness of `Reset` and
`Dial(Sanity)`): a system none of whose backends can be reached moves nothing.
Nothing is assumed of clients, of nodes, or of a backend in `Hung`. A select
between two ready channels needs no more: whichever is taken, the batch moves.
`RotationFollows` needs the probes of the other chain's backends to end as well: they have
the same deadline. `HeadCatchesUp` says that the head is known again and again, not for good:
the requests of a pruned block go on lowering it as often as they are made.

### Findings

1. `cache_old_tip` (code bug). `Put` keeps any answer that names a block past the reorg
   depth for ever, also when the key describes the tip: `eth_getLogs` up to `latest` over a
   quiet contract is answered from its first reply ever after.
2. `heads_order` (code bug). `handleBlockNotification` marks under `deliveredMu` and sends
   later under `wm.mu`: of two heads of one height the older may be sent last, and
   the client ends on the replaced one. `markDelivered` calls it "the one delivered
   at its height".

Seen on the way, with no run of their own:

- A request can be refused with "no candidate backend" though at every moment some backend
  was in rotation: the backends are looked at one after another, and one may leave the
  rotation before its turn and another join after its own (`ServedRatherThanFailed` speaks
  of one that was in rotation all along).
- A block reported without a hash (a client's `eth_getBlockByNumber` of `pending`) is
  recorded under the hash "": the block that follows at its height then looks like a reorg,
  which purges the memory tier, and `latestHashes` stays "" until a higher one comes.
  Entries stamped with the tip meanwhile have no hash and are never checked.
- An entry above the tip, after a restart for instance, is taken to be far below it
  (`IsBlockHashValid` subtracts unsigned) and served unconfirmed.
- A block parameter that is an object (EIP-1898) is read as `latest` by
  `parseEthCallParams`, so such a call, once packed into a multicall (`aggregateEthCalls`,
  `buildMulticallBody`), is executed at the tip, and the answer is kept for `ttl_block` as
  if pinned (`namesBlock` knows the object), where `TTL` says "A read pinned to a block, by
  number or by hash, describes that block". `answers` has such a read (`ByObject`), and of
  it `TellsOf` asks only that the call is right; ask it of the block too, and TLC finds
  `EachItsOwn` violated in two steps.
- With batching disabled a reply that is short, or whose ids do not match, is merged and
  cached by position (`orderBatchResponses` gives up), and what went astray is served until
  it expires. `answers` has these replies; leave `matched` out of the properties, and TLC
  finds them violated.
- A multicall's state overrides are not in the reduced one (`buildMulticallBody`), and a known
  revert of a call that must not fail is served as a failed result, where the
  upstream would fail the whole multicall.
- If no backend answers a batch, its items from the cache get the error too.
- A reorg found by the parent hash purges memory only; the tracker keeps the replaced
  parent's hash, so the disk entry stays valid. One found at the tip's own height leaves
  `latestHashes` at the old hash. A replaced block's disk entry is refused while the tracker
  remembers the height, and served again once it is forgotten.
- An answer that names no block is stamped with the tip as it is when stored, so
  replacing the block it was read at need not invalidate it.
- The weighted draw has no memory: with as many attempts as backends a request
  may be given up with a healthy backend untried.
- `HeadBelow` on an unknown head states a head the node may not have, and on a
  pruned block lowers the head of a node in sync (the next probes mend it:
  `HeadCatchesUp`). `SentElsewhere` leaves out requests whose newest block is 1: `HeadBelow(1)`
  stores 0, which means unknown.
- The pong is checked for right after a ping: with the shipped `pong_wait_ms` (10 s)
  below `ping_interval_ms` (30 s) the last pong is too old at every tick, and connections in
  good health are closed (`config.toml`: "If a pong is not received within this time after
  sending a ping, the connection is considered unhealthy").
- `forwardBackendMessage` reads the params of an `eth_subscription` as an array, where nodes
  send an object, and looks its subscription id up among the proxy's own; `Heads` starts at
  what it does with a notification it accepts.
- `lastBlockTime` is set by a head only: a backend that never sends one is never
  found stalled, and its record is deleted after a reset, so a subscription added
  meanwhile is left behind (`config.toml`: "treated as stalled once two of its chain's block
  times pass without one").
- Callers that race take a backend past `max_connections_per_backend`, each by one
  (`ConnectionsBounded` is what does hold).
- A client that leaves, or unsubscribes on another than the first connection, stays in the
  connection's `Subscriptions`: capacity is lost, a connection that looks busy is
  not closed after a migration, and migrations do not see it.
- An answer to one client's call is broadcast to every client of the chain.
- `wm.subscriptions`, `wm.connections` and `client.Subscriptions` are read and written
  under different locks or none; a concurrent map access would stop the process. The models
  take each access to be whole.

## Proofs

Each theorem holds for every value of its module's constants; the only assumptions
are the named ones on the constants.

| module | assumptions | theorems |
|---|---|---|
| `BatchProofs` | `BatchAssumption` | `TypeCorrect`, `Invariance`, `AtMostOneAnswer`, `NoCrossTalk`, `NobodyStranded`, `WaitersKept`, `SlotsCounted`, `ClosedOnce`, `OpenIsJoinable`, `RangeScansTravelAlone`; `Implements`: `Batch` refines `RequestReply` |
| `CacheProofs` | `CacheAssumption`, `NoneAssumption` | `CacheTypeCorrect`, `ReplacedNotServed`, `RecentIsConfirmed`, `ImmutableStays`, `TipStays`, `TipNeverFalls`, `NothingOutlivesItsTTL`, `ReorgStaysLocal`, `TrackerStaysSmall` |
| `RouterProofs` | `BalancerAssumption`, `RouterAssumption` | `RouterTypeCorrect`, `NobodyTurnedAway`, `TriedElsewhere`, `RotationIsEarned` |
| `HeadsProofs` | `HeadsAssumption` | `HeadsTypeCorrect`, `NobodyMissesAHead`; `OneFeed`: `Heads` refines `HeadFeed` |
| `StreamProofs` | `StreamAssumption` | `StreamTypeCorrect`, `RegistryAgrees`, `NobodyIsStranded`, `LimitPassedByFew` |
| `AnswersProofs` | `AnswersAssumption` | `AnswersTypeCorrect`, `EachGetsItsOwn`, `KeptUnderItsOwn`; of the operators: `PackedOnce`, `OrderRestored` |

Few of the properties are inductive as they stand. What had to be added, and why:

- **Batch.** "At most one answer" needs that a batch's remaining work names no request
  twice, that no two batches share a request, and that what is owed is exactly what is
  unanswered. `IInv` says so: `Owed(b)` is what batch `b` still has to answer at each stage;
  `Ledger` says it is the set of `b`'s entries with no answer; `EnteredOnce` that a request
  is in one batch, once; `Frame` what the goroutine's variables hold at each stage;
  `Created`, `Fresh` and `Entered` tie requests, batches and the map together; `Answers`
  says a channel holds nothing or one admissible response. `Invariance` proves it action by
  action. `SlotsCounted` is a second induction on top, with the facts on cardinality from
  `FiniteSetTheorems`; `Dispatching` a third: the batch in the map is its backend's, open or
  woken, not dispatched, short of its size and free of range scans, which is what keeps
  `dispatch` from being closed twice.
- **Cache.** `CacheInv`: what a tier holds, or a call in `tail` is about to write, fits its
  key; the tracker holds at each height what it heard last or nothing, nothing above
  its tip, and all of its window; what was served was live and valid then. Validity compares
  heights modulo `Wrap`, whatever the heights.
- **Router.** `NobodyTurnedAway` needs `PassedOver`: as long as the loop of the last resort
  (the second one, with minHead 0) has found nobody, none of the backends it is past was in
  rotation all through the pick. `TriedElsewhere` needs `KnownBehind`: the known head of a
  backend that lacks a request's block stays below what the request asks for, and the
  request asks for its block or, after the fallback, for any; and `FoundFit`: what a pick
  has found, and is perhaps waiting for a token of, is not one that lacks it.
  `RotationIsEarned` needs `Streaks`: a streak of n is in the last n outcomes.
- **Heads.** `FeedInv`: each connection that is not reading is busy with an entry of the
  feed of its own; who is owed it is subscribed, and still to be looked at or has it; what
  `markDelivered` remembers of a height is the last head announced there, unless a later one
  has taken that height below the reorg depth.
- **Stream.** `HandlerInv`: only a client that has not begun to leave has a busy handler, so
  nothing registers after `removeClient`. `StreamInv`: whoever looks for a connection has a
  backend to ask, whoever has one has a real one, and each list is made of that backend's
  connections, each once. `StrandInv` adds that what a handler takes from a connection is no
  longer registered; the proof then shows that a connection which ends takes what it carries
  out of the registry, and that a migration puts what it takes on the new connection or
  writes it off. `LimitPassedByFew` needs `Headroom`: connections and those who have got
  past the check count together.

- **Answers.** The positions are the difficulty: what missed the cache, the calls of a tag
  and the chunks of a multicall are each what a loop appends. `InOrder` says it without a
  recursion, as the one increasing sequence over a set of positions. `Ordered` proves that
  there is one: the rank of a position, how many there are up to it, is a bijection onto
  1..n, and its inverse is increasing. That each call falls into a chunk is an argument on
  the smallest chunk that reaches it, which well-foundedness of the naturals gives.
  `PackedOnce` puts the two together: `aggregateEthCalls` sends each request in exactly one
  upstream request. `OrderRestored` says that `orderBatchResponses` undoes any permutation
  of responses under distinct ids. The properties themselves need `OwnInv`: what a handler
  holds from the cache is its items' own and under their ids (`WorkOwn`), what is kept is
  its key's own (`CacheOwn`), and the last answer was (`AnswerOwn`). The three hold each
  other up: a misplaced response would be cached, looked up again and merged. A direct reply
  may be anything, so what `matched` says has to be earned: as many responses as requests,
  one under the id of each, are under distinct ids (`OneEachApart`), so
  `orderBatchResponses` does put them in order (`OrderedFrom`).

All the invariants the runs check, their action properties and both refinements are
theorems, but for the two that the violation runs refute. Only model-checked are the
liveness properties, which are out of the prover's reach, as is `ENABLED`:
`EveryRequestAnswered`, `AbandonedBatchEnds`, `RotationFollows`, `RequestEnds`,
`HeadCatchesUp`, `QuietBackendLeft`. The fairness conditions of a specification play no part
in its proofs.

## Not modelled

Latency statistics and weights, configuration parsing (its bounds are the
assumptions on the constants), HTTP and JSON details, the ABI coding, singleflight
`Do` (unused by the program), the version and profiling code of `main.go`, the mock
client. Of the stream: the timing of pings, the forwarding of notifications that
are no heads, `Shutdown`. Of the router: the health endpoint.

## Plan

1. `Watch`: the ping loop with its clock; what a pong wait below the ping interval does.
2. Shutdown order: `FlushAll`, `Stream.Shutdown`, `server.Shutdown`, `cstore.Close`.
3. The limiter's tokens: `Allow` takes one of every candidate though one is picked.
