------------------------------- MODULE Heads -------------------------------
(***************************************************************************)
(* The new heads of one chain on their way from the websocket connections  *)
(* to its backends to the clients subscribed to them                       *)
(* (internal/backend/stream.go).  Each connection has a goroutine that     *)
(* reads it: marks a head as delivered under one lock, then sends it to    *)
(* the clients under the read side of another, while other connections do  *)
(* the same.                                                               *)
(***************************************************************************)
EXTENDS Naturals, Sequences, FiniteSets, SequencesExt

CONSTANTS
  Client,     \* WebSocket clients of the chain, by id: an id is used once
  Conn,       \* connections to the chain's backends that carry its new heads
  MaxNumber,  \* bound: block numbers a backend may send
  Hash,
  NoHash,     \* the empty hash: of a payload that is not a header, and what
              \* a height without a delivered header reads as
  Depth,      \* the chain's max_reorg_depth
  MaxFeed     \* bound: heads found to be news

ASSUME HeadsAssumption ==
  /\ NoHash \notin Hash
  /\ MaxNumber \in Nat /\ Depth \in Nat /\ MaxFeed \in Nat

Header == [number : 1..MaxNumber, hash : Hash]

\* What ExtractBlockInfo may make of a notification: 0 and no hash included.
Payload == [number : 0..MaxNumber, hash : Hash \cup {NoHash}]

VARIABLES
  delivered,  \* the hash last delivered at each height, NoHash if none
  stage,      \* where the goroutine reading each connection stands
  entry,      \* the entry of the feed it is about to send or sending
  to,         \* the clients it has still to look at
  client,     \* where each client stands
  newHeads,   \* the clients with a newHeads subscription
  feed,       \* history: the heads found to be news, in that order
  heard,      \* history: the entries of the feed sent to each client, in order
  owed        \* history: for each entry, the clients that were subscribed when
              \* it was marked and have been, and connected, ever since

vars == <<delivered, stage, entry, to, client, newHeads, feed, heard, owed>>

ClientStates == {"new", "up", "cut", "gone"}

\* Type invariant: every variable keeps its type, whatever the backends send
\* and whenever clients come and go.
TypeOK ==
  /\ delivered \in [1..MaxNumber -> Hash \cup {NoHash}]
  /\ stage \in [Conn -> {"reading", "marked", "notifying"}]
  /\ entry \in [Conn -> 0..MaxFeed]
  /\ to \in [Conn -> SUBSET Client]
  /\ client \in [Client -> ClientStates]
  /\ newHeads \subseteq Client
  /\ feed \in Seq(Header) /\ Len(feed) <= MaxFeed
  /\ heard \in [Client -> Seq(1..MaxFeed)]
  /\ owed \in [DOMAIN feed -> SUBSET Client]

Init ==
  /\ delivered = [n \in 1..MaxNumber |-> NoHash]
  /\ stage = [k \in Conn |-> "reading"]
  /\ entry = [k \in Conn |-> 0]
  /\ to = [k \in Conn |-> {}]
  /\ client = [c \in Client |-> "new"]
  /\ newHeads = {}
  /\ feed = <<>>
  /\ heard = [c \in Client |-> <<>>]
  /\ owed = <<>>

-----------------------------------------------------------------------------
\* wm.mu is held for reading while notifyBlockSubscribers runs: clients are
\* added to wm.clients and removed from it only in between.
ReadLocked == \E k \in Conn : stage[k] = "notifying"

Listed == {c \in Client : client[c] \in {"up", "cut"}}

Release(c) == owed' = [i \in DOMAIN owed |-> owed[i] \ {c}]

Connects(c) ==
  /\ client[c] = "new"
  /\ ~ReadLocked
  /\ client' = [client EXCEPT ![c] = "up"]
  /\ UNCHANGED <<delivered, stage, entry, to, newHeads, feed, heard, owed>>

\* A client's connection breaks: what is written to it from here on is lost.
Breaks(c) ==
  /\ client[c] = "up"
  /\ client' = [client EXCEPT ![c] = "cut"]
  /\ Release(c)
  /\ UNCHANGED <<delivered, stage, entry, to, newHeads, feed, heard>>

\* Its handler reads the error and removes the client.
Removed(c) ==
  /\ client[c] = "cut"
  /\ ~ReadLocked
  /\ client' = [client EXCEPT ![c] = "gone"]
  /\ UNCHANGED <<delivered, stage, entry, to, newHeads, feed, heard, owed>>

\* The client's own subscriptions are guarded by its own lock, which the
\* goroutine that notifies it does not take.
Subscribes(c) ==
  /\ client[c] = "up"
  /\ c \notin newHeads
  /\ newHeads' = newHeads \cup {c}
  /\ UNCHANGED <<delivered, stage, entry, to, client, feed, heard, owed>>

Unsubscribes(c) ==
  /\ client[c] = "up"
  /\ c \in newHeads
  /\ newHeads' = newHeads \ {c}
  /\ Release(c)
  /\ UNCHANGED <<delivered, stage, entry, to, client, feed, heard>>

-----------------------------------------------------------------------------
Remembered(hashes) == {n \in 1..MaxNumber : hashes[n] # NoHash}

\* Mutant: forgets a height within the reorg depth.
PruneEarly(hashes, number) ==
  IF Cardinality(Remembered(hashes)) > Depth /\ number > Depth
    THEN [n \in DOMAIN hashes |-> IF n < number - Depth + 1 THEN NoHash ELSE hashes[n]]
    ELSE hashes

\* What is kept of the hashes once the header of a block has been recorded.
Prune(hashes, number) ==
  IF Cardinality(Remembered(hashes)) > Depth /\ number > Depth
    THEN [n \in DOMAIN hashes |-> IF n < number - Depth THEN NoHash ELSE hashes[n]]
    ELSE hashes

\* Mutant: a header without a hash passes.
IsNumbered(payload) == payload.number # 0

\* ExtractBlockInfo found a header in the payload.
IsHeader(payload) == payload.number # 0 /\ payload.hash # NoHash

IsNews(head) == delivered[head.number] # head.hash

\* handleBlockNotification up to and including markDelivered.  A payload that
\* is no header and a head that is no news leave everything as it is.
MarkDelivered(k, payload) ==
  /\ stage[k] = "reading"
  /\ IsHeader(payload)
  /\ IsNews(payload)
  /\ Len(feed) < MaxFeed
  /\ delivered' = Prune([delivered EXCEPT ![payload.number] = payload.hash], payload.number)
  /\ stage' = [stage EXCEPT ![k] = "marked"]
  /\ entry' = [entry EXCEPT ![k] = Len(feed) + 1]
  /\ feed' = Append(feed, payload)
  /\ owed' = Append(owed, {c \in newHeads : client[c] = "up"})
  /\ UNCHANGED <<to, client, newHeads, heard>>

\* notifyBlockSubscribers takes wm.mu and starts on the clients.
NotifyBegins(k) ==
  /\ stage[k] = "marked"
  /\ stage' = [stage EXCEPT ![k] = "notifying"]
  /\ to' = [to EXCEPT ![k] = Listed]
  /\ UNCHANGED <<delivered, entry, client, newHeads, feed, heard, owed>>

\* Mutant: the first client without a subscription ends the loop.
LeftToNotifyStops(k, c) == IF c \in newHeads THEN to[k] \ {c} ELSE {}

LeftToNotify(k, c) == to[k] \ {c}

\* One client, in the order of a map: any.
NotifyClient(k, c) ==
  /\ stage[k] = "notifying"
  /\ c \in to[k]
  /\ to' = [to EXCEPT ![k] = LeftToNotify(k, c)]
  /\ heard' = IF c \in newHeads /\ client[c] = "up"
                THEN [heard EXCEPT ![c] = Append(@, entry[k])]
                ELSE heard
  /\ UNCHANGED <<delivered, stage, entry, client, newHeads, feed, owed>>

NotifyEnds(k) ==
  /\ stage[k] = "notifying"
  /\ to[k] = {}
  /\ stage' = [stage EXCEPT ![k] = "reading"]
  /\ entry' = [entry EXCEPT ![k] = 0]
  /\ UNCHANGED <<delivered, to, client, newHeads, feed, heard, owed>>

Next ==
  \/ \E c \in Client :
       Connects(c) \/ Breaks(c) \/ Removed(c) \/ Subscribes(c) \/ Unsubscribes(c)
  \/ \E k \in Conn :
       \/ \E payload \in Payload : MarkDelivered(k, payload)
       \/ NotifyBegins(k)
       \/ \E c \in Client : NotifyClient(k, c)
       \/ NotifyEnds(k)

Spec == Init /\ [][Next]_vars

-----------------------------------------------------------------------------
HeardBy(c) == Range(heard[c])

InFlight(i) == \E k \in Conn : entry[k] = i

\* Once a head has been sent round, every client that was subscribed when it
\* was marked and still is has got it, also while others came, left,
\* unsubscribed or were being sent other heads (notifyBlockSubscribers).
NoHeadMissed ==
  \A i \in DOMAIN feed :
    InFlight(i) \/ \A c \in owed[i] : i \in HeardBy(c)

Feed == INSTANCE HeadFeed WITH
  Client <- Client, Header <- Header, Depth <- Depth, feed <- feed, heard <- heard

\* The clients of the chain get one feed, each of its heads at most once, in
\* which a head comes back only after the chain has left it or has moved past
\* the reorg depth, however many backends send it and in whatever order
\* (markDelivered, notifyBlockSubscribers).
FeedPromise == Feed!Spec

\* The entries at one height that were sent to a client, in the order it got them.
HeardAt(c, number) == SelectSeq(heard[c], LAMBDA i : feed[i].number = number)

\* "markDelivered records the header as the one delivered at its height": with
\* nothing on its way, a client that got that header heard it last at its height.
RecordedIsDelivered ==
  (\A k \in Conn : stage[k] = "reading") =>
    \A c \in Client : \A i \in HeardBy(c) :
      Feed!IsLatestAt(i, feed[i].number) => Last(HeardAt(c, feed[i].number)) = i
=============================================================================
