------------------------------- MODULE Stream -------------------------------
(***************************************************************************)
(* Subscriptions and the websocket connections that carry them             *)
(* (internal/backend/stream.go): the handler of each client subscribes,    *)
(* unsubscribes, calls and leaves; connections break; the sanity loop      *)
(* moves the subscriptions of a backend that has gone quiet to another.    *)
(* Four maps tell of a subscription - the client's, the manager's, that of *)
(* its connection, and the subscription's own backend - and no lock covers *)
(* two of them.  Which heads reach the clients is the subject of Heads.    *)
(***************************************************************************)
EXTENDS Naturals, Sequences, FiniteSets, SequencesExt, FiniteSetsExt

CONSTANTS
  Client,
  Sub,         \* the ids generateSubscriptionID gives, each once
  Owner,       \* whose each will be
  Backend,     \* those of one chain that speak websocket
  Conn,        \* bound: connections there can be at a time
  MaxConns,    \* MaxConnectionsPerBackend
  MaxSubs,     \* MaxSubscriptionsPerConnection
  MaxBreaks,   \* bound: connections that break by themselves
  Sanity,      \* the sanity loop
  None

Actor == Client \cup {Sanity}

ASSUME StreamAssumption ==
  /\ Owner \in [Sub -> Client]
  /\ MaxConns \in Nat \ {0} /\ MaxSubs \in Nat \ {0} /\ MaxBreaks \in Nat
  /\ Sanity \notin Client
  /\ None \notin Sub \cup Backend \cup Conn
  /\ IsFiniteSet(Client) /\ IsFiniteSet(Conn)

VARIABLES
  client,      \* where each client stands; it is in wm.clients while "up"
  held,        \* the subscriptions in their client's Subscriptions
  registered,  \* those in wm.subscriptions
  backend,     \* the Backend field of each, None until it is created
  list,        \* wm.connections: the connections of each backend
  home,        \* the Backend field of each connection
  life,        \* whether there is one, and how far closeWSConnection has got
  carries,     \* its Subscriptions
  breaks,      \* bound: how many have broken
  headAge,     \* lastBlockTime: past two block times is "stale"
  at,          \* where each actor stands
  job,         \* the subscription a handler is busy with, None for a call
  goal,        \* getOrCreateWSConnection: the backend asked for,
  view,        \*   the list of connections as read,
  got,         \*   and the connection returned; for Sanity also one it closes
  quiet,       \* checkBlockSanity: the stale backends still to reset
  from,        \* resetBackendConnections: the stale backend,
  affected,    \*   the subscriptions found to be on it,
  doomed,      \*   and the connections found to carry none
  lost         \* history: registered, but their connection never came about
               \* or was closed already when they were added to it

clientVars == <<client, held, registered, backend>>
connVars == <<list, home, life, carries, breaks>>
actorVars == <<at, job, goal, view, got>>
sanityVars == <<quiet, from, affected, doomed>>
vars == <<clientVars, connVars, headAge, actorVars, sanityVars, lost>>

Lives == {"none", "open", "closing", "unlisted"}

HandlerStages == {"idle", "unregistering", "unhooking"}
ConnectStages == {"connecting", "choosing", "dialing", "connected"}
SanityStages == {"idle", "resetting", "closing", "awaiting"}

\* The connections that are still to be taken off the list are on it, once, under
\* their own backend.
ListsMatch ==
  /\ \A b \in Backend : IsInjective(list[b])
  /\ \A b \in Backend, k \in Conn :
       k \in ToSet(list[b]) <=> life[k] \in {"open", "closing"} /\ home[k] = b

\* Type invariant: every variable keeps its type, whatever breaks in between.
TypeOK ==
  /\ ListsMatch
  /\ client \in [Client -> {"new", "up", "leaving", "gone"}]
  /\ held \subseteq Sub /\ registered \subseteq Sub
  /\ backend \in [Sub -> Backend \cup {None}]
  /\ list \in [Backend -> Seq(Conn)]
  /\ home \in [Conn -> Backend \cup {None}]
  /\ life \in [Conn -> Lives]
  /\ carries \in [Conn -> SUBSET Sub]
  /\ breaks \in 0..MaxBreaks
  /\ headAge \in [Backend -> {"none", "fresh", "stale"}]
  /\ at \in [Actor -> HandlerStages \cup ConnectStages \cup SanityStages]
  /\ job \in [Client -> Sub \cup {None}]
  /\ goal \in [Actor -> Backend \cup {None}]
  /\ view \in [Actor -> Seq(Conn)]
  /\ got \in [Actor -> Conn \cup {None}]
  /\ quiet \subseteq Backend
  /\ from \in Backend \cup {None}
  /\ affected \subseteq Sub
  /\ doomed \subseteq Conn
  /\ lost \subseteq Sub

Init ==
  /\ client = [c \in Client |-> "new"]
  /\ held = {} /\ registered = {}
  /\ backend = [s \in Sub |-> None]
  /\ list = [b \in Backend |-> <<>>]
  /\ home = [k \in Conn |-> None]
  /\ life = [k \in Conn |-> "none"]
  /\ carries = [k \in Conn |-> {}]
  /\ breaks = 0
  /\ headAge = [b \in Backend |-> "none"]
  /\ at = [a \in Actor |-> "idle"]
  /\ job = [c \in Client |-> None]
  /\ goal = [a \in Actor |-> None]
  /\ view = [a \in Actor |-> <<>>]
  /\ got = [a \in Actor |-> None]
  /\ quiet = {} /\ from = None /\ affected = {} /\ doomed = {}
  /\ lost = {}

Owned(c) == {s \in Sub : Owner[s] = c}

\* closed.Load() is false: "closing" is the swap that makes it true.
IsOpen(k) == life[k] = "open"

\* closeWSConnection has yet to get to its end: what a connection carries after
\* that is never looked at, and not kept here.
IsLive(k) == life[k] # "none"

\* getWSConnection: the first open connection of a backend, None if it has none.
FirstOpen(b) ==
  LET open == SelectSeq(list[b], IsOpen) IN IF open = <<>> THEN None ELSE open[1]

-----------------------------------------------------------------------------
(* A client's handler reads one message after the other.                   *)

Ready(c) == client[c] = "up" /\ at[c] = "idle"

Asks(a, b) ==
  /\ at' = [at EXCEPT ![a] = "connecting"]
  /\ goal' = [goal EXCEPT ![a] = b]
  /\ UNCHANGED <<view, got>>

\* HandleWebSocket up to its loop.
Connects(c) ==
  /\ client[c] = "new"
  /\ client' = [client EXCEPT ![c] = "up"]
  /\ UNCHANGED <<held, registered, backend, connVars, headAge, actorVars, sanityVars, lost>>

\* handleSubscribe: the subscription enters both maps before there is a
\* connection to carry it.
Subscribe(c, s, b) ==
  /\ Ready(c)
  /\ s \in Owned(c) /\ backend[s] = None
  /\ backend' = [backend EXCEPT ![s] = b]
  /\ held' = held \cup {s}
  /\ registered' = registered \cup {s}
  /\ job' = [job EXCEPT ![c] = s]
  /\ Asks(c, b)
  /\ UNCHANGED <<client, connVars, headAge, sanityVars, lost>>

\* handleRPCCall.
Call(c, b) ==
  /\ Ready(c)
  /\ Asks(c, b)
  /\ UNCHANGED <<clientVars, connVars, headAge, job, sanityVars, lost>>

\* handleSubscribe and handleRPCCall once they have a connection.  Whether the
\* message can be written only decides what the client is told.
Connected(c) ==
  /\ at[c] = "connected"
  /\ IF IsLive(got[c])
       THEN /\ carries' = [carries EXCEPT ![got[c]] = @ \cup ({job[c]} \ {None})]
            /\ UNCHANGED lost
       ELSE /\ lost' = lost \cup ({job[c]} \ {None})
            /\ UNCHANGED carries
  /\ at' = [at EXCEPT ![c] = "idle"]
  /\ job' = [job EXCEPT ![c] = None]
  /\ got' = [got EXCEPT ![c] = None]
  /\ goal' = [goal EXCEPT ![c] = None]
  /\ UNCHANGED <<clientVars, list, home, life, breaks, headAge, view, sanityVars>>

\* handleUnsubscribe takes it from the client,
Unsubscribe(c, s) ==
  /\ Ready(c)
  /\ s \in held \cap Owned(c)
  /\ held' = held \ {s}
  /\ at' = [at EXCEPT ![c] = "unregistering"]
  /\ job' = [job EXCEPT ![c] = s]
  /\ UNCHANGED <<client, registered, backend, connVars, headAge, goal, view, got, sanityVars, lost>>

\* Mutant: unsubscribing leaves the manager's map alone.
WithoutNone(s) == registered

Without(s) == registered \ {s}

\* then from the manager,
Unregister(c) ==
  /\ at[c] = "unregistering"
  /\ registered' = Without(job[c])
  /\ at' = [at EXCEPT ![c] = "unhooking"]
  /\ UNCHANGED <<client, held, backend, connVars, headAge, job, goal, view, got, sanityVars, lost>>

\* then from the first open connection of its backend, be it the one or not.
Unhook(c) ==
  /\ at[c] = "unhooking"
  /\ LET k == FirstOpen(backend[job[c]]) IN
       carries' = IF k = None THEN carries ELSE [carries EXCEPT ![k] = @ \ {job[c]}]
  /\ at' = [at EXCEPT ![c] = "idle"]
  /\ job' = [job EXCEPT ![c] = None]
  /\ UNCHANGED <<clientVars, list, home, life, breaks, headAge, goal, view, got, sanityVars, lost>>

\* The read fails: removeClient deletes the client, then its subscriptions
\* from the manager's map.  Their connections keep them.
Leaves(c) ==
  /\ Ready(c)
  /\ client' = [client EXCEPT ![c] = "leaving"]
  /\ UNCHANGED <<held, registered, backend, connVars, headAge, actorVars, sanityVars, lost>>

Removed(c) ==
  /\ client[c] = "leaving"
  /\ client' = [client EXCEPT ![c] = "gone"]
  /\ registered' = registered \ (held \cap Owned(c))
  /\ UNCHANGED <<held, backend, connVars, headAge, actorVars, sanityVars, lost>>

-----------------------------------------------------------------------------
(* resetBackendConnections, one stale backend after the other.             *)

NextReset ==
  /\ quiet' = quiet \ {from}
  /\ at' = [at EXCEPT ![Sanity] = IF quiet = {from} THEN "idle" ELSE "resetting"]
  /\ from' = None
  /\ affected' = {}

OnBackend(b) == {s \in registered : backend[s] = b}

\* checkBlockSanity: every subscription is one of newHeads or logs.
SanityTick ==
  /\ at[Sanity] = "idle"
  /\ quiet' = {b \in Backend : headAge[b] = "stale" /\ OnBackend(b) # {}}
  /\ quiet' # {}
  /\ at' = [at EXCEPT ![Sanity] = "resetting"]
  /\ UNCHANGED <<clientVars, connVars, headAge, job, goal, view, got, from, affected, doomed, lost>>

\* The subscriptions on the stale backend, and another backend for them.
Reset(b, to) ==
  /\ at[Sanity] = "resetting"
  /\ b \in quiet
  /\ to # b
  /\ OnBackend(b) # {}
  /\ from' = b
  /\ affected' = OnBackend(b)
  /\ Asks(Sanity, to)
  /\ UNCHANGED <<clientVars, connVars, headAge, job, quiet, doomed, lost>>

\* None is left on it, or no other backend was picked.
ResetNothing(b) ==
  /\ at[Sanity] = "resetting"
  /\ b \in quiet
  /\ quiet' = quiet \ {b}
  /\ at' = [at EXCEPT ![Sanity] = IF quiet = {b} THEN "idle" ELSE "resetting"]
  /\ UNCHANGED <<clientVars, connVars, headAge, job, goal, view, got, from, affected, doomed, lost>>

\* Mutant: the subscription keeps its old backend.
MovedNot(to) == backend

Moved(to) == [s \in Sub |-> IF s \in affected THEN to ELSE backend[s]]

\* Mutant: the subscriptions are only taken off the old connection.
CarriedOnlyDropped(old, new) ==
  [k \in Conn |-> IF k = old THEN carries[k] \ affected ELSE carries[k]]

CarriedAfter(old, new) ==
  [k \in Conn |-> IF k = new /\ IsLive(k) THEN carries[k] \cup affected
                  ELSE IF k = old THEN carries[k] \ affected
                  ELSE carries[k]]

\* The move, under wm.mu; then the stale backend's connections that carry
\* nothing are listed for closing.
Migrate ==
  /\ at[Sanity] = "connected"
  /\ backend' = Moved(goal[Sanity])
  /\ carries' = CarriedAfter(FirstOpen(from), got[Sanity])
  /\ lost' = IF IsLive(got[Sanity]) THEN lost \ affected ELSE lost \cup affected
  /\ doomed' = {k \in ToSet(list[from]) : carries'[k] = {}}
  /\ at' = [at EXCEPT ![Sanity] = "closing"]
  /\ got' = [got EXCEPT ![Sanity] = None]
  /\ goal' = [goal EXCEPT ![Sanity] = None]
  /\ UNCHANGED <<client, held, registered, list, home, life, breaks, headAge, job, view,
                 quiet, from, affected>>

\* closeBackendConnection: the next of them, if nobody else has closed it.
CloseNext(k) ==
  /\ at[Sanity] = "closing"
  /\ k \in doomed
  /\ doomed' = doomed \ {k}
  /\ IF IsOpen(k)
       THEN /\ life' = [life EXCEPT ![k] = "closing"]
            /\ at' = [at EXCEPT ![Sanity] = "awaiting"]
            /\ got' = [got EXCEPT ![Sanity] = k]
       ELSE UNCHANGED <<life, at, got>>
  /\ UNCHANGED <<clientVars, list, home, carries, breaks, headAge, job, goal, view,
                 quiet, from, affected, lost>>

\* Its call of closeWSConnection is over.
ClosedNext ==
  /\ at[Sanity] = "awaiting"
  /\ ~IsLive(got[Sanity])
  /\ at' = [at EXCEPT ![Sanity] = "closing"]
  /\ got' = [got EXCEPT ![Sanity] = None]
  /\ UNCHANGED <<clientVars, connVars, headAge, job, goal, view, sanityVars, lost>>

ForgetHead ==
  /\ at[Sanity] = "closing"
  /\ doomed = {}
  /\ headAge' = [headAge EXCEPT ![from] = "none"]
  /\ NextReset
  /\ UNCHANGED <<clientVars, connVars, job, goal, view, got, doomed, lost>>

-----------------------------------------------------------------------------
(* getOrCreateWSConnection, for whoever called it.                         *)

\* The caller gets an error: a subscription stays registered with nothing to
\* carry it, the sanity loop leaves this backend for its next tick.
ConnectFails(a) ==
  /\ goal' = [goal EXCEPT ![a] = None]
  /\ view' = [view EXCEPT ![a] = <<>>]
  /\ IF a = Sanity
       THEN NextReset /\ UNCHANGED <<job, lost>>
       ELSE /\ at' = [at EXCEPT ![a] = "idle"]
            /\ job' = [job EXCEPT ![a] = None]
            /\ lost' = lost \cup ({job[a]} \ {None})
            /\ UNCHANGED <<quiet, from, affected>>
  /\ UNCHANGED <<clientVars, connVars, headAge, got, doomed>>

Gets(a, k) ==
  /\ at' = [at EXCEPT ![a] = "connected"]
  /\ got' = [got EXCEPT ![a] = k]
  /\ view' = [view EXCEPT ![a] = <<>>]
  /\ UNCHANGED <<clientVars, headAge, job, goal, sanityVars, lost>>

\* Mutant: the list is looked up under another key than it is kept under.
ListOfUnkeyed(b) == <<>>

ListOf(b) == list[b]

\* The list is read under wm.mu, and used without it.
ReadList(a) ==
  /\ at[a] = "connecting"
  /\ at' = [at EXCEPT ![a] = "choosing"]
  /\ view' = [view EXCEPT ![a] = ListOf(goal[a])]
  /\ UNCHANGED <<clientVars, connVars, headAge, job, goal, got, sanityVars, lost>>

\* closeWSConnection shifts the list in place: a reader sees what it read, or
\* what has become of it since, but never beyond the length it read.
AsSeen(a) ==
  {view[a], SubSeq(list[goal[a]], 1, Min({Len(view[a]), Len(list[goal[a]])}))}

Load(k) == Cardinality(carries[k])

HasRoom(k) == IsOpen(k) /\ Load(k) < MaxSubs

NoRoom(seen) == \A i \in DOMAIN seen : ~HasRoom(seen[i])

MayDial(seen) == Len(seen) < MaxConns

\* The first open connection with room,
ChooseRoom(a) ==
  /\ at[a] = "choosing"
  /\ \E seen \in AsSeen(a) : \E i \in DOMAIN seen :
       /\ HasRoom(seen[i])
       /\ NoRoom(SubSeq(seen, 1, i - 1))
       /\ Gets(a, seen[i])
  /\ UNCHANGED connVars

\* or else a new one while there are few,
ChooseDial(a) ==
  /\ at[a] = "choosing"
  /\ \E seen \in AsSeen(a) : NoRoom(seen)
  /\ MayDial(view[a])
  /\ at' = [at EXCEPT ![a] = "dialing"]
  /\ UNCHANGED <<clientVars, connVars, headAge, job, goal, view, got, sanityVars, lost>>

\* or else the open one that carries least, the first if there are several,
ChooseLeastLoaded(a) ==
  /\ at[a] = "choosing"
  /\ ~MayDial(view[a])
  /\ \E seen \in AsSeen(a) : \E i \in DOMAIN seen :
       /\ NoRoom(seen)
       /\ IsOpen(seen[i])
       /\ \A j \in DOMAIN seen :
            IsOpen(seen[j]) => Load(seen[i]) < Load(seen[j]) + (IF i <= j THEN 1 ELSE 0)
       /\ Gets(a, seen[i])
  /\ UNCHANGED connVars

\* or else none.
ChooseNone(a) ==
  /\ at[a] = "choosing"
  /\ ~MayDial(view[a])
  /\ \E seen \in AsSeen(a) : \A i \in DOMAIN seen : ~IsOpen(seen[i])
  /\ ConnectFails(a)

\* A connection nobody refers to any more: its name can be used again.
IsFree(k) ==
  /\ ~IsLive(k)
  /\ k \notin doomed
  /\ \A a \in Actor : got[a] # k /\ k \notin ToSet(view[a])

\* createWSConnection: dials, and enters the connection in the list.
Dial(a) ==
  /\ at[a] = "dialing"
  /\ \E k \in Conn : IsFree(k)
  /\ LET k == CHOOSE l \in Conn : IsFree(l) IN
       /\ list' = [list EXCEPT ![goal[a]] = Append(@, k)]
       /\ home' = [home EXCEPT ![k] = goal[a]]
       /\ life' = [life EXCEPT ![k] = "open"]
       /\ Gets(a, k)
  /\ UNCHANGED <<carries, breaks>>

DialFails(a) ==
  /\ at[a] = "dialing"
  /\ ConnectFails(a)

-----------------------------------------------------------------------------
(* A connection: its heads, and closeWSConnection.                         *)

\* Its reader fails or its ping loop gives it up.
Breaks(k) ==
  /\ IsOpen(k)
  /\ breaks < MaxBreaks
  /\ breaks' = breaks + 1
  /\ life' = [life EXCEPT ![k] = "closing"]
  /\ UNCHANGED <<clientVars, list, home, carries, headAge, actorVars, sanityVars, lost>>

\* Mutant: only the last connection of the list can be taken off it.
DelistedLast(k) == IF Last(list[home[k]]) = k THEN Front(list[home[k]]) ELSE list[home[k]]

Delisted(k) == RemoveFirst(list[home[k]], k)

Unlist(k) ==
  /\ life[k] = "closing"
  /\ life' = [life EXCEPT ![k] = "unlisted"]
  /\ list' = [list EXCEPT ![home[k]] = Delisted(k)]
  /\ UNCHANGED <<clientVars, home, carries, breaks, headAge, actorVars, sanityVars, lost>>

AfterClose(k) == registered \ carries[k]

Purge(k) ==
  /\ life[k] = "unlisted"
  /\ registered' = AfterClose(k)
  /\ life' = [life EXCEPT ![k] = "none"]
  /\ carries' = [carries EXCEPT ![k] = {}]
  /\ home' = [home EXCEPT ![k] = None]
  /\ UNCHANGED <<client, held, backend, list, breaks, headAge, actorVars, sanityVars, lost>>

\* handleBlockNotification: a head on a subscription the connection carries.
HeadArrives(k) ==
  /\ IsOpen(k)
  /\ carries[k] # {}
  /\ headAge[home[k]] # "fresh"
  /\ headAge' = [headAge EXCEPT ![home[k]] = "fresh"]
  /\ UNCHANGED <<clientVars, connVars, actorVars, sanityVars, lost>>

\* Two block times pass without one.
GoesStale(b) ==
  /\ headAge[b] = "fresh"
  /\ headAge' = [headAge EXCEPT ![b] = "stale"]
  /\ UNCHANGED <<clientVars, connVars, actorVars, sanityVars, lost>>

Next ==
  \/ \E c \in Client :
       \/ Connects(c) \/ Connected(c) \/ Unregister(c) \/ Unhook(c) \/ Leaves(c) \/ Removed(c)
       \/ \E s \in Sub : Unsubscribe(c, s)
       \/ \E b \in Backend : Call(c, b) \/ \E s \in Sub : Subscribe(c, s, b)
  \/ \E a \in Actor :
       \/ ReadList(a) \/ ChooseRoom(a) \/ ChooseDial(a) \/ ChooseLeastLoaded(a)
       \/ ChooseNone(a) \/ Dial(a) \/ DialFails(a)
  \/ SanityTick \/ Migrate \/ ClosedNext \/ ForgetHead
  \/ \E b \in Backend : ResetNothing(b) \/ GoesStale(b) \/ \E to \in Backend : Reset(b, to)
  \/ \E k \in Conn :
       Breaks(k) \/ Unlist(k) \/ Purge(k) \/ HeadArrives(k) \/ CloseNext(k)

Spec == Init /\ [][Next]_vars
=============================================================================
