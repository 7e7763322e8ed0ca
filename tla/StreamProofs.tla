---------------------------- MODULE StreamProofs ----------------------------
(***************************************************************************)
(* The subscription maps of Stream agree for any clients, backends,        *)
(* connections and limits: what needs no lock over two of the maps is that *)
(* each client has one handler, which does one thing after the other.      *)
(***************************************************************************)
EXTENDS StreamProperties, FiniteSetTheorems, SequenceTheorems, TLAPS

\* What the steps need of the types.
Types ==
  /\ client \in [Client -> {"new", "up", "leaving", "gone"}]
  /\ at \in [Actor -> HandlerStages \cup ConnectStages \cup SanityStages]
  /\ job \in [Client -> Sub \cup {None}]
  /\ registered \subseteq Sub

\* Each subscription is a client's, and the sanity loop is none.
LEMMA Owners == Owner \in [Sub -> Client] /\ Sanity \notin Client
  BY StreamAssumption DEF StreamAssumption

\* A handler that is busy belongs to a client that has not begun to leave:
\* removeClient comes after the handler's loop.
BusyIsUp == \A c \in Client : at[c] # "idle" => client[c] = "up"

\* The inductive invariant.
HandlerInv == Types /\ BusyIsUp /\ RegisteredIsHeld

\* Neither the sanity loop nor a connection touches what HandlerInv is about,
\* but that a connection that closes takes subscriptions out of wm.subscriptions.
LEMMA OthersKeep ==
  ASSUME HandlerInv, registered' \subseteq registered, UNCHANGED <<client, held, job>>,
         at' \in [Actor -> HandlerStages \cup ConnectStages \cup SanityStages],
         \A c \in Client : at'[c] = at[c]
  PROVE  HandlerInv'
<1>1. Types' /\ BusyIsUp'
  BY DEF HandlerInv, Types, BusyIsUp
<1>2. RegisteredIsHeld'
  BY Owners DEF HandlerInv, Types, RegisteredIsHeld
<1> QED
  BY <1>1, <1>2 DEF HandlerInv

\* A handler that connects goes from stage to stage and registers nothing.
LEMMA ConnectingKeeps ==
  ASSUME HandlerInv, NEW a \in Client, UNCHANGED <<client, held, registered>>,
         at[a] \in ConnectStages,
         NEW stage \in {"idle"} \cup ConnectStages, at' = [at EXCEPT ![a] = stage],
         job' \in [Client -> Sub \cup {None}],
         \A c \in Client \ {a} : job'[c] = job[c]
  PROVE  HandlerInv'
<1> USE DEF Actor, HandlerStages, ConnectStages, SanityStages
<1>1. Types' /\ BusyIsUp'
  BY DEF HandlerInv, Types, BusyIsUp
<1>2. RegisteredIsHeld'
  BY Owners DEF HandlerInv, Types, RegisteredIsHeld
<1> QED
  BY <1>1, <1>2 DEF HandlerInv

\* Each step of a handler keeps the invariant.
LEMMA HandlerStep ==
  ASSUME HandlerInv, NEW c \in Client,
         \/ Connects(c) \/ Connected(c) \/ Unregister(c) \/ Unhook(c) \/ Leaves(c) \/ Removed(c)
         \/ \E s \in Sub : Unsubscribe(c, s)
         \/ \E b \in Backend : Call(c, b) \/ \E s \in Sub : Subscribe(c, s, b)
  PROVE  HandlerInv'
<1> USE Owners DEF HandlerInv, Actor, HandlerStages, ConnectStages, SanityStages
<1>1. CASE Connects(c)
  BY <1>1 DEF Connects, Types, BusyIsUp, RegisteredIsHeld, actorVars
<1>2. CASE Connected(c)
  <2>1. job' \in [Client -> Sub \cup {None}] /\ \A d \in Client \ {c} : job'[d] = job[d]
    BY <1>2 DEF Connected, Types
  <2> QED
    BY <1>2, <2>1, ConnectingKeeps DEF Connected, clientVars
<1>3. CASE Unregister(c)
  BY <1>3 DEF Unregister, Without, Types, BusyIsUp, RegisteredIsHeld
<1>4. CASE Unhook(c)
  BY <1>4 DEF Unhook, Types, BusyIsUp, RegisteredIsHeld, clientVars
<1>5. CASE Leaves(c)
  BY <1>5 DEF Leaves, Ready, Types, BusyIsUp, RegisteredIsHeld, actorVars
<1>6. CASE Removed(c)
  BY <1>6 DEF Removed, Owned, Types, BusyIsUp, RegisteredIsHeld, actorVars
<1>7. ASSUME NEW s \in Sub, Unsubscribe(c, s) PROVE HandlerInv'
  BY <1>7 DEF Unsubscribe, Ready, Owned, Types, BusyIsUp, RegisteredIsHeld
<1>8. ASSUME NEW b \in Backend, Call(c, b) PROVE HandlerInv'
  BY <1>8 DEF Call, Asks, Ready, Types, BusyIsUp, RegisteredIsHeld, clientVars
<1>9. ASSUME NEW b \in Backend, NEW s \in Sub, Subscribe(c, s, b) PROVE HandlerInv'
  BY <1>9 DEF Subscribe, Asks, Ready, Owned, Types, BusyIsUp, RegisteredIsHeld
<1> QED
  BY <1>1, <1>2, <1>3, <1>4, <1>5, <1>6, <1>7, <1>8, <1>9

\* Each step of getOrCreateWSConnection does, whoever called it.
LEMMA ConnectStep ==
  ASSUME HandlerInv, NEW a \in Actor,
         \/ ReadList(a) \/ ChooseRoom(a) \/ ChooseDial(a) \/ ChooseLeastLoaded(a)
         \/ ChooseNone(a) \/ Dial(a) \/ DialFails(a)
  PROVE  HandlerInv'
<1>1. at[a] \in ConnectStages /\ UNCHANGED <<client, held, registered>>
  BY DEF ReadList, ChooseRoom, ChooseDial, ChooseLeastLoaded, ChooseNone, Dial, DialFails,
         Gets, ConnectFails, ConnectStages, clientVars
<1>2. CASE a \in Client
  <2>1. job' \in [Client -> Sub \cup {None}] /\ \A c \in Client \ {a} : job'[c] = job[c]
    BY <1>2, Owners
       DEF ReadList, ChooseRoom, ChooseDial, ChooseLeastLoaded, ChooseNone, Dial, DialFails,
           Gets, ConnectFails, HandlerInv, Types
  <2>2. \E stage \in {"idle"} \cup ConnectStages : at' = [at EXCEPT ![a] = stage]
    <3>1. CASE ChooseNone(a) \/ DialFails(a)
      <4>1. at' = [at EXCEPT ![a] = "idle"]
        BY <1>2, <3>1, Owners DEF ChooseNone, DialFails, ConnectFails
      <4> QED
        BY <4>1
    <3>2. CASE ReadList(a) \/ ChooseDial(a)
      BY <3>2 DEF ReadList, ChooseDial, ConnectStages
    <3>3. CASE ChooseRoom(a) \/ ChooseLeastLoaded(a) \/ Dial(a)
      <4>1. at' = [at EXCEPT ![a] = "connected"]
        BY <3>3 DEF ChooseRoom, ChooseLeastLoaded, Dial, Gets
      <4> QED
        BY <4>1 DEF ConnectStages
    <3> QED
      BY <3>1, <3>2, <3>3
  <2> QED
    BY <1>1, <1>2, <2>1, <2>2, ConnectingKeeps
<1>3. CASE a = Sanity
  <2>1. job' = job
    BY <1>3 DEF ReadList, ChooseRoom, ChooseDial, ChooseLeastLoaded, ChooseNone, Dial, DialFails,
                Gets, ConnectFails
  <2>2. \E stage \in SanityStages \cup ConnectStages : at' = [at EXCEPT ![Sanity] = stage]
    BY <1>3 DEF ReadList, ChooseRoom, ChooseDial, ChooseLeastLoaded, ChooseNone, Dial, DialFails,
                Gets, ConnectFails, NextReset, ConnectStages, SanityStages
  <2>3. /\ at' \in [Actor -> HandlerStages \cup ConnectStages \cup SanityStages]
        /\ \A c \in Client : at'[c] = at[c]
    BY <2>2, Owners DEF HandlerInv, Types, Actor
  <2> QED
    BY <1>1, <2>1, <2>3, OthersKeep
<1> QED
  BY <1>2, <1>3 DEF Actor

\* The sanity loop's own steps and those of the connections do.
LEMMA OtherStep ==
  ASSUME HandlerInv,
         \/ SanityTick \/ Migrate \/ ClosedNext \/ ForgetHead
         \/ \E b \in Backend : ResetNothing(b) \/ GoesStale(b) \/ \E to \in Backend : Reset(b, to)
         \/ \E k \in Conn :
              Breaks(k) \/ Unlist(k) \/ Purge(k) \/ HeadArrives(k) \/ CloseNext(k)
  PROVE  HandlerInv'
<1>1. registered' \subseteq registered /\ UNCHANGED <<client, held, job>>
  BY DEF SanityTick, Migrate, ClosedNext, ForgetHead, ResetNothing, GoesStale, Reset, Breaks,
         Unlist, Purge, HeadArrives, CloseNext, AfterClose, clientVars, actorVars
<1>2. \/ at' = at
      \/ \E stage \in SanityStages \cup ConnectStages : at' = [at EXCEPT ![Sanity] = stage]
  BY DEF SanityTick, Migrate, ClosedNext, ForgetHead, ResetNothing, GoesStale, Reset, Breaks,
         Unlist, Purge, HeadArrives, CloseNext, NextReset, Asks, SanityStages, ConnectStages,
         actorVars
<1>3. /\ at' \in [Actor -> HandlerStages \cup ConnectStages \cup SanityStages]
      /\ \A c \in Client : at'[c] = at[c]
  BY <1>2, Owners DEF HandlerInv, Types, Actor
<1> QED
  BY <1>1, <1>3, OthersKeep

\* However clients subscribe, unsubscribe and leave while connections close and
\* the sanity loop migrates, wm.subscriptions holds only what a client has
\* (handleSubscribe, handleUnsubscribe, removeClient, closeWSConnection).
THEOREM RegistryAgrees == Spec => []RegisteredIsHeld
<1>1. Init => HandlerInv
  BY DEF Init, HandlerInv, Types, BusyIsUp, RegisteredIsHeld, Actor, HandlerStages
<1>2. HandlerInv /\ [Next]_vars => HandlerInv'
  <2> SUFFICES ASSUME HandlerInv, [Next]_vars PROVE HandlerInv'
    OBVIOUS
  <2>1. CASE UNCHANGED vars
    BY <2>1 DEF HandlerInv, Types, BusyIsUp, RegisteredIsHeld, vars, clientVars, actorVars
  <2>2. CASE Next
    BY <2>2, HandlerStep, ConnectStep, OtherStep DEF Next
  <2> QED
    BY <2>1, <2>2
<1>3. HandlerInv => RegisteredIsHeld
  BY DEF HandlerInv
<1> QED
  BY <1>1, <1>2, <1>3, PTL DEF Spec

-----------------------------------------------------------------------------
\* The lists of connections.

\* What is left of a list without its i-th connection.
LEMMA RemoveAtIs ==
  ASSUME NEW s \in Seq(Conn), NEW i \in DOMAIN s
  PROVE  /\ RemoveAt(s, i) \in Seq(Conn)
         /\ Len(RemoveAt(s, i)) = Len(s) - 1
         /\ \A j \in 1..(Len(s) - 1) : RemoveAt(s, i)[j] = IF j < i THEN s[j] ELSE s[j + 1]
<1> DEFINE p == SubSeq(s, 1, i - 1)
           q == SubSeq(s, i + 1, Len(s))
<1>1. i \in 1..Len(s) /\ Len(s) \in Nat /\ \A j \in 1..Len(s) : s[j] \in Conn
  OBVIOUS
<1>2. p \in Seq(Conn) /\ Len(p) = i - 1 /\ \A j \in 1..(i - 1) : p[j] = s[j]
  <2>1. 1 \in Int /\ i - 1 \in Int /\ \A j \in 1..(i - 1) : s[j] \in Conn
    BY <1>1
  <2>2. /\ p \in Seq(Conn) /\ Len(p) = IF 1 <= i - 1 THEN i - 1 - 1 + 1 ELSE 0
        /\ \A j \in 1..(i - 1 - 1 + 1) : p[j] = s[1 + j - 1]
    BY <2>1, SubSeqProperties
  <2> QED
    BY <1>1, <2>2
<1>3. q \in Seq(Conn) /\ Len(q) = Len(s) - i /\ \A j \in 1..(Len(s) - i) : q[j] = s[i + j]
  <2>1. i + 1 \in Int /\ Len(s) \in Int /\ \A j \in (i + 1)..Len(s) : s[j] \in Conn
    BY <1>1
  <2>2. /\ q \in Seq(Conn) /\ Len(q) = IF i + 1 <= Len(s) THEN Len(s) - (i + 1) + 1 ELSE 0
        /\ \A j \in 1..(Len(s) - (i + 1) + 1) : q[j] = s[(i + 1) + j - 1]
    BY <2>1, SubSeqProperties
  <2> QED
    BY <1>1, <2>2
<1>4. RemoveAt(s, i) = p \o q
  BY DEF RemoveAt
<1> HIDE DEF p, q
<1>5. /\ p \o q \in Seq(Conn) /\ Len(p \o q) = Len(p) + Len(q)
      /\ \A j \in 1..(Len(p) + Len(q)) : (p \o q)[j] = IF j <= Len(p) THEN p[j] ELSE q[j - Len(p)]
  BY <1>2, <1>3
<1>6. Len(p) + Len(q) = Len(s) - 1
  BY <1>1, <1>2, <1>3
<1>7. ASSUME NEW j \in 1..(Len(s) - 1)
      PROVE  RemoveAt(s, i)[j] = IF j < i THEN s[j] ELSE s[j + 1]
  <2>1. (p \o q)[j] = IF j <= i - 1 THEN p[j] ELSE q[j - (i - 1)]
    BY <1>2, <1>5, <1>6
  <2>2. CASE j < i
    <3>1. j \in 1..(i - 1)
      BY <1>1, <2>2
    <3>2. (p \o q)[j] = p[j]
      BY <2>1, <3>1
    <3> QED
      BY <1>2, <1>4, <2>2, <3>1, <3>2
  <2>3. CASE ~(j < i)
    <3>1. j - (i - 1) \in 1..(Len(s) - i) /\ i + (j - (i - 1)) = j + 1
      BY <1>1, <2>3
    <3>2. (p \o q)[j] = q[j - (i - 1)]
      BY <1>1, <2>1, <2>3
    <3>3. q[j - (i - 1)] = s[i + (j - (i - 1))]
      BY <1>3, <3>1
    <3> QED
      BY <1>4, <2>3, <3>1, <3>2, <3>3
  <2> QED
    BY <2>2, <2>3
<1> QED
  BY <1>4, <1>5, <1>6, <1>7

\* closeWSConnection takes a connection off its list and leaves the others on it.
LEMMA DelistedIs ==
  ASSUME NEW s \in Seq(Conn), NEW k, IsInjective(s)
  PROVE  /\ RemoveFirst(s, k) \in Seq(Conn)
         /\ Len(RemoveFirst(s, k)) <= Len(s)
         /\ IsInjective(RemoveFirst(s, k))
         /\ ToSet(RemoveFirst(s, k)) = ToSet(s) \ {k}
<1>1. CASE ~ \E i \in 1..Len(s) : s[i] = k
  BY <1>1 DEF RemoveFirst, ToSet
<1>2. CASE \E i \in 1..Len(s) : s[i] = k
  <2>1. PICK i \in 1..Len(s) : s[i] = k
    BY <1>2
  <2>2. {j \in 1..Len(s) : s[j] = k} = {i}
    BY <2>1 DEF IsInjective
  <2>3. SelectInSeq(s, LAMBDA v : v = k) = Min({i})
    BY <2>2 DEF SelectInSeq
  <2>4. Min({i}) = i
    BY DEF Min
  <2>5. RemoveFirst(s, k) = RemoveAt(s, i)
    BY <1>2, <2>3, <2>4 DEF RemoveFirst
  <2> DEFINE t == RemoveAt(s, i)
  <2>6. /\ t \in Seq(Conn) /\ Len(t) = Len(s) - 1
        /\ \A j \in 1..(Len(s) - 1) : t[j] = IF j < i THEN s[j] ELSE s[j + 1]
    BY RemoveAtIs
  <2> HIDE DEF t
  <2>7. IsInjective(t)
    <3>1. ASSUME NEW j \in 1..(Len(s) - 1), NEW m \in 1..(Len(s) - 1), t[j] = t[m]
          PROVE  j = m
      <4> DEFINE Old(x) == IF x < i THEN x ELSE x + 1
      <4>1. /\ Old(j) \in 1..Len(s) /\ Old(m) \in 1..Len(s)
            /\ Old(j) = Old(m) => j = m
        BY <2>1
      <4>2. t[j] = s[Old(j)] /\ t[m] = s[Old(m)]
        BY <2>6
      <4> HIDE DEF Old
      <4>3. Old(j) = Old(m)
        <5>1. \A x, y \in 1..Len(s) : s[x] = s[y] => x = y
          BY DEF IsInjective
        <5> QED
          BY <3>1, <4>1, <4>2, <5>1
      <4> QED
        BY <4>1, <4>3
    <3> QED
      BY <2>6, <3>1 DEF IsInjective
  <2>8. ToSet(t) = ToSet(s) \ {k}
    <3>1. ASSUME NEW x \in ToSet(t) PROVE x \in ToSet(s) \ {k}
      <4>1. PICK j \in 1..(Len(s) - 1) : x = t[j]
        BY <2>6, <3>1 DEF ToSet
      <4>2. PICK m \in 1..Len(s) : x = s[m] /\ m # i
        BY <2>1, <2>6, <4>1
      <4> QED
        BY <2>1, <4>2 DEF ToSet, IsInjective
    <3>2. ASSUME NEW x \in ToSet(s), x # k PROVE x \in ToSet(t)
      <4>1. PICK j \in 1..Len(s) : x = s[j] /\ j # i
        BY <2>1, <3>2 DEF ToSet
      <4>2. CASE j < i
        <5>1. j \in 1..(Len(s) - 1) /\ t[j] = x
          BY <2>1, <2>6, <4>1, <4>2
        <5> QED
          BY <2>6, <5>1 DEF ToSet
      <4>3. CASE j > i
        <5>1. j - 1 \in 1..(Len(s) - 1) /\ ~ (j - 1 < i) /\ (j - 1) + 1 = j
          BY <2>1, <4>1, <4>3
        <5>2. t[j - 1] = x
          BY <2>6, <4>1, <5>1
        <5> QED
          BY <2>6, <5>1, <5>2 DEF ToSet
      <4> QED
        BY <4>1, <4>2, <4>3
    <3> QED
      BY <3>1, <3>2
  <2> QED
    BY <2>5, <2>6, <2>7, <2>8 DEF t
<1> QED
  BY <1>1, <1>2

\* A connection that is dialled joins the end of the list.
LEMMA DialledIs ==
  ASSUME NEW s \in Seq(Conn), NEW k \in Conn, IsInjective(s), k \notin ToSet(s)
  PROVE  /\ Append(s, k) \in Seq(Conn)
         /\ Len(Append(s, k)) = Len(s) + 1
         /\ IsInjective(Append(s, k))
         /\ ToSet(Append(s, k)) = ToSet(s) \cup {k}
<1> DEFINE t == Append(s, k)
<1>1. /\ t \in Seq(Conn) /\ Len(t) = Len(s) + 1 /\ t[Len(s) + 1] = k
      /\ \A j \in 1..Len(s) : t[j] = s[j]
  OBVIOUS
<1>2. \A j \in 1..Len(s) : s[j] # k
  BY DEF ToSet
<1> HIDE DEF t
<1>3. IsInjective(t)
  BY <1>1, <1>2 DEF IsInjective
<1>4. ToSet(t) = ToSet(s) \cup {k}
  <2>1. \A j \in 1..Len(s) : j \in DOMAIN t /\ t[j] = s[j]
    BY <1>1
  <2>2. Len(s) + 1 \in DOMAIN t
    BY <1>1
  <2>3. ASSUME NEW j \in DOMAIN t PROVE t[j] \in ToSet(s) \cup {k}
    BY <1>1 DEF ToSet
  <2> QED
    BY <1>1, <2>1, <2>2, <2>3 DEF ToSet
<1> QED
  BY <1>1, <1>3, <1>4 DEF t

-----------------------------------------------------------------------------
\* Types.

\* Who looks for a connection looks for one of a backend, and has one once it is
\* found; a reset that is under way is of a backend.
Frames ==
  /\ \A a \in Actor : at[a] \in ConnectStages => goal[a] \in Backend
  /\ \A a \in Actor : at[a] = "connected" => got[a] \in Conn
  /\ at[Sanity] \in ConnectStages \cup {"closing", "awaiting"} => from \in Backend

StreamInv == TypeOK /\ Frames

\* The types of what handlers and the sanity loop keep.
ClientTypes ==
  /\ client \in [Client -> {"new", "up", "leaving", "gone"}]
  /\ held \subseteq Sub /\ registered \subseteq Sub
  /\ backend \in [Sub -> Backend \cup {None}]

ConnTypes ==
  /\ ListsMatch
  /\ list \in [Backend -> Seq(Conn)]
  /\ home \in [Conn -> Backend \cup {None}]
  /\ life \in [Conn -> Lives]
  /\ carries \in [Conn -> SUBSET Sub]
  /\ breaks \in 0..MaxBreaks

ActorTypes ==
  /\ at \in [Actor -> HandlerStages \cup ConnectStages \cup SanityStages]
  /\ job \in [Client -> Sub \cup {None}]
  /\ goal \in [Actor -> Backend \cup {None}]
  /\ view \in [Actor -> Seq(Conn)]
  /\ got \in [Actor -> Conn \cup {None}]

SanityTypes ==
  /\ headAge \in [Backend -> {"none", "fresh", "stale"}]
  /\ quiet \subseteq Backend
  /\ from \in Backend \cup {None}
  /\ affected \subseteq Sub
  /\ doomed \subseteq Conn
  /\ lost \subseteq Sub

\* Together they are the type invariant.
LEMMA TypeParts == TypeOK <=> ClientTypes /\ ConnTypes /\ ActorTypes /\ SanityTypes
  BY DEF TypeOK, ClientTypes, ConnTypes, ActorTypes, SanityTypes

\* The same of the next state.
LEMMA TypePartsNext == TypeOK' <=> ClientTypes' /\ ConnTypes' /\ ActorTypes' /\ SanityTypes'
  BY DEF TypeOK, ClientTypes, ConnTypes, ActorTypes, SanityTypes

\* The parts a step leaves alone stand.
LEMMA PartsKept ==
  ASSUME StreamInv
  PROVE  /\ UNCHANGED clientVars => ClientTypes'
         /\ UNCHANGED connVars => ConnTypes'
         /\ UNCHANGED actorVars => ActorTypes'
         /\ UNCHANGED <<headAge, sanityVars, lost>> => SanityTypes'
         /\ UNCHANGED <<at, goal, got, from>> => Frames'
<1>1. ClientTypes /\ ConnTypes /\ ActorTypes /\ SanityTypes /\ Frames
  BY TypeParts DEF StreamInv
<1>2. UNCHANGED connVars => ConnTypes'
  BY <1>1 DEF ConnTypes, connVars, ListsMatch
<1>3. UNCHANGED clientVars => ClientTypes'
  BY <1>1 DEF ClientTypes, clientVars
<1>4. UNCHANGED actorVars => ActorTypes'
  BY <1>1 DEF ActorTypes, actorVars
<1>5. UNCHANGED <<headAge, sanityVars, lost>> => SanityTypes'
  BY <1>1 DEF SanityTypes, sanityVars
<1>6. UNCHANGED <<at, goal, got, from>> => Frames'
  BY <1>1 DEF Frames
<1> QED
  BY <1>2, <1>3, <1>4, <1>5, <1>6

\* A handler's steps keep the types.
LEMMA HandlerTypes ==
  ASSUME StreamInv, NEW c \in Client,
         \/ Connects(c) \/ Connected(c) \/ Unregister(c) \/ Unhook(c) \/ Leaves(c) \/ Removed(c)
         \/ \E s \in Sub : Unsubscribe(c, s)
         \/ \E b \in Backend : Call(c, b) \/ \E s \in Sub : Subscribe(c, s, b)
  PROVE  StreamInv'
<1>0. /\ ClientTypes /\ ConnTypes /\ ActorTypes /\ SanityTypes /\ Frames
      /\ c \in Actor /\ c # Sanity
  BY TypeParts, Owners DEF StreamInv, Actor
<1>1. CASE Connects(c) \/ Leaves(c) \/ Removed(c)
  <2>1. UNCHANGED <<connVars, headAge, actorVars, sanityVars, lost>>
    BY <1>1 DEF Connects, Leaves, Removed
  <2>2. ClientTypes'
    BY <1>0, <1>1 DEF Connects, Leaves, Removed, ClientTypes
  <2>3. UNCHANGED <<at, goal, got, from>>
    BY <2>1 DEF actorVars, sanityVars
  <2> QED
    BY <2>1, <2>2, <2>3, PartsKept, TypePartsNext DEF StreamInv
<1>2. CASE Connected(c)
  <2>1. UNCHANGED <<clientVars, list, home, life, breaks, headAge, view, sanityVars>>
    BY <1>2 DEF Connected
  <2>2. {job[c]} \ {None} \subseteq Sub
    BY <1>0 DEF ActorTypes
  <2>3. ConnTypes'
    <3>1. carries' \in [Conn -> SUBSET Sub]
      BY <1>0, <1>2, <2>2 DEF Connected, ConnTypes
    <3> QED
      BY <1>0, <2>1, <3>1 DEF ConnTypes, ListsMatch
  <2>4. SanityTypes'
    BY <1>0, <1>2, <2>1, <2>2 DEF Connected, SanityTypes, sanityVars
  <2>5. /\ at' = [at EXCEPT ![c] = "idle"] /\ job' = [job EXCEPT ![c] = None]
        /\ got' = [got EXCEPT ![c] = None] /\ goal' = [goal EXCEPT ![c] = None]
    BY <1>2 DEF Connected
  <2>6. ActorTypes'
    BY <1>0, <2>1, <2>5 DEF ActorTypes, HandlerStages
  <2>7. Frames'
    BY <1>0, <2>1, <2>5 DEF Frames, ActorTypes, ConnectStages, sanityVars
  <2> QED
    BY <2>1, <2>3, <2>4, <2>6, <2>7, PartsKept, TypePartsNext DEF StreamInv
<1>3. CASE Unregister(c) \/ \E s \in Sub : Unsubscribe(c, s)
  <2>1. UNCHANGED <<connVars, headAge, goal, view, got, sanityVars, lost>>
    BY <1>3 DEF Unregister, Unsubscribe
  <2>2. ClientTypes'
    BY <1>0, <1>3 DEF Unregister, Unsubscribe, Without, ClientTypes
  <2>a. PICK stage \in {"unregistering", "unhooking"} : at' = [at EXCEPT ![c] = stage]
    BY <1>3 DEF Unregister, Unsubscribe
  <2>b. job' \in [Client -> Sub \cup {None}]
    BY <1>0, <1>3 DEF Unregister, Unsubscribe, ActorTypes
  <2>3. ActorTypes'
    BY <1>0, <2>1, <2>a, <2>b DEF ActorTypes, HandlerStages
  <2>4. Frames'
    BY <1>0, <2>1, <2>a DEF Frames, ActorTypes, ConnectStages, sanityVars
  <2> QED
    BY <2>1, <2>2, <2>3, <2>4, PartsKept, TypePartsNext DEF StreamInv
<1>4. CASE Unhook(c)
  <2>1. UNCHANGED <<clientVars, list, home, life, breaks, headAge, goal, view, got, sanityVars, lost>>
    BY <1>4 DEF Unhook
  <2>2. ConnTypes'
    <3>1. carries' \in [Conn -> SUBSET Sub]
      BY <1>0, <1>4 DEF Unhook, ConnTypes
    <3> QED
      BY <1>0, <2>1, <3>1 DEF ConnTypes, ListsMatch
  <2>3. ActorTypes'
    BY <1>0, <1>4, <2>1 DEF Unhook, ActorTypes, HandlerStages
  <2>4. Frames'
    BY <1>0, <1>4, <2>1 DEF Unhook, Frames, ActorTypes, ConnectStages, sanityVars
  <2> QED
    BY <2>1, <2>2, <2>3, <2>4, PartsKept, TypePartsNext DEF StreamInv
<1>5. ASSUME NEW b \in Backend, Call(c, b) \/ \E s \in Sub : Subscribe(c, s, b) PROVE StreamInv'
  <2>1. UNCHANGED <<connVars, headAge, sanityVars, lost>> /\ Asks(c, b)
    BY <1>5 DEF Call, Subscribe
  <2>2. ClientTypes'
    BY <1>0, <1>5 DEF Call, Subscribe, ClientTypes, clientVars
  <2>3. job' \in [Client -> Sub \cup {None}]
    BY <1>0, <1>5 DEF Call, Subscribe, ActorTypes
  <2>4. ActorTypes'
    BY <1>0, <2>1, <2>3 DEF Asks, ActorTypes, ConnectStages
  <2>5. Frames'
    BY <1>0, <2>1 DEF Asks, Frames, ActorTypes, ConnectStages, sanityVars
  <2> QED
    BY <2>1, <2>2, <2>4, <2>5, PartsKept, TypePartsNext DEF StreamInv
<1> QED
  BY <1>1, <1>2, <1>3, <1>4, <1>5

\* The steps of getOrCreateWSConnection do.
LEMMA ConnectTypes ==
  ASSUME StreamInv, NEW a \in Actor,
         \/ ReadList(a) \/ ChooseRoom(a) \/ ChooseDial(a) \/ ChooseLeastLoaded(a)
         \/ ChooseNone(a) \/ Dial(a) \/ DialFails(a)
  PROVE  StreamInv'
<1>0. ClientTypes /\ ConnTypes /\ ActorTypes /\ SanityTypes /\ Frames
  BY TypeParts DEF StreamInv
<1>a. UNCHANGED clientVars /\ ClientTypes'
  BY PartsKept DEF ReadList, ChooseRoom, ChooseDial, ChooseLeastLoaded, ChooseNone, Dial,
    DialFails, Gets, ConnectFails
<1>1. CASE ReadList(a)
  <2>1. /\ at' = [at EXCEPT ![a] = "choosing"] /\ view' = [view EXCEPT ![a] = list[goal[a]]]
        /\ UNCHANGED <<connVars, headAge, job, goal, got, sanityVars, lost>>
    BY <1>1 DEF ReadList, ListOf
  <2>2. goal[a] \in Backend /\ list[goal[a]] \in Seq(Conn)
    BY <1>0, <1>1 DEF ReadList, Frames, ConnectStages, ConnTypes
  <2>3. ActorTypes'
    BY <1>0, <2>1, <2>2 DEF ActorTypes, ConnectStages
  <2>4. Frames'
    BY <1>0, <1>1, <2>1 DEF ReadList, Frames, ActorTypes, ConnectStages, sanityVars
  <2> QED
    BY <1>a, <2>1, <2>3, <2>4, PartsKept, TypePartsNext DEF StreamInv
<1>2. CASE ChooseDial(a)
  <2>1. /\ at[a] = "choosing" /\ at' = [at EXCEPT ![a] = "dialing"]
        /\ UNCHANGED <<connVars, headAge, job, goal, view, got, sanityVars, lost>>
    BY <1>2 DEF ChooseDial
  <2>2. ActorTypes'
    BY <1>0, <2>1 DEF ActorTypes, ConnectStages
  <2>3. Frames'
    BY <1>0, <2>1 DEF Frames, ActorTypes, ConnectStages, sanityVars
  <2> QED
    BY <1>a, <2>1, <2>2, <2>3, PartsKept, TypePartsNext DEF StreamInv
<1>3. ASSUME NEW k \in Conn, Gets(a, k), at[a] \in ConnectStages
      PROVE  ActorTypes' /\ SanityTypes' /\ Frames'
  <2>1. /\ at' = [at EXCEPT ![a] = "connected"] /\ got' = [got EXCEPT ![a] = k]
        /\ view' = [view EXCEPT ![a] = <<>>]
        /\ UNCHANGED <<headAge, job, goal, sanityVars, lost>>
    BY <1>3 DEF Gets
  <2>2. ActorTypes'
    BY <1>0, <2>1 DEF ActorTypes, ConnectStages
  <2>3. Frames'
    BY <1>0, <1>3, <2>1 DEF Frames, ActorTypes, ConnectStages, sanityVars
  <2> QED
    BY <2>1, <2>2, <2>3, PartsKept
<1>4. ASSUME NEW seen \in AsSeen(a), at[a] \in ConnectStages PROVE seen \in Seq(Conn)
  <2>1. view[a] \in Seq(Conn) /\ list[goal[a]] \in Seq(Conn)
    BY <1>0, <1>4 DEF Frames, ActorTypes, ConnTypes
  <2> DEFINE n == Min({Len(view[a]), Len(list[goal[a]])})
  <2>2. n \in {Len(view[a]), Len(list[goal[a]])} /\ n <= Len(list[goal[a]])
    <3> DEFINE x == Len(view[a])
               y == Len(list[goal[a]])
    <3>1. x \in Nat /\ y \in Nat
      BY <2>1
    <3> HIDE DEF x, y
    <3>2. \E m \in {x, y} : \A z \in {x, y} : m <= z
      BY <3>1
    <3>3. Min({x, y}) \in {x, y} /\ \A z \in {x, y} : Min({x, y}) <= z
      BY <3>2 DEF Min
    <3> QED
      BY <3>3 DEF x, y
  <2>3. SubSeq(list[goal[a]], 1, n) \in Seq(Conn)
    <3> DEFINE s == list[goal[a]]
    <3>1. s \in Seq(Conn) /\ n \in Nat /\ n <= Len(s)
      BY <2>1, <2>2
    <3> HIDE DEF n, s
    <3>2. n \in Int /\ 1 \in Int /\ \A i \in 1..n : s[i] \in Conn
      BY <3>1
    <3>3. SubSeq(s, 1, n) \in Seq(Conn)
      BY <3>2, SubSeqProperties
    <3> QED
      BY <3>3 DEF s
  <2> QED
    BY <2>1, <2>3 DEF AsSeen
<1>5. CASE ChooseRoom(a) \/ ChooseLeastLoaded(a)
  <2>1. PICK seen \in AsSeen(a) : \E i \in DOMAIN seen : Gets(a, seen[i])
    BY <1>5 DEF ChooseRoom, ChooseLeastLoaded
  <2>2. at[a] \in ConnectStages /\ UNCHANGED connVars
    BY <1>5 DEF ChooseRoom, ChooseLeastLoaded, ConnectStages
  <2>3. seen \in Seq(Conn)
    BY <1>4, <2>2
  <2>4. PICK k \in Conn : Gets(a, k)
    BY <2>1, <2>3
  <2> QED
    BY <1>3, <1>a, <2>2, <2>4, PartsKept, TypePartsNext DEF StreamInv
<1>6. CASE Dial(a)
  <2> DEFINE k == CHOOSE l \in Conn : IsFree(l)
             b == goal[a]
  <2>1. k \in Conn /\ IsFree(k) /\ at[a] = "dialing"
    BY <1>6 DEF Dial
  <2>2. /\ list' = [list EXCEPT ![b] = Append(list[b], k)] /\ home' = [home EXCEPT ![k] = b]
        /\ life' = [life EXCEPT ![k] = "open"] /\ Gets(a, k) /\ UNCHANGED <<carries, breaks>>
    BY <1>6 DEF Dial
  <2> HIDE DEF k
  <2>3. b \in Backend /\ list[b] \in Seq(Conn) /\ at[a] \in ConnectStages
    BY <1>0, <2>1 DEF Frames, ConnectStages, ConnTypes
  <2>4. life[k] = "none" /\ \A c \in Backend : k \notin ToSet(list[c])
    BY <1>0, <2>1 DEF IsFree, IsLive, ConnTypes, ListsMatch
  <2>5. /\ Append(list[b], k) \in Seq(Conn)
        /\ IsInjective(Append(list[b], k))
        /\ ToSet(Append(list[b], k)) = ToSet(list[b]) \cup {k}
    BY <1>0, <2>1, <2>3, <2>4, DialledIs DEF ConnTypes, ListsMatch
  <2> HIDE DEF b
  <2>6. /\ list' \in [Backend -> Seq(Conn)] /\ home' \in [Conn -> Backend \cup {None}]
        /\ life' \in [Conn -> Lives]
    BY <1>0, <2>2, <2>3, <2>5 DEF ConnTypes, Lives
  <2>7. list'[b] = Append(list[b], k) /\ \A c \in Backend \ {b} : list'[c] = list[c]
    BY <1>0, <2>2, <2>3 DEF ConnTypes
  <2>8. /\ home'[k] = b /\ life'[k] = "open"
        /\ \A l \in Conn \ {k} : home'[l] = home[l] /\ life'[l] = life[l]
    BY <1>0, <2>1, <2>2 DEF ConnTypes
  <2>9. \A c \in Backend : IsInjective(list'[c])
    BY <1>0, <2>5, <2>7 DEF ConnTypes, ListsMatch
  <2>10. ASSUME NEW c \in Backend, NEW l \in Conn
         PROVE  l \in ToSet(list'[c]) <=> life'[l] \in {"open", "closing"} /\ home'[l] = c
    <3>1. l \in ToSet(list[c]) <=> life[l] \in {"open", "closing"} /\ home[l] = c
      BY <1>0 DEF ConnTypes, ListsMatch
    <3>2. l \in ToSet(list'[c]) <=> l \in ToSet(list[c]) \/ (c = b /\ l = k)
      BY <2>5, <2>7
    <3> QED
      BY <2>4, <2>8, <3>1, <3>2
  <2>11. ConnTypes'
    BY <1>0, <2>2, <2>6, <2>9, <2>10 DEF ConnTypes, ListsMatch
  <2> QED
    BY <1>3, <1>a, <2>1, <2>2, <2>3, <2>11, TypePartsNext DEF StreamInv
<1>7. CASE ChooseNone(a) \/ DialFails(a)
  <2>1. ConnectFails(a) /\ at[a] \in ConnectStages
    BY <1>7 DEF ChooseNone, DialFails, ConnectStages
  <2>2. /\ goal' = [goal EXCEPT ![a] = None] /\ view' = [view EXCEPT ![a] = <<>>]
        /\ UNCHANGED <<connVars, headAge, got, doomed>>
    BY <2>1 DEF ConnectFails
  <2>3. CASE a = Sanity
    <3>1. NextReset /\ UNCHANGED <<job, lost>>
      BY <2>1, <2>3 DEF ConnectFails
    <3>2. PICK stage \in {"idle", "resetting"} : at' = [at EXCEPT ![Sanity] = stage]
      BY <3>1 DEF NextReset
    <3>3. SanityTypes'
      BY <1>0, <2>2, <3>1 DEF NextReset, SanityTypes
    <3>4. ActorTypes'
      BY <1>0, <2>2, <2>3, <3>1, <3>2 DEF ActorTypes, SanityStages
    <3>5. Frames'
      BY <1>0, <2>2, <2>3, <3>2 DEF Frames, ActorTypes, ConnectStages
    <3> QED
      BY <1>a, <2>2, <3>3, <3>4, <3>5, PartsKept, TypePartsNext DEF StreamInv
  <2>4. CASE a # Sanity
    <3>1. /\ at' = [at EXCEPT ![a] = "idle"] /\ job' = [job EXCEPT ![a] = None]
          /\ lost' = lost \cup ({job[a]} \ {None}) /\ UNCHANGED <<quiet, from, affected>>
      BY <2>1, <2>4 DEF ConnectFails
    <3>2. a \in Client /\ job[a] \in Sub \cup {None}
      BY <1>0, <2>4 DEF Actor, ActorTypes
    <3>3. SanityTypes'
      BY <1>0, <2>2, <3>1, <3>2 DEF SanityTypes
    <3>4. ActorTypes'
      BY <1>0, <2>2, <3>1, <3>2 DEF ActorTypes, HandlerStages
    <3>5. Frames'
      BY <1>0, <2>2, <2>4, <3>1 DEF Frames, ActorTypes, ConnectStages
    <3> QED
      BY <1>a, <2>2, <3>3, <3>4, <3>5, PartsKept, TypePartsNext DEF StreamInv
  <2> QED
    BY <2>3, <2>4
<1> QED
  BY <1>1, <1>2, <1>5, <1>6, <1>7

\* The steps of the sanity loop do.
LEMMA SanityTypesKept ==
  ASSUME StreamInv,
         \/ SanityTick \/ Migrate \/ ClosedNext \/ ForgetHead
         \/ \E b \in Backend : ResetNothing(b) \/ \E to \in Backend : Reset(b, to)
         \/ \E k \in Conn : CloseNext(k)
  PROVE  StreamInv'
<1>0. ClientTypes /\ ConnTypes /\ ActorTypes /\ SanityTypes /\ Frames /\ Sanity \in Actor
  BY TypeParts DEF StreamInv, Actor
<1>1. CASE SanityTick
  <2>1. /\ quiet' \subseteq Backend /\ at' = [at EXCEPT ![Sanity] = "resetting"]
        /\ UNCHANGED <<clientVars, connVars, headAge, job, goal, view, got, from, affected, doomed, lost>>
    BY <1>1 DEF SanityTick
  <2>2. ActorTypes' /\ SanityTypes'
    BY <1>0, <2>1 DEF ActorTypes, SanityTypes, SanityStages
  <2>3. Frames'
    BY <1>0, <2>1 DEF Frames, ActorTypes, ConnectStages
  <2> QED
    BY <2>1, <2>2, <2>3, PartsKept, TypePartsNext DEF StreamInv
<1>2. ASSUME NEW b \in Backend, ResetNothing(b) PROVE StreamInv'
  <2>1. PICK stage \in {"idle", "resetting"} : at' = [at EXCEPT ![Sanity] = stage]
    BY <1>2 DEF ResetNothing
  <2>2. /\ quiet' \subseteq quiet
        /\ UNCHANGED <<clientVars, connVars, headAge, job, goal, view, got, from, affected, doomed, lost>>
    BY <1>2 DEF ResetNothing
  <2>3. ActorTypes' /\ SanityTypes'
    BY <1>0, <2>1, <2>2 DEF ActorTypes, SanityTypes, SanityStages
  <2>4. Frames'
    BY <1>0, <2>1, <2>2 DEF Frames, ActorTypes, ConnectStages
  <2> QED
    BY <2>2, <2>3, <2>4, PartsKept, TypePartsNext DEF StreamInv
<1>3. ASSUME NEW b \in Backend, NEW to \in Backend, Reset(b, to) PROVE StreamInv'
  <2>1. /\ from' = b /\ affected' = OnBackend(b)
        /\ at' = [at EXCEPT ![Sanity] = "connecting"] /\ goal' = [goal EXCEPT ![Sanity] = to]
        /\ UNCHANGED <<clientVars, connVars, headAge, job, view, got, quiet, doomed, lost>>
    BY <1>3 DEF Reset, Asks
  <2>2. ActorTypes'
    BY <1>0, <2>1 DEF ActorTypes, ConnectStages
  <2>3. SanityTypes'
    BY <1>0, <2>1 DEF SanityTypes, OnBackend, ClientTypes
  <2>4. Frames'
    BY <1>0, <2>1 DEF Frames, ActorTypes, ConnectStages
  <2> QED
    BY <2>1, <2>2, <2>3, <2>4, PartsKept, TypePartsNext DEF StreamInv
<1>4. CASE Migrate
  <2>1. /\ at[Sanity] = "connected" /\ at' = [at EXCEPT ![Sanity] = "closing"]
        /\ backend' = Moved(goal[Sanity])
        /\ carries' = CarriedAfter(FirstOpen(from), got[Sanity])
        /\ lost' = IF IsLive(got[Sanity]) THEN lost \ affected ELSE lost \cup affected
        /\ doomed' = {k \in ToSet(list[from]) : carries'[k] = {}}
        /\ got' = [got EXCEPT ![Sanity] = None] /\ goal' = [goal EXCEPT ![Sanity] = None]
        /\ UNCHANGED <<client, held, registered, list, home, life, breaks, headAge, job, view,
                       quiet, from, affected>>
    BY <1>4 DEF Migrate
  <2>2. goal[Sanity] \in Backend /\ from \in Backend
    BY <1>0, <2>1 DEF Frames, ConnectStages
  <2>3. ClientTypes'
    BY <1>0, <2>1, <2>2 DEF ClientTypes, Moved
  <2>4. carries' \in [Conn -> SUBSET Sub]
    <3>1. \A k \in Conn : carries[k] \cup affected \subseteq Sub /\ carries[k] \ affected \subseteq Sub
      BY <1>0 DEF ConnTypes, SanityTypes
    <3> QED
      BY <1>0, <2>1, <3>1 DEF CarriedAfter, ConnTypes
  <2>5. ConnTypes'
    BY <1>0, <2>1, <2>4 DEF ConnTypes, ListsMatch
  <2>6. ToSet(list[from]) \subseteq Conn
    BY <1>0, <2>2 DEF ConnTypes, ToSet
  <2>7. SanityTypes'
    BY <1>0, <2>1, <2>6 DEF SanityTypes
  <2>8. ActorTypes'
    BY <1>0, <2>1 DEF ActorTypes, SanityStages
  <2>9. Frames'
    BY <1>0, <2>1, <2>2 DEF Frames, ActorTypes, ConnectStages
  <2> QED
    BY <2>3, <2>5, <2>7, <2>8, <2>9, TypePartsNext DEF StreamInv
<1>5. ASSUME NEW k \in Conn, CloseNext(k) PROVE StreamInv'
  <2>1. /\ at[Sanity] = "closing" /\ doomed' = doomed \ {k}
        /\ UNCHANGED <<clientVars, list, home, carries, breaks, headAge, job, goal, view,
                       quiet, from, affected, lost>>
    BY <1>5 DEF CloseNext
  <2>2. SanityTypes'
    BY <1>0, <2>1 DEF SanityTypes
  <2>3. CASE IsOpen(k)
    <3>1. /\ life' = [life EXCEPT ![k] = "closing"] /\ at' = [at EXCEPT ![Sanity] = "awaiting"]
          /\ got' = [got EXCEPT ![Sanity] = k] /\ life[k] = "open"
      BY <1>5, <2>3 DEF CloseNext, IsOpen
    <3>2. ConnTypes'
      BY <1>0, <2>1, <3>1 DEF ConnTypes, ListsMatch, Lives
    <3>3. ActorTypes'
      BY <1>0, <2>1, <3>1 DEF ActorTypes, SanityStages
    <3>4. Frames'
      BY <1>0, <2>1, <3>1 DEF Frames, ActorTypes, ConnectStages
    <3> QED
      BY <2>1, <2>2, <3>2, <3>3, <3>4, PartsKept, TypePartsNext DEF StreamInv
  <2>4. CASE ~IsOpen(k)
    <3>1. UNCHANGED <<life, at, got>>
      BY <1>5, <2>4 DEF CloseNext
    <3> QED
      BY <2>1, <2>2, <3>1, PartsKept, TypePartsNext DEF StreamInv, connVars, actorVars
  <2> QED
    BY <2>3, <2>4
<1>6. CASE ClosedNext
  <2>1. /\ at[Sanity] = "awaiting" /\ at' = [at EXCEPT ![Sanity] = "closing"]
        /\ got' = [got EXCEPT ![Sanity] = None]
        /\ UNCHANGED <<clientVars, connVars, headAge, job, goal, view, sanityVars, lost>>
    BY <1>6 DEF ClosedNext
  <2>2. ActorTypes'
    BY <1>0, <2>1 DEF ActorTypes, SanityStages
  <2>3. Frames'
    BY <1>0, <2>1 DEF Frames, ActorTypes, ConnectStages, sanityVars
  <2> QED
    BY <2>1, <2>2, <2>3, PartsKept, TypePartsNext DEF StreamInv
<1>7. CASE ForgetHead
  <2>1. NextReset /\ UNCHANGED <<clientVars, connVars, job, goal, view, got, doomed, lost>>
    BY <1>7 DEF ForgetHead
  <2>2. PICK stage \in {"idle", "resetting"} : at' = [at EXCEPT ![Sanity] = stage]
    BY <2>1 DEF NextReset
  <2>3. headAge' = [headAge EXCEPT ![from] = "none"]
    BY <1>7 DEF ForgetHead
  <2>4. SanityTypes'
    BY <1>0, <2>1, <2>3 DEF NextReset, SanityTypes
  <2>5. ActorTypes'
    BY <1>0, <2>1, <2>2 DEF ActorTypes, SanityStages
  <2>6. Frames'
    BY <1>0, <2>1, <2>2 DEF Frames, ActorTypes, ConnectStages
  <2> QED
    BY <2>1, <2>4, <2>5, <2>6, PartsKept, TypePartsNext DEF StreamInv
<1> QED
  BY <1>1, <1>2, <1>3, <1>4, <1>5, <1>6, <1>7

\* What connections and backends do by themselves does.
LEMMA ConnectionTypes ==
  ASSUME StreamInv,
         \/ \E b \in Backend : GoesStale(b)
         \/ \E k \in Conn : Breaks(k) \/ Unlist(k) \/ Purge(k) \/ HeadArrives(k)
  PROVE  StreamInv'
<1>0. ClientTypes /\ ConnTypes /\ ActorTypes /\ SanityTypes /\ Frames
  BY TypeParts DEF StreamInv
<1>1. ASSUME UNCHANGED <<actorVars, sanityVars, lost>>, ConnTypes', ClientTypes',
             headAge' \in [Backend -> {"none", "fresh", "stale"}]
      PROVE  StreamInv'
  <2>1. SanityTypes'
    BY <1>0, <1>1 DEF SanityTypes, sanityVars
  <2>2. ActorTypes' /\ Frames'
    BY <1>1, PartsKept DEF actorVars, sanityVars
  <2> QED
    BY <1>1, <2>1, <2>2, TypePartsNext DEF StreamInv
<1>2. headAge \in [Backend -> {"none", "fresh", "stale"}]
  BY <1>0 DEF SanityTypes
<1>3. CASE (\E b \in Backend : GoesStale(b)) \/ (\E k \in Conn : HeadArrives(k))
  <2>1. UNCHANGED <<clientVars, connVars, actorVars, sanityVars, lost>>
    BY <1>3 DEF GoesStale, HeadArrives
  <2>2. headAge' \in [Backend -> {"none", "fresh", "stale"}]
    BY <1>2, <1>3 DEF GoesStale, HeadArrives
  <2> QED
    BY <1>1, <2>1, <2>2, PartsKept
<1>4. ASSUME NEW k \in Conn, Breaks(k) PROVE StreamInv'
  <2>1. /\ life[k] = "open" /\ life' = [life EXCEPT ![k] = "closing"]
        /\ breaks' = breaks + 1 /\ breaks < MaxBreaks
        /\ UNCHANGED <<clientVars, list, home, carries, headAge, actorVars, sanityVars, lost>>
    BY <1>4 DEF Breaks, IsOpen
  <2>2. breaks' \in 0..MaxBreaks
    BY <1>0, <2>1, StreamAssumption DEF ConnTypes
  <2>3. ConnTypes'
    BY <1>0, <2>1, <2>2 DEF ConnTypes, ListsMatch, Lives
  <2> QED
    BY <1>1, <1>2, <2>1, <2>3, PartsKept
<1>5. ASSUME NEW k \in Conn, Unlist(k) PROVE StreamInv'
  <2> DEFINE b == home[k]
  <2>1. /\ life[k] = "closing" /\ life' = [life EXCEPT ![k] = "unlisted"]
        /\ list' = [list EXCEPT ![b] = RemoveFirst(list[b], k)]
        /\ UNCHANGED <<clientVars, home, carries, breaks, headAge, actorVars, sanityVars, lost>>
    BY <1>5 DEF Unlist, Delisted
  <2>2. b \in Backend =>
          /\ RemoveFirst(list[b], k) \in Seq(Conn)
          /\ IsInjective(RemoveFirst(list[b], k))
          /\ ToSet(RemoveFirst(list[b], k)) = ToSet(list[b]) \ {k}
    BY <1>0, DelistedIs DEF ConnTypes, ListsMatch
  <2>3. \A c \in Backend : c # b => list'[c] = list[c] /\ k \notin ToSet(list[c])
    BY <1>0, <2>1 DEF ConnTypes, ListsMatch
  <2>4. b \in Backend => list'[b] = RemoveFirst(list[b], k)
    BY <1>0, <2>1 DEF ConnTypes
  <2> HIDE DEF b
  <2>5. ASSUME NEW c \in Backend
        PROVE  IsInjective(list'[c]) /\ ToSet(list'[c]) = ToSet(list[c]) \ {k}
    <3>1. CASE c = b
      BY <2>2, <2>4, <3>1
    <3>2. CASE c # b
      <4>1. IsInjective(list[c])
        BY <1>0 DEF ConnTypes, ListsMatch
      <4>2. list'[c] = list[c] /\ k \notin ToSet(list[c])
        BY <2>3, <3>2
      <4>3. ToSet(list[c]) \ {k} = ToSet(list[c])
        BY <4>2
      <4> QED
        BY <4>1, <4>2, <4>3
    <3> QED
      BY <3>1, <3>2
  <2>6. list' \in [Backend -> Seq(Conn)] /\ life' \in [Conn -> Lives]
    BY <1>0, <2>1, <2>2 DEF ConnTypes, Lives
  <2>7. life'[k] = "unlisted" /\ \A l \in Conn \ {k} : life'[l] = life[l]
    BY <1>0, <2>1 DEF ConnTypes
  <2>8. ConnTypes'
    BY <1>0, <2>1, <2>5, <2>6, <2>7 DEF ConnTypes, ListsMatch
  <2> QED
    BY <1>1, <1>2, <2>1, <2>8, PartsKept
<1>6. ASSUME NEW k \in Conn, Purge(k) PROVE StreamInv'
  <2>1. /\ life[k] = "unlisted" /\ life' = [life EXCEPT ![k] = "none"]
        /\ carries' = [carries EXCEPT ![k] = {}] /\ home' = [home EXCEPT ![k] = None]
        /\ registered' \subseteq registered
        /\ UNCHANGED <<client, held, backend, list, breaks, headAge, actorVars, sanityVars, lost>>
    BY <1>6 DEF Purge, AfterClose
  <2>2. ClientTypes'
    BY <1>0, <2>1 DEF ClientTypes
  <2>3. /\ home' \in [Conn -> Backend \cup {None}] /\ life' \in [Conn -> Lives]
        /\ carries' \in [Conn -> SUBSET Sub]
    BY <1>0, <2>1 DEF ConnTypes, Lives
  <2>4. /\ life'[k] = "none"
        /\ \A l \in Conn \ {k} : life'[l] = life[l] /\ home'[l] = home[l]
    BY <1>0, <2>1 DEF ConnTypes
  <2>5. ConnTypes'
    BY <1>0, <2>1, <2>3, <2>4 DEF ConnTypes, ListsMatch
  <2> QED
    BY <1>1, <1>2, <2>1, <2>2, <2>5
<1> QED
  BY <1>3, <1>4, <1>5, <1>6

\* Every variable of the stream keeps its type, and the list of each backend is
\* made of its connections that are still to be taken off it, each once
\* (createWSConnection, closeWSConnection).
THEOREM StreamTypeInvariance == Spec => []StreamInv
<1>1. Init => StreamInv
  <2>1. Init => ListsMatch
    BY DEF Init, ListsMatch, ToSet, IsInjective
  <2>2. Init => Frames
    BY DEF Init, Frames, Actor, ConnectStages
  <2> QED
    BY <2>1, <2>2, StreamAssumption DEF Init, StreamInv, TypeOK, Lives, HandlerStages, SanityStages
<1>2. StreamInv /\ [Next]_vars => StreamInv'
  <2> SUFFICES ASSUME StreamInv, [Next]_vars PROVE StreamInv'
    OBVIOUS
  <2>1. CASE UNCHANGED vars
    <3>1. UNCHANGED <<clientVars, connVars, headAge, actorVars, sanityVars, lost, at, goal, got, from>>
      BY <2>1 DEF vars, actorVars, sanityVars
    <3> QED
      BY <3>1, PartsKept, TypePartsNext DEF StreamInv
  <2>2. CASE Next
    BY <2>2, HandlerTypes, ConnectTypes, SanityTypesKept, ConnectionTypes DEF Next
  <2> QED
    BY <2>1, <2>2
<1> QED
  BY <1>1, <1>2, PTL DEF Spec

\* The type invariant by itself.
THEOREM StreamTypeCorrect == Spec => []TypeOK
<1>1. StreamInv => TypeOK
  BY DEF StreamInv
<1> QED
  BY <1>1, StreamTypeInvariance, PTL

-----------------------------------------------------------------------------
\* Nobody is stranded.

Carried(s) == \E k \in Conn : IsLive(k) /\ s \in carries[k]

\* What a handler takes from a connection is its own and not registered any more.
Unhooking ==
  \A c \in Client : at[c] \in {"unregistering", "unhooking"} =>
    /\ job[c] \in Sub /\ Owner[job[c]] = c
    /\ at[c] = "unhooking" => job[c] \notin registered

StrandInv == StreamInv /\ Unhooking /\ NotStranded

\* It is enough that nobody is let go of but by those who are done with it.
LEMMA StillCarried ==
  ASSUME StrandInv, registered' \subseteq registered,
         \A s \in registered' : s \in lost => s \in lost' \/ Carried(s)',
         \A s \in registered' : Carried(s) => s \in lost' \/ Carried(s)',
         \A c \in Client :
           at[c] \in ConnectStages =>
             \/ at'[c] \in ConnectStages /\ job'[c] = job[c]
             \/ \A s \in registered' : job[c] = s => s \in lost' \/ Carried(s)'
  PROVE  NotStranded'
<1> SUFFICES ASSUME NEW s \in registered' PROVE Pending(s)' \/ s \in lost' \/ Carried(s)'
  BY DEF NotStranded, Carried
<1>1. s \in Sub /\ Owner[s] \in Client
  BY Owners DEF StrandInv, StreamInv, TypeOK
<1>2. Pending(s) \/ s \in lost \/ Carried(s)
  BY DEF StrandInv, NotStranded, Carried
<1>3. CASE Pending(s)
  <2>1. at[Owner[s]] \in ConnectStages /\ job[Owner[s]] = s
    BY <1>3 DEF Pending
  <2>2. \/ at'[Owner[s]] \in ConnectStages /\ job'[Owner[s]] = s
        \/ s \in lost' \/ Carried(s)'
    BY <1>1, <2>1
  <2> QED
    BY <2>2 DEF Pending
<1>4. CASE s \in lost
  <2>1. s \in lost' \/ Carried(s)'
    BY <1>4
  <2> QED
    BY <2>1
<1>5. CASE Carried(s)
  <2>1. s \in lost' \/ Carried(s)'
    BY <1>5
  <2> QED
    BY <2>1
<1> QED
  BY <1>2, <1>3, <1>4, <1>5

\* Unhooking needs a look only where a handler moves or registers something.
LEMMA UnhookingKept ==
  ASSUME Unhooking, registered' \subseteq registered,
         \A c \in Client :
           at'[c] \in {"unregistering", "unhooking"} => at'[c] = at[c] /\ job'[c] = job[c]
  PROVE  Unhooking'
  BY DEF Unhooking

\* A handler's steps strand nobody.
LEMMA HandlerStrands ==
  ASSUME StrandInv, NEW c \in Client,
         \/ Connects(c) \/ Connected(c) \/ Unregister(c) \/ Unhook(c) \/ Leaves(c) \/ Removed(c)
         \/ \E s \in Sub : Unsubscribe(c, s)
         \/ \E b \in Backend : Call(c, b) \/ \E s \in Sub : Subscribe(c, s, b)
  PROVE  Unhooking' /\ NotStranded'
<1>0. /\ StreamInv /\ Unhooking /\ NotStranded /\ c \in Actor
      /\ at \in [Actor -> HandlerStages \cup ConnectStages \cup SanityStages]
      /\ job \in [Client -> Sub \cup {None}] /\ carries \in [Conn -> SUBSET Sub]
      /\ Client \subseteq Actor
  BY DEF StrandInv, StreamInv, TypeOK, Actor
<1> USE DEF HandlerStages, ConnectStages
<1>1. CASE Connects(c) \/ Leaves(c) \/ Removed(c)
  <2>1. registered' \subseteq registered /\ UNCHANGED <<at, job, life, carries, lost>>
    BY <1>1 DEF Connects, Leaves, Removed, actorVars, connVars
  <2>2. \A s : Carried(s) => Carried(s)'
    BY <2>1 DEF Carried, IsLive
  <2>3. Unhooking'
    BY <1>0, <2>1, UnhookingKept
  <2>4. NotStranded'
    BY <2>1, <2>2, StillCarried
  <2> QED
    BY <2>3, <2>4
<1>2. CASE Connected(c)
  <2>1. /\ at[c] = "connected" /\ at' = [at EXCEPT ![c] = "idle"] /\ job' = [job EXCEPT ![c] = None]
        /\ registered' = registered /\ life' = life
    BY <1>2 DEF Connected, clientVars
  <2>2. got[c] \in Conn
    BY <1>0, <2>1 DEF StreamInv, Frames
  <2>3. \A s : Carried(s) => Carried(s)'
    BY <1>0, <1>2, <2>1 DEF Connected, Carried, IsLive
  <2>4. lost \subseteq lost'
    BY <1>2 DEF Connected
  <2>5. \A s \in Sub : job[c] = s => s \in lost' \/ Carried(s)'
    <3> SUFFICES ASSUME NEW s \in Sub, job[c] = s PROVE s \in lost' \/ Carried(s)'
      OBVIOUS
    <3>1. {job[c]} \ {None} = {s}
      BY StreamAssumption
    <3>2. CASE IsLive(got[c])
      <4>1. s \in carries'[got[c]]
        BY <1>0, <1>2, <2>2, <3>1, <3>2 DEF Connected
      <4>2. life'[got[c]] # "none"
        BY <2>1, <3>2 DEF IsLive
      <4> QED
        BY <2>2, <4>1, <4>2 DEF Carried, IsLive
    <3>3. CASE ~IsLive(got[c])
      BY <1>2, <3>1, <3>3 DEF Connected
    <3> QED
      BY <3>2, <3>3
  <2>6. registered \subseteq Sub
    BY <1>0 DEF StreamInv, TypeOK
  <2>7. Unhooking'
    BY <1>0, <2>1, UnhookingKept
  <2>8. \A d \in Client \ {c} : at'[d] = at[d] /\ job'[d] = job[d]
    BY <1>0, <2>1
  <2>9. NotStranded'
    BY <2>1, <2>3, <2>4, <2>5, <2>6, <2>8, StillCarried
  <2> QED
    BY <2>7, <2>9
<1>3. CASE Unregister(c)
  <2>1. /\ at[c] = "unregistering" /\ at' = [at EXCEPT ![c] = "unhooking"]
        /\ registered' = registered \ {job[c]} /\ UNCHANGED <<job, life, carries, lost>>
    BY <1>3 DEF Unregister, Without, connVars
  <2>2. \A s : Carried(s) => Carried(s)'
    BY <2>1 DEF Carried, IsLive
  <2>3. Unhooking'
    BY <1>0, <2>1 DEF Unhooking
  <2>4. \A d \in Client : at[d] \in ConnectStages => at'[d] = at[d]
    BY <1>0, <2>1
  <2>5. NotStranded'
    BY <2>1, <2>2, <2>4, StillCarried
  <2> QED
    BY <2>3, <2>5
<1>4. CASE Unhook(c)
  <2>1. /\ at[c] = "unhooking" /\ at' = [at EXCEPT ![c] = "idle"] /\ job' = [job EXCEPT ![c] = None]
        /\ UNCHANGED <<registered, life, lost>>
    BY <1>4 DEF Unhook, clientVars
  <2>2. \A k \in Conn : carries[k] \ {job[c]} \subseteq carries'[k]
    BY <1>0, <1>4 DEF Unhook
  <2>3. job[c] \notin registered
    BY <1>0, <2>1 DEF Unhooking
  <2>4. \A s \in registered : Carried(s) => Carried(s)'
    BY <2>1, <2>2, <2>3 DEF Carried, IsLive
  <2>5. Unhooking'
    BY <1>0, <2>1, UnhookingKept
  <2>6. \A d \in Client : at[d] \in ConnectStages => at'[d] = at[d] /\ job'[d] = job[d]
    BY <1>0, <2>1
  <2>7. NotStranded'
    BY <2>1, <2>4, <2>6, StillCarried
  <2> QED
    BY <2>5, <2>7
<1>5. ASSUME NEW s \in Sub, Unsubscribe(c, s) PROVE Unhooking' /\ NotStranded'
  <2>1. /\ at[c] = "idle" /\ at' = [at EXCEPT ![c] = "unregistering"] /\ job' = [job EXCEPT ![c] = s]
        /\ Owner[s] = c /\ UNCHANGED <<registered, life, carries, lost>>
    BY <1>5 DEF Unsubscribe, Ready, Owned, connVars
  <2>2. \A q : Carried(q) => Carried(q)'
    BY <2>1 DEF Carried, IsLive
  <2>3. Unhooking'
    BY <1>0, <2>1 DEF Unhooking
  <2>4. \A d \in Client : at[d] \in ConnectStages => at'[d] = at[d] /\ job'[d] = job[d]
    BY <1>0, <2>1
  <2>5. NotStranded'
    BY <2>1, <2>2, <2>4, StillCarried
  <2> QED
    BY <2>3, <2>5
<1>6. ASSUME NEW b \in Backend, Call(c, b) PROVE Unhooking' /\ NotStranded'
  <2>1. /\ at[c] = "idle" /\ at' = [at EXCEPT ![c] = "connecting"]
        /\ UNCHANGED <<job, registered, life, carries, lost>>
    BY <1>6 DEF Call, Asks, Ready, clientVars, connVars
  <2>2. \A q : Carried(q) => Carried(q)'
    BY <2>1 DEF Carried, IsLive
  <2>3. Unhooking'
    BY <1>0, <2>1, UnhookingKept
  <2>4. \A d \in Client : at[d] \in ConnectStages => at'[d] = at[d]
    BY <1>0, <2>1
  <2>5. NotStranded'
    BY <2>1, <2>2, <2>4, StillCarried
  <2> QED
    BY <2>3, <2>5
<1>7. ASSUME NEW b \in Backend, NEW s \in Sub, Subscribe(c, s, b) PROVE Unhooking' /\ NotStranded'
  <2>1. /\ at[c] = "idle" /\ at' = [at EXCEPT ![c] = "connecting"] /\ job' = [job EXCEPT ![c] = s]
        /\ Owner[s] = c /\ registered' = registered \cup {s} /\ UNCHANGED <<life, carries, lost>>
    BY <1>7 DEF Subscribe, Asks, Ready, Owned, connVars
  <2>2. \A d \in Client \ {c} : at'[d] = at[d] /\ job'[d] = job[d]
    BY <1>0, <2>1
  <2>3. at'[c] = "connecting" /\ job'[c] = s
    BY <1>0, <2>1
  <2>4. Unhooking'
    BY <1>0, <2>1, <2>2, <2>3 DEF Unhooking
  <2>5. ASSUME NEW q \in registered', q # s
        PROVE  Pending(q)' \/ q \in lost' \/ Carried(q)'
    <3>1. q \in registered /\ Owner[q] \in Client
      BY <1>0, <2>1, <2>5, Owners DEF StreamInv, TypeOK
    <3>2. Pending(q) => Pending(q)'
      BY <2>1, <2>2, <3>1 DEF Pending
    <3>3. Carried(q) => Carried(q)'
      BY <2>1 DEF Carried, IsLive
    <3> QED
      BY <1>0, <2>1, <3>1, <3>2, <3>3 DEF NotStranded, Carried
  <2>6. Pending(s)'
    BY <2>1, <2>3 DEF Pending
  <2>7. NotStranded'
    BY <2>5, <2>6 DEF NotStranded, Carried
  <2> QED
    BY <2>4, <2>7
<1> QED
  BY <1>1, <1>2, <1>3, <1>4, <1>5, <1>6, <1>7

\* A step of somebody else, that takes no handler anywhere, strands nobody as
\* long as connections keep what they carry, or it is written off.
LEMMA OthersStrandNobody ==
  ASSUME StrandInv, registered' \subseteq registered, job' = job,
         \A c \in Client : at'[c] = at[c],
         \A s \in registered' : s \in lost \/ Carried(s) => s \in lost' \/ Carried(s)'
  PROVE  Unhooking' /\ NotStranded'
<1>1. Unhooking'
  BY UnhookingKept DEF StrandInv
<1>2. NotStranded'
  BY StillCarried
<1> QED
  BY <1>1, <1>2

\* Finding or dialling a connection strands nobody.
LEMMA ConnectStrands ==
  ASSUME StrandInv, NEW a \in Actor,
         \/ ReadList(a) \/ ChooseRoom(a) \/ ChooseDial(a) \/ ChooseLeastLoaded(a)
         \/ ChooseNone(a) \/ Dial(a) \/ DialFails(a)
  PROVE  Unhooking' /\ NotStranded'
<1>0. /\ StreamInv /\ Unhooking
      /\ at \in [Actor -> HandlerStages \cup ConnectStages \cup SanityStages]
      /\ job \in [Client -> Sub \cup {None}] /\ registered \subseteq Sub
      /\ life \in [Conn -> Lives]
      /\ Client \subseteq Actor
  BY DEF StrandInv, StreamInv, TypeOK, Actor
<1>1. ASSUME NEW stage \in ConnectStages, at[a] \in ConnectStages,
             at' = [at EXCEPT ![a] = stage], UNCHANGED <<registered, job, lost>>,
             \A s : Carried(s) => Carried(s)'
      PROVE  Unhooking' /\ NotStranded'
  <2>1. \A c \in Client : at'[c] = at[c] \/ (at[c] \in ConnectStages /\ at'[c] \in ConnectStages)
    BY <1>0, <1>1
  <2>2. \A c \in Client : at'[c] \in {"unregistering", "unhooking"} => at'[c] = at[c]
    BY <2>1 DEF ConnectStages
  <2>3. Unhooking'
    BY <1>0, <1>1, <2>2, UnhookingKept
  <2>4. \A c \in Client : at[c] \in ConnectStages => at'[c] \in ConnectStages /\ job'[c] = job[c]
    BY <1>1, <2>1
  <2>5. NotStranded'
    BY <1>1, <2>4, StillCarried
  <2> QED
    BY <2>3, <2>5
<1>2. CASE ReadList(a) \/ ChooseRoom(a) \/ ChooseDial(a) \/ ChooseLeastLoaded(a)
  <2>1. PICK stage \in ConnectStages : at' = [at EXCEPT ![a] = stage]
    BY <1>2 DEF ReadList, ChooseRoom, ChooseDial, ChooseLeastLoaded, Gets, ConnectStages
  <2>2. at[a] \in ConnectStages
    BY <1>2 DEF ReadList, ChooseRoom, ChooseDial, ChooseLeastLoaded, ConnectStages
  <2>3. UNCHANGED <<registered, job, life, carries, lost>>
    BY <1>2 DEF ReadList, ChooseRoom, ChooseDial, ChooseLeastLoaded, Gets, clientVars, connVars
  <2>4. \A s : Carried(s) => Carried(s)'
    BY <2>3 DEF Carried, IsLive
  <2> QED
    BY <1>1, <2>1, <2>2, <2>3, <2>4
<1>3. CASE Dial(a)
  <2> DEFINE k == CHOOSE l \in Conn : IsFree(l)
  <2>1. /\ k \in Conn /\ life' = [life EXCEPT ![k] = "open"]
        /\ at[a] = "dialing" /\ Gets(a, k) /\ carries' = carries
    BY <1>3 DEF Dial
  <2> HIDE DEF k
  <2>2. at' = [at EXCEPT ![a] = "connected"] /\ UNCHANGED <<registered, job, lost>>
    BY <2>1 DEF Gets, clientVars
  <2>3. \A l \in Conn : life[l] # "none" => life'[l] # "none"
    BY <1>0, <2>1
  <2>4. \A s : Carried(s) => Carried(s)'
    BY <2>1, <2>3 DEF Carried, IsLive
  <2>5. "connected" \in ConnectStages /\ at[a] \in ConnectStages
    BY <2>1 DEF ConnectStages
  <2> QED
    BY <1>1, <2>2, <2>4, <2>5
<1>4. CASE ChooseNone(a) \/ DialFails(a)
  <2>1. ConnectFails(a) /\ at[a] \in ConnectStages
    BY <1>4 DEF ChooseNone, DialFails, ConnectStages
  <2>2. UNCHANGED <<registered, life, carries>>
    BY <2>1 DEF ConnectFails, clientVars, connVars
  <2>3. \A s : Carried(s) => Carried(s)'
    BY <2>2 DEF Carried, IsLive
  <2>4. CASE a = Sanity
    <3>1. NextReset /\ UNCHANGED <<job, lost>>
      BY <2>1, <2>4 DEF ConnectFails
    <3>2. \A c \in Client : at'[c] = at[c]
      BY <1>0, <3>1, Owners DEF NextReset
    <3> QED
      BY <2>2, <2>3, <3>1, <3>2, OthersStrandNobody
  <2>5. CASE a # Sanity
    <3>1. /\ at' = [at EXCEPT ![a] = "idle"] /\ job' = [job EXCEPT ![a] = None]
          /\ lost' = lost \cup ({job[a]} \ {None})
      BY <2>1, <2>5 DEF ConnectFails
    <3>2. \A c \in Client \ {a} : at'[c] = at[c] /\ job'[c] = job[c]
      BY <1>0, <3>1
    <3>3. \A s \in Sub : job[a] = s => s \in lost'
      BY <3>1, StreamAssumption
    <3>4. at'[a] = "idle"
      BY <1>0, <3>1
    <3>5. Unhooking'
      BY <1>0, <2>2, <3>2, <3>4, UnhookingKept
    <3>6. ASSUME NEW c \in Client, at[c] \in ConnectStages
          PROVE  \/ at'[c] \in ConnectStages /\ job'[c] = job[c]
                 \/ \A s \in registered' : job[c] = s => s \in lost' \/ Carried(s)'
      <4>1. CASE c = a
        <5>1. \A s \in registered' : job[c] = s => s \in lost'
          BY <1>0, <2>2, <3>3, <4>1
        <5> QED
          BY <5>1
      <4>2. CASE c # a
        BY <3>2, <3>6, <4>2
      <4> QED
        BY <4>1, <4>2
    <3>7. registered' \subseteq registered /\ \A s \in registered' : s \in lost => s \in lost'
      BY <2>2, <3>1
    <3>8. NotStranded'
      BY <2>3, <3>6, <3>7, StillCarried
    <3> QED
      BY <3>5, <3>8
  <2> QED
    BY <2>4, <2>5
<1> QED
  BY <1>2, <1>3, <1>4

\* Nor does the sanity loop: what it takes off one connection another carries,
\* or it was too late for that.
LEMMA SanityStrands ==
  ASSUME StrandInv,
         \/ SanityTick \/ Migrate \/ ClosedNext \/ ForgetHead
         \/ \E b \in Backend : ResetNothing(b) \/ \E to \in Backend : Reset(b, to)
         \/ \E k \in Conn : CloseNext(k)
  PROVE  Unhooking' /\ NotStranded'
<1>0. /\ StreamInv /\ Sanity \in Actor
      /\ at \in [Actor -> HandlerStages \cup ConnectStages \cup SanityStages]
      /\ carries \in [Conn -> SUBSET Sub] /\ life \in [Conn -> Lives]
      /\ Client \subseteq Actor
  BY DEF StrandInv, StreamInv, TypeOK, Actor
<1>1. /\ UNCHANGED <<registered, job>>
      /\ at' = at \/ \E stage : at' = [at EXCEPT ![Sanity] = stage]
  BY DEF SanityTick, Migrate, ClosedNext, ForgetHead, NextReset, ResetNothing, Reset, Asks,
    CloseNext, clientVars
<1>2. \A c \in Client : at'[c] = at[c]
  BY <1>0, <1>1, Owners
<1>3. CASE \/ SanityTick \/ ClosedNext \/ ForgetHead
           \/ \E b \in Backend : ResetNothing(b) \/ \E to \in Backend : Reset(b, to)
  <2>1. UNCHANGED <<life, carries, lost>>
    BY <1>3 DEF SanityTick, ClosedNext, ForgetHead, ResetNothing, Reset, connVars
  <2>2. \A s : Carried(s) => Carried(s)'
    BY <2>1 DEF Carried, IsLive
  <2> QED
    BY <1>1, <1>2, <2>1, <2>2, OthersStrandNobody
<1>4. ASSUME NEW k \in Conn, CloseNext(k) PROVE Unhooking' /\ NotStranded'
  <2>1. UNCHANGED <<carries, lost>> /\ (life' = life \/ life' = [life EXCEPT ![k] = "closing"])
    BY <1>4 DEF CloseNext
  <2>2. \A l \in Conn : life[l] # "none" => life'[l] # "none"
    BY <1>0, <2>1
  <2>3. \A s : Carried(s) => Carried(s)'
    BY <2>1, <2>2 DEF Carried, IsLive
  <2> QED
    BY <1>1, <1>2, <2>1, <2>3, OthersStrandNobody
<1>5. CASE Migrate
  <2> DEFINE new == got[Sanity]
             old == FirstOpen(from)
  <2>1. /\ life' = life /\ carries' = CarriedAfter(old, new)
        /\ lost' = IF IsLive(new) THEN lost \ affected ELSE lost \cup affected
        /\ at[Sanity] = "connected"
    BY <1>5 DEF Migrate
  <2>2. new \in Conn
    BY <1>0, <2>1 DEF StreamInv, Frames
  <2> HIDE DEF new, old
  <2>3. ASSUME NEW s, s \notin affected PROVE Carried(s) => Carried(s)'
    <3>1. \A k \in Conn : s \in carries[k] => s \in carries'[k]
      BY <2>1, <2>3 DEF CarriedAfter
    <3> QED
      BY <2>1, <3>1 DEF Carried, IsLive
  <2>4. ASSUME NEW s \in affected, IsLive(new) PROVE Carried(s)'
    <3>a. carries'[new] = carries[new] \cup affected
      BY <2>1, <2>2, <2>4 DEF CarriedAfter, IsLive
    <3>1. s \in carries'[new]
      BY <3>a, <2>4
    <3>2. life'[new] # "none"
      BY <2>1, <2>4 DEF IsLive
    <3> QED
      BY <2>2, <3>1, <3>2 DEF Carried, IsLive
  <2>5. \A s : s \in lost \/ Carried(s) => s \in lost' \/ Carried(s)'
    BY <2>1, <2>3, <2>4
  <2> QED
    BY <1>1, <1>2, <2>5, OthersStrandNobody
<1> QED
  BY <1>3, <1>4, <1>5

\* Nor does a connection, which forgets what it carries with the subscriptions.
LEMMA ConnectionStrands ==
  ASSUME StrandInv,
         \/ \E b \in Backend : GoesStale(b)
         \/ \E k \in Conn : Breaks(k) \/ Unlist(k) \/ Purge(k) \/ HeadArrives(k)
  PROVE  Unhooking' /\ NotStranded'
<1>0. carries \in [Conn -> SUBSET Sub] /\ life \in [Conn -> Lives]
  BY DEF StrandInv, StreamInv, TypeOK
<1>1. UNCHANGED <<job, at, lost>>
  BY DEF GoesStale, Breaks, Unlist, Purge, HeadArrives, actorVars
<1>2. CASE (\E b \in Backend : GoesStale(b)) \/ (\E k \in Conn : HeadArrives(k))
  <2>1. UNCHANGED <<registered, life, carries>>
    BY <1>2 DEF GoesStale, HeadArrives, clientVars, connVars
  <2>2. \A s : Carried(s) => Carried(s)'
    BY <2>1 DEF Carried, IsLive
  <2> QED
    BY <1>1, <2>1, <2>2, OthersStrandNobody
<1>3. ASSUME NEW k \in Conn, Breaks(k) \/ Unlist(k) PROVE Unhooking' /\ NotStranded'
  <2>1. /\ UNCHANGED <<registered, carries>>
        /\ \E to \in {"closing", "unlisted"} : life' = [life EXCEPT ![k] = to]
    BY <1>3 DEF Breaks, Unlist, clientVars
  <2>2. \A l \in Conn : life[l] # "none" => life'[l] # "none"
    BY <1>0, <2>1
  <2>3. \A s : Carried(s) => Carried(s)'
    BY <2>1, <2>2 DEF Carried, IsLive
  <2> QED
    BY <1>1, <2>1, <2>3, OthersStrandNobody
<1>4. ASSUME NEW k \in Conn, Purge(k) PROVE Unhooking' /\ NotStranded'
  <2>1. /\ registered' = registered \ carries[k] /\ life' = [life EXCEPT ![k] = "none"]
        /\ carries' = [carries EXCEPT ![k] = {}]
    BY <1>4 DEF Purge, AfterClose
  <2>2. \A l \in Conn \ {k} : life'[l] = life[l] /\ carries'[l] = carries[l]
    BY <1>0, <2>1
  <2>3. \A s \in registered' : Carried(s) => Carried(s)'
    BY <2>1, <2>2 DEF Carried, IsLive
  <2> QED
    BY <1>1, <2>1, <2>3, OthersStrandNobody
<1> QED
  BY <1>2, <1>3, <1>4

\* A registered subscription has a connection that is not done closing, unless
\* there never was one or it had closed before it was added to it: closing
\* connections, migrating and unsubscribing strand nobody in any order.
THEOREM NobodyIsStranded == Spec => []NotStranded
<1>1. Init => Unhooking /\ NotStranded
  BY DEF Init, Unhooking, NotStranded, Actor
<1>2. StrandInv /\ [Next]_vars => (Unhooking /\ NotStranded)'
  <2> SUFFICES ASSUME StrandInv, [Next]_vars PROVE Unhooking' /\ NotStranded'
    OBVIOUS
  <2>1. CASE UNCHANGED vars
    <3>1. UNCHANGED <<registered, life, carries, at, job, lost>>
      BY <2>1 DEF vars, clientVars, connVars, actorVars
    <3>2. \A s : Carried(s) => Carried(s)'
      BY <3>1 DEF Carried, IsLive
    <3> QED
      BY <3>1, <3>2, OthersStrandNobody
  <2>2. CASE Next
    BY <2>2, HandlerStrands, ConnectStrands, SanityStrands, ConnectionStrands DEF Next
  <2> QED
    BY <2>1, <2>2
<1>3. StrandInv <=> StreamInv /\ Unhooking /\ NotStranded
  BY DEF StrandInv
<1> QED
  BY <1>1, <1>2, <1>3, StreamTypeInvariance, PTL DEF Spec

-----------------------------------------------------------------------------
\* How many connections a backend can have.

\* Those who have read a list that lets them dial, and will.
Dialers(b) ==
  {a \in Actor : /\ goal[a] = b
                 /\ at[a] = "dialing" \/ (at[a] = "choosing" /\ MayDial(view[a]))}

\* Each may still bring its backend a connection.
Headroom ==
  \A b \in Backend : Len(list[b]) + Cardinality(Dialers(b)) <= MaxConns - 1 + Cardinality(Actor)

\* Clients and the sanity loop are so many, and those who dial no more.
LEMMA FewDialers ==
  /\ IsFiniteSet(Actor) /\ Cardinality(Actor) \in Nat
  /\ \A S \in SUBSET Actor :
       /\ IsFiniteSet(S) /\ Cardinality(S) \in Nat /\ Cardinality(S) <= Cardinality(Actor)
       /\ \A R \in SUBSET S : Cardinality(R) <= Cardinality(S)
<1>1. IsFiniteSet(Actor)
  BY StreamAssumption, FS_AddElement DEF Actor
<1> QED
  BY <1>1, FS_Subset, FS_CardinalityType

\* No more connections and no more dialers: there is as much headroom.
LEMMA HeadroomKept ==
  ASSUME StreamInv, StreamInv', Headroom,
         \A b \in Backend : Len(list'[b]) <= Len(list[b]),
         \A a \in Actor : at'[a] \in {"choosing", "dialing"} =>
           /\ goal'[a] = goal[a] /\ view'[a] = view[a]
           /\ at'[a] = at[a] \/ (at[a] = "choosing" /\ MayDial(view[a]))
  PROVE  Headroom'
<1> SUFFICES ASSUME NEW b \in Backend
             PROVE  Len(list'[b]) + Cardinality(Dialers(b)') <= MaxConns - 1 + Cardinality(Actor)
  BY DEF Headroom
<1>1. Len(list[b]) \in Nat /\ Len(list'[b]) \in Nat /\ MaxConns \in Nat
  BY StreamAssumption DEF StreamInv, TypeOK
<1>2. Dialers(b)' \subseteq Dialers(b)
  BY DEF Dialers, MayDial
<1>3. /\ Cardinality(Dialers(b)) \in Nat /\ Cardinality(Dialers(b)') \in Nat
      /\ Cardinality(Dialers(b)') <= Cardinality(Dialers(b))
  <2>1. Dialers(b) \in SUBSET Actor
    BY DEF Dialers
  <2> HIDE DEF Dialers
  <2> QED
    BY <1>2, <2>1, FewDialers
<1>4. Len(list[b]) + Cardinality(Dialers(b)) <= MaxConns - 1 + Cardinality(Actor)
  BY DEF Headroom
<1> QED
  BY <1>1, <1>3, <1>4, FewDialers

\* Whoever reads a list that is short enough may add to it, whoever dials has
\* read one: the limit is passed by as many as get past the check together.
LEMMA HeadroomConnect ==
  ASSUME StreamInv, StreamInv', Headroom, NEW a \in Actor,
         \/ ReadList(a) \/ ChooseRoom(a) \/ ChooseDial(a) \/ ChooseLeastLoaded(a)
         \/ ChooseNone(a) \/ Dial(a) \/ DialFails(a)
  PROVE  Headroom'
<1>0. /\ at \in [Actor -> HandlerStages \cup ConnectStages \cup SanityStages]
      /\ goal \in [Actor -> Backend \cup {None}] /\ view \in [Actor -> Seq(Conn)]
      /\ list \in [Backend -> Seq(Conn)] /\ Sanity \in Actor
      /\ at[a] \in ConnectStages => goal[a] \in Backend
      /\ MaxConns \in Nat
  BY StreamAssumption DEF StreamInv, TypeOK, Actor, Frames
<1>1. ASSUME NEW stage \in {"idle", "resetting", "connected"}, at' = [at EXCEPT ![a] = stage],
             \A x \in Actor \ {a} : goal'[x] = goal[x] /\ view'[x] = view[x], list' = list
      PROVE  Headroom'
  <2>1. \A x \in Actor : at'[x] \in {"choosing", "dialing"} => x # a /\ at'[x] = at[x]
    BY <1>0, <1>1
  <2>2. \A c \in Backend : Len(list'[c]) <= Len(list[c])
    BY <1>0, <1>1
  <2>3. \A x \in Actor : at'[x] \in {"choosing", "dialing"} =>
          goal'[x] = goal[x] /\ view'[x] = view[x] /\ at'[x] = at[x]
    BY <1>1, <2>1
  <2> QED
    BY <2>2, <2>3, HeadroomKept
<1>2. CASE ReadList(a)
  <2>2. at[a] \in ConnectStages
    BY <1>2 DEF ReadList, ConnectStages
  <2>b. PICK b \in Backend : b = goal[a]
    BY <1>0, <2>2
  <2>1. /\ at[a] = "connecting" /\ at' = [at EXCEPT ![a] = "choosing"]
        /\ view' = [view EXCEPT ![a] = list[b]] /\ UNCHANGED <<goal, list>>
    BY <1>2, <2>b DEF ReadList, ListOf, connVars
  <2> SUFFICES ASSUME NEW c \in Backend
               PROVE  Len(list[c]) + Cardinality(Dialers(c)') <= MaxConns - 1 + Cardinality(Actor)
    BY <2>1 DEF Headroom
  <2>3. Len(list[c]) \in Nat
    BY <1>0
  <2>4. CASE c = b /\ MayDial(list[b])
    <3>1. Dialers(c)' \in SUBSET Actor
      BY DEF Dialers
    <3>2. Cardinality(Dialers(c)') <= Cardinality(Actor) /\ Cardinality(Dialers(c)') \in Nat
      BY <3>1, FewDialers
    <3>3. Len(list[c]) < MaxConns
      BY <2>4 DEF MayDial
    <3> QED
      BY <1>0, <2>3, <3>2, <3>3, FewDialers
  <2>5. CASE ~(c = b /\ MayDial(list[b]))
    <3>1. at'[a] = "choosing" /\ view'[a] = list[b] /\ goal'[a] = b
      BY <1>0, <2>1, <2>b
    <3>2. \A x \in Actor \ {a} : at'[x] = at[x] /\ view'[x] = view[x] /\ goal'[x] = goal[x]
      BY <1>0, <2>1
    <3>3. Dialers(c)' = Dialers(c)
      BY <2>1, <2>b, <2>5, <3>1, <3>2 DEF Dialers, MayDial
    <3> QED
      BY <3>3 DEF Headroom
  <2> QED
    BY <2>4, <2>5
<1>3. CASE ChooseDial(a)
  <2>1. /\ at[a] = "choosing" /\ at' = [at EXCEPT ![a] = "dialing"] /\ MayDial(view[a])
        /\ UNCHANGED <<list, goal, view>>
    BY <1>3 DEF ChooseDial, connVars
  <2>2. \A x \in Actor : at'[x] = at[x] \/ x = a
    BY <1>0, <2>1
  <2>3. \A c \in Backend : Len(list'[c]) <= Len(list[c])
    BY <1>0, <2>1
  <2>4. \A x \in Actor :
          /\ goal'[x] = goal[x] /\ view'[x] = view[x]
          /\ at'[x] = at[x] \/ (at[x] = "choosing" /\ MayDial(view[x]))
    BY <2>1, <2>2
  <2> QED
    BY <2>3, <2>4, HeadroomKept
<1>4. CASE ChooseRoom(a) \/ ChooseLeastLoaded(a)
  <2>1. /\ at' = [at EXCEPT ![a] = "connected"] /\ UNCHANGED <<list, goal>>
        /\ view' = [view EXCEPT ![a] = <<>>]
    BY <1>4 DEF ChooseRoom, ChooseLeastLoaded, Gets, connVars
  <2>2. \A x \in Actor \ {a} : goal'[x] = goal[x] /\ view'[x] = view[x]
    BY <1>0, <2>1
  <2> QED
    BY <1>1, <2>1, <2>2
<1>5. CASE Dial(a)
  <2> DEFINE k == CHOOSE l \in Conn : IsFree(l)
  <2>b. at[a] \in ConnectStages
    BY <1>5 DEF Dial, ConnectStages
  <2>c. PICK b \in Backend : b = goal[a]
    BY <1>0, <2>b
  <2>1. /\ at[a] = "dialing" /\ k \in Conn /\ Gets(a, k)
        /\ list' = [list EXCEPT ![b] = Append(list[b], k)]
    BY <1>5, <2>c DEF Dial
  <2> HIDE DEF k
  <2>2. /\ at' = [at EXCEPT ![a] = "connected"] /\ goal' = goal
        /\ view' = [view EXCEPT ![a] = <<>>]
    BY <2>1 DEF Gets
  <2>3. list[b] \in Seq(Conn)
    BY <1>0
  <2>4. list'[b] = Append(list[b], k) /\ \A c \in Backend \ {b} : list'[c] = list[c]
    BY <1>0, <2>1, <2>3
  <2>5. Len(list'[b]) = Len(list[b]) + 1 /\ Len(list[b]) \in Nat
    BY <2>1, <2>3, <2>4
  <2>6. at'[a] = "connected" /\ \A x \in Actor \ {a} : at'[x] = at[x] /\ view'[x] = view[x]
    BY <1>0, <2>2
  <2>7. Dialers(b)' = Dialers(b) \ {a} /\ a \in Dialers(b) /\ Dialers(b) \in SUBSET Actor
    BY <2>1, <2>2, <2>6, <2>c DEF Dialers
  <2>8. \A c \in Backend \ {b} : Dialers(c)' = Dialers(c)
    BY <2>1, <2>2, <2>6, <2>c DEF Dialers
  <2>9. /\ Cardinality(Dialers(b)') = Cardinality(Dialers(b)) - 1
        /\ Cardinality(Dialers(b)) \in Nat
    BY <2>7, FewDialers, FS_RemoveElement
  <2>10. ASSUME NEW c \in Backend
         PROVE  Len(list'[c]) + Cardinality(Dialers(c)') <= MaxConns - 1 + Cardinality(Actor)
    <3>1. CASE c = b
      <4>1. Len(list[b]) + Cardinality(Dialers(b)) <= MaxConns - 1 + Cardinality(Actor)
        BY <2>3 DEF Headroom
      <4> QED
        BY <1>0, <2>5, <2>9, <3>1, <4>1, FewDialers
    <3>2. CASE c # b
      BY <2>4, <2>8, <3>2 DEF Headroom
    <3> QED
      BY <3>1, <3>2
  <2> QED
    BY <2>10 DEF Headroom
<1>6. CASE ChooseNone(a) \/ DialFails(a)
  <2>1. ConnectFails(a)
    BY <1>6 DEF ChooseNone, DialFails
  <2>2. /\ goal' = [goal EXCEPT ![a] = None] /\ view' = [view EXCEPT ![a] = <<>>] /\ list' = list
    BY <2>1 DEF ConnectFails, connVars
  <2>3. \E stage \in {"idle", "resetting"} : at' = [at EXCEPT ![a] = stage]
    BY <2>1 DEF ConnectFails, NextReset
  <2>4. \A x \in Actor \ {a} : goal'[x] = goal[x] /\ view'[x] = view[x]
    BY <1>0, <2>2
  <2> QED
    BY <1>1, <2>2, <2>3, <2>4
<1> QED
  BY <1>2, <1>3, <1>4, <1>5, <1>6

\* What else handlers and the sanity loop do gets nobody past the check.
LEMMA HeadroomElsewhere ==
  ASSUME StreamInv, StreamInv', Headroom, NEW a \in Actor, list' = list, view' = view,
         \/ at' = at /\ goal' = goal
         \/ /\ \E stage \in HandlerStages \cup SanityStages \cup {"connecting"} :
                 at' = [at EXCEPT ![a] = stage]
            /\ goal' = goal \/ \E b : goal' = [goal EXCEPT ![a] = b]
  PROVE  Headroom'
<1>0. /\ at \in [Actor -> HandlerStages \cup ConnectStages \cup SanityStages]
      /\ goal \in [Actor -> Backend \cup {None}]
      /\ \A b \in Backend : Len(list[b]) \in Nat
  BY DEF StreamInv, TypeOK
<1>1. CASE at' = at /\ goal' = goal
  BY <1>0, <1>1, HeadroomKept
<1>2. CASE /\ \E stage \in HandlerStages \cup SanityStages \cup {"connecting"} :
                at' = [at EXCEPT ![a] = stage]
           /\ goal' = goal \/ \E b : goal' = [goal EXCEPT ![a] = b]
  <2>1. /\ at'[a] \notin {"choosing", "dialing"}
        /\ \A x \in Actor \ {a} : at'[x] = at[x] /\ goal'[x] = goal[x]
    BY <1>0, <1>2 DEF HandlerStages, SanityStages
  <2>2. \A x \in Actor : at'[x] \in {"choosing", "dialing"} =>
          goal'[x] = goal[x] /\ view'[x] = view[x] /\ at'[x] = at[x]
    BY <2>1
  <2> QED
    BY <1>0, <2>2, HeadroomKept
<1> QED
  BY <1>1, <1>2

\* A handler's steps, those of the sanity loop, and what connections do.
LEMMA HeadroomOthers ==
  ASSUME StreamInv, StreamInv', Headroom,
         \/ \E c \in Client :
              \/ Connects(c) \/ Connected(c) \/ Unregister(c) \/ Unhook(c) \/ Leaves(c) \/ Removed(c)
              \/ \E s \in Sub : Unsubscribe(c, s)
              \/ \E b \in Backend : Call(c, b) \/ \E s \in Sub : Subscribe(c, s, b)
         \/ SanityTick \/ Migrate \/ ClosedNext \/ ForgetHead
         \/ \E b \in Backend : ResetNothing(b) \/ GoesStale(b) \/ \E to \in Backend : Reset(b, to)
         \/ \E k \in Conn :
              Breaks(k) \/ Unlist(k) \/ Purge(k) \/ HeadArrives(k) \/ CloseNext(k)
  PROVE  Headroom'
<1>0. Client \subseteq Actor /\ Sanity \in Actor
  BY DEF Actor
<1> USE DEF HandlerStages, SanityStages
<1>1. ASSUME NEW c \in Client,
             \/ Connects(c) \/ Connected(c) \/ Unregister(c) \/ Unhook(c) \/ Leaves(c) \/ Removed(c)
             \/ \E s \in Sub : Unsubscribe(c, s)
             \/ \E b \in Backend : Call(c, b) \/ \E s \in Sub : Subscribe(c, s, b)
      PROVE  Headroom'
  <2>1. list' = list /\ view' = view
    BY <1>1 DEF Connects, Connected, Unregister, Unhook, Leaves, Removed, Unsubscribe, Call,
      Subscribe, Asks, connVars, actorVars
  <2>2. \/ at' = at /\ goal' = goal
        \/ /\ \E stage \in {"idle", "unregistering", "unhooking", "connecting"} :
                at' = [at EXCEPT ![c] = stage]
           /\ goal' = goal \/ \E b : goal' = [goal EXCEPT ![c] = b]
    BY <1>1 DEF Connects, Connected, Unregister, Unhook, Leaves, Removed, Unsubscribe, Call,
      Subscribe, Asks, actorVars
  <2> QED
    BY <1>0, <2>1, <2>2, HeadroomElsewhere
<1>2. CASE \/ SanityTick \/ Migrate \/ ClosedNext \/ ForgetHead
           \/ \E b \in Backend : ResetNothing(b) \/ \E to \in Backend : Reset(b, to)
           \/ \E k \in Conn : CloseNext(k)
  <2>1. list' = list /\ view' = view
    BY <1>2 DEF SanityTick, Migrate, ClosedNext, ForgetHead, ResetNothing, Reset, Asks, CloseNext,
      connVars
  <2>2. \/ at' = at /\ goal' = goal
        \/ /\ \E stage \in {"idle", "resetting", "closing", "awaiting", "connecting"} :
                at' = [at EXCEPT ![Sanity] = stage]
           /\ goal' = goal \/ \E b : goal' = [goal EXCEPT ![Sanity] = b]
    BY <1>2 DEF SanityTick, Migrate, ClosedNext, ForgetHead, NextReset, ResetNothing, Reset, Asks,
      CloseNext
  <2> QED
    BY <1>0, <2>1, <2>2, HeadroomElsewhere
<1>3. CASE \/ \E b \in Backend : GoesStale(b)
           \/ \E k \in Conn : Breaks(k) \/ Purge(k) \/ HeadArrives(k)
  <2>1. UNCHANGED <<list, view, at, goal>>
    BY <1>3 DEF GoesStale, Breaks, Purge, HeadArrives, connVars, actorVars
  <2> QED
    BY <1>0, <2>1, HeadroomElsewhere
<1>4. ASSUME NEW k \in Conn, Unlist(k) PROVE Headroom'
  <2>1. /\ list' = [list EXCEPT ![home[k]] = RemoveFirst(list[home[k]], k)]
        /\ UNCHANGED <<view, at, goal>>
    BY <1>4 DEF Unlist, Delisted, actorVars
  <2>2. list \in [Backend -> Seq(Conn)] /\ \A b \in Backend : IsInjective(list[b])
    BY DEF StreamInv, TypeOK, ListsMatch
  <2>3. ASSUME NEW b \in Backend PROVE Len(list'[b]) <= Len(list[b])
    <3>1. CASE b = home[k]
      <4>1. Len(RemoveFirst(list[b], k)) <= Len(list[b])
        BY <2>2, DelistedIs
      <4>2. list'[b] = RemoveFirst(list[b], k)
        BY <2>1, <2>2, <3>1
      <4> QED
        BY <4>1, <4>2
    <3>2. CASE b # home[k]
      <4>1. list'[b] = list[b] /\ Len(list[b]) \in Nat
        BY <2>1, <2>2, <3>2
      <4> QED
        BY <4>1
    <3> QED
      BY <3>1, <3>2
  <2> QED
    BY <2>1, <2>3, HeadroomKept
<1> QED
  BY <1>1, <1>2, <1>3, <1>4

\* No backend ever has more connections than the limit and as many more as can
\* get past its check together, less one (getOrCreateWSConnection).
THEOREM LimitPassedByFew == Spec => []ConnectionsBounded
<1>1. Init => Headroom
  <2> SUFFICES ASSUME Init, NEW b \in Backend
               PROVE  Len(list[b]) + Cardinality(Dialers(b)) <= MaxConns - 1 + Cardinality(Actor)
    BY DEF Headroom
  <2>1. list[b] = <<>> /\ Dialers(b) = {}
    BY DEF Init, Dialers
  <2>2. Len(list[b]) = 0 /\ Cardinality(Dialers(b)) = 0
    BY <2>1, FS_EmptySet
  <2> QED
    BY <2>2, FewDialers, StreamAssumption
<1>2. StreamInv /\ StreamInv' /\ Headroom /\ [Next]_vars => Headroom'
  <2> SUFFICES ASSUME StreamInv, StreamInv', Headroom, [Next]_vars PROVE Headroom'
    OBVIOUS
  <2>1. CASE UNCHANGED vars
    <3>1. UNCHANGED <<list, view, at, goal>> /\ Sanity \in Actor
      BY <2>1 DEF vars, connVars, actorVars, Actor
    <3> QED
      BY <3>1, HeadroomElsewhere
  <2>2. CASE Next
    BY <2>2, HeadroomConnect, HeadroomOthers DEF Next
  <2> QED
    BY <2>1, <2>2
<1>3. StreamInv /\ Headroom => ConnectionsBounded
  <2> SUFFICES ASSUME StreamInv, Headroom, NEW b \in Backend
               PROVE  Len(list[b]) <= MaxConns - 1 + Cardinality(Actor)
    BY DEF ConnectionsBounded
  <2>1. Dialers(b) \in SUBSET Actor /\ Len(list[b]) \in Nat
    BY DEF Dialers, StreamInv, TypeOK
  <2>2. Cardinality(Dialers(b)) \in Nat
    BY <2>1, FewDialers
  <2>3. Len(list[b]) + Cardinality(Dialers(b)) <= MaxConns - 1 + Cardinality(Actor)
    BY DEF Headroom
  <2> QED
    BY <2>1, <2>2, <2>3, FewDialers, StreamAssumption
<1> QED
  BY <1>1, <1>2, <1>3, StreamTypeInvariance, PTL DEF Spec
=============================================================================
