----------------------------- MODULE HeadsProofs -----------------------------
(***************************************************************************)
(* No head is missed, and Heads implements HeadFeed, for any clients,      *)
(* connections, heights and reorg depth.                                   *)
(***************************************************************************)
EXTENDS Heads, SequenceTheorems, TLAPS

\* What an append adds to the range of a sequence.
LEMMA AppendRange ==
  ASSUME NEW S, NEW s \in Seq(S), NEW e \in S
  PROVE  Range(Append(s, e)) = Range(s) \cup {e}
  BY SMTT(30) DEF Range

\* A sequence is one over any set that its elements are in.
LEMMA SeqInto ==
  ASSUME NEW S, NEW T, NEW s \in Seq(S), Range(s) \subseteq T
  PROVE  s \in Seq(T)
<1>1. Len(s) \in Nat /\ DOMAIN s = 1..Len(s) /\ s = [i \in 1..Len(s) |-> s[i]]
  BY LenProperties
<1>2. \A i \in 1..Len(s) : s[i] \in T
  BY <1>1 DEF Range
<1> QED
  BY <1>1, <1>2, IsASeq

\* What the steps need of the types.
Types ==
  /\ delivered \in [1..MaxNumber -> Hash \cup {NoHash}]
  /\ stage \in [Conn -> {"reading", "marked", "notifying"}]
  /\ entry \in [Conn -> Nat]
  /\ to \in [Conn -> SUBSET Client]
  /\ client \in [Client -> ClientStates]
  /\ newHeads \subseteq Client
  /\ feed \in Seq(Header)
  /\ heard \in [Client -> Seq(Nat)]
  /\ owed \in Seq(SUBSET Client) /\ Len(owed) = Len(feed)

\* A connection that is not reading is busy with an entry of the feed, each
\* with its own, as markDelivered finds a head to be news once.
OwnEntry ==
  \A k \in Conn : stage[k] # "reading" =>
    /\ entry[k] \in DOMAIN feed
    /\ \A l \in Conn \ {k} : stage[l] # "reading" => entry[l] # entry[k]

\* One that reads is not.
Idle == \A k \in Conn : stage[k] = "reading" => entry[k] = 0

\* A client has only heard what was announced, and not what it is still to get.
HeardOnce ==
  \A c \in Client :
    /\ HeardBy(c) \subseteq DOMAIN feed
    /\ \A k \in Conn :
         stage[k] = "marked" \/ (stage[k] = "notifying" /\ c \in to[k]) =>
           entry[k] \notin HeardBy(c)

\* A client that is owed a head is still there and subscribed.
OwedStays ==
  \A i \in DOMAIN feed : \A c \in owed[i] : c \in newHeads /\ client[c] = "up"

\* While a head is sent round, who is owed it is still to be looked at or has it.
OwedServed ==
  \A k \in Conn : stage[k] = "notifying" =>
    \A c \in owed[entry[k]] : c \in to[k] \/ entry[k] \in HeardBy(c)

\* What markDelivered remembers of a height is the last head announced there,
\* unless a later one has taken that height below the reorg depth.
Remembers ==
  \A i \in DOMAIN feed :
    Feed!IsLatestAt(i, feed[i].number) =>
      \/ delivered[feed[i].number] = feed[i].hash
      \/ \E j \in (i + 1)..Len(feed) : feed[j].number > feed[i].number + Depth

\* The inductive invariant.
FeedInv ==
  Types /\ OwnEntry /\ Idle /\ HeardOnce /\ OwedStays /\ OwedServed /\ Remembers /\ NoHeadMissed

FeedVars == <<delivered, stage, entry, to, feed, heard>>

\* Clients that come, go, subscribe or unsubscribe keep the invariant: nobody is
\* owed more, and who leaves or unsubscribes is owed nothing any more.
LEMMA ClientStep ==
  ASSUME FeedInv, NEW c \in Client,
         Connects(c) \/ Breaks(c) \/ Removed(c) \/ Subscribes(c) \/ Unsubscribes(c)
  PROVE  FeedInv'
<1>1. UNCHANGED FeedVars
  BY DEF Connects, Breaks, Removed, Subscribes, Unsubscribes, Release, FeedVars
<1>2. client' \in [Client -> ClientStates] /\ newHeads' \subseteq Client
  BY DEF Connects, Breaks, Removed, Subscribes, Unsubscribes, ClientStates, FeedInv, Types
<1>3. /\ owed' \in Seq(SUBSET Client) /\ Len(owed') = Len(feed)
      /\ \A i \in DOMAIN feed : owed'[i] \subseteq owed[i]
      /\ \A i \in DOMAIN feed : \A d \in owed'[i] : d \in newHeads' /\ client'[d] = "up"
  <2>1. DOMAIN owed = DOMAIN feed
    BY DEF FeedInv, Types
  <2>2. CASE Connects(c) \/ Removed(c) \/ Subscribes(c)
    BY <2>2 DEF Connects, Removed, Subscribes, FeedInv, Types, OwedStays
  <2>3. CASE Breaks(c) \/ Unsubscribes(c)
    <3>1. owed' = [i \in 1..Len(owed) |-> owed[i] \ {c}]
      BY <2>3 DEF Breaks, Unsubscribes, Release, FeedInv, Types
    <3>2. owed' \in Seq(SUBSET Client) /\ Len(owed') = Len(owed)
      BY <3>1 DEF FeedInv, Types
    <3> QED
      BY <2>1, <2>3, <3>1, <3>2 DEF Breaks, Unsubscribes, FeedInv, Types, OwedStays
  <2> QED
    BY <2>2, <2>3
<1>4. Types' /\ OwedStays'
  BY <1>1, <1>2, <1>3 DEF FeedInv, Types, OwedStays, FeedVars
<1>5. OwnEntry' /\ Idle' /\ HeardOnce' /\ Remembers'
  BY <1>1 DEF FeedInv, OwnEntry, Idle, HeardOnce, HeardBy, Remembers, Feed!IsLatestAt, FeedVars
<1>6. OwedServed' /\ NoHeadMissed'
  BY <1>1, <1>3
     DEF FeedInv, OwnEntry, OwedServed, NoHeadMissed, HeardBy, InFlight, FeedVars
<1> QED
  BY <1>4, <1>5, <1>6 DEF FeedInv

\* A head that is news is remembered, and whatever it makes the tracker forget
\* is below the reorg depth (markDelivered).
LEMMA MarkRemembers ==
  ASSUME FeedInv, NEW k \in Conn, NEW payload \in Payload, MarkDelivered(k, payload)
  PROVE  payload \in Header /\ Remembers'
<1>1. payload \in Header /\ payload.number \in 1..MaxNumber /\ payload.hash \in Hash
  BY HeadsAssumption DEF MarkDelivered, IsHeader, Payload, Header, HeadsAssumption
<1>2. SUFFICES ASSUME NEW i \in DOMAIN feed', Feed!IsLatestAt(i, feed[i].number)'
               PROVE  \/ delivered'[feed'[i].number] = feed'[i].hash
                      \/ \E j \in (i + 1)..Len(feed') : feed'[j].number > feed'[i].number + Depth
  BY <1>1 DEF Remembers
<1> DEFINE n == payload.number
           told == [delivered EXCEPT ![n] = payload.hash]
<1>3. feed' = Append(feed, payload) /\ Len(feed') = Len(feed) + 1 /\ feed'[Len(feed) + 1] = payload
  BY <1>1 DEF MarkDelivered, FeedInv, Types
<1>4. /\ \A j \in DOMAIN feed : feed'[j] = feed[j]
      /\ DOMAIN feed' = 1..(Len(feed) + 1) /\ DOMAIN feed = 1..Len(feed) /\ Len(feed) \in Nat
  BY <1>1, <1>3 DEF FeedInv, Types
<1>5. \A m \in 1..MaxNumber :
        delivered'[m] = told[m] \/ (n > Depth /\ m < n - Depth)
  BY HeadsAssumption, <1>1 DEF MarkDelivered, Prune, FeedInv, Types, HeadsAssumption
<1>6. CASE i = Len(feed) + 1
  <2>1. told[n] = payload.hash
    BY <1>1 DEF FeedInv, Types
  <2>2. ~(n < n - Depth)
    BY <1>1, HeadsAssumption DEF HeadsAssumption
  <2>3. delivered'[n] = told[n]
    BY <1>1, <1>5, <2>2
  <2> QED
    BY <1>3, <1>6, <2>1, <2>3
<1>7. CASE i \in DOMAIN feed
  <2>1. feed[i].number \in 1..MaxNumber
    <3>1. feed[i] \in Header
      BY <1>7 DEF FeedInv, Types
    <3> QED
      BY <3>1 DEF Header
  <2>2. feed'[i] = feed[i] /\ feed[i].number # n
    BY <1>2, <1>3, <1>4, <1>7 DEF Feed!IsLatestAt
  <2>3. Feed!IsLatestAt(i, feed[i].number)
    BY <1>2, <1>3, <1>4, <1>7, <2>2 DEF Feed!IsLatestAt
  <2>4. CASE \E j \in (i + 1)..Len(feed) : feed[j].number > feed[i].number + Depth
    BY <1>3, <1>4, <1>7, <2>2, <2>4
  <2>5. CASE delivered[feed[i].number] = feed[i].hash
    <3>1. told[feed[i].number] = feed[i].hash
      BY <2>1, <2>2, <2>5 DEF FeedInv, Types
    <3>2. CASE delivered'[feed[i].number] = told[feed[i].number]
      BY <2>2, <3>1, <3>2
    <3>3. CASE n > Depth /\ feed[i].number < n - Depth
      <4>1. payload.number > feed[i].number + Depth
        BY <1>1, <2>1, <3>3, HeadsAssumption DEF HeadsAssumption
      <4> QED
        BY <1>3, <1>4, <1>7, <2>2, <4>1
    <3> QED
      BY <1>5, <2>1, <3>2, <3>3
  <2> QED
    BY <1>7, <2>3, <2>4, <2>5 DEF FeedInv, Remembers
<1> QED
  BY <1>4, <1>6, <1>7, <1>1

\* The rest of the invariant after such a head: its entry is new.
LEMMA MarkStep ==
  ASSUME FeedInv, NEW k \in Conn, NEW payload \in Payload, MarkDelivered(k, payload)
  PROVE  FeedInv'
<1> DEFINE new == Len(feed) + 1
           subscribed == {c \in newHeads : client[c] = "up"}
<1>1. payload \in Header /\ Remembers'
  BY MarkRemembers
<1>2. /\ feed' = Append(feed, payload) /\ feed' \in Seq(Header) /\ Len(feed) \in Nat
      /\ DOMAIN feed = 1..Len(feed) /\ DOMAIN feed' = DOMAIN feed \cup {new} /\ new \notin DOMAIN feed
  BY <1>1 DEF MarkDelivered, FeedInv, Types
<1>3. /\ owed' \in Seq(SUBSET Client) /\ Len(owed') = Len(feed')
      /\ owed'[new] = subscribed /\ \A i \in DOMAIN feed : owed'[i] = owed[i]
  <2>1. subscribed \in SUBSET Client /\ owed \in Seq(SUBSET Client) /\ Len(owed) = Len(feed)
    BY DEF FeedInv, Types
  <2>2. owed' = Append(owed, subscribed)
    BY DEF MarkDelivered
  <2> QED
    BY <1>2, <2>1, <2>2
<1>4. /\ stage[k] = "reading" /\ stage' = [stage EXCEPT ![k] = "marked"]
      /\ entry' = [entry EXCEPT ![k] = new]
      /\ UNCHANGED <<to, client, newHeads, heard>>
  BY DEF MarkDelivered
<1>5. delivered' \in [1..MaxNumber -> Hash \cup {NoHash}]
  <2>1. payload.number \in 1..MaxNumber /\ payload.hash \in Hash
    BY <1>1 DEF Header
  <2> QED
    BY <2>1 DEF MarkDelivered, Prune, FeedInv, Types
<1>6. Types'
  BY <1>2, <1>3, <1>4, <1>5 DEF FeedInv, Types
<1>7. OwnEntry' /\ Idle'
  BY <1>2, <1>4 DEF FeedInv, Types, OwnEntry, Idle
<1>8. HeardOnce'
  BY <1>2, <1>4 DEF FeedInv, Types, HeardOnce, HeardBy
<1>9. OwedStays'
  BY <1>2, <1>3, <1>4 DEF FeedInv, OwedStays
<1>10. OwedServed'
  BY <1>2, <1>3, <1>4 DEF FeedInv, Types, OwnEntry, OwedServed, HeardBy
<1>11. NoHeadMissed'
  <2> SUFFICES ASSUME NEW i \in DOMAIN feed', ~InFlight(i)' PROVE \A c \in owed'[i] : i \in HeardBy(c)'
    BY DEF NoHeadMissed
  <2>1. i # new
    BY <1>4 DEF FeedInv, Types, InFlight
  <2>2. i \in DOMAIN feed /\ i # 0
    BY <1>2, <2>1
  <2>3. CASE InFlight(i)
    <3>1. entry[k] = i
      BY <1>4, <2>3 DEF FeedInv, Types, InFlight
    <3> QED
      BY <1>4, <2>2, <3>1 DEF FeedInv, Types, Idle
  <2>4. CASE ~InFlight(i)
    BY <1>3, <1>4, <2>2, <2>4 DEF FeedInv, NoHeadMissed, HeardBy
  <2> QED
    BY <2>3, <2>4
<1> QED
  BY <1>1, <1>6, <1>7, <1>8, <1>9, <1>10, <1>11 DEF FeedInv

\* The sending of a head keeps the invariant, from taking wm.mu to letting it go
\* (notifyBlockSubscribers).
LEMMA NotifyStep ==
  ASSUME FeedInv, NEW k \in Conn,
         NotifyBegins(k) \/ NotifyEnds(k) \/ \E c \in Client : NotifyClient(k, c)
  PROVE  FeedInv'
<1>1. CASE NotifyBegins(k)
  <2>1. /\ stage[k] = "marked" /\ stage' = [stage EXCEPT ![k] = "notifying"]
        /\ to' = [to EXCEPT ![k] = Listed]
        /\ UNCHANGED <<delivered, entry, client, newHeads, feed, heard, owed>>
    BY <1>1 DEF NotifyBegins
  <2>2. Listed \subseteq Client /\ \A c \in Client : client[c] = "up" => c \in Listed
    BY DEF Listed
  <2>3. Types' /\ OwnEntry' /\ Idle'
    BY <2>1, <2>2 DEF FeedInv, Types, OwnEntry, Idle
  <2>4. HeardOnce' /\ OwedStays' /\ NoHeadMissed'
    BY <2>1 DEF FeedInv, Types, HeardOnce, OwedStays, NoHeadMissed, InFlight, HeardBy
  <2>5. OwedServed'
    <3>1. entry[k] \in DOMAIN feed /\ \A c \in owed[entry[k]] : c \in Client
      BY <2>1 DEF FeedInv, Types, OwnEntry
    <3> QED
      BY <2>1, <2>2, <3>1 DEF FeedInv, Types, OwedStays, OwedServed, HeardBy
  <2>6. Remembers'
    BY <2>1 DEF FeedInv, Remembers, Feed!IsLatestAt
  <2> QED
    BY <2>3, <2>4, <2>5, <2>6 DEF FeedInv
<1>2. CASE NotifyEnds(k)
  <2>1. /\ stage[k] = "notifying" /\ to[k] = {}
        /\ stage' = [stage EXCEPT ![k] = "reading"] /\ entry' = [entry EXCEPT ![k] = 0]
        /\ UNCHANGED <<delivered, to, client, newHeads, feed, heard, owed>>
    BY <1>2 DEF NotifyEnds
  <2>2. Types' /\ OwnEntry' /\ Idle'
    BY <2>1 DEF FeedInv, Types, OwnEntry, Idle
  <2>3. HeardOnce' /\ OwedStays' /\ OwedServed'
    BY <2>1 DEF FeedInv, Types, HeardOnce, OwedStays, OwedServed, HeardBy
  <2>4. Remembers'
    BY <2>1 DEF FeedInv, Remembers, Feed!IsLatestAt
  <2>5. NoHeadMissed'
    <3> SUFFICES ASSUME NEW i \in DOMAIN feed, ~InFlight(i)'
                 PROVE  \A c \in owed[i] : i \in HeardBy(c)
      BY <2>1 DEF NoHeadMissed, HeardBy
    <3>1. CASE InFlight(i)
      <4>1. entry[k] = i
        BY <2>1, <3>1 DEF FeedInv, Types, InFlight
      <4> QED
        BY <2>1, <4>1 DEF FeedInv, OwedServed
    <3>2. CASE ~InFlight(i)
      BY <3>2 DEF FeedInv, NoHeadMissed
    <3> QED
      BY <3>1, <3>2
  <2> QED
    BY <2>2, <2>3, <2>4, <2>5 DEF FeedInv
<1>3. ASSUME NEW c \in Client, NotifyClient(k, c) PROVE FeedInv'
  <2>1. /\ stage[k] = "notifying" /\ c \in to[k] /\ to' = [to EXCEPT ![k] = to[k] \ {c}]
        /\ UNCHANGED <<delivered, stage, entry, client, newHeads, feed, owed>>
    BY <1>3 DEF NotifyClient, LeftToNotify
  <2>2. entry[k] \in DOMAIN feed /\ entry[k] \in Nat
    BY <2>1 DEF FeedInv, OwnEntry, Types
  <2>3. /\ heard' \in [Client -> Seq(Nat)]
        /\ \A d \in Client \ {c} : HeardBy(d)' = HeardBy(d)
        /\ IF c \in newHeads /\ client[c] = "up" THEN HeardBy(c)' = HeardBy(c) \cup {entry[k]}
                                                 ELSE HeardBy(c)' = HeardBy(c)
    <3>1. CASE c \in newHeads /\ client[c] = "up"
      <4>1. heard' = [heard EXCEPT ![c] = Append(heard[c], entry[k])]
        BY <1>3, <3>1 DEF NotifyClient
      <4>2. heard[c] \in Seq(Nat) /\ heard'[c] = Append(heard[c], entry[k])
        BY <4>1 DEF FeedInv, Types
      <4>3. heard' \in [Client -> Seq(Nat)]
        BY <2>2, <4>1, <4>2 DEF FeedInv, Types
      <4>4. \A d \in Client \ {c} : heard'[d] = heard[d]
        BY <4>1 DEF FeedInv, Types
      <4>5. Range(heard'[c]) = Range(heard[c]) \cup {entry[k]}
        BY <2>2, <4>2, AppendRange
      <4> QED
        BY <3>1, <4>3, <4>4, <4>5 DEF HeardBy
    <3>2. CASE ~(c \in newHeads /\ client[c] = "up")
      BY <1>3, <3>2 DEF NotifyClient, FeedInv, Types, HeardBy
    <3> QED
      BY <3>1, <3>2
  <2>4. Types' /\ OwnEntry' /\ Idle' /\ OwedStays'
    BY <2>1, <2>3 DEF FeedInv, Types, OwnEntry, Idle, OwedStays
  <2>5. HeardOnce'
    <3> SUFFICES ASSUME NEW d \in Client
                 PROVE  /\ HeardBy(d)' \subseteq DOMAIN feed
                        /\ \A l \in Conn :
                             stage[l] = "marked" \/ (stage[l] = "notifying" /\ d \in to'[l]) =>
                               entry[l] \notin HeardBy(d)'
      BY <2>1 DEF HeardOnce
    <3>1. /\ HeardBy(d) \subseteq DOMAIN feed
          /\ \A l \in Conn :
               stage[l] = "marked" \/ (stage[l] = "notifying" /\ d \in to[l]) =>
                 entry[l] \notin HeardBy(d)
      BY DEF FeedInv, HeardOnce
    <3>2. \A l \in Conn : to'[l] = IF l = k THEN to[k] \ {c} ELSE to[l]
      BY <2>1 DEF FeedInv, Types
    <3>3. HeardBy(d)' = HeardBy(d) \/ (d = c /\ HeardBy(d)' = HeardBy(d) \cup {entry[k]})
      BY <2>3
    <3>4. \A l \in Conn \ {k} : stage[l] # "reading" => entry[l] # entry[k]
      BY <2>1 DEF FeedInv, OwnEntry
    <3>5. HeardBy(d)' \subseteq DOMAIN feed
      BY <2>2, <3>1, <3>3
    <3> QED
      BY <2>1, <3>1, <3>2, <3>3, <3>4, <3>5
  <2>6. OwedServed'
    <3> SUFFICES ASSUME NEW l \in Conn, stage[l] = "notifying", NEW d \in owed[entry[l]]
                 PROVE  d \in to'[l] \/ entry[l] \in HeardBy(d)'
      BY <2>1 DEF OwedServed
    <3>1. entry[l] \in DOMAIN feed /\ d \in Client
      BY DEF FeedInv, Types, OwnEntry
    <3>2. d \in newHeads /\ client[d] = "up"
      BY <3>1 DEF FeedInv, OwedStays
    <3>3. d \in to[l] \/ entry[l] \in HeardBy(d)
      BY DEF FeedInv, OwedServed
    <3> QED
      BY <2>1, <2>3, <3>1, <3>2, <3>3 DEF FeedInv, Types
  <2>7. Remembers'
    BY <2>1 DEF FeedInv, Remembers, Feed!IsLatestAt
  <2>8. NoHeadMissed'
    <3> SUFFICES ASSUME NEW i \in DOMAIN feed, ~InFlight(i), NEW d \in owed[i]
                 PROVE  i \in HeardBy(d)'
      BY <2>1 DEF NoHeadMissed, InFlight
    <3>1. d \in Client /\ i \in HeardBy(d)
      BY DEF FeedInv, Types, NoHeadMissed
    <3> QED
      BY <2>3, <3>1
  <2> QED
    BY <2>4, <2>5, <2>6, <2>7, <2>8 DEF FeedInv
<1> QED
  BY <1>1, <1>2, <1>3

\* The invariant holds in every reachable state.
LEMMA FeedInvariance == Spec => []FeedInv
<1>1. Init => FeedInv
  <2> SUFFICES ASSUME Init PROVE FeedInv
    OBVIOUS
  <2>1. Types
    BY DEF Init, Types, ClientStates
  <2> QED
    BY <2>1 DEF Init, FeedInv, OwnEntry, Idle, HeardOnce, OwedStays, OwedServed, Remembers,
                NoHeadMissed, HeardBy, Range
<1>2. FeedInv /\ [Next]_vars => FeedInv'
  <2> SUFFICES ASSUME FeedInv, [Next]_vars PROVE FeedInv'
    OBVIOUS
  <2>1. CASE UNCHANGED vars
    BY <2>1 DEF vars, FeedInv, Types, OwnEntry, Idle, HeardOnce, OwedStays, OwedServed,
                Remembers, Feed!IsLatestAt, NoHeadMissed, HeardBy, InFlight
  <2>2. CASE Next
    BY <2>2, ClientStep, MarkStep, NotifyStep DEF Next
  <2> QED
    BY <2>1, <2>2
<1> QED
  BY <1>1, <1>2, PTL DEF Spec

\* Every variable keeps its type, whatever the backends send and whenever clients
\* come and go (stream.go): what a client has heard and what a connection is busy
\* with are entries of the feed, so their bounds are the feed's.
THEOREM HeadsTypeCorrect == Spec => []TypeOK
<1> DEFINE Bounded == Len(feed) <= MaxFeed
<1>1. Init => Bounded
  BY HeadsAssumption DEF Init, HeadsAssumption
<1>2. FeedInv /\ Bounded /\ [Next]_vars => Bounded'
  <2> SUFFICES ASSUME FeedInv, Bounded, [Next]_vars PROVE Bounded'
    OBVIOUS
  <2>1. ASSUME NEW k \in Conn, NEW payload \in Payload, MarkDelivered(k, payload)
        PROVE  Bounded'
    <3>1. payload \in Header
      BY <2>1, MarkRemembers
    <3>2. Len(feed') = Len(feed) + 1 /\ Len(feed) \in Nat
      BY <2>1, <3>1 DEF MarkDelivered, FeedInv, Types
    <3> QED
      BY <2>1, <3>2, HeadsAssumption DEF MarkDelivered, HeadsAssumption
  <2>2. CASE UNCHANGED feed
    BY <2>2
  <2> QED
    BY <2>1, <2>2
       DEF Next, vars, Connects, Breaks, Removed, Subscribes, Unsubscribes, NotifyBegins,
           NotifyClient, NotifyEnds
<1>3. FeedInv /\ Bounded => TypeOK
  <2> SUFFICES ASSUME FeedInv, Bounded PROVE TypeOK
    OBVIOUS
  <2>1. DOMAIN feed \subseteq 1..MaxFeed
    BY HeadsAssumption DEF FeedInv, Types, HeadsAssumption
  <2>2. entry \in [Conn -> 0..MaxFeed]
    BY <2>1, HeadsAssumption DEF FeedInv, Types, OwnEntry, Idle, HeadsAssumption
  <2>3. heard \in [Client -> Seq(1..MaxFeed)]
    <3>1. ASSUME NEW c \in Client PROVE heard[c] \in Seq(1..MaxFeed)
      <4>1. heard[c] \in Seq(Nat) /\ Range(heard[c]) \subseteq 1..MaxFeed
        BY <2>1 DEF FeedInv, Types, HeardOnce, HeardBy
      <4> QED
        BY <4>1, SeqInto
    <3> QED
      BY <3>1 DEF FeedInv, Types
  <2>4. owed \in [DOMAIN feed -> SUBSET Client]
    BY DEF FeedInv, Types
  <2> QED
    BY <2>2, <2>3, <2>4 DEF FeedInv, Types, TypeOK
<1> QED
  BY <1>1, <1>2, <1>3, FeedInvariance, PTL DEF Spec

\* Once a head has been sent round, every client that has been subscribed since
\* it was marked has got it (notifyBlockSubscribers).
THEOREM NobodyMissesAHead == Spec => []NoHeadMissed
<1>1. FeedInv => NoHeadMissed
  BY DEF FeedInv
<1> QED
  BY <1>1, FeedInvariance, PTL

\* The backends' heads make one feed, of which each client hears each entry once
\* and in which a head comes back only after the chain left it or the reorg
\* depth passed it (markDelivered, notifyBlockSubscribers).
THEOREM OneFeed == Spec => FeedPromise
<1>1. Init => Feed!Init
  BY DEF Init, Feed!Init
<1>2. FeedInv /\ [Next]_vars => [Feed!Next]_Feed!promised
  <2> SUFFICES ASSUME FeedInv, [Next]_vars PROVE [Feed!Next]_Feed!promised
    OBVIOUS
  <2>1. ASSUME UNCHANGED <<feed, heard>> PROVE UNCHANGED Feed!promised
    BY <2>1 DEF Feed!promised
  <2>2. ASSUME NEW k \in Conn, NEW payload \in Payload, MarkDelivered(k, payload)
        PROVE  Feed!Next
    <3>1. payload \in Header
      BY <2>2, MarkRemembers
    <3>2. Feed!IsNews(payload)
      <4> SUFFICES ASSUME NEW i \in DOMAIN feed, Feed!IsLatestAt(i, payload.number),
                          feed[i] = payload
                   PROVE  \E j \in (i + 1)..Len(feed) : feed[j].number > payload.number + Depth
        BY DEF Feed!IsNews
      <4> QED
        BY <2>2 DEF FeedInv, Remembers, MarkDelivered, IsNews
    <3>3. Feed!Announce(payload)
      BY <2>2, <3>2 DEF MarkDelivered, Feed!Announce
    <3> QED
      BY <3>1, <3>3 DEF Feed!Next
  <2>3. ASSUME NEW k \in Conn, NEW c \in Client, NotifyClient(k, c), heard' # heard
        PROVE  Feed!Next
    <3>1. entry[k] \in DOMAIN feed /\ entry[k] \notin HeardBy(c)
      BY <2>3 DEF NotifyClient, FeedInv, OwnEntry, HeardOnce
    <3>2. Feed!Hear(c, entry[k])
      BY <2>3, <3>1 DEF NotifyClient, Feed!Hear, HeardBy, Range, Feed!Range
    <3> QED
      BY <3>1, <3>2 DEF Feed!Next
  <2>4. CASE \E k \in Conn, payload \in Payload : MarkDelivered(k, payload)
    BY <2>2, <2>4
  <2>5. CASE \E k \in Conn, c \in Client : NotifyClient(k, c)
    BY <2>1, <2>3, <2>5 DEF NotifyClient
  <2>6. CASE UNCHANGED <<feed, heard>>
    BY <2>1, <2>6
  <2> QED
    BY <2>4, <2>5, <2>6
       DEF Next, vars, Connects, Breaks, Removed, Subscribes, Unsubscribes, NotifyBegins, NotifyEnds
<1> QED
  BY <1>1, <1>2, FeedInvariance, PTL DEF Spec, FeedPromise, Feed!Spec
=============================================================================
