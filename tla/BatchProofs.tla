---------------------------- MODULE BatchProofs ----------------------------
(***************************************************************************)
(* What BatchProperties states of the batch processor holds for every set  *)
(* of requests and backends and every size, concurrency and retry bound.   *)
(***************************************************************************)
EXTENDS BatchProperties, FiniteSetTheorems, TLAPS

\* Every reply an upstream may give is a sequence of ids.
LEMMA RepliesType ==
  ASSUME NEW n \in Nat, NEW reply \in Replies(n)
  PROVE  reply \in Seq(Nat)
<1>1. PICK k \in 0..MaxReply : reply \in [1..k -> 0..n]
  BY DEF Replies
<1>2. k \in Nat /\ 0..n \subseteq Nat
  BY BatchAssumption
<1> QED
  BY <1>1, <1>2

\* A response goes on the channel of each request it is sent to, of its type.
LEMMA SendType ==
  ASSUME TypeOK, NEW kind \in Contract!Kinds, NEW R
  PROVE  Send(kind, R) \in [Req -> Seq(Contract!Response)]
<1>1. \A r \in Req : Contract!Envelope(kind, r, ClientId[r]) \in Contract!Response
  BY BatchAssumption DEF Contract!Envelope, Contract!Response
<1> QED
  BY <1>1 DEF Send, TypeOK

\* The types of what belongs to one batch.
LEMMA Elems ==
  ASSUME TypeOK, NEW b \in Req
  PROVE  /\ entries[b] \in Seq(Req) /\ local[b] \in Seq(Req) /\ live[b] \in Seq(Req)
         /\ closes[b] \in Nat /\ pos[b] \in Nat /\ attempt[b] \in 0..MaxRetries
         /\ closes[b] + 1 \in Nat /\ pos[b] + 1 \in Nat
         /\ body[b] \in Seq(Nat) /\ delivered[b] \in SUBSET Nat
         /\ stage[b] \in Stages /\ answers[b] \in Seq(Contract!Response)
  BY DEF TypeOK

\* Type correctness: every step of the processor keeps every variable, the
\* channels and the semaphores among them, of its type.
LEMMA TypeStep == IInv /\ [Next]_vars => TypeOK'
<1> SUFFICES ASSUME IInv, [Next]_vars PROVE TypeOK'
  OBVIOUS
<1> USE BatchAssumption
<1>0. TypeOK
  BY DEF IInv
<1>a. ASSUME NEW b \in Req, stage[b] # "none"
      PROVE  target[b] \in Url /\ workers[target[b]] \in Int
  BY <1>0, <1>a DEF IInv, Created, TypeOK
<1>1. CASE UNCHANGED vars
  BY <1>0, <1>1 DEF TypeOK, vars, callerVars, sharedVars, goVars, localVars
<1>2. ASSUME NEW r \in Req, NEW u \in Url, AddRequest(r, u) PROVE TypeOK'
  <2>1. caller' \in [Req -> Contract!CallerStates] /\ target' \in [Req -> Url \cup {None}]
    BY <1>0, <1>2 DEF TypeOK, AddRequest, Contract!CallerStates
  <2>2. UNCHANGED <<answers, workers, local, live, pos, cancelled, attempt, body, delivered>>
    BY <1>2 DEF AddRequest, localVars
  <2>3. /\ entries' \in [Req -> Seq(Req)] /\ closes' \in [Req -> Nat]
        /\ stage' \in [Req -> Stages] /\ batches' \in [Url -> Req \cup {None}]
    <3>1. CASE Solo(r)
      <4>1. <<r>> \in Seq(Req)
        OBVIOUS
      <4>2. AddSolo(r, u)
        BY <1>2, <3>1 DEF AddRequest
      <4>3. entries' \in [Req -> Seq(Req)]
        BY <1>0, <4>1, <4>2 DEF TypeOK, AddSolo
      <4>4. closes' \in [Req -> Nat]
        BY <1>0, <4>2 DEF TypeOK, AddSolo
      <4>5. stage' \in [Req -> Stages]
        BY <1>0, <4>2 DEF TypeOK, AddSolo, Stages
      <4> QED
        BY <1>0, <4>2, <4>3, <4>4, <4>5 DEF TypeOK, AddSolo
    <3>2. CASE ~Solo(r)
      <4> DEFINE b == IF batches[u] = None THEN r ELSE batches[u]
      <4>1. Join(r, u) /\ b \in Req
        BY <1>0, <1>2, <3>2 DEF TypeOK, AddRequest
      <4>2. Append(entries[b], r) \in Seq(Req)
        BY <1>0, <4>1 DEF TypeOK
      <4>3. entries' = [entries EXCEPT ![b] = Append(entries[b], r)]
        BY <4>1 DEF Join
      <4>4. entries' \in [Req -> Seq(Req)]
        BY <1>0, <4>1, <4>2, <4>3 DEF TypeOK
      <4>5. closes' \in [Req -> Nat]
        BY <1>0, <4>1, Elems DEF TypeOK, Join
      <4>6. stage' \in [Req -> Stages]
        BY <1>0, <4>1 DEF TypeOK, Join, Stages
      <4>7. batches' \in [Url -> Req \cup {None}]
        BY <1>0, <4>1 DEF TypeOK, Join, OpenAfter
      <4> QED
        BY <4>4, <4>5, <4>6, <4>7
    <3> QED
      BY <3>1, <3>2
  <2> QED
    BY <1>0, <2>1, <2>2, <2>3 DEF TypeOK
<1>3. ASSUME FlushAll PROVE TypeOK'
  <2>1. /\ batches' = [u \in Url |-> None]
        /\ UNCHANGED <<callerVars, entries, workers, goVars>>
    BY <1>3 DEF FlushAll, NoneOpen
  <2>2. closes' \in [Req -> Nat]
    <3> DEFINE open == {batches[u] : u \in Url} \ {None}
    <3>1. closes' = [b \in Req |-> IF b \in open THEN closes[b] + 1 ELSE closes[b]]
      BY <1>3 DEF FlushAll
    <3>2. \A b \in Req : closes[b] \in Nat
      BY <1>0 DEF TypeOK
    <3> HIDE DEF open
    <3> QED
      BY <3>1, <3>2
  <2> QED
    BY <1>0, <2>1, <2>2 DEF TypeOK, callerVars, goVars, localVars
<1>4. ASSUME NEW r \in Req, CallerLeaves(r) \/ CallerReceives(r) PROVE TypeOK'
  BY <1>0, <1>4 DEF TypeOK, CallerLeaves, CallerReceives, Contract!CallerStates,
    sharedVars, goVars, localVars
<1>5. ASSUME NEW b \in Req, Wake(b) \/ Claim(b) PROVE TypeOK'
  <2>1. stage' \in [Req -> Stages]
    BY <1>0, <1>5 DEF TypeOK, Wake, Claim, Stages
  <2>2. batches' \in [Url -> Req \cup {None}]
    <3>1. CASE Wake(b)
      BY <1>0, <3>1 DEF TypeOK, Wake, sharedVars
    <3>2. CASE Claim(b)
      BY <1>0, <3>2 DEF TypeOK, Claim, Claimed
    <3> QED
      BY <1>5, <3>1, <3>2
  <2>3. UNCHANGED <<callerVars, entries, closes, workers, localVars>>
    BY <1>5 DEF Wake, Claim, sharedVars
  <2> QED
    BY <1>0, <2>1, <2>2, <2>3 DEF TypeOK, callerVars, localVars
<1>6. ASSUME NEW b \in Req, Return(b) PROVE
        /\ stage' \in [Req -> Stages] /\ local' \in [Req -> Seq(Req)]
        /\ live' \in [Req -> Seq(Req)] /\ pos' \in [Req -> Nat]
        /\ cancelled' \in [Req -> BOOLEAN] /\ attempt' \in [Req -> 0..MaxRetries]
        /\ body' \in [Req -> Seq(Nat)] /\ delivered' \in [Req -> SUBSET Nat]
  <2>1. <<>> \in Seq(Req) /\ <<>> \in Seq(Nat) /\ 0 \in 0..MaxRetries
    OBVIOUS
  <2> QED
    BY <1>0, <1>6, <2>1 DEF TypeOK, Return, Stages
<1>7. ASSUME NEW b \in Req, Snapshot(b) PROVE TypeOK'
  <2>1. CASE entries[b] = <<>>
    BY <1>0, <1>6, <1>7, <2>1 DEF TypeOK, Snapshot, callerVars, sharedVars
  <2>2. CASE entries[b] # <<>>
    <3>1. local' \in [Req -> Seq(Req)] /\ stage' \in [Req -> Stages]
      BY <1>0, <1>7, <2>2, Elems DEF TypeOK, Snapshot, Stages
    <3> QED
      BY <1>0, <1>7, <2>2, <3>1 DEF TypeOK, Snapshot, callerVars, sharedVars
  <2> QED
    BY <2>1, <2>2
<1>8. ASSUME NEW b \in Req, CallersGone(b) \/ AcquireWorker(b) PROVE TypeOK'
  <2>1. CASE CallersGone(b)
    BY <1>0, <2>1 DEF TypeOK, CallersGone, callerVars, sharedVars
  <2>2. CASE AcquireWorker(b)
    <3>1. target[b] \in Url /\ workers[target[b]] + 1 \in Int
      BY <1>a, <2>2 DEF AcquireWorker
    <3>2. workers' \in [Url -> Int] /\ stage' \in [Req -> Stages]
      BY <1>0, <2>2, <3>1 DEF TypeOK, AcquireWorker, Stages
    <3> QED
      BY <1>0, <2>2, <3>2 DEF TypeOK, AcquireWorker, callerVars, sharedVars, localVars
  <2> QED
    BY <1>8, <2>1, <2>2
<1>9. ASSUME NEW b \in Req, Abandon(b) PROVE TypeOK'
  BY <1>0, <1>6, <1>9, SendType DEF TypeOK, Abandon, Contract!Kinds, sharedVars
<1>10. ASSUME NEW b \in Req, FilterNext(b) PROVE TypeOK'
  <2> DEFINE r == local[b][pos[b] + 1]
  <2>1. r \in Req
    BY <1>0, <1>10, Elems DEF FilterNext
  <2>2. Append(live[b], r) \in Seq(Req)
    BY <1>0, <2>1, Elems
  <2>3. answers' \in [Req -> Seq(Contract!Response)]
    <3>1. answers' = answers \/ answers' = Send("left", {r})
      BY <1>10 DEF FilterNext
    <3>2. Send("left", {r}) \in [Req -> Seq(Contract!Response)]
      BY <1>0, SendType DEF Contract!Kinds
    <3> QED
      BY <1>0, <3>1, <3>2 DEF TypeOK
  <2>4. live' \in [Req -> Seq(Req)]
    BY <1>0, <1>10, <2>2 DEF TypeOK, FilterNext
  <2>5. pos' \in [Req -> Nat]
    BY <1>0, <1>10, Elems DEF TypeOK, FilterNext
  <2> QED
    BY <1>0, <1>10, <2>3, <2>4, <2>5 DEF TypeOK, FilterNext, sharedVars
<1>11. ASSUME NEW b \in Req, stage[b] \in Holding PROVE Released(b) \in [Url -> Int]
  <2>1. target[b] \in Url /\ workers[target[b]] - 1 \in Int
    BY <1>a, <1>11 DEF Holding
  <2> QED
    BY <1>0, <2>1 DEF TypeOK, Released
<1>12. ASSUME NEW b \in Req, FilterEnd(b) PROVE TypeOK'
  <2>1. CASE live[b] = <<>>
    BY <1>0, <1>6, <1>11, <1>12, <2>1 DEF TypeOK, FilterEnd, Holding, callerVars, sharedVars
  <2>2. CASE live[b] # <<>>
    BY <1>0, <1>12, <2>2 DEF TypeOK, FilterEnd, Stages, callerVars, sharedVars, localVars
  <2> QED
    BY <2>1, <2>2
<1>13. ASSUME NEW b \in Req, SendSucceeds(b) PROVE TypeOK'
  <2>1. Len(Wire(b)) \in Nat
    BY <1>0 DEF TypeOK, Wire
  <2>2. body' \in [Req -> Seq(Nat)]
    BY <1>0, <1>13, <2>1, RepliesType DEF TypeOK, SendSucceeds
  <2> QED
    BY <1>0, <1>11, <1>13, <2>2 DEF TypeOK, SendSucceeds, Holding, Stages, callerVars, sharedVars
<1>14. ASSUME NEW b \in Req, SendRetryable(b) \/ SendFails(b) PROVE TypeOK'
  BY <1>0, <1>11, <1>14 DEF TypeOK, SendRetryable, SendFails, Holding, Stages,
    callerVars, sharedVars, localVars
<1>15. ASSUME NEW b \in Req, BackoffElapses(b) PROVE TypeOK'
  <2>1. attempt[b] + 1 \in 0..MaxRetries
    BY <1>0, <1>15, Elems DEF BackoffElapses, IInv, Frames, Frame
  <2>2. attempt' \in [Req -> 0..MaxRetries]
    BY <1>0, <1>15, <2>1 DEF TypeOK, BackoffElapses
  <2> QED
    BY <1>0, <1>15, <2>2 DEF TypeOK, BackoffElapses, Stages, callerVars, sharedVars
<1>16. ASSUME NEW b \in Req, BackoffCancelled(b) PROVE TypeOK'
  BY <1>0, <1>11, <1>16 DEF TypeOK, BackoffCancelled, Holding, Stages, callerVars, sharedVars, localVars
<1>17. ASSUME NEW b \in Req, DeliverNext(b) PROVE TypeOK'
  <2> DEFINE id == Head(body[b])
  <2>1. body[b] \in Seq(Nat) /\ body[b] # <<>>
    BY <1>0, <1>17, Elems DEF DeliverNext
  <2>2. id \in Nat /\ Tail(body[b]) \in Seq(Nat)
    BY <2>1
  <2>3. body' \in [Req -> Seq(Nat)]
    BY <1>0, <1>17, <2>2 DEF TypeOK, DeliverNext
  <2>4. answers' \in [Req -> Seq(Contract!Response)] /\ delivered' \in [Req -> SUBSET Nat]
    <3>1. CASE ~Accepts(b, id)
      BY <1>0, <1>17, <3>1 DEF TypeOK, DeliverNext
    <3>2. CASE Accepts(b, id)
      <4> DEFINE to == live[b][id]
                 m == Contract!Envelope("answer", to, ClientId[to])
      <4>1. to \in Req
        BY <1>0, <3>2, Elems DEF Accepts
      <4>2. m \in Contract!Response
        BY <4>1, BatchAssumption DEF Contract!Envelope, Contract!Response, Contract!Kinds
      <4>3. Append(answers[to], m) \in Seq(Contract!Response)
        BY <1>0, <4>1, <4>2, Elems
      <4>4. answers' = [answers EXCEPT ![to] = Append(answers[to], m)]
        BY <1>17, <3>2 DEF DeliverNext, Recipient, Wire
      <4>5. delivered[b] \cup {id} \in SUBSET Nat
        BY <1>0, <2>2, Elems
      <4>6. delivered' = [delivered EXCEPT ![b] = delivered[b] \cup {id}]
        BY <1>17, <3>2 DEF DeliverNext
      <4> HIDE DEF m, to
      <4> QED
        BY <1>0, <4>3, <4>4, <4>5, <4>6 DEF TypeOK
    <3> QED
      BY <3>1, <3>2
  <2> QED
    BY <1>0, <1>17, <2>3, <2>4 DEF TypeOK, DeliverNext, sharedVars
<1>18. ASSUME NEW b \in Req, DeliverMissing(b) \/ Fail(b) PROVE TypeOK'
  <2>1. /\ Send("missing", Undelivered(b)) \in [Req -> Seq(Contract!Response)]
        /\ Send("failed", Elements(live[b])) \in [Req -> Seq(Contract!Response)]
    BY <1>0, SendType DEF Contract!Kinds
  <2>2. answers' \in [Req -> Seq(Contract!Response)] /\ Return(b)
    BY <1>18, <2>1 DEF DeliverMissing, Fail
  <2>3. UNCHANGED <<caller, target, sharedVars, workers>>
    BY <1>18 DEF DeliverMissing, Fail
  <2> QED
    BY <1>0, <1>6, <2>2, <2>3 DEF TypeOK, sharedVars
<1> QED
  BY <1>1, <1>2, <1>3, <1>4, <1>5, <1>7, <1>8, <1>9, <1>10, <1>12, <1>13, <1>14,
     <1>15, <1>16, <1>17, <1>18 DEF Next, Process, Upstream, Quiescent

-----------------------------------------------------------------------------
\* The steps taken on behalf of one batch.

BatchStep(b) == Process(b) \/ Upstream(b) \/ CallersGone(b)

\* Such a step touches what belongs to that batch and nothing of another's; a
\* batch stays in the map only while it can be joined.
LEMMA StepLocal ==
  ASSUME IInv, NEW b \in Req, BatchStep(b)
  PROVE  /\ UNCHANGED <<caller, target, entries, closes>>
         /\ stage[b] # "none" /\ stage'[b] # "none"
         /\ \A c \in Req \ {b} :
              /\ stage'[c] = stage[c] /\ local'[c] = local[c] /\ live'[c] = live[c]
              /\ pos'[c] = pos[c] /\ delivered'[c] = delivered[c]
              /\ cancelled'[c] = cancelled[c] /\ attempt'[c] = attempt[c]
         /\ \A u \in Url : batches'[u] # None =>
              batches'[u] = batches[u] /\ (batches'[u] = b => stage'[b] \in {"open", "woken"})
<1>0. TypeOK /\ Created
  BY DEF IInv
<1>1. ASSUME Return(b), stage[b] \notin {"none", "open", "woken"}, UNCHANGED <<caller, target, sharedVars>>
      PROVE  /\ UNCHANGED <<caller, target, entries, closes>>
             /\ stage[b] # "none" /\ stage'[b] # "none"
             /\ \A c \in Req \ {b} :
                  /\ stage'[c] = stage[c] /\ local'[c] = local[c] /\ live'[c] = live[c]
                  /\ pos'[c] = pos[c] /\ delivered'[c] = delivered[c]
                  /\ cancelled'[c] = cancelled[c] /\ attempt'[c] = attempt[c]
             /\ \A u \in Url : batches'[u] # None =>
                  batches'[u] = batches[u] /\ (batches'[u] = b => stage'[b] \in {"open", "woken"})
  BY <1>0, <1>1 DEF Return, TypeOK, Created, sharedVars
<1>2. CASE Wake(b)
  BY <1>0, <1>2 DEF Wake, TypeOK, Created, callerVars, sharedVars, localVars
<1>3. CASE Claim(b)
  BY <1>0, <1>3 DEF Claim, Claimed, TypeOK, Created, callerVars, sharedVars, localVars
<1>4. CASE Snapshot(b)
  <2>1. CASE entries[b] = <<>>
    BY <1>1, <1>4, <2>1 DEF Snapshot, callerVars
  <2>2. CASE entries[b] # <<>>
    BY <1>0, <1>4, <2>2, ZenonT(40) DEF Snapshot, TypeOK, Created, callerVars, sharedVars
  <2> QED
    BY <2>1, <2>2
<1>5. CASE CallersGone(b) \/ AcquireWorker(b)
  BY <1>0, <1>5 DEF CallersGone, AcquireWorker, Watching, Holding, TypeOK, Created,
    callerVars, sharedVars, localVars
<1>6. CASE Abandon(b) \/ DeliverMissing(b) \/ Fail(b)
  BY <1>1, <1>6 DEF Abandon, DeliverMissing, Fail
<1>7. CASE FilterNext(b)
  BY <1>0, <1>7 DEF FilterNext, TypeOK, Created, sharedVars
<1>8. CASE FilterEnd(b)
  <2>1. CASE live[b] = <<>>
    BY <1>1, <1>8, <2>1 DEF FilterEnd, callerVars
  <2>2. CASE live[b] # <<>>
    BY <1>0, <1>8, <2>2 DEF FilterEnd, TypeOK, Created, callerVars, sharedVars, localVars
  <2> QED
    BY <2>1, <2>2
<1>9. CASE Upstream(b)
  <2>1. CASE SendSucceeds(b)
    BY <1>0, <2>1 DEF SendSucceeds, TypeOK, Created, callerVars, sharedVars, localVars
  <2>2. CASE SendRetryable(b)
    BY <1>0, <2>2 DEF SendRetryable, TypeOK, Created, callerVars, sharedVars, localVars
  <2>3. CASE SendFails(b)
    BY <1>0, <2>3 DEF SendFails, TypeOK, Created, callerVars, sharedVars, localVars
  <2> QED
    BY <1>9, <2>1, <2>2, <2>3 DEF Upstream
<1>10. CASE BackoffElapses(b) \/ BackoffCancelled(b)
  BY <1>0, <1>10, ZenonT(40) DEF BackoffElapses, BackoffCancelled, TypeOK, Created,
    callerVars, sharedVars, localVars
<1>11. CASE DeliverNext(b)
  BY <1>0, <1>11 DEF DeliverNext, TypeOK, Created, sharedVars
<1> QED
  BY <1>2, <1>3, <1>4, <1>5, <1>6, <1>7, <1>8, <1>9, <1>10, <1>11 DEF BatchStep, Process

\* A response sent on the channels of R reaches those, as their first, and no
\* other; everything but "left" may be sent to anyone.
LEMMA Sent ==
  ASSUME TypeOK, NEW kind \in Contract!Kinds, NEW R, NEW r \in Req,
         r \in R => answers[r] = <<>> /\ (kind = "left" => caller[r] = "left")
  PROVE  IF r \in R
         THEN \E m \in Contract!Admissible(r) : Send(kind, R)[r] = <<m>>
         ELSE Send(kind, R)[r] = answers[r]
<1>1. CASE r \in R
  <2> DEFINE m == Contract!Envelope(kind, r, ClientId[r])
  <2>1. m \in Contract!Admissible(r)
    BY <1>1 DEF Contract!Admissible, Contract!Kinds
  <2>2. Send(kind, R)[r] = Append(<<>>, m)
    BY <1>1 DEF Send
  <2> HIDE DEF m
  <2> QED
    BY <1>1, <2>1, <2>2
<1>2. CASE r \notin R
  BY <1>2 DEF Send
<1> QED
  BY <1>1, <1>2

\* What batch b no longer owes after a step, and only that, was answered in it.
Pays(b) ==
  /\ Owed(b)' \subseteq Owed(b)
  /\ \A r \in Req :
       IF r \in Owed(b) \ Owed(b)'
       THEN answers[r] = <<>> /\ \E m \in Contract!Admissible(r) : answers'[r] = <<m>>
       ELSE answers'[r] = answers[r]

\* The ledger says that what a batch owes is an entry of it, and unanswered.
LEMMA OwedUnanswered ==
  ASSUME IInv, NEW b \in Req, NEW r \in Owed(b)
  PROVE  r \in Req /\ r \in Elements(entries[b]) /\ answers[r] = <<>>
<1>1. r \in Elements(entries[b]) /\ answers[r] = <<>>
  BY DEF IInv, Ledger
<1> QED
  BY <1>1, Elems DEF IInv, Elements

\* Sending one kind of response to all the batch still owes, and returning.
LEMMA PaysAll ==
  ASSUME IInv, NEW b \in Req, NEW kind \in Contract!Kinds, Return(b),
         answers' = Send(kind, Owed(b)),
         kind = "left" => \A r \in Owed(b) : caller[r] = "left"
  PROVE  Pays(b) /\ Frame(b)'
<1>0. TypeOK
  BY DEF IInv
<1>1. stage'[b] = "done" /\ live'[b] = <<>> /\ pos'[b] = 0 /\ ~cancelled'[b] /\ delivered'[b] = {}
      /\ local'[b] = <<>>
  BY <1>0 DEF Return, TypeOK
<1>2. Owed(b)' = {}
  BY <1>1 DEF Owed
<1>3. \A r \in Req : IF r \in Owed(b)
                     THEN answers[r] = <<>> /\ \E m \in Contract!Admissible(r) : answers'[r] = <<m>>
                     ELSE answers'[r] = answers[r]
  BY <1>0, OwedUnanswered, Sent
<1>4. Pays(b)
  BY <1>2, <1>3 DEF Pays
<1>5. Frame(b)'
  BY <1>1 DEF Frame, Watching, Holding, Elements
<1> QED
  BY <1>4, <1>5

\* A step that answers nobody.
LEMMA PaysNothing ==
  ASSUME IInv, NEW b \in Req, UNCHANGED answers, Owed(b)' = Owed(b)
  PROVE  Pays(b)
  BY DEF Pays

\* Every step of a batch pays what it strikes off, and leaves the variables of
\* processBatch as its next stage finds them.
LEMMA StepPays ==
  ASSUME IInv, NEW b \in Req, BatchStep(b)
  PROVE  Pays(b) /\ Frame(b)'
<1>0. TypeOK /\ Frame(b) /\ b \in Req
  BY DEF IInv, Frames
<1>a. entries' = entries /\ caller' = caller
  BY StepLocal
<1>1. CASE Wake(b) \/ Claim(b)
  <2>1. stage[b] \in {"open", "woken"} /\ stage'[b] \in {"woken", "claimed"} /\ UNCHANGED <<answers, localVars>>
    BY <1>0, <1>1 DEF Wake, Claim, TypeOK, callerVars
  <2>2. Owed(b)' = Owed(b)
    BY <1>a, <2>1 DEF Owed, Elements
  <2>3. Frame(b)'
    BY <1>0, <1>a, <2>1 DEF Frame, Watching, Holding, localVars, Elements
  <2> QED
    BY <2>1, <2>2, <2>3, PaysNothing
<1>2. CASE Snapshot(b)
  <2>1. stage[b] = "claimed" /\ UNCHANGED answers
    BY <1>2 DEF Snapshot, callerVars
  <2>2. CASE entries[b] = <<>>
    <3>1. Return(b)
      BY <1>2, <2>2 DEF Snapshot
    <3>2. Owed(b) = {}
      BY <2>1, <2>2 DEF Owed, Elements
    <3>3. answers' = Send("failed", Owed(b))
      BY <1>0, <2>1, <3>2 DEF Send, TypeOK
    <3> QED
      BY <3>1, <3>3, PaysAll DEF Contract!Kinds
  <2>3. CASE entries[b] # <<>>
    <3>1. /\ stage'[b] = "acquiring" /\ local'[b] = entries[b]
          /\ UNCHANGED <<live, pos, cancelled, attempt, body, delivered>>
      BY <1>0, <1>2, <2>3 DEF Snapshot, TypeOK
    <3>2. Owed(b)' = Owed(b)
      BY <2>1, <3>1 DEF Owed, Elements
    <3>3. Frame(b)'
      BY <1>0, <1>a, <2>1, <3>1 DEF Frame, Watching, Holding, Elements
    <3> QED
      BY <2>1, <3>2, <3>3, PaysNothing
  <2> QED
    BY <2>2, <2>3
<1>3. CASE CallersGone(b)
  <2>1. /\ stage[b] \in Watching /\ cancelled'[b] = TRUE
        /\ \A i \in DOMAIN local[b] : caller[local[b][i]] = "left"
        /\ UNCHANGED <<answers, stage, local, live, pos, attempt, body, delivered>>
    BY <1>0, <1>3 DEF CallersGone, AllLeft, TypeOK, callerVars
  <2>2. Owed(b)' = Owed(b)
    BY <1>a, <2>1 DEF Owed, Elements
  <2>3. Frame(b)'
    <3>1. /\ local'[b] = entries'[b]
          /\ cancelled'[b] => \A i \in DOMAIN local'[b] : caller'[local'[b][i]] = "left"
      BY <1>0, <1>a, <2>1 DEF Frame
    <3>2. /\ stage'[b] = "acquiring" => live'[b] = <<>> /\ pos'[b] = 0
          /\ Elements(live'[b]) \subseteq Elements(local'[b])
          /\ stage'[b] = "backoff" => attempt'[b] < MaxRetries
          /\ stage'[b] \in Watching /\ delivered'[b] = {}
      BY <1>0, <2>1 DEF Frame, Watching, Holding, Elements
    <3>3. /\ stage'[b] = "filtering" =>
                \A i \in DOMAIN live'[b], k \in (pos'[b] + 1)..Len(local'[b]) :
                  live'[b][i] # local'[b][k]
          /\ \A i, j \in DOMAIN live'[b] : live'[b][i] = live'[b][j] => i = j
      BY <1>0, <2>1 DEF Frame
    <3> QED
      BY <3>1, <3>2, <3>3 DEF Frame, Watching, Holding
  <2> QED
    BY <2>1, <2>2, <2>3, PaysNothing
<1>4. CASE AcquireWorker(b)
  <2>1. stage[b] = "acquiring" /\ stage'[b] = "filtering" /\ UNCHANGED <<answers, localVars>>
    BY <1>0, <1>4 DEF AcquireWorker, TypeOK, callerVars
  <2>2. live[b] = <<>> /\ pos[b] = 0 /\ local[b] \in Seq(Req)
    BY <1>0, <2>1, Elems DEF Frame
  <2>3. {local[b][i] : i \in (pos[b] + 1)..Len(local[b])} = Elements(local[b])
    BY <2>2 DEF Elements
  <2>4. Owed(b)' = Owed(b)
    BY <2>1, <2>2, <2>3 DEF Owed, Elements, localVars
  <2>5. /\ stage'[b] = "filtering"
        /\ local'[b] = entries'[b] /\ live'[b] = <<>> /\ delivered'[b] = {}
        /\ cancelled'[b] => \A i \in DOMAIN local'[b] : caller'[local'[b][i]] = "left"
    BY <1>0, <1>a, <2>1, <2>2 DEF Frame, Watching, localVars
  <2>6. Frame(b)'
    BY <2>5 DEF Frame, Watching, Holding, Elements
  <2> QED
    BY <2>1, <2>4, <2>6, PaysNothing
<1>5. CASE Abandon(b)
  <2>1. Return(b) /\ answers' = Send("left", Owed(b))
    BY <1>5 DEF Abandon, Owed
  <2>2. \A r \in Owed(b) : caller[r] = "left"
    BY <1>0, <1>5 DEF Abandon, Owed, Elements, Frame
  <2> QED
    BY <2>1, <2>2, PaysAll DEF Contract!Kinds
<1>6. CASE DeliverMissing(b)
  <2>1. Return(b) /\ answers' = Send("missing", Owed(b))
    BY <1>6 DEF DeliverMissing, Owed, Undelivered
  <2> QED
    BY <2>1, PaysAll DEF Contract!Kinds
<1>7. CASE Fail(b)
  <2>1. Return(b) /\ answers' = Send("failed", Owed(b))
    BY <1>7 DEF Fail, Owed
  <2> QED
    BY <2>1, PaysAll DEF Contract!Kinds
<1>8. CASE FilterNext(b)
  <2> DEFINE r == local[b][pos[b] + 1]
  <2>1. /\ stage[b] = "filtering" /\ pos[b] < Len(local[b]) /\ pos'[b] = pos[b] + 1
        /\ UNCHANGED <<stage, local, cancelled, attempt, body, delivered>>
    BY <1>0, <1>8 DEF FilterNext, TypeOK
  <2>2. local[b] \in Seq(Req) /\ live[b] \in Seq(Req) /\ pos[b] \in Nat /\ r \in Req
    BY <1>0, <2>1, Elems
  <2>3. local[b] = entries[b]
    BY <1>0, <2>1 DEF Frame, Watching, Holding
  <2>4. \A k \in DOMAIN local[b] : local[b][k] = r => k = pos[b] + 1
    BY <2>1, <2>2, <2>3 DEF IInv, EnteredOnce
  <2>5. \A i \in DOMAIN live[b] : live[b][i] # r
    BY <1>0, <2>1, <2>2 DEF Frame
  <2>a. \A k \in (pos[b] + 2)..Len(local[b]) :
          /\ local[b][k] # r
          /\ \A i \in DOMAIN live[b] : live[b][i] # local[b][k]
    BY <1>0, <2>1, <2>2, <2>4 DEF Frame
  <2> DEFINE rest == {local[b][k] : k \in (pos[b] + 1)..Len(local[b])}
             rest2 == {local[b][k] : k \in (pos[b] + 2)..Len(local[b])}
  <2>6. rest = {r} \cup rest2 /\ r \notin rest2
    BY <2>1, <2>2, <2>4, SMTT(30)
  <2>7. Owed(b) = Elements(live[b]) \cup rest
    BY <2>1 DEF Owed
  <2>8. pos'[b] + 1 = pos[b] + 2
    BY <2>1, <2>2
  <2>9. Owed(b)' = Elements(live'[b]) \cup rest2
    BY <2>1, <2>8 DEF Owed, Elements
  <2> HIDE DEF r, rest, rest2
  <2>10. CASE caller[r] = "left"
    <3>1. answers' = Send("left", {r}) /\ live' = live
      BY <1>8, <2>10 DEF FilterNext, r
    <3>2. Owed(b)' = Owed(b) \ {r} /\ r \in Owed(b)
      BY <2>5, <2>6, <2>7, <2>9, <3>1 DEF Elements
    <3>3. answers[r] = <<>>
      BY <3>2, OwedUnanswered
    <3>4. Pays(b)
      BY <1>0, <2>10, <3>1, <3>2, <3>3, Sent DEF Pays, Contract!Kinds
    <3>5. Frame(b)'
      BY <1>0, <1>a, <2>1, <2>8, <2>a, <3>1 DEF Frame, Watching, Holding, Elements
    <3> QED
      BY <3>4, <3>5
  <2>11. CASE caller[r] # "left"
    <3>1. answers' = answers /\ live'[b] = Append(live[b], r)
      BY <1>0, <1>8, <2>11 DEF FilterNext, TypeOK, r
    <3>2. /\ DOMAIN live'[b] = 1..(Len(live[b]) + 1)
          /\ \A i \in DOMAIN live[b] : live'[b][i] = live[b][i]
          /\ live'[b][Len(live[b]) + 1] = r
          /\ DOMAIN live[b] = 1..Len(live[b]) /\ Len(live[b]) \in Nat
      BY <2>2, <3>1
    <3>3. Elements(live'[b]) = Elements(live[b]) \cup {r}
      BY <3>2 DEF Elements
    <3>4. Owed(b)' = Owed(b)
      BY <2>6, <2>7, <2>9, <3>3
    <3>5. \A i, j \in DOMAIN live'[b] : live'[b][i] = live'[b][j] => i = j
      BY <1>0, <2>5, <3>2 DEF Frame
    <3>6. \A i \in DOMAIN live'[b], k \in (pos[b] + 2)..Len(local[b]) : live'[b][i] # local[b][k]
      BY <2>a, <3>2
    <3>7. r \in Elements(local[b])
      BY <2>1, <2>2 DEF Elements, r
    <3>8. Elements(live'[b]) \subseteq Elements(local[b])
      BY <1>0, <3>3, <3>7 DEF Frame
    <3>9. Frame(b)'
      BY <1>0, <1>a, <2>1, <2>8, <3>5, <3>6, <3>8 DEF Frame, Watching, Holding, Elements
    <3> QED
      BY <3>1, <3>4, <3>9, PaysNothing
  <2> QED
    BY <2>10, <2>11
<1>9. CASE FilterEnd(b)
  <2>1. /\ stage[b] = "filtering" /\ pos[b] = Len(local[b]) /\ UNCHANGED answers
        /\ local[b] \in Seq(Req)
    BY <1>0, <1>9, Elems DEF FilterEnd, callerVars
  <2>2. Owed(b) = Elements(live[b])
    BY <2>1 DEF Owed
  <2>3. CASE live[b] = <<>>
    <3>1. Return(b) /\ Owed(b) = {}
      BY <1>9, <2>2, <2>3 DEF FilterEnd, Elements
    <3>2. answers' = Send("failed", Owed(b))
      BY <1>0, <2>1, <3>1 DEF Send, TypeOK
    <3> QED
      BY <3>1, <3>2, PaysAll DEF Contract!Kinds
  <2>4. CASE live[b] # <<>>
    <3>1. stage'[b] = "sending" /\ UNCHANGED localVars
      BY <1>0, <1>9, <2>4 DEF FilterEnd, TypeOK
    <3>2. Owed(b)' = Owed(b)
      BY <2>2, <3>1 DEF Owed, Elements, localVars
    <3>3. Frame(b)'
      BY <1>0, <1>a, <2>1, <3>1 DEF Frame, Watching, Holding, localVars, Elements
    <3> QED
      BY <2>1, <3>2, <3>3, PaysNothing
  <2> QED
    BY <2>3, <2>4
<1>10. CASE Upstream(b)
  <2>1. /\ stage[b] = "sending" /\ stage'[b] \in {"delivering", "backoff", "failing"}
        /\ stage'[b] = "backoff" => attempt[b] < MaxRetries
        /\ UNCHANGED <<answers, local, live, pos, cancelled, attempt, delivered>>
    BY <1>0, <1>10 DEF Upstream, SendSucceeds, SendRetryable, SendFails, AttemptsLeft, TypeOK,
      callerVars, localVars
  <2>2. delivered[b] = {} /\ live[b] \in Seq(Req)
    BY <1>0, <2>1, Elems DEF Frame
  <2>3. {live[b][i] : i \in (1..Len(live[b])) \ delivered[b]} = Elements(live[b])
    BY <2>2 DEF Elements
  <2>4. Owed(b)' = Owed(b)
    BY <2>1, <2>3 DEF Owed, Elements
  <2>5. Frame(b)'
    BY <1>0, <1>a, <2>1 DEF Frame, Watching, Holding, Elements
  <2> QED
    BY <2>1, <2>4, <2>5, PaysNothing
<1>11. CASE BackoffElapses(b) \/ BackoffCancelled(b)
  <2>1. /\ stage[b] = "backoff" /\ stage'[b] \in {"sending", "failing"}
        /\ UNCHANGED <<answers, local, live, pos, cancelled, delivered>>
    BY <1>0, <1>11 DEF BackoffElapses, BackoffCancelled, TypeOK, callerVars, localVars
  <2>2. Owed(b)' = Owed(b)
    BY <2>1 DEF Owed, Elements
  <2>3. Frame(b)'
    BY <1>0, <1>a, <2>1 DEF Frame, Watching, Holding, Elements
  <2> QED
    BY <2>1, <2>2, <2>3, PaysNothing
<1>12. CASE DeliverNext(b)
  <2> DEFINE id == Head(body[b])
             to == live[b][id]
             m == Contract!Envelope("answer", to, ClientId[to])
  <2>1. /\ stage[b] = "delivering"
        /\ UNCHANGED <<stage, local, live, pos, cancelled, attempt>>
    BY <1>12 DEF DeliverNext
  <2>2. Frame(b)'
    BY <1>0, <1>a, <2>1 DEF Frame, Watching, Holding, Elements
  <2>3. CASE ~Accepts(b, id)
    <3>1. UNCHANGED <<answers, delivered>>
      BY <1>12, <2>3 DEF DeliverNext
    <3>2. Owed(b)' = Owed(b)
      BY <2>1, <3>1 DEF Owed
    <3> QED
      BY <2>2, <3>1, <3>2, PaysNothing
  <2>4. CASE Accepts(b, id)
    <3>1. id \in 1..Len(live[b]) /\ id \notin delivered[b] /\ live[b] \in Seq(Req)
      BY <1>0, <2>4, Elems DEF Accepts
    <3>2. /\ answers' = [answers EXCEPT ![to] = Append(answers[to], m)]
          /\ delivered'[b] = delivered[b] \cup {id}
      BY <1>0, <1>12, <2>4 DEF DeliverNext, Recipient, Wire, TypeOK
    <3>3. \A i \in 1..Len(live[b]) : live[b][i] = to => i = id
      BY <1>0, <3>1 DEF Frame
    <3>4. Owed(b) = {live[b][i] : i \in (1..Len(live[b])) \ delivered[b]}
      BY <2>1 DEF Owed
    <3>5. Owed(b)' = {live[b][i] : i \in (1..Len(live[b])) \ (delivered[b] \cup {id})}
      BY <2>1, <3>2 DEF Owed
    <3>6. Owed(b)' = Owed(b) \ {to} /\ to \in Owed(b)
      BY <3>1, <3>3, <3>4, <3>5
    <3>7. to \in Req /\ answers[to] = <<>>
      BY <3>6, OwedUnanswered
    <3>8. m \in Contract!Admissible(to)
      BY <1>0 DEF Contract!Admissible, Contract!Kinds
    <3>9. answers'[to] = <<m>> /\ \A r \in Req \ {to} : answers'[r] = answers[r]
      <4> HIDE DEF to, m
      <4> QED
        BY <1>0, <3>2, <3>7 DEF TypeOK
    <3> HIDE DEF to, m
    <3>10. Pays(b)
      BY <3>6, <3>7, <3>8, <3>9 DEF Pays
    <3> QED
      BY <2>2, <3>10
  <2> QED
    BY <2>3, <2>4
<1> QED
  BY <1>1, <1>2, <1>3, <1>4, <1>5, <1>6, <1>7, <1>8, <1>9, <1>10, <1>11, <1>12
  DEF BatchStep, Process

-----------------------------------------------------------------------------
\* The inductive invariant.

\* A step of one batch keeps the others' ledgers: their entries are not its.
LEMMA BatchStepInv ==
  ASSUME IInv, NEW b \in Req, BatchStep(b), TypeOK'
  PROVE  IInv'
<1>0. TypeOK /\ Fresh /\ EnteredOnce /\ Entered /\ Created /\ Frames /\ Ledger /\ Answers
  BY DEF IInv
<1>1. /\ UNCHANGED <<caller, target, entries, closes>>
      /\ stage[b] # "none" /\ stage'[b] # "none"
  BY StepLocal
<1>2. \A c \in Req \ {b} :
        /\ stage'[c] = stage[c] /\ local'[c] = local[c] /\ live'[c] = live[c]
        /\ pos'[c] = pos[c] /\ delivered'[c] = delivered[c]
        /\ cancelled'[c] = cancelled[c] /\ attempt'[c] = attempt[c]
  BY StepLocal
<1>3. \A u \in Url : batches'[u] # None =>
        batches'[u] = batches[u] /\ (batches'[u] = b => stage'[b] \in {"open", "woken"})
  BY StepLocal
<1>4. Pays(b) /\ Frame(b)'
  BY StepPays
<1>5. \A r \in Req : answers'[r] # answers[r] =>
        /\ r \in Owed(b) /\ answers[r] = <<>> /\ answers'[r] # <<>>
        /\ \E m \in Contract!Admissible(r) : answers'[r] = <<m>>
  BY <1>4 DEF Pays
<1>6. \A r \in Owed(b) : r \in Req /\ r \in Elements(entries[b])
  BY OwedUnanswered
<1>7. Fresh'
  <2>1. \A r \in Req : caller[r] = "idle" => r # b /\ answers'[r] = answers[r]
    BY <1>0, <1>1, <1>5, <1>6 DEF Fresh
  <2> QED
    BY <1>0, <1>1, <1>2, <2>1 DEF Fresh, Elements
<1>8. EnteredOnce' /\ Entered'
  BY <1>0, <1>1 DEF EnteredOnce, Entered, Elements
<1>9. Created'
  <2>1. \A c \in Req : (stage'[c] = "none") <=> (stage[c] = "none")
    BY <1>1, <1>2
  <2>2. ASSUME NEW u \in Url, batches'[u] # None
        PROVE  stage'[batches'[u]] \in {"open", "woken"}
    <3>1. batches'[u] = batches[u] /\ batches[u] \in Req
      BY <1>0, <1>3, <2>2 DEF TypeOK
    <3>2. CASE batches[u] = b
      BY <1>3, <2>2, <3>1, <3>2
    <3>3. CASE batches[u] # b
      BY <1>0, <1>2, <2>2, <3>1, <3>3 DEF Created
    <3> QED
      BY <3>2, <3>3
  <2> QED
    BY <1>0, <1>1, <1>3, <2>1, <2>2 DEF Created
<1>10. Frames'
  <2>1. ASSUME NEW c \in Req, c # b PROVE Frame(c)'
    <3>1. /\ stage'[c] = stage[c] /\ local'[c] = local[c] /\ live'[c] = live[c]
          /\ pos'[c] = pos[c] /\ delivered'[c] = delivered[c]
          /\ cancelled'[c] = cancelled[c] /\ attempt'[c] = attempt[c]
          /\ entries' = entries /\ caller' = caller
      BY <1>1, <1>2, <2>1
    <3>2. Frame(c)
      BY <1>0 DEF Frames
    <3> QED
      BY <3>1, <3>2 DEF Frame, Elements
  <2> QED
    BY <1>4, <2>1 DEF Frames
<1>11. Ledger'
  <2>1. \A c \in Req : Elements(entries'[c]) = Elements(entries[c])
    BY <1>1
  <2>2. ASSUME NEW c \in Req, c # b PROVE Owed(c)' = Owed(c)
    <3>1. /\ stage'[c] = stage[c] /\ local'[c] = local[c] /\ live'[c] = live[c]
          /\ pos'[c] = pos[c] /\ delivered'[c] = delivered[c]
          /\ cancelled'[c] = cancelled[c] /\ attempt'[c] = attempt[c]
          /\ entries' = entries /\ caller' = caller
      BY <1>1, <1>2, <2>2
    <3> QED
      BY <3>1 DEF Owed, Elements
  <2>3. ASSUME NEW c \in Req, c # b, NEW r \in Elements(entries[c])
        PROVE  r \in Req /\ answers'[r] = answers[r]
    <3>1. r \in Req
      BY <1>0, Elems DEF Elements
    <3>2. r \notin Elements(entries[b])
      BY <1>0, <2>3 DEF EnteredOnce, Elements
    <3> QED
      BY <1>5, <1>6, <3>1, <3>2
  <2>4. ASSUME NEW c \in Req, c # b
        PROVE  Owed(c)' = {r \in Elements(entries'[c]) : answers'[r] = <<>>}
    BY <1>0, <2>1, <2>2, <2>3, <2>4 DEF Ledger
  <2>5. Owed(b)' = {r \in Elements(entries[b]) : answers'[r] = <<>>}
    <3>1. \A r \in Elements(entries[b]) : r \in Req
      BY <1>0, Elems DEF Elements
    <3>2. \A r \in Elements(entries[b]) : r \in Owed(b) <=> answers[r] = <<>>
      BY <1>0 DEF Ledger
    <3>3. \A r \in Req : r \in Owed(b) \ Owed(b)' => answers'[r] # <<>>
      BY <1>4 DEF Pays
    <3>4. \A r \in Req : r \notin Owed(b) \ Owed(b)' => answers'[r] = answers[r]
      BY <1>4 DEF Pays
    <3>5. Owed(b)' \subseteq Owed(b) /\ Owed(b) \subseteq Elements(entries[b])
      BY <1>4, <1>6 DEF Pays
    <3> QED
      BY <3>1, <3>2, <3>3, <3>4, <3>5
  <2> QED
    BY <2>1, <2>4, <2>5 DEF Ledger
<1>12. Answers'
  BY <1>0, <1>1, <1>5 DEF Answers, Contract!Admissible
<1> QED
  BY <1>7, <1>8, <1>9, <1>10, <1>11, <1>12 DEF IInv

\* AddRequest appends to one batch, which it creates or finds open in the map.
LEMMA AddLocal ==
  ASSUME IInv, NEW r \in Req, NEW u \in Url, AddRequest(r, u)
  PROVE  \E b \in Req :
           /\ entries' = [entries EXCEPT ![b] = Append(entries[b], r)]
           /\ \/ b = r /\ stage[r] = "none" /\ stage' = [stage EXCEPT ![r] = "open"]
              \/ b # r /\ stage[b] \in {"open", "woken"} /\ stage' = stage /\ target[b] = u
           /\ \A v \in Url : batches'[v] # None =>
                batches'[v] = batches[v] \/ (v = u /\ batches'[v] = b)
<1>0. TypeOK /\ Fresh /\ Created /\ None \notin Req
  BY BatchAssumption DEF IInv
<1>1. stage[r] = "none" /\ entries[r] = <<>>
  BY <1>0 DEF AddRequest, Fresh, Created
<1>2. CASE Solo(r)
  <2>1. entries' = [entries EXCEPT ![r] = Append(entries[r], r)]
    <3>1. Append(entries[r], r) = <<r>>
      BY <1>1
    <3> QED
      BY <1>2, <3>1 DEF AddRequest, AddSolo
  <2> QED
    BY <1>1, <1>2, <2>1 DEF AddRequest, AddSolo
<1>3. CASE ~Solo(r) /\ batches[u] = None
  <2>1. /\ entries' = [entries EXCEPT ![r] = Append(entries[r], r)]
        /\ stage' = [stage EXCEPT ![r] = "open"]
        /\ batches' = [batches EXCEPT ![u] = OpenAfter(r)]
    BY <1>3 DEF AddRequest, Join
  <2>2. \A v \in Url : batches'[v] # None => batches'[v] = batches[v] \/ (v = u /\ batches'[v] = r)
    BY <1>0, <2>1 DEF OpenAfter, TypeOK
  <2> QED
    BY <1>1, <2>1, <2>2
<1>4. CASE ~Solo(r) /\ batches[u] # None
  <2> DEFINE b == batches[u]
  <2>1. b \in Req /\ stage[b] \in {"open", "woken"} /\ target[b] = u
    BY <1>0, <1>4 DEF TypeOK, Created
  <2>2. b # r
    BY <1>1, <2>1
  <2>3. Join(r, u)
    BY <1>4 DEF AddRequest
  <2>4. /\ entries' = [entries EXCEPT ![b] = Append(entries[b], r)]
        /\ stage' = stage
        /\ batches' = [batches EXCEPT ![u] = OpenAfter(b)]
    BY <1>4, <2>2, <2>3 DEF Join
  <2>5. \A v \in Url : batches'[v] # None => batches'[v] = batches[v] \/ (v = u /\ batches'[v] = b)
    BY <1>0, <2>4 DEF OpenAfter, TypeOK
  <2> QED
    BY <2>1, <2>2, <2>4, <2>5
<1> QED
  BY <1>2, <1>3, <1>4

LEMMA AddRequestInv ==
  ASSUME IInv, NEW r \in Req, NEW u \in Url, AddRequest(r, u), TypeOK'
  PROVE  IInv'
<1>0. TypeOK /\ Fresh /\ EnteredOnce /\ Entered /\ Created /\ Frames /\ Ledger /\ Answers
  BY DEF IInv
<1>1. /\ caller[r] = "idle" /\ caller' = [caller EXCEPT ![r] = "waiting"]
      /\ target' = [target EXCEPT ![r] = u]
      /\ UNCHANGED <<answers, local, live, pos, cancelled, attempt, body, delivered>>
  BY DEF AddRequest, localVars
<1>2. PICK b \in Req :
        /\ entries' = [entries EXCEPT ![b] = Append(entries[b], r)]
        /\ \/ b = r /\ stage[r] = "none" /\ stage' = [stage EXCEPT ![r] = "open"]
           \/ b # r /\ stage[b] \in {"open", "woken"} /\ stage' = stage /\ target[b] = u
        /\ \A v \in Url : batches'[v] # None =>
             batches'[v] = batches[v] \/ (v = u /\ batches'[v] = b)
  BY AddLocal
<1>3. stage[r] = "none" /\ answers[r] = <<>> /\ \A c \in Req : r \notin Elements(entries[c])
  BY <1>0, <1>1 DEF Fresh
<1>4. /\ \A c \in Req \ {b} : entries'[c] = entries[c]
      /\ entries[b] \in Seq(Req) /\ entries'[b] = Append(entries[b], r)
      /\ stage'[b] \in {"open", "woken"}
      /\ \A c \in Req \ {b} : stage'[c] = stage[c]
  BY <1>0, <1>2, Elems DEF TypeOK
<1>5. /\ DOMAIN entries'[b] = 1..(Len(entries[b]) + 1)
      /\ DOMAIN entries[b] = 1..Len(entries[b]) /\ Len(entries[b]) \in Nat
      /\ \A i \in DOMAIN entries[b] : entries'[b][i] = entries[b][i]
      /\ entries'[b][Len(entries[b]) + 1] = r
  BY <1>4
<1>6. Elements(entries'[b]) = Elements(entries[b]) \cup {r}
  BY <1>5 DEF Elements
<1>7. Fresh'
  <2>1. ASSUME NEW q \in Req, caller'[q] = "idle" PROVE q # r /\ caller[q] = "idle"
    BY <1>0, <1>1, <2>1 DEF TypeOK
  <2>2. ASSUME NEW q \in Req, caller'[q] = "idle"
        PROVE  /\ stage'[q] = "none" /\ answers'[q] = <<>>
               /\ \A c \in Req : q \notin Elements(entries'[c])
    <3>1. stage[q] = "none" /\ answers[q] = <<>> /\ \A c \in Req : q \notin Elements(entries[c])
      BY <1>0, <2>1, <2>2 DEF Fresh
    <3>2. q # b
      BY <1>2, <2>1, <2>2, <3>1
    <3>3. \A c \in Req : q \notin Elements(entries'[c])
      BY <1>4, <1>6, <2>1, <2>2, <3>1
    <3> QED
      BY <1>1, <1>4, <3>1, <3>2, <3>3
  <2> QED
    BY <2>2 DEF Fresh, Elements
<1>8. EnteredOnce'
  <2> SUFFICES ASSUME NEW c \in Req, NEW d \in Req,
                      NEW i \in DOMAIN entries'[c], NEW j \in DOMAIN entries'[d],
                      entries'[c][i] = entries'[d][j]
               PROVE  c = d /\ i = j
    BY DEF EnteredOnce
  <2>1. \A e \in Req : \A k \in DOMAIN entries'[e] :
          \/ k \in DOMAIN entries[e] /\ entries'[e][k] = entries[e][k] /\ entries[e][k] # r
          \/ e = b /\ k = Len(entries[b]) + 1 /\ entries'[e][k] = r
    BY <1>3, <1>4, <1>5 DEF Elements
  <2> QED
    BY <1>0, <2>1 DEF EnteredOnce
<1>9. Entered'
  <2>1. \A c \in Req : Elements(entries[c]) \subseteq Elements(entries'[c])
    BY <1>4, <1>6
  <2>2. r \in Elements(entries'[b])
    BY <1>6
  <2>3. \A q \in Req : caller'[q] # "idle" => q = r \/ caller[q] # "idle"
    BY <1>0, <1>1 DEF TypeOK
  <2>4. \A q \in Req : caller'[q] # "idle" => \E c \in Req : q \in Elements(entries'[c])
    BY <1>0, <2>1, <2>2, <2>3 DEF Entered
  <2> QED
    BY <2>4 DEF Entered, Elements
<1>10. Created'
  <2>1. ASSUME NEW c \in Req
        PROVE  IF stage'[c] = "none" THEN entries'[c] = <<>> ELSE target'[c] \in Url
    <3>0. target'[c] = (IF c = r THEN u ELSE target[c]) /\ u \in Url
      BY <1>0, <1>1 DEF TypeOK
    <3>1. CASE c = b
      BY <1>2, <1>4, <3>0, <3>1
    <3>2. CASE c # b
      <4>1. IF stage[c] = "none" THEN entries[c] = <<>> ELSE target[c] \in Url
        BY <1>0 DEF Created
      <4>2. stage'[c] = stage[c] /\ entries'[c] = entries[c]
        BY <1>4, <3>2
      <4> QED
        BY <3>0, <4>1, <4>2
    <3> QED
      BY <3>1, <3>2
  <2>2. ASSUME NEW v \in Url, batches'[v] # None
        PROVE  stage'[batches'[v]] \in {"open", "woken"} /\ target'[batches'[v]] = v
    <3>1. CASE v = u /\ batches'[v] = b
      BY <1>0, <1>1, <1>2, <1>4, <3>1 DEF TypeOK
    <3>2. CASE batches'[v] = batches[v]
      <4>1. batches[v] \in Req /\ stage[batches[v]] \in {"open", "woken"} /\ target[batches[v]] = v
        <5>1. batches \in [Url -> Req \cup {None}]
          BY <1>0 DEF TypeOK
        <5> QED
          BY <1>0, <2>2, <3>2, <5>1 DEF Created
      <4>2. batches[v] # r
        BY <1>3, <4>1
      <4> QED
        BY <1>0, <1>1, <1>4, <3>2, <4>1, <4>2 DEF TypeOK
    <3> QED
      BY <1>2, <2>2, <3>1, <3>2
  <2> QED
    BY <2>1, <2>2 DEF Created
<1>11. Frames'
  <2>1. ASSUME NEW c \in Req PROVE Frame(c)'
    <3>1. Frame(c)
      BY <1>0 DEF Frames
    <3>2. \A i \in DOMAIN local[c] : caller[local[c][i]] = "left" => caller'[local[c][i]] = "left"
      <4>1. \A i \in DOMAIN local[c] : local[c][i] \in Req
        BY <1>0, Elems
      <4> QED
        BY <1>0, <1>1, <4>1 DEF TypeOK
    <3>3. CASE c = b
      <4>1. stage[b] \in {"none", "open", "woken"}
        BY <1>2
      <4> QED
        BY <1>1, <1>4, <3>1, <3>2, <3>3, <4>1 DEF Frame, Watching, Holding, Elements
    <3>4. CASE c # b
      <4>1. stage'[c] = stage[c] /\ entries'[c] = entries[c]
        BY <1>4, <3>4
      <4>2. UNCHANGED <<local, live, pos, cancelled, attempt, body, delivered>>
        BY <1>1
      <4>3. cancelled'[c] => \A i \in DOMAIN local'[c] : caller'[local'[c][i]] = "left"
        BY <3>1, <3>2, <4>2 DEF Frame
      <4> QED
        <5>1. /\ local'[c] = local[c] /\ live'[c] = live[c] /\ pos'[c] = pos[c]
              /\ cancelled'[c] = cancelled[c] /\ attempt'[c] = attempt[c]
              /\ delivered'[c] = delivered[c]
          BY <4>2
        <5>2. Elements(live'[c]) = Elements(live[c]) /\ Elements(local'[c]) = Elements(local[c])
          BY <5>1
        <5> QED
          BY <3>1, <4>1, <4>3, <5>1, <5>2 DEF Frame
    <3> QED
      BY <3>3, <3>4
  <2> QED
    BY <2>1 DEF Frames
<1>12. Ledger'
  <2>1. ASSUME NEW c \in Req
        PROVE  Owed(c)' = {q \in Elements(entries'[c]) : answers'[q] = <<>>}
    <3>1. Owed(c) = {q \in Elements(entries[c]) : answers[q] = <<>>}
      BY <1>0 DEF Ledger
    <3>2. CASE c = b
      <4>1. stage[b] \in {"none", "open", "woken"}
        BY <1>2
      <4>2. stage[b] = "none" => entries[b] = <<>>
        BY <1>0 DEF Created
      <4>3. Owed(b) = Elements(entries[b])
        BY <4>1, <4>2 DEF Owed, Elements
      <4>4. Owed(b)' = Elements(entries'[b])
        BY <1>4 DEF Owed, Elements
      <4> QED
        BY <1>1, <1>3, <1>6, <3>1, <3>2, <4>3, <4>4
    <3>3. CASE c # b
      <4>1. stage'[c] = stage[c] /\ entries'[c] = entries[c]
        BY <1>4, <3>3
      <4>2. Owed(c)' = Owed(c)
        BY <1>1, <4>1 DEF Owed, Elements
      <4> QED
        BY <1>1, <3>1, <4>1, <4>2
    <3> QED
      BY <3>2, <3>3
  <2> QED
    BY <2>1 DEF Ledger, Elements
<1>13. Answers'
  <2>1. \A q \in Req : caller[q] = "left" => caller'[q] = "left"
    BY <1>0, <1>1 DEF TypeOK
  <2>2. \A q \in Req : Contract!Admissible(q) \subseteq Contract!Admissible(q)'
    BY <2>1 DEF Contract!Admissible
  <2> QED
    BY <1>0, <1>1, <2>2 DEF Answers
<1> QED
  BY <1>7, <1>8, <1>9, <1>10, <1>11, <1>12, <1>13 DEF IInv

\* Flushing the map and the callers' own moves disturb neither batches nor
\* ledgers.
LEMMA OtherStepInv ==
  ASSUME IInv, FlushAll \/ \E r \in Req : CallerLeaves(r) \/ CallerReceives(r), TypeOK'
  PROVE  IInv'
<1>0. TypeOK /\ Fresh /\ EnteredOnce /\ Entered /\ Created /\ Frames /\ Ledger /\ Answers
  BY DEF IInv
<1>1. /\ UNCHANGED <<answers, target, entries, stage, local, live, pos, cancelled, attempt, body, delivered>>
      /\ \A u \in Url : batches'[u] # None => batches'[u] = batches[u]
  BY <1>0 DEF FlushAll, NoneOpen, CallerLeaves, CallerReceives, callerVars, sharedVars, goVars, localVars
<1>2. \A r \in Req : /\ caller'[r] = "idle" <=> caller[r] = "idle"
                     /\ caller[r] = "left" => caller'[r] = "left"
  BY <1>0 DEF FlushAll, CallerLeaves, CallerReceives, callerVars, TypeOK
<1>3. Fresh' /\ EnteredOnce' /\ Entered' /\ Created'
  BY <1>0, <1>1, <1>2 DEF Fresh, EnteredOnce, Entered, Created, Elements
<1>4. Frames'
  <2>1. ASSUME NEW c \in Req PROVE Frame(c)'
    <3>1. Frame(c)
      BY <1>0 DEF Frames
    <3>2. \A i \in DOMAIN local[c] : local[c][i] \in Req
      BY <1>0, Elems
    <3>3. cancelled'[c] => \A i \in DOMAIN local'[c] : caller'[local'[c][i]] = "left"
      BY <1>1, <1>2, <3>1, <3>2 DEF Frame
    <3> QED
      BY <1>1, <3>1, <3>3 DEF Frame, Elements
  <2> QED
    BY <2>1 DEF Frames
<1>5. Ledger'
  BY <1>0, <1>1 DEF Ledger, Owed, Elements
<1>6. Answers'
  <2>1. \A q \in Req : Contract!Admissible(q) \subseteq Contract!Admissible(q)'
    BY <1>2 DEF Contract!Admissible
  <2> QED
    BY <1>0, <1>1, <2>1 DEF Answers
<1> QED
  BY <1>3, <1>4, <1>5, <1>6 DEF IInv

LEMMA IInvInit == Init => IInv
<1> SUFFICES ASSUME Init PROVE IInv
  OBVIOUS
<1>1. TypeOK
  BY BatchAssumption DEF Init, TypeOK, Contract!CallerStates, Stages
<1>2. Fresh /\ EnteredOnce /\ Entered /\ Created
  BY DEF Init, Fresh, EnteredOnce, Entered, Created, Elements
<1>3. Frames
  BY DEF Init, Frames, Frame, Watching, Holding, Elements
<1>4. Ledger
  BY DEF Init, Ledger, Owed, Elements
<1>5. Answers
  BY DEF Init, Answers
<1> QED
  BY <1>1, <1>2, <1>3, <1>4, <1>5 DEF IInv

LEMMA IInvStep == IInv /\ [Next]_vars => IInv'
<1> SUFFICES ASSUME IInv, [Next]_vars PROVE IInv'
  OBVIOUS
<1>0. TypeOK'
  BY TypeStep
<1>1. CASE UNCHANGED vars
  <2> USE <1>1 DEF IInv, vars, callerVars, sharedVars, goVars, localVars
  <2>1. Fresh' /\ EnteredOnce' /\ Entered' /\ Created'
    BY DEF Fresh, EnteredOnce, Entered, Created, Elements
  <2>2. Frames'
    BY DEF Frames, Frame, Elements
  <2>3. Ledger' /\ Answers'
    BY SMTT(30) DEF Ledger, Owed, Answers, Contract!Admissible, Elements
  <2> QED
    BY <1>0, <2>1, <2>2, <2>3
<1>2. CASE Next /\ ~UNCHANGED vars
  BY <1>0, <1>2, BatchStepInv, AddRequestInv, OtherStepInv DEF Next, BatchStep, Quiescent
<1> QED
  BY <1>1, <1>2

\* Every reachable state satisfies the inductive invariant.
THEOREM Invariance == Spec => []IInv
  BY IInvInit, IInvStep, PTL DEF Spec

\* Type correctness of the batch processor's state.
THEOREM TypeCorrect == Spec => []TypeOK
<1>1. IInv => TypeOK
  BY DEF IInv
<1> QED
  BY <1>1, Invariance, PTL

\* AddRequest's channel receives at most one response: processBatch never
\* blocks on a full channel.
THEOREM AtMostOneAnswer == Spec => []AnsweredOnce
<1>1. IInv => AnsweredOnce
  <2> SUFFICES ASSUME IInv, NEW r \in Req PROVE Len(answers[r]) <= 1
    BY DEF AnsweredOnce
  <2>1. CASE answers[r] = <<>>
    BY <2>1
  <2>2. CASE answers[r] # <<>>
    <3>1. PICK m \in Contract!Admissible(r) : answers[r] = <<m>>
      BY <2>2 DEF IInv, Answers
    <3>2. Len(<<m>>) = 1
      OBVIOUS
    <3> QED
      BY <3>1, <3>2
  <2> QED
    BY <2>1, <2>2
<1> QED
  BY <1>1, Invariance, PTL

\* No caller receives another's payload, or its own under another id.
THEOREM NoCrossTalk == Spec => []OwnAnswer
<1>1. IInv => OwnAnswer
  <2> SUFFICES ASSUME IInv, NEW r \in Req, NEW i \in DOMAIN answers[r]
               PROVE  answers[r][i].of = r /\ answers[r][i].id = ClientId[r]
    BY DEF OwnAnswer
  <2>1. \E m \in Contract!Admissible(r) : answers[r] = <<m>> /\ answers[r][i] = m
    BY DEF IInv, Answers
  <2> QED
    BY <2>1 DEF Contract!Admissible, Contract!Envelope
<1> QED
  BY <1>1, Invariance, PTL

\* A request that was added and not answered is on the list of a batch on its
\* way: the map, the claim, the snapshot and the filter lose nobody.
THEOREM NobodyStranded == Spec => []NoneStranded
<1>1. IInv => NoneStranded
  BY DEF IInv, NoneStranded, Entered, Ledger
<1> QED
  BY <1>1, Invariance, PTL

\* No caller that still waits is told it left, and no upstream call is
\* cancelled while one of the callers it was made for still waits.
THEOREM WaitersKept == Spec => []NoWaiterAbandoned
<1>1. IInv => NoWaiterAbandoned
  <2> SUFFICES ASSUME IInv PROVE NoWaiterAbandoned
    OBVIOUS
  <2>1. ASSUME NEW r \in Req, NEW i \in DOMAIN answers[r], answers[r][i].kind = "left"
        PROVE  caller[r] = "left"
    <3>1. \E m \in Contract!Admissible(r) : answers[r] = <<m>> /\ answers[r][i] = m
      BY DEF IInv, Answers
    <3> QED
      BY <2>1, <3>1 DEF Contract!Admissible, Contract!Envelope
  <2>2. ASSUME NEW b \in Req, cancelled[b], NEW i \in DOMAIN live[b]
        PROVE  caller[live[b][i]] = "left"
    <3>1. Frame(b)
      BY DEF IInv, Frames
    <3>2. live[b][i] \in Elements(local[b])
      BY <3>1 DEF Frame, Elements
    <3> QED
      BY <2>2, <3>1, <3>2 DEF Frame, Elements
  <2> QED
    BY <2>1, <2>2 DEF NoWaiterAbandoned
<1> QED
  BY <1>1, Invariance, PTL

\* The batch processor implements RequestReply: whatever it does in between,
\* each caller sees one admissible response arrive, once.
THEOREM Implements == Spec => Promise
<1>1. Init => Contract!Init
  BY DEF Init, Contract!Init
<1>2. IInv /\ IInv' /\ [Next]_vars => [Contract!Next]_Contract!promise
  <2> SUFFICES ASSUME IInv, IInv', [Next]_vars
               PROVE  [Contract!Next]_Contract!promise
    OBVIOUS
  <2>0. TypeOK /\ TypeOK'
    BY DEF IInv
  <2>1. CASE UNCHANGED <<caller, answers>>
    BY <2>1 DEF Contract!promise
  <2>2. ASSUME NEW r \in Req, NEW u \in Url, AddRequest(r, u)
        PROVE  Contract!Next
    BY <2>2 DEF AddRequest, Contract!Next, Contract!Submit
  <2>3. ASSUME NEW r \in Req, CallerLeaves(r) \/ CallerReceives(r)
        PROVE  Contract!Next
    BY <2>3 DEF CallerLeaves, CallerReceives, Contract!Next, Contract!Leave, Contract!Receive
  <2>4. ASSUME NEW b \in Req, BatchStep(b), answers' # answers
        PROVE  Contract!Next
    <3>1. caller' = caller
      BY <2>4, StepLocal
    <3>2. ASSUME NEW r \in Req, answers'[r] # answers[r]
          PROVE  /\ caller[r] # "idle" /\ answers[r] = <<>>
                 /\ \E m \in Contract!Admissible(r) : answers'[r] = <<m>>
      <4>1. Pays(b)
        BY <2>4, StepPays
      <4>2. r \in Owed(b)
        BY <3>2, <4>1 DEF Pays
      <4>3. r \in Elements(entries[b])
        BY <4>2, OwedUnanswered
      <4> QED
        BY <3>2, <4>1, <4>3 DEF Pays, IInv, Fresh
    <3>3. Contract!Answer
      BY <2>0, <2>4, <3>1, <3>2 DEF Contract!Answer, TypeOK
    <3> QED
      BY <3>3 DEF Contract!Next
  <2>5. FlushAll \/ Quiescent => UNCHANGED <<caller, answers>>
    BY DEF FlushAll, Quiescent, vars, callerVars
  <2>6. UNCHANGED vars => UNCHANGED <<caller, answers>>
    BY DEF vars, callerVars
  <2>7. ASSUME NEW b \in Req, BatchStep(b) PROVE caller' = caller
    BY <2>7, StepLocal
  <2> QED
    BY <2>1, <2>2, <2>3, <2>4, <2>5, <2>6, <2>7 DEF Next, BatchStep
<1>3. Spec => []IInv
  BY Invariance
<1> QED
  BY <1>1, <1>2, <1>3, PTL DEF Spec, Promise, Contract!Spec

-----------------------------------------------------------------------------
\* The semaphores.

\* A step of a batch takes a slot as it starts to hold one, gives it back as it
\* stops, and otherwise leaves the semaphore alone.
LEMMA SlotStep ==
  ASSUME IInv, NEW b \in Req, BatchStep(b)
  PROVE  \/ workers' = workers /\ (stage[b] \in Holding <=> stage'[b] \in Holding)
         \/ /\ stage[b] \notin Holding /\ stage'[b] \in Holding
            /\ workers[target[b]] < MaxConcurrent
            /\ workers' = [workers EXCEPT ![target[b]] = @ + 1]
         \/ /\ stage[b] \in Holding /\ stage'[b] \notin Holding
            /\ workers' = [workers EXCEPT ![target[b]] = @ - 1]
<1>0. TypeOK
  BY DEF IInv
<1>1. CASE Wake(b) \/ Claim(b) \/ Snapshot(b) \/ CallersGone(b) \/ Abandon(b)
  BY <1>0, <1>1 DEF Wake, Claim, Snapshot, CallersGone, Abandon, Return, Holding, TypeOK, callerVars
<1>2. CASE AcquireWorker(b)
  BY <1>0, <1>2 DEF AcquireWorker, SlotFree, Holding, TypeOK
<1>3. CASE FilterNext(b) \/ DeliverNext(b) \/ DeliverMissing(b) \/ Fail(b) \/ BackoffElapses(b)
  BY <1>0, <1>3 DEF FilterNext, DeliverNext, DeliverMissing, Fail, BackoffElapses, Return,
    Holding, TypeOK, callerVars
<1>4. CASE FilterEnd(b)
  BY <1>0, <1>4 DEF FilterEnd, Return, Released, Holding, TypeOK
<1>5. CASE Upstream(b) \/ BackoffCancelled(b)
  BY <1>0, <1>5 DEF Upstream, SendSucceeds, SendRetryable, SendFails, BackoffCancelled, Released,
    Holding, TypeOK
<1> QED
  BY <1>1, <1>2, <1>3, <1>4, <1>5 DEF BatchStep, Process

LEMMA SlotsStep == IInv /\ Slots /\ [Next]_vars => Slots'
<1> SUFFICES ASSUME IInv, Slots, [Next]_vars PROVE Slots'
  OBVIOUS
<1>0. TypeOK /\ Created /\ Fresh /\ MaxConcurrent \in Nat
  BY BatchAssumption DEF IInv
<1>1. ASSUME workers' = workers, \A u \in Url : Holders(u)' = Holders(u)
      PROVE  Slots'
  BY <1>1 DEF Slots, WorkersAccounted
<1>2. ASSUME NEW b \in Req, BatchStep(b) PROVE Slots'
  <2>a. target[b] \in Url
    BY <1>0, <1>2, StepLocal DEF Created
  <2>b. PICK t \in Url : t = target[b]
    BY <2>a
  <2>1. workers[t] \in Int
    BY <1>0 DEF TypeOK
  <2>2. target' = target /\ \A c \in Req \ {b} : stage'[c] = stage[c]
    BY <1>2, StepLocal
  <2>3. \A u \in Url \ {t} : Holders(u)' = Holders(u)
    BY <2>2, <2>b DEF Holders
  <2>4. CASE workers' = workers /\ (stage[b] \in Holding <=> stage'[b] \in Holding)
    <3>1. Holders(t)' = Holders(t)
      BY <2>2, <2>4, <2>b DEF Holders
    <3>2. \A u \in Url : Holders(u)' = Holders(u)
      BY <2>3, <3>1
    <3> QED
      BY <1>1, <2>4, <3>2
  <2>5. ASSUME NEW k \in Int, workers' = [workers EXCEPT ![t] = k],
               IsFiniteSet(Holders(t)'), Cardinality(Holders(t)') = k, k <= MaxConcurrent
        PROVE  Slots'
    <3>1. ASSUME NEW u \in Url
          PROVE  /\ workers'[u] = Cardinality(Holders(u)') /\ workers'[u] <= MaxConcurrent
                 /\ IsFiniteSet(Holders(u)')
      <4>1. CASE u = t
        <5>1. workers'[t] = k
          BY <1>0, <2>1, <2>5 DEF TypeOK
        <5> QED
          BY <2>5, <4>1, <5>1
      <4>2. CASE u # t
        BY <1>0, <2>1, <2>3, <2>5, <4>2 DEF TypeOK, Slots, WorkersAccounted
      <4> QED
        BY <4>1, <4>2
    <3> QED
      BY <3>1 DEF Slots, WorkersAccounted
  <2>6. /\ IsFiniteSet(Holders(t)) /\ workers[t] = Cardinality(Holders(t))
        /\ workers[t] <= MaxConcurrent
    BY <2>1 DEF Slots, WorkersAccounted
  <2>7. CASE /\ stage[b] \notin Holding /\ stage'[b] \in Holding
             /\ workers[t] < MaxConcurrent /\ workers' = [workers EXCEPT ![t] = @ + 1]
    <3>1. Holders(t)' = Holders(t) \cup {b} /\ b \notin Holders(t)
      BY <2>2, <2>7, <2>b DEF Holders
    <3>2. IsFiniteSet(Holders(t)') /\ Cardinality(Holders(t)') = workers[t] + 1
      BY <2>6, <3>1, FS_AddElement
    <3>3. workers[t] + 1 \in Int /\ workers[t] + 1 <= MaxConcurrent
      BY <1>0, <2>1, <2>7
    <3> QED
      BY <2>5, <2>7, <3>2, <3>3
  <2>8. CASE /\ stage[b] \in Holding /\ stage'[b] \notin Holding
             /\ workers' = [workers EXCEPT ![t] = @ - 1]
    <3>1. Holders(t)' = Holders(t) \ {b} /\ b \in Holders(t)
      BY <2>2, <2>8, <2>b DEF Holders
    <3>2. IsFiniteSet(Holders(t)') /\ Cardinality(Holders(t)') = workers[t] - 1
      BY <2>6, <3>1, FS_RemoveElement
    <3>3. workers[t] - 1 \in Int /\ workers[t] - 1 <= MaxConcurrent
      BY <1>0, <2>1, <2>6
    <3> QED
      BY <2>5, <2>8, <3>2, <3>3
  <2> QED
    BY <1>2, <2>4, <2>7, <2>8, <2>b, SlotStep
<1>3. ASSUME NEW r \in Req, NEW u \in Url, AddRequest(r, u) PROVE Slots'
  <2>1. stage[r] = "none" /\ target' = [target EXCEPT ![r] = u] /\ workers' = workers
    BY <1>0, <1>3 DEF AddRequest, Fresh
  <2>2. \A c \in Req : stage'[c] \in Holding <=> stage[c] \in Holding
    <3>1. PICK b \in Req :
            \/ b = r /\ stage[r] = "none" /\ stage' = [stage EXCEPT ![r] = "open"]
            \/ b # r /\ stage[b] \in {"open", "woken"} /\ stage' = stage
      BY <1>3, AddLocal
    <3> QED
      BY <1>0, <3>1 DEF TypeOK, Holding
  <2>3. \A v \in Url : Holders(v)' = Holders(v)
    BY <1>0, <2>1, <2>2 DEF Holders, Holding, TypeOK
  <2> QED
    BY <1>1, <2>1, <2>3
<1>4. CASE UNCHANGED <<workers, stage, target>>
  BY <1>1, <1>4 DEF Holders
<1>5. ASSUME FlushAll \/ Quiescent \/ UNCHANGED vars \/ \E r \in Req : CallerLeaves(r) \/ CallerReceives(r)
      PROVE  UNCHANGED <<workers, stage, target>>
  BY <1>5 DEF FlushAll, Quiescent, CallerLeaves, CallerReceives, vars, callerVars, goVars
<1> QED
  BY <1>2, <1>3, <1>4, <1>5 DEF Next, BatchStep

\* Every backend's semaphore counts the batches that hold a slot of it and
\* never lets more than MaxConcurrent, whichever way they end.
THEOREM SlotsCounted == Spec => []WorkersAccounted
<1>1. Init => Slots
  <2> SUFFICES ASSUME Init PROVE Slots
    OBVIOUS
  <2>1. ASSUME NEW u \in Url PROVE workers[u] = 0 /\ Holders(u) = {}
    BY DEF Init, Holders, Holding
  <2>2. IsFiniteSet({}) /\ Cardinality({}) = 0 /\ 0 <= MaxConcurrent
    BY FS_EmptySet, BatchAssumption
  <2> QED
    BY <2>1, <2>2 DEF Slots, WorkersAccounted
<1>2. Slots => WorkersAccounted
  BY DEF Slots
<1> QED
  BY <1>1, <1>2, SlotsStep, Invariance, PTL DEF Spec

-----------------------------------------------------------------------------
\* Dispatch.

\* A batch in the map is its backend's, open, not dispatched, with room, and
\* holds no range scan.
Joinable(u) ==
  batches[u] # None =>
    /\ target[batches[u]] = u
    /\ closes[batches[u]] = 0
    /\ Len(entries[batches[u]]) < MaxBatchSize
    /\ stage[batches[u]] \in {"open", "woken"}
    /\ \A i \in DOMAIN entries[batches[u]] : entries[batches[u]][i] \notin RangeScan

\* With what is needed of batches out of the map: those not created yet were
\* not dispatched, and a range scan is alone in its own.
Dispatching ==
  /\ \A u \in Url : Joinable(u)
  /\ DispatchOnce
  /\ \A b \in Req : stage[b] = "none" => closes[b] = 0
  /\ RangeScansAlone

\* What joins a batch, or opens one, finds it as Joinable says and leaves it so.
LEMMA AddDispatching ==
  ASSUME IInv, Dispatching, NEW r \in Req, NEW u \in Url, AddRequest(r, u)
  PROVE  Dispatching'
<1>0. TypeOK /\ Fresh /\ Created /\ None \notin Req /\ MaxBatchSize \in Nat \ {0}
  BY BatchAssumption DEF IInv
<1>1. stage[r] = "none" /\ entries[r] = <<>> /\ closes[r] = 0
  BY <1>0 DEF AddRequest, Fresh, Created, Dispatching
<1>2. target' = [target EXCEPT ![r] = u]
  BY DEF AddRequest
<1>3. ASSUME NEW v \in Url, batches[v] # None
      PROVE  batches[v] \in Req /\ batches[v] # r /\ target[batches[v]] = v
  <2>1. stage[batches[v]] \in {"open", "woken"} /\ target[batches[v]] = v
    BY <1>0, <1>3 DEF Created
  <2>2. batches \in [Url -> Req \cup {None}]
    BY <1>0 DEF TypeOK
  <2> QED
    BY <1>1, <1>3, <2>1, <2>2
<1>4. CASE Solo(r)
  <2>1. /\ entries' = [entries EXCEPT ![r] = <<r>>] /\ closes' = [closes EXCEPT ![r] = 1]
        /\ stage' = [stage EXCEPT ![r] = "open"] /\ batches' = batches
    BY <1>4 DEF AddRequest, AddSolo
  <2>2. ASSUME NEW v \in Url PROVE Joinable(v)'
    BY <1>0, <1>2, <1>3, <2>1 DEF Joinable, Dispatching, TypeOK
  <2>3. DispatchOnce' /\ \A b \in Req : stage'[b] = "none" => closes'[b] = 0
    BY <1>0, <1>1, <2>1 DEF DispatchOnce, Dispatching, TypeOK
  <2>4. RangeScansAlone'
    <3>1. entries'[r] = <<r>> /\ \A b \in Req \ {r} : entries'[b] = entries[b]
      BY <1>0, <2>1 DEF TypeOK
    <3>2. Len(entries'[r]) = 1
      BY <3>1
    <3> QED
      BY <3>1, <3>2 DEF RangeScansAlone, Dispatching, Elements
  <2> QED
    BY <2>2, <2>3, <2>4 DEF Dispatching
<1>5. CASE ~Solo(r)
  <2> DEFINE b == IF batches[u] = None THEN r ELSE batches[u]
  <2>1. /\ entries' = [entries EXCEPT ![b] = Append(entries[b], r)]
        /\ batches' = [batches EXCEPT ![u] = OpenAfter(b)]
        /\ closes' = [closes EXCEPT ![b] = IF Full(b) THEN closes[b] + 1 ELSE closes[b]]
        /\ stage' = IF b = r THEN [stage EXCEPT ![r] = "open"] ELSE stage
    BY <1>5 DEF AddRequest, Join
  <2>2. /\ b \in Req /\ closes[b] = 0 /\ entries[b] \in Seq(Req)
        /\ \A i \in DOMAIN entries[b] : entries[b][i] \notin RangeScan
        /\ (b = r \/ (target[b] = u /\ stage[b] \in {"open", "woken"}))
    <3>1. CASE batches[u] = None
      BY <1>0, <1>1, <3>1 DEF TypeOK
    <3>2. CASE batches[u] # None
      BY <1>0, <1>3, <3>2 DEF TypeOK, Dispatching, Joinable
    <3> QED
      BY <3>1, <3>2
  <2> HIDE DEF b
  <2>3. /\ entries'[b] = Append(entries[b], r) /\ Len(entries'[b]) = Len(entries[b]) + 1
        /\ \A i \in DOMAIN entries'[b] : entries'[b][i] \notin RangeScan
    <3>1. entries'[b] = Append(entries[b], r)
      BY <1>0, <2>1, <2>2 DEF TypeOK
    <3>2. r \notin RangeScan
      BY <1>5 DEF Solo
    <3> QED
      BY <2>2, <3>1, <3>2
  <2>4. /\ \A c \in Req \ {b} : entries'[c] = entries[c] /\ closes'[c] = closes[c]
        /\ closes'[b] = IF Full(b) THEN 1 ELSE 0
        /\ stage'[b] \in {"open", "woken"} /\ \A c \in Req \ {b} : stage'[c] = stage[c]
        /\ target'[b] = u
    BY <1>0, <1>2, <2>1, <2>2, SMTT(30) DEF TypeOK
  <2>5. ASSUME NEW v \in Url PROVE Joinable(v)'
    <3>1. CASE v = u
      <4>1. batches'[u] = IF Full(b) THEN None ELSE b
        BY <1>0, <2>1 DEF TypeOK, OpenAfter
      <4>2. ~Full(b) => Len(entries'[b]) < MaxBatchSize
        BY <1>0, <2>2, <2>3 DEF Full
      <4> QED
        BY <2>3, <2>4, <3>1, <4>1, <4>2 DEF Joinable
    <3>2. CASE v # u
      <4>1. batches'[v] = batches[v]
        BY <1>0, <2>1, <3>2 DEF TypeOK
      <4>2. ASSUME batches[v] # None PROVE batches[v] \in Req \ {b} /\ target'[batches[v]] = v
        BY <1>0, <1>2, <1>3, <2>2, <3>2, <4>2 DEF TypeOK
      <4> QED
        BY <2>4, <4>1, <4>2 DEF Joinable, Dispatching
    <3> QED
      BY <3>1, <3>2
  <2>6. DispatchOnce' /\ \A c \in Req : stage'[c] = "none" => closes'[c] = 0
    BY <2>4 DEF DispatchOnce, Dispatching
  <2>7. RangeScansAlone'
    BY <2>3, <2>4 DEF RangeScansAlone, Dispatching, Elements
  <2> QED
    BY <2>5, <2>6, <2>7 DEF Dispatching
<1> QED
  BY <1>4, <1>5

\* Every other step leaves open batches open or takes them out of the map.
LEMMA DispatchingStep == IInv /\ Dispatching /\ [Next]_vars => Dispatching'
<1> SUFFICES ASSUME IInv, Dispatching, [Next]_vars PROVE Dispatching'
  OBVIOUS
<1>0. TypeOK /\ Created /\ None \notin Req
  BY BatchAssumption DEF IInv
<1>1. ASSUME NEW b \in Req, BatchStep(b) PROVE Dispatching'
  <2>1. /\ UNCHANGED <<target, entries, closes>>
        /\ stage[b] # "none" /\ stage'[b] # "none"
        /\ \A c \in Req \ {b} : stage'[c] = stage[c]
        /\ \A u \in Url : batches'[u] # None =>
             batches'[u] = batches[u] /\ (batches'[u] = b => stage'[b] \in {"open", "woken"})
    BY <1>1, StepLocal
  <2>2. ASSUME NEW u \in Url, batches'[u] # None PROVE Joinable(u)'
    <3>1. batches'[u] = batches[u] /\ batches[u] \in Req
      BY <1>0, <2>1, <2>2 DEF TypeOK
    <3> QED
      BY <2>1, <2>2, <3>1 DEF Joinable, Dispatching
  <2>3. \A u \in Url : Joinable(u)'
    BY <2>2 DEF Joinable
  <2>4. \A c \in Req : stage'[c] = "none" => closes'[c] = 0
    BY <2>1 DEF Dispatching
  <2> QED
    BY <2>1, <2>3, <2>4 DEF Dispatching, DispatchOnce, RangeScansAlone
<1>2. ASSUME FlushAll PROVE Dispatching'
  <2> DEFINE open == {batches[u] : u \in Url} \ {None}
  <2>1. /\ batches' = [u \in Url |-> None] /\ UNCHANGED <<entries, stage>>
        /\ closes' = [b \in Req |-> IF b \in open THEN closes[b] + 1 ELSE closes[b]]
    BY <1>2 DEF FlushAll, NoneOpen, goVars
  <2>2. \A b \in open : closes[b] = 0 /\ stage[b] # "none"
    BY DEF Dispatching, Joinable
  <2>3. \A u \in Url : Joinable(u)'
    BY <2>1 DEF Joinable
  <2>4. \A b \in Req : closes'[b] <= 1 /\ (stage'[b] = "none" => closes'[b] = 0)
    <3> HIDE DEF open
    <3> QED
      BY <2>1, <2>2 DEF Dispatching, DispatchOnce
  <2> QED
    BY <2>1, <2>3, <2>4 DEF Dispatching, DispatchOnce, RangeScansAlone
<1>3. ASSUME UNCHANGED <<batches, target, closes, entries, stage>> PROVE Dispatching'
  BY <1>3 DEF Dispatching, Joinable, DispatchOnce, RangeScansAlone
<1>4. ASSUME Quiescent \/ UNCHANGED vars \/ \E r \in Req : CallerLeaves(r) \/ CallerReceives(r)
      PROVE  UNCHANGED <<batches, target, closes, entries, stage>>
  BY <1>4 DEF Quiescent, CallerLeaves, CallerReceives, vars, callerVars, sharedVars, goVars
<1> QED
  BY <1>1, <1>2, <1>3, <1>4, AddDispatching DEF Next, BatchStep

\* The invariant of dispatching holds in every reachable state.
THEOREM DispatchingInvariance == Spec => []Dispatching
<1>1. Init => Dispatching
  BY DEF Init, Dispatching, Joinable, DispatchOnce, RangeScansAlone, Elements
<1> QED
  BY <1>1, DispatchingStep, Invariance, PTL DEF Spec

\* No batch is dispatched twice, by a request that fills it and by FlushAll: a
\* channel closed again would stop the process.
THEOREM ClosedOnce == Spec => []DispatchOnce
<1>1. Dispatching => DispatchOnce
  BY DEF Dispatching
<1> QED
  BY <1>1, DispatchingInvariance, PTL

\* A batch that is found in the map can be joined: nothing that is full,
\* dispatched, claimed or another backend's stays there.
THEOREM OpenIsJoinable == Spec => []OpenBatchJoinable
<1>1. Dispatching => OpenBatchJoinable
  BY DEF Dispatching, Joinable, OpenBatchJoinable
<1> QED
  BY <1>1, DispatchingInvariance, PTL

\* A range scan shares its upstream batch with nobody.
THEOREM RangeScansTravelAlone == Spec => []RangeScansAlone
<1>1. Dispatching => RangeScansAlone
  BY DEF Dispatching
<1> QED
  BY <1>1, DispatchingInvariance, PTL
=============================================================================
