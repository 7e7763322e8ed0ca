------------------------------ MODULE Answers ------------------------------
(***************************************************************************)
(* Which answer goes to which question.  A client's batch is served partly *)
(* from the cache; the rest goes upstream, eligible calls packed into      *)
(* multicalls; what comes back is unpacked, put in order, merged and kept  *)
(* (router.go, multicall.go, the end of processBatch in batch.go).  A      *)
(* client's own multicall is served partly from the cache of immutable     *)
(* reads, the rest going upstream as a smaller one (cache.go).             *)
(*                                                                         *)
(* Which requests share an upstream batch, and who is still waiting for    *)
(* it, is the subject of Batch; how long an entry is good, that of Cache.  *)
(***************************************************************************)
EXTENDS Naturals, Sequences, FiniteSets, SequencesExt, FiniteSetsExt

CONSTANTS
  Handler,     \* the goroutines that serve clients
  Read,        \* a call of a contract, or another read, at a block
  CallOf, BlockOf,
  ByObject,    \* the reads whose block parameter is an object (EIP-1898)
  Latest,      \* the tag "latest"
  Aggregable,  \* the reads that are eth_calls with a target and data only
  Immutable,   \* the calls whose selector is in immutableSelectors
  Cached,      \* the reads with a TTL
  Id,          \* the JSON-RPC ids the clients use
  Asks,        \* what each handler's client may send, see Ask
  MaxCalls,    \* MulticallConfig.MaxCalls
  MaxReply,    \* bound: envelopes in one upstream reply
  None         \* also the id null

Call == {CallOf[r] : r \in Read}

\* "batch"   a batch of reads that goes through the batch processor
\* "direct"  one that goes upstream as it is, batching being disabled or no time left
\* "calls"   a multicall, or a single call of an immutable selector
Ask == [form : {"batch", "direct", "calls"}, items : Seq([id : Id, read : Read])]

ASSUME AnswersAssumption ==
  /\ DOMAIN CallOf = Read /\ DOMAIN BlockOf = Read
  /\ ByObject \subseteq Read /\ Aggregable \subseteq Read /\ Cached \subseteq Read
  /\ Immutable \subseteq Call
  /\ Asks \in [Handler -> SUBSET Ask]
  /\ MaxCalls \in Nat \ {0} /\ MaxReply \in Nat
  /\ None \notin Id \cup Read \cup Call \cup {BlockOf[r] : r \in Read}

VARIABLES
  kept,      \* the response kept under each read's CanonicalKey, but for its id
  forever,   \* what is kept under each call's subCallKey,
  reverted,  \* and under its subCallNegKey
  work,      \* what each handler is busy with
  last       \* the answer the last step put together, if it did

cacheVars == <<kept, forever, reverted>>
vars == <<cacheVars, work, last>>

\* What a read tells of: an immutable one, of no block.
Subject(call, block) == <<call, IF call \in Immutable THEN None ELSE block>>
Own(r) == Subject(CallOf[r], BlockOf[r])

Result == [kind : {"ok", "revert"}, of : Call \X ({None, Latest} \cup {BlockOf[r] : r \in Read})]
Error == [kind |-> "error", of |-> None]
\* A response the batch processor made up for one that did not come (InternalErr).
Missing == [kind |-> "missing", of |-> None]
Body == Result \cup {Error, Missing}
Success == {b \in Result : b.kind = "ok"}

\* History: matched is FALSE of a response that came in a reply whose ids do not
\* tell which request each of its responses is for.
Response == [id : Id \cup {None}, body : Body, matched : BOOLEAN]
Matched(id, body) == [id |-> id, body |-> body, matched |-> TRUE]

\* Type invariant: what is kept is a success, or under the negative key a revert.
TypeOK ==
  /\ kept \in [Read -> [body : Success, matched : BOOLEAN] \cup {None}]
  /\ forever \in [Call -> Success \cup {None}]
  /\ reverted \in [Call -> (Result \ Success) \cup {None}]
  /\ \A h \in Handler : work[h] # None =>
       /\ work[h].ask \in Asks[h]
       /\ work[h].stage \in {"planning", "fetching"}
       /\ work[h].hits \in Seq(Response \cup {None})
       /\ Len(work[h].hits) = Len(work[h].ask.items)
  /\ last # None => last.answer \in Seq(Response \cup {None})

Init ==
  /\ kept = [r \in Read |-> None]
  /\ forever = [c \in Call |-> None]
  /\ reverted = [c \in Call |-> None]
  /\ work = [h \in Handler |-> None]
  /\ last = None

-----------------------------------------------------------------------------
(* From the cache.  Entries come and go one by one, whatever the handler   *)
(* does, so that it looks them all up in one step makes no difference.     *)

\* What is kept is served under the id of whoever asks.
RewriteResponseID(response, id) ==
  [id |-> id, body |-> response.body, matched |-> response.matched]

\* cstore.Get for an item of a batch.
KeptHit(item) ==
  IF item.read \in Cached /\ kept[item.read] # None
    THEN RewriteResponseID(kept[item.read], item.id)
    ELSE None

\* For a call of a multicall: the success first, then a known revert.
SubHit(item) ==
  LET c == CallOf[item.read] IN
    CASE c \in Immutable /\ forever[c] # None -> Matched(item.id, forever[c])
      [] c \in Immutable /\ forever[c] = None /\ reverted[c] # None ->
           Matched(item.id, reverted[c])
      [] OTHER -> None

Hits(w) == [i \in DOMAIN w.items |-> IF w.form = "calls" THEN SubHit(w.items[i])
                                                          ELSE KeptHit(w.items[i])]

NoHits(w) == [i \in DOMAIN w.items |-> None]

\* The answer goes out: a body for each item.  History: what was said of each item,
\* by the cache or by the upstream.
Gives(w, answer, said) == last' = [items |-> w.items, answer |-> answer, said |-> said]

ToEach(w, bodies) == [i \in DOMAIN bodies |-> Matched(w.items[i].id, bodies[i])]
Errors(w) == ToEach(w, [i \in DOMAIN w.items |-> Error])
Nothing(w) == [i \in DOMAIN w.items |-> {}]

Missed(hits) == {i \in DOMAIN hits : hits[i] = None}

\* The positions in S, one after the other, as a loop over them appends them.
InOrder(S) ==
  CHOOSE s \in [1..Cardinality(S) -> S] : \A a, b \in DOMAIN s : a < b => s[a] < s[b]

Busy(h, w, stage, hits) ==
  work' = [work EXCEPT ![h] = [ask |-> w, stage |-> stage, hits |-> hits]]

\* Lookup, or the loop over a batch: served, or on to what is missing.
Arrives(h, w) ==
  /\ work[h] = None
  /\ LET hits == Hits(w) IN
       IF Missed(hits) = {}
         THEN Gives(w, hits, [i \in DOMAIN hits |-> {hits[i].body}]) /\ UNCHANGED work
         ELSE /\ IF w.form = "calls" THEN Busy(h, w, "planning", NoHits(w))
                                     ELSE Busy(h, w, "fetching", hits)
              /\ last' = None
  /\ UNCHANGED cacheVars

\* PlanMulticall looks again.  It takes nothing from the cache if there is
\* nothing, or if all has come to be there since Lookup missed.
Plan(h) ==
  /\ work[h] # None /\ work[h].stage = "planning"
  /\ LET w == work[h].ask
         hits == Hits(w)
     IN Busy(h, w, "fetching", IF Missed(hits) = {} THEN NoHits(w) ELSE hits)
  /\ last' = None
  /\ UNCHANGED cacheVars

-----------------------------------------------------------------------------
(* To the upstream and back, through the batch processor.                  *)

Fetching(h, form) ==
  work[h] # None /\ work[h].stage = "fetching" /\ work[h].ask.form = form

\* uncachedIndices, and the requests at them.
Uncached(h) == InOrder(Missed(work[h].hits))

Requests(h) == LET u == Uncached(h) IN [j \in DOMAIN u |-> work[h].ask.items[u[j]]]

\* parseEthCallParams: a block parameter that is no string is read as latest.
BlockTag(r) == IF r \in ByObject THEN Latest ELSE BlockOf[r]

Eligible(reqs) == {j \in DOMAIN reqs : reqs[j].read \in Aggregable}
OfTag(reqs, tag) == InOrder({j \in Eligible(reqs) : BlockTag(reqs[j].read) = tag})

\* From each chunkStart to its chunkEnd.
Chunks(s) == {SubSeq(s, k + 1, Min({k + MaxCalls, Len(s)})) :
                k \in {n * MaxCalls : n \in 0..Len(s)} \cap 0..(Len(s) - 1)}

Aggregates(reqs) == Cardinality(Eligible(reqs)) > 1

\* The upstream requests, each named by the positions it stands for: by one, its
\* wire id, or by those of the calls of a multicall, for its synthetic id.  Their
\* order is not kept, as nothing goes by it.  Below, up is this set.
aggregateEthCalls(reqs) ==
  IF Aggregates(reqs)
    THEN {<<j>> : j \in DOMAIN reqs \ Eligible(reqs)} \cup
         UNION {Chunks(OfTag(reqs, BlockTag(reqs[j].read))) : j \in Eligible(reqs)}
    ELSE {<<j>> : j \in DOMAIN reqs}

\* What the upstream says of the requests it is sent together: of each call
\* whether it succeeds or reverts, or too few or too many of them, or nothing
\* that can be made sense of.
Outcomes(n) ==
  {<<>>} \cup [1..n -> {"ok", "revert"}] \cup
  (IF n > 1 THEN {[k \in 1..m |-> "ok"] : m \in {n - 1, n + 1}} ELSE {})

\* The first is one that nobody asked for.
Envelopes(up) ==
  {[id |-> <<0>>, outcome |-> <<"ok">>]} \cup
  UNION {{[id |-> q, outcome |-> o] : o \in Outcomes(Len(q))} : q \in up}

Replies(up) == UNION {[1..m -> Envelopes(up)] : m \in 0..MaxReply}

RequestOf(up, j) == CHOOSE q \in up : j \in ToSet(q)

\* A multicall is executed at the tag of its first call.
SubjectIn(reqs, q, j) ==
  Subject(CallOf[reqs[j].read],
          IF Len(q) > 1 THEN BlockTag(reqs[q[1]].read) ELSE BlockOf[reqs[j].read])

EntryIndex(q, j) == CHOOSE k \in DOMAIN q : q[k] = j

\* expandMulticallResponses, for the position j of an envelope of its request.
Unpacked(reqs, q, j, e) ==
  IF Len(e.outcome) = Len(q)
    THEN [kind |-> e.outcome[EntryIndex(q, j)], of |-> SubjectIn(reqs, q, j)]
    ELSE Error

Of(reply, q) == {k \in DOMAIN reply : reply[k].id = q}

\* processBatch: of several envelopes for one request the last counts where
\* they are unpacked by id, else the first.
Delivered(reqs, up, reply, j) ==
  LET q == RequestOf(up, j)
      ks == Of(reply, q)
  IN CASE ks = {} -> IF Len(q) > 1 THEN Error ELSE Missing
       [] OTHER -> Unpacked(reqs, q, j, reply[IF Aggregates(reqs) THEN Max(ks) ELSE Min(ks)])

\* processBatchRequest: each under the client's id, in the order of the requests.
Responses(reqs, up, reply) ==
  [j \in DOMAIN reqs |-> Matched(reqs[j].id, Delivered(reqs, up, reply, j))]

\* What the reply says of position j, whichever counts.
Said(reqs, up, reply, j) ==
  LET q == RequestOf(up, j) IN {Unpacked(reqs, q, j, reply[k]) : k \in Of(reply, q)}

-----------------------------------------------------------------------------
(* What the "/" handler does with the responses to a batch.                *)

\* Mutant: the order of the responses is taken for that of the requests.
AsTheyCame(responses, reqs) == responses

Ids(s) == [i \in DOMAIN s |-> s[i].id]

orderBatchResponses(responses, reqs) ==
  IF /\ Len(responses) = Len(reqs)
     /\ IsInjective(Ids(reqs)) /\ IsInjective(Ids(responses))
     /\ ToSet(Ids(reqs)) = ToSet(Ids(responses))
    THEN [j \in DOMAIN reqs |->
            CHOOSE r \in ToSet(responses) : r.id = reqs[j].id]
    ELSE responses

\* The place of an item among those fetched.
Place(fetched, i) == CHOOSE j \in DOMAIN fetched : fetched[j] = i

\* Null where no response is left for an item; responses too many are dropped.
Merged(h, fetched, ordered) ==
  [i \in DOMAIN work[h].hits |->
     CASE work[h].hits[i] # None -> work[h].hits[i]
       [] work[h].hits[i] = None /\ Place(fetched, i) <= Len(ordered) ->
            ordered[Place(fetched, i)]
       [] OTHER -> None]

\* Mutant: an error is kept like a result.
CacheableAny(body) == TRUE

Cacheable(body) == body \in Success

\* The last of the fetched items under a key is the one that stays.
KeptAfter(h, merged) ==
  LET items == work[h].ask.items
      puts(r) == {i \in Missed(work[h].hits) :
                    /\ items[i].read = r /\ r \in Cached
                    /\ merged[i] # None /\ Cacheable(merged[i].body)}
      put(response) == [body |-> response.body, matched |-> response.matched]
  IN [r \in Read |-> IF puts(r) = {} THEN kept[r] ELSE put(merged[Max(puts(r))])]

\* said[j] holds what the upstream may have meant for request j.
Completes(h, responses, said) ==
  LET fetched == Uncached(h)
      merged == Merged(h, fetched, orderBatchResponses(responses, Requests(h)))
      hits == work[h].hits
  IN /\ Gives(work[h].ask, merged,
              [i \in DOMAIN hits |->
                 IF hits[i] # None THEN {hits[i].body} ELSE said[Place(fetched, i)]])
     /\ kept' = KeptAfter(h, merged)
     /\ work' = [work EXCEPT ![h] = None]
     /\ UNCHANGED <<forever, reverted>>

\* Unless every response is missing.
BatchReply(h) ==
  /\ Fetching(h, "batch")
  /\ LET reqs == Requests(h)
         up == aggregateEthCalls(reqs)
     IN \E reply \in Replies(up) :
          LET responses == Responses(reqs, up, reply)
              said == [j \in DOMAIN reqs |-> Said(reqs, up, reply, j)]
          IN /\ \E r \in ToSet(responses) : r.body # Missing
             /\ Completes(h, responses, said)

\* Upstream, a batch that is sent as it is gets responses to its requests: results
\* or errors, each under its request's id or under none.
ResponsesTo(reqs) ==
  UNION {[id : {reqs[j].id, None},
          body : {[kind |-> kind, of |-> Own(reqs[j].read)] : kind \in {"ok", "revert"}}] :
         j \in DOMAIN reqs}

\* JSON-RPC asks for one response to each request, under its id, in any order.
OneEach(reqs, reply) ==
  /\ Len(reply) = Len(reqs)
  /\ IsInjective(Ids(reqs)) /\ ToSet(Ids(reply)) = ToSet(Ids(reqs))

\* But some may be left out, repeated, or not say which request they are for.
DirectReply(h) ==
  /\ Fetching(h, "direct")
  /\ LET reqs == Requests(h)
     IN \E m \in 0..MaxReply : \E reply \in [1..m -> ResponsesTo(reqs)] :
          LET responses == [k \in 1..m |-> [id |-> reply[k].id, body |-> reply[k].body,
                                            matched |-> OneEach(reqs, reply)]]
              said == [j \in DOMAIN reqs |->
                         {reply[k].body : k \in {l \in 1..m : reply[l].id = reqs[j].id}}]
          IN Completes(h, responses, said)

\* A status that is not worth another attempt, or what is no batch of responses: the
\* client is sent it as it is, and nothing is kept.
PassesOn(h) ==
  /\ Fetching(h, "direct") \/ Fetching(h, "calls")
  /\ work' = [work EXCEPT ![h] = None]
  /\ last' = None
  /\ UNCHANGED cacheVars

\* No backend, or none that answers, in all the attempts; any but the last, or one that
\* finds the block unavailable, leaves the handler where it was.  The items from the
\* cache get the error too.
Fails(h) ==
  /\ work[h] # None /\ work[h].stage = "fetching"
  /\ LET w == work[h].ask IN Gives(w, Errors(w), Nothing(w))
  /\ work' = [work EXCEPT ![h] = None]
  /\ UNCHANGED cacheVars

-----------------------------------------------------------------------------
(* The client's own multicall.                                             *)

\* Mutant: the batch processor sends the original multicall in its place.
ReducedNot(h) == DOMAIN work[h].hits

\* The calls of the multicall that goes upstream.
Reduced(h) == Missed(work[h].hits)

\* buildMulticallBody puts the parsed tag, the original request keeps its own.
SubjectAsked(h, r) ==
  Subject(CallOf[r], IF Cardinality(Reduced(h)) < Len(work[h].hits) THEN BlockTag(r)
                                                                  ELSE BlockOf[r])

\* Some of the calls come from the cache, so that a reduced multicall is sent.
Planned(h) == Cardinality(Missed(work[h].hits)) < Len(work[h].hits)

\* CompleteMulticall, or cacheMulticallSubcalls and cacheImmutableCall of Store:
\* if all the calls sent, and no others, are answered, they join those from the
\* cache and the immutable ones are kept.  If not, the reassembly fails; a reply to
\* the client's own multicall is passed on as it is.
CallsReply(h) ==
  /\ Fetching(h, "calls")
  /\ LET w == work[h].ask
         hits == work[h].hits
         fetched == Uncached(h)
     IN \E outcome \in Outcomes(Cardinality(Reduced(h))) :
          LET result(i) == [kind |-> outcome[Place(fetched, i)],
                            of |-> SubjectAsked(h, w.items[i].read)]
              results == [i \in DOMAIN hits |-> IF hits[i] = None THEN result(i) ELSE hits[i].body]
              said == IF Len(outcome) = Cardinality(Reduced(h))
                        THEN [i \in DOMAIN hits |-> {results[i]}] ELSE Nothing(w)
              of(c, kind) == {i \in Missed(hits) : /\ CallOf[w.items[i].read] = c
                                                   /\ c \in Immutable
                                                   /\ results[i].kind = kind}
              put(tier, kind) ==
                [c \in Call |-> IF of(c, kind) = {} THEN tier[c] ELSE results[Max(of(c, kind))]]
          IN IF Len(outcome) = Cardinality(Missed(hits))
               THEN /\ Gives(w, ToEach(w, results), said)
                    /\ forever' = put(forever, "ok")
                    /\ reverted' = put(reverted, "revert")
               ELSE /\ IF Planned(h) THEN Gives(w, Errors(w), said) ELSE last' = None
                    /\ UNCHANGED <<forever, reverted>>
  /\ work' = [work EXCEPT ![h] = None]
  /\ UNCHANGED kept

-----------------------------------------------------------------------------
\* An entry expires, is evicted, or is found to be of a replaced block.
Forget ==
  /\ \/ \E r \in Read : /\ kept[r] # None
                        /\ kept' = [kept EXCEPT ![r] = None]
                        /\ UNCHANGED <<forever, reverted>>
     \/ \E c \in Call : /\ reverted[c] # None
                        /\ reverted' = [reverted EXCEPT ![c] = None]
                        /\ UNCHANGED <<kept, forever>>
     \/ \E c \in Call : /\ forever[c] # None
                        /\ forever' = [forever EXCEPT ![c] = None]
                        /\ UNCHANGED <<kept, reverted>>
  /\ last' = None
  /\ UNCHANGED work

Next ==
  \/ \E h \in Handler :
       \/ \E w \in Asks[h] : Arrives(h, w)
       \/ Plan(h) \/ BatchReply(h) \/ DirectReply(h) \/ CallsReply(h)
       \/ PassesOn(h) \/ Fails(h)
  \/ Forget

Spec == Init /\ [][Next]_vars
=============================================================================
