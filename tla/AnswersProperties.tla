------------------------- MODULE AnswersProperties -------------------------
(* What the clients of Answers get, and what is kept of it. *)
EXTENDS Answers

\* It tells of the read it stands for, if it tells of anything.  Where the read's
\* block is given by an object only the call is right: packed into a multicall it is
\* executed at the tip (README, Findings).
TellsOf(body, r) ==
  body \in Result =>
    /\ body.of[1] = CallOf[r]
    /\ r \notin ByObject => body.of = Own(r)

\* An answer has a place for each item.  There, in order and under its id, is a
\* response about the item's own read, and it is what the cache or the upstream
\* said of it, an error only if nothing usable came: whatever is served from the
\* cache, packed into multicalls, repeated, reordered or left out on the way, no item
\* gets another's response, and no item's failing is another's ("/" handler,
\* processBatchRequest, expandMulticallResponses, CompleteMulticall).  Excepted are
\* the responses of a reply whose ids do not tell which is for which, also when they
\* are served from the cache later (orderBatchResponses).
EachItsOwn ==
  last # None =>
    /\ Len(last.answer) = Len(last.items)
    /\ \A i \in DOMAIN last.items :
         LET item == last.items[i]
             response == last.answer[i]
         IN response # None /\ response.matched =>
              /\ response.id = item.id
              /\ TellsOf(response.body, item.read)
              /\ response.body \in IF last.said[i] = {} THEN {Error, Missing} ELSE last.said[i]

\* What is kept under a key is about the read or call the key stands for: no
\* response is misplaced once and served ever after, unless the ids of the reply
\* it came in do not tell which request it is for (cstore.Put, PutImmortal and
\* putNegative as called by the "/" handler, Store and CompleteMulticall).
KeptIsOwn ==
  /\ \A r \in Read : kept[r] # None /\ kept[r].matched => TellsOf(kept[r].body, r)
  /\ \A r \in Read : LET c == CallOf[r] IN
       c \in Immutable =>
         /\ forever[c] # None => TellsOf(forever[c], r)
         /\ reverted[c] # None => TellsOf(reverted[c], r)
=============================================================================
