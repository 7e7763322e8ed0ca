------------------------------- MODULE Router -------------------------------
(***************************************************************************)
(* The attempts of a proxied request (internal/router/router.go) over the  *)
(* chain's backends: each attempt picks a backend that may have the block  *)
(* the request is pinned to, waits for its rate limit if it must, sends,   *)
(* and either answers the client or goes on to the next attempt, having    *)
(* learned what the answer tells of the backend's head.                    *)
(***************************************************************************)
EXTENDS Balancer

CONSTANTS
  Request,
  Bes,           \* the chain's backends, in the order they are looked at
  Needs,         \* the blocks each request is pinned to; several for a batch
  MaxAttempts,
  Limited,       \* the backends with a rate limiter
  Oldest         \* the oldest block each node has not pruned

ASSUME RouterAssumption ==
  /\ Bes \in Seq(Backend) /\ \A b \in Backend : \E i \in DOMAIN Bes : Bes[i] = b
  /\ Needs \in [Request -> SUBSET (1..MaxHeight)]
  /\ MaxAttempts \in Nat \ {0}
  /\ Limited \subseteq Backend
  /\ Oldest \in [Backend -> 1..MaxHeight]

VARIABLES
  phase,     \* where each request's handler stands
  attempt,
  floor,     \* the minHead PickAtLeast is at: falls to 0 when nobody is left
  at,        \* the backend picked, from then to the end of the attempt
  reply,     \* what came back from it
  client,    \* whether the client still waits
  idx,       \* the backend each pick looks at: bes[idx]
  seenUp,    \* whether it found that one's HealthUp set
  found,     \* those with a token for it, then the one whose token comes first
  steady,    \* history: those in rotation ever since this pick began
  lacking    \* history: those that said they lack its block, unless seen to
             \* have come to it since

requestVars == <<phase, attempt, floor, at, reply>>
scanVars == <<idx, seenUp, found, steady>>
routerVars == <<requestVars, scanVars, client, lacking>>
vars == <<balancerVars, routerVars>>

Phases == {"idle", "picking", "reserving", "holding", "sent", "answered", "done"}

\* A reply: the answer, an error that says the block is not there, a call that
\* failed or whose status is worth another attempt, a status that is not.
Replies == {"none", "ok", "unavailable", "failed", "refused", "noBackend"}

TypeOK ==
  /\ BalancerTypeOK
  /\ phase \in [Request -> Phases]
  /\ attempt \in [Request -> 1..MaxAttempts]
  /\ floor \in [Request -> 0..MaxHeight]
  /\ at \in [Request -> Backend]
  /\ reply \in [Request -> Replies]
  /\ client \in [Request -> BOOLEAN]
  /\ idx \in [Request -> 1..(Len(Bes) + 1)]
  /\ seenUp \in [Request -> BOOLEAN]
  /\ found \in [Request -> SUBSET Backend]
  /\ steady \in [Request -> SUBSET Backend]
  /\ lacking \in [Request -> SUBSET Backend]

Init ==
  /\ BalancerInit
  /\ phase = [r \in Request |-> "idle"]
  /\ attempt = [r \in Request |-> 1]
  /\ floor = [r \in Request |-> 0]
  /\ at = [r \in Request |-> Bes[1]]
  /\ reply = [r \in Request |-> "none"]
  /\ client = [r \in Request |-> TRUE]
  /\ idx = [r \in Request |-> 1] /\ seenUp = [r \in Request |-> FALSE]
  /\ found = [r \in Request |-> {}] /\ steady = [r \in Request |-> {}]
  /\ lacking = [r \in Request |-> {}]

-----------------------------------------------------------------------------
\* The newest block the request is pinned to, 0 if to none.
RequiredHead(r) ==
  IF Needs[r] = {} THEN 0 ELSE CHOOSE n \in Needs[r] : \A m \in Needs[r] : m <= n

InRotation == {b \in Backend : up[b]}

\* A loop over the backends begins, or has ended with what it was for.
FromTheFirst(r) ==
  /\ idx' = [idx EXCEPT ![r] = 1]
  /\ seenUp' = [seenUp EXCEPT ![r] = FALSE]
  /\ found' = [found EXCEPT ![r] = {}]

\* PickAtLeast is called for a request's newest block.
PickBegins(r) ==
  /\ phase' = [phase EXCEPT ![r] = "picking"]
  /\ floor' = [floor EXCEPT ![r] = RequiredHead(r)]
  /\ at' = [at EXCEPT ![r] = Bes[1]]
  /\ reply' = [reply EXCEPT ![r] = "none"]
  /\ steady' = [steady EXCEPT ![r] = InRotation]
  /\ FromTheFirst(r)

PickEnds(r) ==
  /\ floor' = [floor EXCEPT ![r] = 0]
  /\ steady' = [steady EXCEPT ![r] = {}]
  /\ FromTheFirst(r)

\* A request comes in; one that was answered may be made again.
Arrives(r) ==
  /\ phase[r] \in {"idle", "done"}
  /\ client' = [client EXCEPT ![r] = TRUE]
  /\ PickBegins(r)
  /\ UNCHANGED <<balancerVars, attempt, lacking>>

ClientLeaves(r) ==
  /\ client[r]
  /\ phase[r] \notin {"idle", "done"}
  /\ client' = [client EXCEPT ![r] = FALSE]
  /\ UNCHANGED <<balancerVars, requestVars, scanVars, lacking>>

\* The handler answers with what the last attempt brought.
Finish(r, what) ==
  /\ phase' = [phase EXCEPT ![r] = "done"]
  /\ reply' = [reply EXCEPT ![r] = what]
  /\ attempt' = [attempt EXCEPT ![r] = 1]
  /\ at' = [at EXCEPT ![r] = Bes[1]]
  /\ PickEnds(r)

\* Another attempt, from the full floor again.
Again(r) ==
  /\ attempt' = [attempt EXCEPT ![r] = @ + 1]
  /\ PickBegins(r)

\* Mutants: one attempt too many; the count is not looked at.
LastOver(r) == attempt[r] > MaxAttempts
Last(r) == attempt[r] = MaxAttempts

-----------------------------------------------------------------------------
\* PickAtLeast: two loops over the backends, which hold no lock while they load
\* each one's HealthUp and then its Head.

be(r) == Bes[idx[r]]
Looking(r) == phase[r] \in {"picking", "reserving"} /\ idx[r] <= Len(Bes)
LookedAtAll(r) == idx[r] > Len(Bes)

\* On to the next one.
NextBackend(r) ==
  /\ idx' = [idx EXCEPT ![r] = @ + 1]
  /\ seenUp' = [seenUp EXCEPT ![r] = FALSE]

\* candidate loads HealthUp.
LoadsHealth(r) ==
  /\ Looking(r) /\ ~seenUp[r]
  /\ IF up[be(r)] THEN seenUp' = [seenUp EXCEPT ![r] = TRUE] /\ UNCHANGED idx
                  ELSE NextBackend(r)
  /\ UNCHANGED <<balancerVars, requestVars, found, steady, client, lacking>>

\* It loads Head: not a candidate.
Trails(r) ==
  /\ Looking(r) /\ seenUp[r]
  /\ trails(be(r), floor[r])
  /\ NextBackend(r)
  /\ UNCHANGED <<balancerVars, requestVars, found, steady, client, lacking>>

\* In the first loop a candidate that has no limiter, or whose limiter has a
\* token, is ready.
Allow(r) ==
  /\ phase[r] = "picking" /\ Looking(r) /\ seenUp[r]
  /\ ~trails(be(r), floor[r])
  /\ \/ found' = [found EXCEPT ![r] = @ \cup {be(r)}]
     \/ be(r) \in Limited /\ UNCHANGED found
  /\ NextBackend(r)
  /\ UNCHANGED <<balancerVars, requestVars, steady, client, lacking>>

Dispatch(r, b) ==
  /\ phase' = [phase EXCEPT ![r] = "sent"]
  /\ at' = [at EXCEPT ![r] = b]
  /\ PickEnds(r)
  /\ UNCHANGED <<attempt, reply>>

\* One of those that are ready: its weight makes it likelier or not, but none is
\* without a chance.
PickReady(r) ==
  /\ phase[r] = "picking" /\ LookedAtAll(r)
  /\ \E b \in found[r] : Dispatch(r, b)
  /\ UNCHANGED <<balancerVars, client, lacking>>

\* None was.
NoneReady(r) ==
  /\ phase[r] = "picking" /\ LookedAtAll(r) /\ found[r] = {}
  /\ phase' = [phase EXCEPT ![r] = "reserving"]
  /\ FromTheFirst(r)
  /\ UNCHANGED <<balancerVars, attempt, floor, at, reply, steady, client, lacking>>

\* In the second loop a candidate without a limiter ends it; of the others the
\* one whose token comes first is kept.
Reserve(r) ==
  /\ phase[r] = "reserving" /\ Looking(r) /\ seenUp[r]
  /\ ~trails(be(r), floor[r])
  /\ \/ /\ found' = [found EXCEPT ![r] = {be(r)}]
        /\ IF be(r) \in Limited THEN NextBackend(r)
           ELSE /\ idx' = [idx EXCEPT ![r] = Len(Bes) + 1]
                /\ seenUp' = [seenUp EXCEPT ![r] = FALSE]
     \/ be(r) \in Limited /\ found[r] # {} /\ NextBackend(r) /\ UNCHANGED found
  /\ UNCHANGED <<balancerVars, requestVars, steady, client, lacking>>

\* Its token is waited for.
Holds(r) ==
  /\ phase[r] = "reserving" /\ LookedAtAll(r)
  /\ \E b \in found[r] : at' = [at EXCEPT ![r] = b]
  /\ phase' = [phase EXCEPT ![r] = "holding"]
  /\ FromTheFirst(r)
  /\ steady' = [steady EXCEPT ![r] = {}]
  /\ UNCHANGED <<balancerVars, attempt, floor, reply, client, lacking>>

\* Mutants: a read pinned past every known head is refused; a floor of 0 is
\* lowered again.
NeverLower(r) == FALSE
AlwaysLower(r) == TRUE
MayLower(r) == floor[r] > 0

NobodyFound(r) == phase[r] = "reserving" /\ LookedAtAll(r) /\ found[r] = {}

\* Nobody was found who may have the block: any healthy backend will do.
FallBack(r) ==
  /\ NobodyFound(r) /\ MayLower(r)
  /\ phase' = [phase EXCEPT ![r] = "picking"]
  /\ floor' = [floor EXCEPT ![r] = 0]
  /\ FromTheFirst(r)
  /\ UNCHANGED <<balancerVars, attempt, at, reply, steady, client, lacking>>

\* Nobody was found at all, or the client leaves while its token is waited for.
PickFails(r) ==
  /\ \/ NobodyFound(r) /\ ~MayLower(r)
     \/ phase[r] = "holding" /\ at[r] \in Limited /\ ~client[r]
  /\ IF Last(r) THEN Finish(r, "noBackend") /\ lacking' = [lacking EXCEPT ![r] = {}]
                ELSE Again(r) /\ UNCHANGED lacking
  /\ UNCHANGED <<balancerVars, client>>

\* The token is there; the backend is not looked at again.
TokenComes(r) ==
  /\ phase[r] = "holding"
  /\ Dispatch(r, at[r])
  /\ UNCHANGED <<balancerVars, client, lacking>>

-----------------------------------------------------------------------------
\* The call, and what its answer leads to.

Has(b, r) == \A n \in Needs[r] : n \in Oldest[b]..height[b]

BackendReplies(r) ==
  /\ phase[r] = "sent"
  /\ \E what \in {"failed", "refused",
                  IF Has(at[r], r) THEN "ok" ELSE "unavailable"} :
       /\ node[at[r]] = "dead" \/ ~client[r] => what = "failed"
       /\ reply' = [reply EXCEPT ![r] = what]
  /\ phase' = [phase EXCEPT ![r] = "answered"]
  /\ UNCHANGED <<balancerVars, attempt, floor, at, scanVars, client, lacking>>

\* The answer says the backend does not have the block, and another attempt is
\* left: the backend's known head falls below the block.
Unavailable(r) ==
  /\ phase[r] = "answered" /\ reply[r] = "unavailable" /\ ~Last(r)
  /\ head' = HeadBelow(at[r], RequiredHead(r))
  /\ lacking' = [lacking EXCEPT ![r] = @ \cup {at[r]}]
  /\ Again(r)
  /\ UNCHANGED <<healthVars, probeVars, nodeVars, client>>

\* No answer came, or one whose status is worth another attempt.
Retryable(r) == reply[r] = "failed"

Retry(r) ==
  /\ phase[r] = "answered" /\ Retryable(r) /\ ~Last(r)
  /\ Again(r)
  /\ UNCHANGED <<balancerVars, client, lacking>>

\* The requests that need not be told any more that b lacks their block.
Cured(b, n) ==
  [r \in Request |-> IF n >= RequiredHead(r) THEN lacking[r] \ {b} ELSE lacking[r]]

\* The heights that an answer may tell of: those of the blocks it is made of,
\* none (0) when it is made of something else.  An unpinned read may ask for the
\* block that is being built, one above the newest.
ExtractBlockInfo(r) ==
  {0} \cup (IF reply[r] # "ok" THEN {}
            ELSE IF Needs[r] # {} THEN Needs[r]
           ELSE (height[at[r]]..(height[at[r]] + 1)) \cap 1..MaxHeight)

\* Otherwise the client is answered.  An answer that is a block tells of the
\* backend's head.
Answer(r) ==
  /\ phase[r] = "answered"
  /\ Last(r) \/ reply[r] \in {"ok", "refused"}
  /\ \E n \in ExtractBlockInfo(r) :
       /\ head' = ObserveHead(at[r], n)
       /\ lacking' = [Cured(at[r], n) EXCEPT ![r] = {}]
  /\ Finish(r, reply[r])
  /\ UNCHANGED <<healthVars, probeVars, nodeVars, client>>

\* A request in one attempt: everything but the upstream's part.
Handler(r) ==
  \/ LoadsHealth(r) \/ Trails(r) \/ Allow(r) \/ PickReady(r) \/ NoneReady(r)
  \/ Reserve(r) \/ Holds(r) \/ FallBack(r) \/ PickFails(r) \/ TokenComes(r)
  \/ Unavailable(r) \/ Retry(r) \/ Answer(r)

-----------------------------------------------------------------------------
\* A probe that passes tells of the head as well.
Probe(b) ==
  /\ Monitor(b)
  /\ lacking' = IF reading[b] >= 0 THEN Cured(b, reading[b]) ELSE lacking
  /\ steady' = [r \in Request |-> {c \in steady[r] : up'[c]}]
  /\ UNCHANGED <<requestVars, idx, seenUp, found, client>>

Next ==
  \/ \E r \in Request : Arrives(r) \/ ClientLeaves(r) \/ Handler(r) \/ BackendReplies(r)
  \/ \E b \in Backend : Probe(b)
  \/ /\ \/ Round
        \/ \E b \in Backend : NodeTurns(b) \/ Imports(b)
        \/ \E o \in Others : OtherProbed(o)
     /\ UNCHANGED routerVars

\* A handler goes on, a token comes, and a call or a probe ends within its timeout.
Fairness ==
  /\ \A r \in Request : WF_vars(Handler(r)) /\ WF_vars(BackendReplies(r))
  /\ WF_vars(Round /\ UNCHANGED routerVars)
  /\ \A b \in Backend : WF_vars(Probe(b))
  /\ \A o \in Others : WF_vars(OtherProbed(o) /\ UNCHANGED routerVars)

Spec == Init /\ [][Next]_vars
FairSpec == Spec /\ Fairness

-----------------------------------------------------------------------------
\* Properties.

\* A request is not sent again to a backend that told it it lacks one of its
\* blocks, at once or once that backend's token comes, unless the backend was seen
\* to have come to the block since or nobody was found who might have it.  (A
\* missing block 1 leaves no trace: a head of 0 is an unknown one.)
SentElsewhere ==
  [][(\A q \in Request : RequiredHead(q) # 1) =>
       \A r \in Request :
         phase[r] # "sent" /\ phase'[r] = "sent" /\ at'[r] \in lacking[r]
           => floor[r] = 0]_vars

\* A request is failed for want of a backend only when no backend was in rotation
\* all through its pick, or its client left.  (That one was in rotation at every
\* moment is not enough: the backends are looked at one after another.)
ServedRatherThanFailed ==
  [][\A r \in Request :
       reply'[r] = "noBackend" /\ reply[r] # "noBackend"
         => ~client[r] \/ steady[r] = {}]_vars

\* Every request is answered, whatever the backends do.
RequestEnds == \A r \in Request : phase[r] = "picking" ~> phase[r] = "done"

\* A backend taken to be behind, by a late answer or for a block it has pruned,
\* is known at its height again each time its probes pass.
HeadCatchesUp ==
  \A b \in Backend : <>[](node[b] = "synced") => []<>(head[b] >= height[b])
=============================================================================
