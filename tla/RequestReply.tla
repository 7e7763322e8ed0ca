---------------------------- MODULE RequestReply ----------------------------
(***************************************************************************)
(* What BatchProcessor.AddRequest promises each of its callers, with no    *)
(* batch, worker or upstream in sight: "a channel that receives exactly    *)
(* one response for this request".  The response is the caller's own, or   *)
(* an error the processor made up; the error that says the caller stopped  *)
(* waiting goes to nobody else.  Batch implements this specification.      *)
(***************************************************************************)
EXTENDS Naturals, Sequences

CONSTANTS
  Req,        \* requests handed to AddRequest, each by a caller of its own
  ClientIds,  \* JSON-RPC ids: chosen by the clients, hence not unique
  ClientId    \* the id each request carries

VARIABLES
  caller,     \* what the goroutine that holds the response channel is doing
  answers     \* everything ever sent on each request's response channel

promise == <<caller, answers>>

CallerStates == {"idle", "waiting", "left", "received"}

Kinds == {"answer", "left", "failed", "missing"}

\* A response: what it is, the request whose payload it carries and the
\* JSON-RPC id it is delivered under.  Every kind but "answer" has InternalErr.
Response == [kind : Kinds, of : Req, id : ClientIds \cup Nat]

Envelope(kind, of, id) == [kind |-> kind, of |-> of, id |-> id]

\* The responses r's channel may receive, given what r's caller is doing.
Admissible(r) ==
  { Envelope(k, r, ClientId[r]) :
      k \in IF caller[r] = "left" THEN Kinds ELSE Kinds \ {"left"} }

-----------------------------------------------------------------------------
Init ==
  /\ caller = [r \in Req |-> "idle"]
  /\ answers = [r \in Req |-> <<>>]

Submit(r) ==
  /\ caller[r] = "idle"
  /\ caller' = [caller EXCEPT ![r] = "waiting"]
  /\ UNCHANGED answers

Leave(r) ==
  /\ caller[r] = "waiting"
  /\ caller' = [caller EXCEPT ![r] = "left"]
  /\ UNCHANGED answers

Receive(r) ==
  /\ caller[r] = "waiting"
  /\ answers[r] # <<>>
  /\ caller' = [caller EXCEPT ![r] = "received"]
  /\ UNCHANGED answers

\* One step may answer several requests of a batch, each for the first time.
Answer ==
  /\ answers' # answers
  /\ answers' \in [Req -> Seq(Response)]
  /\ \A r \in Req :
       answers'[r] # answers[r] =>
         /\ caller[r] # "idle"
         /\ answers[r] = <<>>
         /\ \E m \in Admissible(r) : answers'[r] = <<m>>
  /\ UNCHANGED caller

Next ==
  \/ \E r \in Req : Submit(r) \/ Leave(r) \/ Receive(r)
  \/ Answer

Spec == Init /\ [][Next]_promise
=============================================================================
