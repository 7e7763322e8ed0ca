------------------------------ MODULE Balancer ------------------------------
(***************************************************************************)
(* One chain's backends as the load balancer sees them                     *)
(* (internal/backend/balancer.go and backend.go): whether each is in       *)
(* rotation and how far it is known to have synced.  Monitor probes them   *)
(* in rounds; Router, which extends this module, learns from its answers.  *)
(*                                                                         *)
(* Weights are at least 0.1, so any backend that is ready may be picked:   *)
(* latencies and weights are left out.                                     *)
(***************************************************************************)
EXTENDS Integers, Sequences, FiniteSets

CONSTANTS
  Backend,
  Others,                   \* the backends of other chains, probed in the same rounds
  NodeStates,               \* how the nodes may behave
  FailsToDown, PassesToUp,  \* health thresholds, at least 1 once parsed
  MaxHeight                 \* bound on the heights of the nodes

\* A chain without a backend is refused before anything is picked.
ASSUME BalancerAssumption ==
  /\ Backend # {} /\ Others \cap Backend = {}
  /\ {"synced"} \subseteq NodeStates /\ NodeStates \subseteq {"synced", "blind", "dead"}
  /\ FailsToDown \in Nat \ {0}
  /\ PassesToUp \in Nat \ {0}
  /\ MaxHeight \in Nat \ {0}

VARIABLES
  up,        \* HealthUp
  fails,     \* HealthFailStreak
  passes,    \* HealthPassStreak
  head,      \* Head, 0 when nothing is known
  probing,   \* the backends this round has yet to hear of
  reading,   \* the head in the answer of a probe in flight
  recent,    \* history: how each backend's last probes went, newest first
  node,      \* environment: each node answers a probe with its head ("synced"),
             \* with something else ("blind"), or not in time ("dead")
  height     \* environment: the block each node has imported

healthVars == <<up, fails, passes>>
probeVars == <<probing, reading, recent>>
nodeVars == <<node, height>>
balancerVars == <<healthVars, head, probeVars, nodeVars>>

Outcomes == {"pass", "fail"}
Window == IF FailsToDown > PassesToUp THEN FailsToDown ELSE PassesToUp

BalancerTypeOK ==
  /\ up \in [Backend -> BOOLEAN]
  /\ fails \in [Backend -> 0..FailsToDown] /\ passes \in [Backend -> 0..PassesToUp]
  /\ head \in [Backend -> 0..MaxHeight]
  /\ probing \subseteq Backend \cup Others
  /\ reading \in [Backend -> -1..MaxHeight]
  /\ recent \in [Backend -> Seq(Outcomes)] /\ \A b \in Backend : Len(recent[b]) <= Window
  /\ node \in [Backend -> NodeStates]
  /\ height \in [Backend -> 1..MaxHeight]

BalancerInit ==
  /\ up = [b \in Backend |-> TRUE]
  /\ fails = [b \in Backend |-> 0] /\ passes = [b \in Backend |-> 0]
  /\ head = [b \in Backend |-> 0]
  /\ probing = {}
  /\ reading = [b \in Backend |-> -1]
  /\ recent = [b \in Backend |-> <<>>]
  /\ node = [b \in Backend |-> "synced"]
  /\ height \in [Backend -> 1..MaxHeight]

-----------------------------------------------------------------------------
\* What is known of a backend's head.

\* Mutant: the first head ever seen is kept.
ObserveFirst(b, n) == [head EXCEPT ![b] = IF @ = 0 THEN n ELSE @]

\* The known head rises to n, or stays.
ObserveHead(b, n) == [head EXCEPT ![b] = IF n <= @ THEN @ ELSE n]

\* Mutant: nothing is learned from a block that is not there.
HeadKept(b, n) == head

\* b does not have block n: unless it is known to be below n already.
HeadBelow(b, n) ==
  IF n = 0 \/ (head[b] # 0 /\ head[b] < n) THEN head ELSE [head EXCEPT ![b] = n - 1]

\* Known to trail minHead.
trails(b, minHead) == minHead > 0 /\ head[b] > 0 /\ head[b] < minHead

-----------------------------------------------------------------------------
\* Monitor.

\* A tick starts a round once the last one is over: every backend of every chain
\* is probed.
Round ==
  /\ probing = {}
  /\ probing' = Backend \cup Others
  /\ UNCHANGED <<healthVars, head, reading, recent, nodeVars>>

\* The height a probe's answer tells of, 0 when its body names no block.
HeadFromResponse(b) == IF node[b] = "synced" THEN height[b] ELSE 0

\* The node answers.
ProbeAnswered(b) ==
  /\ b \in probing /\ reading[b] = -1
  /\ node[b] # "dead"
  /\ reading' = [reading EXCEPT ![b] = HeadFromResponse(b)]
  /\ UNCHANGED <<healthVars, head, probing, recent, nodeVars>>

\* Mutant: a streak that is due starts over.
MoreOver(n, threshold) == (n + 1) % threshold

\* A streak only counts up to where it stops mattering.
More(n, threshold) == IF n < threshold THEN n + 1 ELSE n

Recall(b, o) ==
  [recent EXCEPT ![b] = SubSeq(<<o>> \o @, 1, IF Len(@) < Window THEN Len(@) + 1 ELSE Window)]

\* Mutant: a pass leaves the failures counted.
FailsKept(b) == fails
FailsReset(b) == [fails EXCEPT ![b] = 0]

\* Mutant: one pass is enough.
UpAtOnce(b) == TRUE
UpNow(b) == More(passes[b], PassesToUp) >= PassesToUp

ProbePassed(b) ==
  /\ reading[b] >= 0
  /\ head' = ObserveHead(b, reading[b])
  /\ passes' = [passes EXCEPT ![b] = More(@, PassesToUp)]
  /\ fails' = FailsReset(b)
  /\ up' = [up EXCEPT ![b] = @ \/ UpNow(b)]
  /\ probing' = probing \ {b}
  /\ reading' = [reading EXCEPT ![b] = -1]
  /\ recent' = Recall(b, "pass")
  /\ UNCHANGED nodeVars

\* Mutant: a failure leaves the passes counted.
PassesKept(b) == passes
PassesReset(b) == [passes EXCEPT ![b] = 0]

\* markDown: the probe timed out, or its status says no.
ProbeFailed(b) ==
  /\ b \in probing /\ reading[b] = -1
  /\ node[b] = "dead"
  /\ fails' = [fails EXCEPT ![b] = More(@, FailsToDown)]
  /\ passes' = PassesReset(b)
  /\ up' = [up EXCEPT ![b] = @ /\ More(fails[b], FailsToDown) < FailsToDown]
  /\ probing' = probing \ {b}
  /\ recent' = Recall(b, "fail")
  /\ UNCHANGED <<head, reading, nodeVars>>

\* Another chain's backend answers its probe, or the probe times out: its chain
\* has the round alone in common with this one.
OtherProbed(o) ==
  /\ o \in probing
  /\ probing' = probing \ {o}
  /\ UNCHANGED <<healthVars, head, reading, recent, nodeVars>>

Monitor(b) == ProbeAnswered(b) \/ ProbePassed(b) \/ ProbeFailed(b)

-----------------------------------------------------------------------------
\* The environment.

NodeTurns(b) ==
  /\ \E s \in NodeStates \ {node[b]} : node' = [node EXCEPT ![b] = s]
  /\ UNCHANGED <<healthVars, head, probeVars, height>>

Imports(b) ==
  /\ height[b] < MaxHeight
  /\ height' = [height EXCEPT ![b] = @ + 1]
  /\ UNCHANGED <<healthVars, head, probeVars, node>>

-----------------------------------------------------------------------------
\* Properties of Monitor.

Newest(b, n, o) == Len(recent'[b]) >= n /\ \A i \in 1..n : recent'[b][i] = o

\* A backend leaves the rotation only when its last FailsToDown probes all
\* failed and returns only when its last PassesToUp all passed: one lost probe
\* between good ones takes nobody out, one lucky probe brings nobody back.
RotationEarned ==
  [][\A b \in Backend :
       /\ up[b] /\ ~up'[b] => Newest(b, FailsToDown, "fail")
       /\ ~up[b] /\ up'[b] => Newest(b, PassesToUp, "pass")]_balancerVars

\* A node that stays dead is out of the rotation for good, and one that stays
\* alive is in it, whenever the other nodes of the round answer.
RotationFollows ==
  \A b \in Backend :
    /\ <>[](node[b] = "dead") => <>[]~up[b]
    /\ <>[](node[b] # "dead") => <>[]up[b]
=============================================================================
