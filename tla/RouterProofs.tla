---------------------------- MODULE RouterProofs ----------------------------
(***************************************************************************)
(* What Router and Balancer state of a chain's backends and of the         *)
(* requests sent to them holds for any backends, thresholds, heights,      *)
(* requests, limits and number of attempts.                                *)
(***************************************************************************)
EXTENDS Router, FiniteSetTheorems, SequenceTheorems, WellFoundedInduction, TLAPS

\* Some block is the newest of those a request is pinned to: the sets of those
\* above each, being finite, have a smallest.
LEMMA NewestOf ==
  ASSUME NEW S \in SUBSET (1..MaxHeight), S # {}
  PROVE  \E n \in S : \A m \in S : m <= n
<1> DEFINE Above(n) == {m \in S : m > n}
           T == {Above(n) : n \in S}
<1>1. IsFiniteSet(S)
  BY FS_BoundedSetOfNaturals, BalancerAssumption
<1>2. T \subseteq FiniteSubsetsOf(S) /\ T # {}
  <2>1. FiniteSubsetsOf(S) = SUBSET S
    BY <1>1, FS_FiniteSubsetsOfFinite
  <2>2. \A n \in S : Above(n) \in SUBSET S
    OBVIOUS
  <2>3. T \subseteq SUBSET S
    <3> HIDE DEF Above
    <3> QED
      BY <2>2
  <2>4. PICK n \in S : TRUE
    OBVIOUS
  <2>5. Above(n) \in T
    OBVIOUS
  <2> QED
    BY <2>1, <2>3, <2>5
<1>3. PICK x \in T : \A y \in T : ~ (<<y, x>> \in StrictSubsetOrdering(S))
  <2> HIDE DEF T
  <2>1. IsWellFoundedOn(StrictSubsetOrdering(S), FiniteSubsetsOf(S))
    BY FS_StrictSubsetOrderingWellFounded
  <2> QED
    BY <1>2, <2>1, WFMin
<1>4. PICK n \in S : x = Above(n)
  BY <1>3
<1>5. ASSUME NEW m \in S, m > n PROVE FALSE
  <2>1. Above(m) \in T
    OBVIOUS
  <2>2. Above(m) \subseteq Above(n) /\ m \in Above(n) /\ m \notin Above(m)
    <3>1. S \subseteq Int
      BY BalancerAssumption
    <3>2. \A k \in S : k > m => k > n
      BY <1>5, <3>1
    <3>3. ~ (m > m)
      BY <3>1
    <3> QED
      BY <1>5, <3>2, <3>3
  <2>3. <<Above(m), x>> \in StrictSubsetOrdering(S)
    BY <1>4, <2>2 DEF StrictSubsetOrdering
  <2> QED
    BY <1>3, <2>1, <2>3
<1> QED
  <2>1. S \subseteq Int
    BY BalancerAssumption
  <2> QED
    BY <1>5, <2>1

\* minHead is one of the blocks the request is pinned to, or 0.
LEMMA RequiredIs ==
  ASSUME NEW r \in Request
  PROVE  /\ RequiredHead(r) \in 0..MaxHeight
         /\ Needs[r] \subseteq 1..MaxHeight
         /\ IF Needs[r] = {} THEN RequiredHead(r) = 0 ELSE RequiredHead(r) \in Needs[r]
<1>1. Needs[r] \in SUBSET (1..MaxHeight) /\ MaxHeight \in Nat
  BY RouterAssumption, BalancerAssumption
<1>2. CASE Needs[r] = {}
  BY <1>1, <1>2 DEF RequiredHead
<1>3. CASE Needs[r] # {}
  <2>1. \E n \in Needs[r] : \A m \in Needs[r] : m <= n
    BY <1>1, <1>3, NewestOf
  <2>2. RequiredHead(r) \in Needs[r]
    BY <1>3, <2>1 DEF RequiredHead
  <2> QED
    BY <1>1, <1>3, <2>2
<1> QED
  BY <1>2, <1>3

-----------------------------------------------------------------------------
\* The steps and their types.

\* A probe's outcome comes before those remembered, and no more are remembered
\* than a streak may need.
LEMMA RecallIs ==
  ASSUME BalancerTypeOK, NEW b \in Backend, NEW o \in Outcomes
  PROVE  /\ Recall(b, o) \in [Backend -> Seq(Outcomes)]
         /\ \A c \in Backend \ {b} : Recall(b, o)[c] = recent[c]
         /\ Len(Recall(b, o)[b]) = IF Len(recent[b]) < Window THEN Len(recent[b]) + 1 ELSE Window
         /\ Recall(b, o)[b][1] = o
         /\ \A i \in 1..Len(Recall(b, o)[b]) - 1 : Recall(b, o)[b][i + 1] = recent[b][i]
<1> DEFINE s == recent[b]
           k == IF Len(s) < Window THEN Len(s) + 1 ELSE Window
           t == <<o>> \o s
<1>1. Window \in Nat \ {0}
  BY BalancerAssumption DEF Window
<1>2. s \in Seq(Outcomes) /\ Len(s) <= Window /\ Len(s) \in Nat
  BY DEF BalancerTypeOK
<1>3. k \in 1..(Len(s) + 1)
  BY <1>1, <1>2
<1>4. t \in Seq(Outcomes) /\ Len(t) = Len(s) + 1 /\ t[1] = o /\ \A i \in 1..Len(s) : t[i + 1] = s[i]
  BY <1>2
<1>5. Recall(b, o) = [recent EXCEPT ![b] = SubSeq(t, 1, k)]
  BY DEF Recall
<1>6. recent \in [Backend -> Seq(Outcomes)]
  BY DEF BalancerTypeOK
<1> HIDE DEF t, k
<1>7. /\ SubSeq(t, 1, k) \in Seq(Outcomes)
      /\ Len(SubSeq(t, 1, k)) = k
      /\ \A i \in 1..k : SubSeq(t, 1, k)[i] = t[i]
  <2>1. k \in Int /\ 1 <= k /\ \A i \in 1..k : t[i] \in Outcomes
    BY <1>2, <1>3, <1>4
  <2>2. /\ SubSeq(t, 1, k) \in Seq(Outcomes)
        /\ Len(SubSeq(t, 1, k)) = IF 1 <= k THEN k - 1 + 1 ELSE 0
        /\ \A i \in 1..(k - 1 + 1) : SubSeq(t, 1, k)[i] = t[1 + i - 1]
    BY <2>1, SubSeqProperties
  <2> QED
    BY <2>1, <2>2
<1>8. Recall(b, o)[b] = SubSeq(t, 1, k) /\ \A c \in Backend \ {b} : Recall(b, o)[c] = recent[c]
  BY <1>5, <1>6
<1>9. Recall(b, o) \in [Backend -> Seq(Outcomes)]
  BY <1>5, <1>6, <1>7
<1>10. Recall(b, o)[b][1] = o
  BY <1>3, <1>4, <1>7, <1>8, <1>2
<1>11. \A i \in 1..(k - 1) : Recall(b, o)[b][i + 1] = recent[b][i]
  BY <1>2, <1>3, <1>4, <1>7, <1>8
<1> QED
  BY <1>7, <1>8, <1>9, <1>10, <1>11 DEF k

\* What is remembered of the probes keeps its type.
LEMMA RecallType ==
  ASSUME BalancerTypeOK, NEW b \in Backend, NEW o \in Outcomes, recent' = Recall(b, o)
  PROVE  recent' \in [Backend -> Seq(Outcomes)] /\ \A c \in Backend : Len(recent'[c]) <= Window
<1>1. Window \in Nat
  BY BalancerAssumption DEF Window
<1>2. recent' \in [Backend -> Seq(Outcomes)]
  BY RecallIs
<1>3. ASSUME NEW c \in Backend, c # b PROVE Len(recent'[c]) <= Window
  <2>1. recent'[c] = recent[c]
    BY <1>3, RecallIs
  <2> QED
    BY <2>1 DEF BalancerTypeOK
<1>4. Len(recent'[b]) <= Window
  <2>1. Len(recent'[b]) = IF Len(recent[b]) < Window THEN Len(recent[b]) + 1 ELSE Window
    BY RecallIs
  <2>2. Len(recent[b]) \in Nat
    BY DEF BalancerTypeOK
  <2> QED
    BY <1>1, <2>1, <2>2
<1> QED
  BY <1>2, <1>3, <1>4

\* The backends of the chain are looked at from the first, and all of them.
LEMMA BesFacts ==
  /\ Len(Bes) \in Nat /\ DOMAIN Bes = 1..Len(Bes)
  /\ 1 \in 1..(Len(Bes) + 1) /\ Bes[1] \in Backend
  /\ \A i \in 1..Len(Bes) : Bes[i] \in Backend
  /\ \A b \in Backend : \E i \in 1..Len(Bes) : Bes[i] = b
<1>1. Bes \in Seq(Backend) /\ \A b \in Backend : \E i \in DOMAIN Bes : Bes[i] = b
  BY RouterAssumption
<1>2. Len(Bes) \in Nat /\ DOMAIN Bes = 1..Len(Bes) /\ \A i \in 1..Len(Bes) : Bes[i] \in Backend
  BY <1>1
<1>3. PICK b \in Backend : TRUE
  BY BalancerAssumption
<1>4. PICK i \in 1..Len(Bes) : Bes[i] = b
  BY <1>1, <1>2
<1>5. 1 \in 1..Len(Bes)
  BY <1>2, <1>4
<1> QED
  BY <1>1, <1>2, <1>5

\* Init starts with every variable of its type.
LEMMA TypeInit == Init => TypeOK
<1>1. "synced" \in NodeStates /\ \A b \in Backend : Len(<<>>) <= Window
  BY BalancerAssumption DEF Window
<1> QED
  BY <1>1, BesFacts, BalancerAssumption, RouterAssumption
  DEF Init, BalancerInit, TypeOK, BalancerTypeOK, Phases, Replies

\* What a probe, or the environment, does to the balancer's variables.
LEMMA MonitorType ==
  ASSUME BalancerTypeOK, NEW b \in Backend, Monitor(b) \/ NodeTurns(b) \/ Imports(b)
  PROVE  BalancerTypeOK'
<1> USE BalancerAssumption
<1>1. CASE ProbeAnswered(b)
  <2>1. HeadFromResponse(b) \in 0..MaxHeight
    BY DEF HeadFromResponse, BalancerTypeOK
  <2>2. -1 \in Int /\ HeadFromResponse(b) \in -1..MaxHeight
    BY <2>1
  <2>3. reading' \in [Backend -> -1..MaxHeight]
    BY <1>1, <2>2 DEF ProbeAnswered, BalancerTypeOK
  <2>4. UNCHANGED <<up, fails, passes, head, probing, recent, node, height>>
    BY <1>1 DEF ProbeAnswered, healthVars, nodeVars
  <2> QED
    BY <2>3, <2>4 DEF BalancerTypeOK
<1>2. CASE ProbePassed(b)
  <2>a. More(passes[b], PassesToUp) \in 0..PassesToUp /\ 0 \in 0..FailsToDown
    <3>1. passes[b] \in 0..PassesToUp
      BY DEF BalancerTypeOK
    <3> QED
      BY <3>1 DEF More
  <2>1. /\ up' \in [Backend -> BOOLEAN] /\ fails' \in [Backend -> 0..FailsToDown]
        /\ passes' \in [Backend -> 0..PassesToUp]
    <3>1. up' \in [Backend -> BOOLEAN]
      <4>1. PICK v \in BOOLEAN : up' = [up EXCEPT ![b] = v]
        <5>1. up' = [up EXCEPT ![b] = up[b] \/ UpNow(b)]
          BY <1>2 DEF ProbePassed
        <5>2. (up[b] \/ UpNow(b)) \in BOOLEAN
          OBVIOUS
        <5> QED
          BY <5>1, <5>2, Zenon
      <4>2. up \in [Backend -> BOOLEAN]
        BY DEF BalancerTypeOK
      <4> QED
        BY <4>1, <4>2
    <3>2. fails' \in [Backend -> 0..FailsToDown]
      BY <1>2, <2>a DEF ProbePassed, FailsReset, BalancerTypeOK
    <3>3. passes' \in [Backend -> 0..PassesToUp]
      BY <1>2, <2>a DEF ProbePassed, BalancerTypeOK
    <3> QED
      BY <3>1, <3>2, <3>3
  <2>2. head' \in [Backend -> 0..MaxHeight] /\ reading' \in [Backend -> -1..MaxHeight]
    <3>1. head \in [Backend -> 0..MaxHeight] /\ reading \in [Backend -> -1..MaxHeight]
      BY DEF BalancerTypeOK
    <3>2. reading[b] >= 0 /\ reading[b] \in 0..MaxHeight
      BY <1>2, <3>1, BalancerAssumption DEF ProbePassed
    <3>3. head' \in [Backend -> 0..MaxHeight]
      BY <1>2, <3>1, <3>2 DEF ProbePassed, ObserveHead
    <3>4. reading' \in [Backend -> -1..MaxHeight]
      BY <1>2, <3>1 DEF ProbePassed
    <3> QED
      BY <3>3, <3>4
  <2>3. recent' = Recall(b, "pass") /\ "pass" \in Outcomes
    BY <1>2 DEF ProbePassed, Outcomes
  <2>4. /\ recent' \in [Backend -> Seq(Outcomes)]
        /\ \A c \in Backend : Len(recent'[c]) <= Window
    BY <2>3, RecallType
  <2> QED
    BY <1>2, <2>1, <2>2, <2>4 DEF ProbePassed, BalancerTypeOK, nodeVars
<1>3. CASE ProbeFailed(b)
  <2>a. More(fails[b], FailsToDown) \in 0..FailsToDown /\ 0 \in 0..PassesToUp
    <3>1. fails[b] \in 0..FailsToDown
      BY DEF BalancerTypeOK
    <3> QED
      BY <3>1 DEF More
  <2>1. /\ up' \in [Backend -> BOOLEAN] /\ fails' \in [Backend -> 0..FailsToDown]
        /\ passes' \in [Backend -> 0..PassesToUp]
    <3>1. up' \in [Backend -> BOOLEAN]
      <4>1. PICK v \in BOOLEAN : up' = [up EXCEPT ![b] = v]
        <5>1. up' = [up EXCEPT ![b] = up[b] /\ More(fails[b], FailsToDown) < FailsToDown]
          BY <1>3 DEF ProbeFailed
        <5>2. (up[b] /\ More(fails[b], FailsToDown) < FailsToDown) \in BOOLEAN
          OBVIOUS
        <5> QED
          BY <5>1, <5>2, Zenon
      <4>2. up \in [Backend -> BOOLEAN]
        BY DEF BalancerTypeOK
      <4> QED
        BY <4>1, <4>2
    <3>2. fails' \in [Backend -> 0..FailsToDown]
      BY <1>3, <2>a DEF ProbeFailed, BalancerTypeOK
    <3>3. passes' \in [Backend -> 0..PassesToUp]
      BY <1>3, <2>a DEF ProbeFailed, PassesReset, BalancerTypeOK
    <3> QED
      BY <3>1, <3>2, <3>3
  <2>3. recent' = Recall(b, "fail") /\ "fail" \in Outcomes
    BY <1>3 DEF ProbeFailed, Outcomes
  <2>4. /\ recent' \in [Backend -> Seq(Outcomes)]
        /\ \A c \in Backend : Len(recent'[c]) <= Window
    BY <2>3, RecallType
  <2> QED
    BY <1>3, <2>1, <2>4 DEF ProbeFailed, BalancerTypeOK, nodeVars
<1>4. CASE NodeTurns(b)
  <2>1. \E s \in NodeStates : node' = [node EXCEPT ![b] = s]
    BY <1>4 DEF NodeTurns
  <2>2. node' \in [Backend -> NodeStates]
    <3>1. node \in [Backend -> NodeStates]
      BY DEF BalancerTypeOK
    <3> QED
      BY <2>1, <3>1
  <2>3. UNCHANGED <<up, fails, passes, head, probing, reading, recent, height>>
    BY <1>4 DEF NodeTurns, healthVars, probeVars
  <2> QED
    BY <2>2, <2>3 DEF BalancerTypeOK
<1>5. CASE Imports(b)
  <2>1. height[b] \in 1..MaxHeight /\ height[b] + 1 \in 1..MaxHeight
    <3>1. height[b] \in 1..MaxHeight
      BY DEF BalancerTypeOK
    <3>2. height[b] < MaxHeight /\ MaxHeight \in Nat
      BY <1>5, BalancerAssumption DEF Imports
    <3> QED
      BY <3>1, <3>2
  <2>2. height' = [height EXCEPT ![b] = height[b] + 1]
    BY <1>5 DEF Imports
  <2>3. height' \in [Backend -> 1..MaxHeight]
    BY <2>1, <2>2 DEF BalancerTypeOK
  <2>4. UNCHANGED <<up, fails, passes, head, probing, reading, recent, node>>
    BY <1>5 DEF Imports, healthVars, probeVars
  <2> QED
    BY <2>3, <2>4 DEF BalancerTypeOK
<1> QED
  BY <1>1, <1>2, <1>3, <1>4, <1>5 DEF Monitor

\* What a loop over the backends holds.
ScanTypeOK ==
  /\ idx \in [Request -> 1..(Len(Bes) + 1)] /\ seenUp \in [Request -> BOOLEAN]
  /\ found \in [Request -> SUBSET Backend] /\ steady \in [Request -> SUBSET Backend]

\* A pick that begins, or ends, leaves a loop that stands at the first backend.
LEMMA LoopType ==
  ASSUME TypeOK, NEW r \in Request,
         \/ PickBegins(r) \/ PickEnds(r)
         \/ FromTheFirst(r) /\ (UNCHANGED steady \/ steady' = [steady EXCEPT ![r] = {}])
  PROVE  ScanTypeOK'
<1>1. /\ idx' = [idx EXCEPT ![r] = 1] /\ seenUp' = [seenUp EXCEPT ![r] = FALSE]
      /\ found' = [found EXCEPT ![r] = {}]
  BY DEF PickBegins, PickEnds, FromTheFirst
<1>2. \E S \in SUBSET Backend : steady' = [steady EXCEPT ![r] = S] \/ steady' = steady
  <2>1. InRotation \in SUBSET Backend /\ {} \in SUBSET Backend
    BY DEF InRotation
  <2> QED
    BY <2>1 DEF PickBegins, PickEnds
<1>3. steady' \in [Request -> SUBSET Backend]
  BY <1>2 DEF TypeOK
<1> QED
  BY <1>1, <1>3, BesFacts DEF TypeOK, ScanTypeOK

\* A request's first attempt or another one.
LEMMA BeginType ==
  ASSUME TypeOK, NEW r \in Request, PickBegins(r)
  PROVE  /\ phase' \in [Request -> Phases] /\ floor' \in [Request -> 0..MaxHeight]
         /\ at' \in [Request -> Backend] /\ reply' \in [Request -> Replies] /\ ScanTypeOK'
<1>1. ScanTypeOK'
  BY LoopType
<1>2. /\ phase' = [phase EXCEPT ![r] = "picking"] /\ floor' = [floor EXCEPT ![r] = RequiredHead(r)]
      /\ at' = [at EXCEPT ![r] = Bes[1]] /\ reply' = [reply EXCEPT ![r] = "none"]
  BY DEF PickBegins
<1> QED
  BY <1>1, <1>2, BesFacts, RequiredIs DEF TypeOK, Phases, Replies

\* A request is answered, or goes on to another attempt.
LEMMA EndsOrGoesOn ==
  ASSUME TypeOK, NEW r \in Request,
         (~Last(r) /\ Again(r)) \/ \E what \in Replies : Finish(r, what)
  PROVE  /\ phase' \in [Request -> Phases] /\ attempt' \in [Request -> 1..MaxAttempts]
         /\ floor' \in [Request -> 0..MaxHeight] /\ reply' \in [Request -> Replies]
         /\ at' \in [Request -> Backend] /\ ScanTypeOK'
<1>1. CASE ~Last(r) /\ Again(r)
  <2>1. attempt[r] + 1 \in 1..MaxAttempts
    BY <1>1, RouterAssumption DEF Last, TypeOK
  <2>2. attempt' = [attempt EXCEPT ![r] = attempt[r] + 1] /\ PickBegins(r)
    BY <1>1 DEF Again
  <2>3. attempt' \in [Request -> 1..MaxAttempts]
    BY <2>1, <2>2 DEF TypeOK
  <2> QED
    BY <2>2, <2>3, BeginType
<1>2. ASSUME NEW what \in Replies, Finish(r, what)
      PROVE  /\ phase' \in [Request -> Phases] /\ attempt' \in [Request -> 1..MaxAttempts]
             /\ floor' \in [Request -> 0..MaxHeight] /\ reply' \in [Request -> Replies]
             /\ at' \in [Request -> Backend] /\ ScanTypeOK'
  <2>1. ScanTypeOK'
    BY <1>2, LoopType DEF Finish
  <2>2. 1 \in 1..MaxAttempts /\ 0 \in 0..MaxHeight
    BY RouterAssumption, BalancerAssumption
  <2> QED
    BY <1>2, <2>1, <2>2, BesFacts DEF Finish, PickEnds, TypeOK, Phases, Replies
<1> QED
  BY <1>1, <1>2

\* The head an answer tells of, or denies, is a height.
LEMMA HeadType ==
  ASSUME BalancerTypeOK, NEW b \in Backend, NEW n \in 0..MaxHeight
  PROVE  /\ ObserveHead(b, n) \in [Backend -> 0..MaxHeight]
         /\ HeadBelow(b, n) \in [Backend -> 0..MaxHeight]
<1>1. n # 0 => n - 1 \in 0..MaxHeight
  BY BalancerAssumption
<1> QED
  BY <1>1 DEF BalancerTypeOK, ObserveHead, HeadBelow

\* What an answer may tell of is a height, or nothing.
LEMMA InfoType ==
  ASSUME TypeOK, NEW r \in Request
  PROVE  ExtractBlockInfo(r) \subseteq 0..MaxHeight
<1>1. height[at[r]] \in 1..MaxHeight
  BY DEF TypeOK, BalancerTypeOK
<1>2. /\ 1..MaxHeight \subseteq 0..MaxHeight /\ 0 \in 0..MaxHeight
      /\ (height[at[r]]..(height[at[r]] + 1)) \cap 1..MaxHeight \subseteq 0..MaxHeight
  BY BalancerAssumption
<1> QED
  BY <1>1, <1>2, RequiredIs DEF ExtractBlockInfo

\* What is done for one request.
RequestStep(r) == Arrives(r) \/ ClientLeaves(r) \/ Handler(r) \/ BackendReplies(r)

\* It looks at a backend, in either loop.
Looks(r) == LoadsHealth(r) \/ Trails(r) \/ Allow(r) \/ Reserve(r)

\* It goes from one loop to the next, to holding or back to picking.
Moves(r) == NoneReady(r) \/ Holds(r) \/ FallBack(r)

\* It leaves health, probes and nodes alone, and of the heads moves one at most:
\* down past a block that is missing, or up to the block that was answered.
LEMMA RequestKeeps ==
  ASSUME NEW r \in Request, RequestStep(r)
  PROVE  /\ UNCHANGED <<healthVars, probeVars, nodeVars>>
         /\ ~Unavailable(r) /\ ~Answer(r) => UNCHANGED head
         /\ ~Unavailable(r) /\ ~Answer(r) =>
              lacking' = lacking \/ lacking' = [lacking EXCEPT ![r] = {}]
<1>1. CASE Looks(r) \/ Moves(r)
  BY <1>1 DEF Looks, Moves, LoadsHealth, Trails, Allow, Reserve, NoneReady, Holds, FallBack,
    balancerVars
<1>2. CASE Arrives(r) \/ ClientLeaves(r) \/ PickReady(r) \/ PickFails(r) \/ TokenComes(r)
  BY <1>2 DEF Arrives, ClientLeaves, PickReady, PickFails, TokenComes, balancerVars
<1>3. CASE BackendReplies(r) \/ Unavailable(r) \/ Retry(r) \/ Answer(r)
  BY <1>3 DEF BackendReplies, Unavailable, Retry, Answer, balancerVars
<1> QED
  BY <1>1, <1>2, <1>3 DEF RequestStep, Handler, Looks, Moves

\* What looking at one backend does: the loop goes on, or to its end.
LEMMA LooksType ==
  ASSUME TypeOK, NEW r \in Request, Looks(r)
  PROVE  ScanTypeOK' /\ UNCHANGED <<balancerVars, requestVars, steady, client, lacking>>
<1>1. UNCHANGED <<balancerVars, requestVars, steady, client, lacking>>
  BY DEF Looks, LoadsHealth, Trails, Allow, Reserve
<1>2. Looking(r)
  BY DEF Looks, LoadsHealth, Trails, Allow, Reserve
<1>3. idx[r] \in 1..Len(Bes) /\ be(r) \in Backend
  BY <1>2, BesFacts DEF Looking, be, TypeOK
<1>4. idx[r] + 1 \in 1..(Len(Bes) + 1) /\ Len(Bes) + 1 \in 1..(Len(Bes) + 1)
  BY <1>3, BesFacts
<1>5. idx' = idx \/ \E i \in 1..(Len(Bes) + 1) : idx' = [idx EXCEPT ![r] = i]
  <2>1. NextBackend(r) => idx' = [idx EXCEPT ![r] = idx[r] + 1]
    BY DEF NextBackend
  <2> QED
    BY <1>4, <2>1 DEF Looks, LoadsHealth, Trails, Allow, Reserve
<1>6. seenUp' = [seenUp EXCEPT ![r] = TRUE] \/ seenUp' = [seenUp EXCEPT ![r] = FALSE]
  BY DEF Looks, LoadsHealth, Trails, Allow, Reserve, NextBackend
<1>7. found' = found \/ \E S \in SUBSET Backend : found' = [found EXCEPT ![r] = S]
  <2>1. found[r] \cup {be(r)} \in SUBSET Backend /\ {be(r)} \in SUBSET Backend
    BY <1>3 DEF TypeOK
  <2>2. Allow(r) => found' = found \/ found' = [found EXCEPT ![r] = found[r] \cup {be(r)}]
    BY DEF Allow
  <2> QED
    BY <2>1, <2>2 DEF Looks, LoadsHealth, Trails, Reserve
<1>8. idx' \in [Request -> 1..(Len(Bes) + 1)] /\ seenUp' \in [Request -> BOOLEAN]
  BY <1>5, <1>6 DEF TypeOK
<1>9. found' \in [Request -> SUBSET Backend] /\ steady' \in [Request -> SUBSET Backend]
  BY <1>1, <1>7 DEF TypeOK
<1> QED
  BY <1>1, <1>8, <1>9 DEF ScanTypeOK

\* The steps of one request keep every variable's type.
LEMMA RequestType ==
  ASSUME TypeOK, NEW r \in Request, RequestStep(r)
  PROVE  TypeOK'
<1>0. UNCHANGED <<healthVars, probeVars, nodeVars>>
  BY RequestKeeps
<1>1. ASSUME head' \in [Backend -> 0..MaxHeight] PROVE BalancerTypeOK'
  BY <1>0, <1>1 DEF BalancerTypeOK, healthVars, probeVars, nodeVars, TypeOK
<1>2. ASSUME UNCHANGED head PROVE BalancerTypeOK'
  BY <1>1, <1>2 DEF BalancerTypeOK, TypeOK
<1>3. ASSUME BalancerTypeOK', ScanTypeOK', phase' \in [Request -> Phases],
             attempt' \in [Request -> 1..MaxAttempts], floor' \in [Request -> 0..MaxHeight],
             at' \in [Request -> Backend], reply' \in [Request -> Replies],
             client' \in [Request -> BOOLEAN], lacking' \in [Request -> SUBSET Backend]
      PROVE  TypeOK'
  BY <1>3 DEF TypeOK, ScanTypeOK
<1>4. CASE Looks(r)
  <2>1. ScanTypeOK' /\ UNCHANGED <<balancerVars, requestVars, steady, client, lacking>>
    BY <1>4, LooksType
  <2> HIDE DEF ScanTypeOK
  <2> QED
    BY <1>2, <1>3, <2>1 DEF TypeOK, requestVars, balancerVars
<1>5. CASE Moves(r)
  <2>1. ScanTypeOK'
    <3>1. FromTheFirst(r) /\ (UNCHANGED steady \/ steady' = [steady EXCEPT ![r] = {}])
      BY <1>5 DEF Moves, NoneReady, Holds, FallBack
    <3> QED
      BY <3>1, LoopType
  <2>2. UNCHANGED <<head, attempt, reply, client, lacking>>
    BY <1>5 DEF Moves, NoneReady, Holds, FallBack, balancerVars
  <2>3. \E p \in Phases : phase' = [phase EXCEPT ![r] = p]
    BY <1>5 DEF Moves, NoneReady, Holds, FallBack, Phases
  <2>4. floor' \in [Request -> 0..MaxHeight]
    <3>1. floor' = floor \/ floor' = [floor EXCEPT ![r] = 0]
      BY <1>5 DEF Moves, NoneReady, Holds, FallBack
    <3>2. 0 \in 0..MaxHeight /\ floor \in [Request -> 0..MaxHeight]
      BY BalancerAssumption DEF TypeOK
    <3> QED
      BY <3>1, <3>2
  <2>5. at' \in [Request -> Backend]
    <3>1. found[r] \subseteq Backend /\ at \in [Request -> Backend]
      BY DEF TypeOK
    <3>2. at' = at \/ \E b \in found[r] : at' = [at EXCEPT ![r] = b]
      BY <1>5 DEF Moves, NoneReady, Holds, FallBack
    <3> QED
      BY <3>1, <3>2
  <2>6. phase' \in [Request -> Phases]
    BY <2>3 DEF TypeOK
  <2> HIDE DEF ScanTypeOK
  <2> QED
    BY <1>2, <1>3, <2>1, <2>2, <2>4, <2>5, <2>6 DEF TypeOK
<1>6. CASE Arrives(r)
  <2>1. PickBegins(r) /\ UNCHANGED <<head, attempt, lacking>>
    BY <1>6 DEF Arrives, balancerVars
  <2>2. client' \in [Request -> BOOLEAN]
    BY <1>6 DEF Arrives, TypeOK
  <2>3. attempt' \in [Request -> 1..MaxAttempts] /\ lacking' \in [Request -> SUBSET Backend]
    BY <2>1 DEF TypeOK
  <2> HIDE DEF ScanTypeOK
  <2> QED
    BY <1>2, <1>3, <2>1, <2>2, <2>3, BeginType
<1>7. CASE ClientLeaves(r)
  BY <1>2, <1>7 DEF ClientLeaves, balancerVars, requestVars, scanVars, TypeOK
<1>8. CASE PickReady(r) \/ TokenComes(r)
  <2>1. PICK b \in Backend : Dispatch(r, b)
    BY <1>8 DEF PickReady, TokenComes, TypeOK
  <2>2. UNCHANGED <<head, client, lacking>>
    BY <1>8 DEF PickReady, TokenComes, balancerVars
  <2>3. ScanTypeOK'
    BY <2>1, LoopType DEF Dispatch
  <2>4. floor' \in [Request -> 0..MaxHeight]
    BY <2>1, BalancerAssumption DEF Dispatch, PickEnds, TypeOK
  <2>5. phase' \in [Request -> Phases] /\ at' \in [Request -> Backend]
        /\ UNCHANGED <<attempt, reply>>
    BY <2>1 DEF Dispatch, TypeOK, Phases
  <2> HIDE DEF ScanTypeOK
  <2> QED
    BY <1>2, <1>3, <2>2, <2>3, <2>4, <2>5 DEF TypeOK
<1>9. CASE PickFails(r)
  <2>1. UNCHANGED <<head, client>> /\ lacking' \in [Request -> SUBSET Backend]
    BY <1>9 DEF PickFails, balancerVars, TypeOK
  <2>2. (~Last(r) /\ Again(r)) \/ \E what \in Replies : Finish(r, what)
    BY <1>9 DEF PickFails, Replies
  <2>3. client' \in [Request -> BOOLEAN]
    BY <2>1 DEF TypeOK
  <2> HIDE DEF ScanTypeOK
  <2> QED
    BY <1>2, <1>3, <2>1, <2>2, <2>3, EndsOrGoesOn
<1>10. CASE BackendReplies(r)
  <2>1. UNCHANGED <<head, attempt, floor, at, scanVars, client, lacking>>
    BY <1>10 DEF BackendReplies, balancerVars
  <2>2. PICK what \in Replies : reply' = [reply EXCEPT ![r] = what]
    BY <1>10 DEF BackendReplies, Replies
  <2>3. phase' = [phase EXCEPT ![r] = "answered"]
    BY <1>10 DEF BackendReplies
  <2>4. phase' \in [Request -> Phases] /\ reply' \in [Request -> Replies]
    BY <2>2, <2>3 DEF Phases, TypeOK
  <2>5. ScanTypeOK'
    BY <2>1 DEF TypeOK, scanVars, ScanTypeOK
  <2> HIDE DEF ScanTypeOK
  <2> QED
    BY <1>2, <1>3, <2>1, <2>4, <2>5 DEF TypeOK
<1>11. CASE Unavailable(r) \/ Retry(r)
  <2>1. (~Last(r) /\ Again(r)) /\ UNCHANGED client
    BY <1>11 DEF Unavailable, Retry
  <2>2. head' \in [Backend -> 0..MaxHeight] /\ lacking' \in [Request -> SUBSET Backend]
    <3>1. CASE Unavailable(r)
      <4>1. head' = HeadBelow(at[r], RequiredHead(r))
            /\ lacking' = [lacking EXCEPT ![r] = lacking[r] \cup {at[r]}]
        BY <3>1 DEF Unavailable
      <4>2. at[r] \in Backend /\ lacking \in [Request -> SUBSET Backend]
        BY DEF TypeOK
      <4>3. lacking' \in [Request -> SUBSET Backend]
        BY <4>1, <4>2
      <4> QED
        BY <4>1, <4>2, <4>3, RequiredIs, HeadType DEF TypeOK
    <3>2. CASE Retry(r)
      <4>1. UNCHANGED <<head, lacking>>
        BY <3>2 DEF Retry, balancerVars
      <4>2. head \in [Backend -> 0..MaxHeight]
        BY DEF BalancerTypeOK, TypeOK
      <4> QED
        BY <4>1, <4>2 DEF TypeOK
    <3> QED
      BY <1>11, <3>1, <3>2
  <2>3. client' \in [Request -> BOOLEAN]
    BY <2>1 DEF TypeOK
  <2> HIDE DEF ScanTypeOK
  <2> QED
    BY <1>1, <1>3, <2>1, <2>2, <2>3, EndsOrGoesOn
<1>12. CASE Answer(r)
  <2>1. PICK n \in ExtractBlockInfo(r) :
          head' = ObserveHead(at[r], n) /\ lacking' = [Cured(at[r], n) EXCEPT ![r] = {}]
    BY <1>12 DEF Answer
  <2>2. head' \in [Backend -> 0..MaxHeight]
    BY <2>1, InfoType, HeadType DEF TypeOK
  <2>3. lacking' \in [Request -> SUBSET Backend]
    <3>1. Cured(at[r], n) \in [Request -> SUBSET Backend]
      BY DEF Cured, TypeOK
    <3> QED
      BY <2>1, <3>1
  <2>4. Finish(r, reply[r]) /\ reply[r] \in Replies /\ client' \in [Request -> BOOLEAN]
    BY <1>12 DEF Answer, TypeOK
  <2> HIDE DEF ScanTypeOK
  <2> QED
    BY <1>1, <1>3, <2>2, <2>3, <2>4, EndsOrGoesOn
<1> QED
  BY <1>4, <1>5, <1>6, <1>7, <1>8, <1>9, <1>10, <1>11, <1>12
  DEF RequestStep, Handler, Looks, Moves

\* A probe tells of a head, and what was lacking may be there.
LEMMA ProbeType ==
  ASSUME TypeOK, NEW b \in Backend, Probe(b)
  PROVE  TypeOK'
<1>1. BalancerTypeOK'
  BY MonitorType DEF TypeOK, Probe
<1>2. lacking' \in [Request -> SUBSET Backend]
  <2>1. Cured(b, reading[b]) \in [Request -> SUBSET Backend]
    BY DEF Cured, TypeOK
  <2> QED
    BY <2>1 DEF Probe, TypeOK
<1>3. steady' \in [Request -> SUBSET Backend]
  BY DEF Probe, TypeOK
<1> QED
  BY <1>1, <1>2, <1>3 DEF TypeOK, Probe, requestVars

\* A tick, the other chains' backends, and what nodes do.
Elsewhere ==
  /\ \/ Round
     \/ \E b \in Backend : NodeTurns(b) \/ Imports(b)
     \/ \E o \in Others : OtherProbed(o)
  /\ UNCHANGED routerVars

\* Every step keeps every variable's type.
LEMMA TypeStep == TypeOK /\ [Next]_vars => TypeOK'
<1> SUFFICES ASSUME TypeOK, [Next]_vars PROVE TypeOK'
  OBVIOUS
<1>1. CASE UNCHANGED vars
  BY <1>1 DEF vars, TypeOK, BalancerTypeOK, balancerVars, routerVars, requestVars, scanVars,
    healthVars, probeVars, nodeVars
<1>2. CASE Elsewhere
  <2>1. BalancerTypeOK'
    <3>1. CASE Round
      BY <3>1 DEF Round, TypeOK, BalancerTypeOK, healthVars, nodeVars
    <3>2. ASSUME NEW o \in Others, OtherProbed(o) PROVE BalancerTypeOK'
      BY <3>2 DEF OtherProbed, TypeOK, BalancerTypeOK, healthVars, nodeVars
    <3> QED
      BY <1>2, <3>1, <3>2, MonitorType DEF Elsewhere, TypeOK
  <2>2. UNCHANGED <<requestVars, scanVars, client, lacking>>
    BY <1>2 DEF Elsewhere, routerVars
  <2> QED
    BY <2>1, <2>2 DEF TypeOK, requestVars, scanVars
<1> QED
  BY <1>1, <1>2, RequestType, ProbeType DEF Next, RequestStep, Elsewhere

\* Every variable of the balancer and of the requests keeps its type: heads
\* stay within what the nodes have, attempts within max_attempts, streaks within
\* their thresholds.
THEOREM RouterTypeCorrect == Spec => []TypeOK
  BY TypeInit, TypeStep, PTL DEF Spec

-----------------------------------------------------------------------------
\* Where requests are sent, and when they fail.

\* What is noted of one request.
Own(r) == <<phase[r], attempt[r], floor[r], at[r], reply[r], idx[r], seenUp[r], found[r], steady[r]>>

\* A request's handler touches nothing of another's, but may learn that a backend
\* has come to the other's block.
LEMMA OthersKept ==
  ASSUME TypeOK, NEW r \in Request, NEW q \in Request, q # r, RequestStep(r)
  PROVE  Own(q)' = Own(q) /\ lacking'[q] \subseteq lacking[q]
<1>1. lacking'[q] \subseteq lacking[q]
  <2>0. lacking \in [Request -> SUBSET Backend]
    BY DEF TypeOK
  <2>1. CASE Unavailable(r)
    BY <2>0, <2>1 DEF Unavailable
  <2>2. CASE Answer(r)
    BY <2>0, <2>2 DEF Answer, Cured
  <2>3. CASE ~Unavailable(r) /\ ~Answer(r)
    <3>1. lacking' = lacking \/ lacking' = [lacking EXCEPT ![r] = {}]
      BY <2>3, RequestKeeps
    <3> QED
      BY <2>0, <3>1
  <2> QED
    BY <2>1, <2>2, <2>3
<1>2. CASE Looks(r)
  <2>1. UNCHANGED <<requestVars, steady>>
    BY <1>2 DEF Looks, LoadsHealth, Trails, Allow, Reserve
  <2>2. idx'[q] = idx[q] /\ seenUp'[q] = seenUp[q]
    BY <1>2 DEF Looks, LoadsHealth, Trails, Allow, Reserve, NextBackend, TypeOK
  <2>3. found'[q] = found[q]
    BY <1>2 DEF Looks, LoadsHealth, Trails, Allow, Reserve, TypeOK
  <2> QED
    BY <1>1, <2>1, <2>2, <2>3 DEF Own, requestVars
<1>3. ASSUME FromTheFirst(r) PROVE idx'[q] = idx[q] /\ seenUp'[q] = seenUp[q] /\ found'[q] = found[q]
  BY <1>3 DEF FromTheFirst, TypeOK
<1>4. CASE Moves(r)
  <2>1. FromTheFirst(r)
    BY <1>4 DEF Moves, NoneReady, Holds, FallBack
  <2>2. phase'[q] = phase[q] /\ floor'[q] = floor[q] /\ at'[q] = at[q] /\ steady'[q] = steady[q]
        /\ UNCHANGED <<attempt, reply>>
    BY <1>4 DEF Moves, NoneReady, Holds, FallBack, TypeOK
  <2> QED
    BY <1>1, <1>3, <2>1, <2>2 DEF Own
<1>5. ASSUME PickBegins(r), attempt' = attempt \/ attempt' = [attempt EXCEPT ![r] = attempt[r] + 1]
      PROVE  Own(q)' = Own(q)
  <2>1. FromTheFirst(r)
    BY <1>5 DEF PickBegins
  <2>2. phase'[q] = phase[q] /\ floor'[q] = floor[q] /\ at'[q] = at[q] /\ steady'[q] = steady[q]
        /\ reply'[q] = reply[q] /\ attempt'[q] = attempt[q]
    BY <1>5 DEF PickBegins, TypeOK
  <2> QED
    BY <1>3, <2>1, <2>2 DEF Own
<1>6. ASSUME NEW what, Finish(r, what) PROVE Own(q)' = Own(q)
  <2>1. FromTheFirst(r)
    BY <1>6 DEF Finish, PickEnds
  <2>2. phase'[q] = phase[q] /\ floor'[q] = floor[q] /\ at'[q] = at[q] /\ steady'[q] = steady[q]
        /\ reply'[q] = reply[q] /\ attempt'[q] = attempt[q]
    BY <1>6 DEF Finish, PickEnds, TypeOK
  <2> QED
    BY <1>3, <2>1, <2>2 DEF Own
<1>7. ASSUME NEW b, Dispatch(r, b) PROVE Own(q)' = Own(q)
  <2>1. FromTheFirst(r)
    BY <1>7 DEF Dispatch, PickEnds
  <2>2. phase'[q] = phase[q] /\ floor'[q] = floor[q] /\ at'[q] = at[q] /\ steady'[q] = steady[q]
        /\ UNCHANGED <<attempt, reply>>
    BY <1>7 DEF Dispatch, PickEnds, TypeOK
  <2> QED
    BY <1>3, <2>1, <2>2 DEF Own
<1>8. CASE ClientLeaves(r) \/ BackendReplies(r)
  BY <1>1, <1>8 DEF ClientLeaves, BackendReplies, requestVars, scanVars, Own, TypeOK
<1>9. CASE Arrives(r)
  BY <1>1, <1>5, <1>9 DEF Arrives
<1>10. CASE PickReady(r) \/ TokenComes(r)
  BY <1>1, <1>7, <1>10 DEF PickReady, TokenComes
<1>11. CASE PickFails(r) \/ Unavailable(r) \/ Retry(r) \/ Answer(r)
  <2>1. Again(r) \/ Finish(r, "noBackend") \/ Finish(r, reply[r])
    BY <1>11 DEF PickFails, Unavailable, Retry, Answer
  <2> QED
    BY <1>1, <1>5, <1>6, <2>1 DEF Again
<1> QED
  BY <1>2, <1>4, <1>8, <1>9, <1>10, <1>11 DEF RequestStep, Handler, Looks, Moves

\* What is not done for a request touches no request, but for what is noted of
\* the backends.
LEMMA QuietStep ==
  ASSUME (\E b \in Backend : Probe(b)) \/ Elsewhere \/ UNCHANGED vars
  PROVE  UNCHANGED <<requestVars, idx, seenUp, found, client>>
  BY DEF Probe, Elsewhere, vars, routerVars, scanVars

\* What a step for a request does to its pick: looks at one more backend, goes
\* back to the first one, or nothing.
LEMMA PickMoves ==
  ASSUME TypeOK, NEW r \in Request, RequestStep(r)
  PROVE  \/ Looks(r) /\ UNCHANGED <<requestVars, steady, lacking>>
         \/ /\ idx'[r] = 1 /\ found'[r] = {}
            /\ steady'[r] \in {steady[r], {}, InRotation}
            /\ phase'[r] = "holding" => Holds(r)
         \/ /\ UNCHANGED <<scanVars, floor, at, lacking>>
            /\ phase'[r] \in {phase[r], "answered"}
<1>1. CASE Looks(r)
  BY <1>1 DEF Looks, LoadsHealth, Trails, Allow, Reserve
<1>2. ASSUME FromTheFirst(r) PROVE idx'[r] = 1 /\ found'[r] = {}
  BY <1>2 DEF FromTheFirst, TypeOK
<1>3. CASE Moves(r)
  <2>1. FromTheFirst(r)
    BY <1>3 DEF Moves, NoneReady, Holds, FallBack
  <2>2. steady'[r] \in {steady[r], {}}
    BY <1>3 DEF Moves, NoneReady, Holds, FallBack, TypeOK
  <2>3. phase'[r] = "holding" => Holds(r)
    BY <1>3 DEF Moves, NoneReady, FallBack, TypeOK
  <2> QED
    BY <1>2, <2>1, <2>2, <2>3
<1>4. ASSUME PickBegins(r)
      PROVE  idx'[r] = 1 /\ found'[r] = {} /\ steady'[r] = InRotation /\ phase'[r] = "picking"
  <2>1. FromTheFirst(r) /\ steady'[r] = InRotation /\ phase'[r] = "picking"
    BY <1>4 DEF PickBegins, TypeOK
  <2> QED
    BY <1>2, <2>1
<1>5. ASSUME PickEnds(r) PROVE idx'[r] = 1 /\ found'[r] = {} /\ steady'[r] = {}
  <2>1. FromTheFirst(r) /\ steady'[r] = {}
    BY <1>5 DEF PickEnds, TypeOK
  <2> QED
    BY <1>2, <2>1
<1>6. CASE Arrives(r)
  BY <1>4, <1>6 DEF Arrives
<1>7. CASE PickReady(r) \/ TokenComes(r)
  <2>1. PickEnds(r) /\ phase'[r] = "sent"
    BY <1>7 DEF PickReady, TokenComes, Dispatch, TypeOK
  <2> QED
    BY <1>5, <2>1
<1>8. CASE PickFails(r) \/ Unavailable(r) \/ Retry(r) \/ Answer(r)
  <2>1. Again(r) \/ Finish(r, "noBackend") \/ Finish(r, reply[r])
    BY <1>8 DEF PickFails, Unavailable, Retry, Answer
  <2>2. PickBegins(r) \/ (PickEnds(r) /\ phase'[r] = "done")
    BY <2>1 DEF Again, Finish, TypeOK
  <2> QED
    BY <1>4, <1>5, <2>2
<1>9. CASE ClientLeaves(r) \/ BackendReplies(r)
  BY <1>9 DEF ClientLeaves, BackendReplies, requestVars, TypeOK
<1> QED
  BY <1>1, <1>3, <1>6, <1>7, <1>8, <1>9 DEF RequestStep, Handler, Looks, Moves

\* Those in rotation all through a pick are so now; and none of them is among
\* those the last loop has been past and found wanting.
PassedOver ==
  \A r \in Request :
    /\ steady[r] \subseteq InRotation
    /\ phase[r] = "reserving" /\ floor[r] = 0 /\ found[r] = {} =>
         \A i \in 1..Len(Bes) : i < idx[r] => Bes[i] \notin steady[r]

\* Looking at a backend keeps what PassedOver says: one that is passed over by
\* the loop of the last resort was seen out of rotation.
LEMMA LooksPast ==
  ASSUME TypeOK, PassedOver, NEW r \in Request, Looks(r),
         phase[r] = "reserving", floor[r] = 0, found'[r] = {},
         NEW i \in 1..Len(Bes), i < idx'[r]
  PROVE  Bes[i] \notin steady[r]
<1>1. idx[r] \in Nat /\ found[r] \subseteq Backend
  BY BesFacts DEF TypeOK
<1>2. ~trails(be(r), floor[r])
  BY DEF trails
<1>3. ~Reserve(r)
  <2>1. Reserve(r) => (found' = [found EXCEPT ![r] = {be(r)}]) \/ (found[r] # {} /\ found' = found)
    BY DEF Reserve
  <2>2. found' = [found EXCEPT ![r] = {be(r)}] => found'[r] = {be(r)}
    BY DEF TypeOK
  <2> QED
    BY <2>1, <2>2
<1>4. LoadsHealth(r)
  BY <1>2, <1>3 DEF Looks, Trails, Allow
<1>5. found' = found
  BY <1>4 DEF LoadsHealth
<1>6. CASE up[be(r)]
  <2>1. idx' = idx
    BY <1>4, <1>6 DEF LoadsHealth
  <2> QED
    BY <1>5, <2>1 DEF PassedOver
<1>7. CASE ~up[be(r)]
  <2>1. idx'[r] = idx[r] + 1
    BY <1>4, <1>7 DEF LoadsHealth, NextBackend, TypeOK
  <2>2. i < idx[r] \/ i = idx[r]
    BY <1>1, <2>1
  <2>3. be(r) \notin steady[r]
    BY <1>7 DEF PassedOver, InRotation
  <2> QED
    BY <1>5, <2>2, <2>3 DEF PassedOver, be
<1> QED
  BY <1>6, <1>7

\* PassedOver is kept, whatever probes do to the rotation meanwhile.
LEMMA PassedOverStep == TypeOK /\ PassedOver /\ [Next]_vars => PassedOver'
<1> SUFFICES ASSUME TypeOK, PassedOver, [Next]_vars PROVE PassedOver'
  OBVIOUS
<1>1. ASSUME NEW r \in Request, RequestStep(r) PROVE PassedOver'
  <2>1. up' = up
    BY <1>1, RequestKeeps DEF healthVars
  <2>2. InRotation' = InRotation
    BY <2>1 DEF InRotation
  <2>3. ASSUME NEW q \in Request
        PROVE  /\ steady'[q] \subseteq InRotation
               /\ phase'[q] = "reserving" /\ floor'[q] = 0 /\ found'[q] = {} =>
                    \A i \in 1..Len(Bes) : i < idx'[q] => Bes[i] \notin steady'[q]
    <3>1. CASE q # r
      BY <1>1, <3>1, OthersKept DEF Own, PassedOver
    <3>2. CASE q = r /\ Looks(r) /\ UNCHANGED <<requestVars, steady, lacking>>
      <4>1. phase' = phase /\ floor' = floor /\ steady' = steady
        BY <3>2 DEF requestVars
      <4>2. steady[r] \subseteq InRotation
        BY DEF PassedOver
      <4> QED
        BY <3>2, <4>1, <4>2, LooksPast
    <3>3. CASE q = r /\ idx'[r] = 1 /\ steady'[r] \in {steady[r], {}, InRotation}
      BY <3>3, BesFacts DEF PassedOver
    <3>4. CASE q = r /\ UNCHANGED <<scanVars, floor>> /\ phase'[r] \in {phase[r], "answered"}
      BY <3>4 DEF PassedOver, scanVars
    <3> QED
      BY <1>1, <3>1, <3>2, <3>3, <3>4, PickMoves
  <2> QED
    BY <2>2, <2>3 DEF PassedOver
<1>2. ASSUME NEW b \in Backend, Probe(b) PROVE PassedOver'
  <2>1. UNCHANGED <<phase, floor, found, idx>>
    BY <1>2, QuietStep DEF requestVars
  <2>2. \A r \in Request : steady'[r] = {c \in steady[r] : up'[c]}
    BY <1>2 DEF Probe
  <2>3. \A r \in Request : steady'[r] \subseteq steady[r] /\ steady'[r] \subseteq InRotation'
    BY <2>2 DEF InRotation, TypeOK
  <2> QED
    BY <2>1, <2>3 DEF PassedOver
<1>3. CASE Elsewhere \/ UNCHANGED vars
  <2>1. UNCHANGED <<up, phase, floor, found, idx, steady>>
    BY <1>3 DEF Elsewhere, Round, NodeTurns, Imports, OtherProbed, vars, routerVars, balancerVars,
      healthVars, requestVars, scanVars
  <2> QED
    BY <2>1 DEF PassedOver, InRotation
<1> QED
  BY <1>1, <1>2, <1>3 DEF Next, RequestStep, Elsewhere

\* No request whose client waits is failed for want of a backend if one was in
\* rotation all through the pick, in which each is looked at by itself
\* (PickAtLeast's second try with minHead 0).
THEOREM NobodyTurnedAway == Spec => ServedRatherThanFailed
<1>1. TypeOK /\ PassedOver /\ [Next]_vars =>
        [\A r \in Request :
           reply'[r] = "noBackend" /\ reply[r] # "noBackend"
             => ~client[r] \/ steady[r] = {}]_vars
  <2> SUFFICES ASSUME TypeOK, PassedOver, [Next]_vars, NEW r \in Request,
                      reply'[r] = "noBackend", reply[r] # "noBackend"
               PROVE  ~client[r] \/ steady[r] = {}
    OBVIOUS
  <2>1. ~ (UNCHANGED reply)
    OBVIOUS
  <2>2. RequestStep(r)
    BY <2>1, OthersKept, QuietStep DEF Next, RequestStep, Elsewhere, Own, requestVars
  <2>3. PickFails(r)
    <3>1. CASE Looks(r) \/ Moves(r)
      BY <2>1, <3>1 DEF Looks, Moves, LoadsHealth, Trails, Allow, Reserve, NoneReady, Holds,
        FallBack, requestVars
    <3>2. CASE ClientLeaves(r) \/ PickReady(r) \/ TokenComes(r)
      BY <2>1, <3>2 DEF ClientLeaves, PickReady, TokenComes, Dispatch, requestVars
    <3>3. CASE BackendReplies(r)
      BY <3>3 DEF BackendReplies, TypeOK
    <3>4. CASE Arrives(r) \/ Unavailable(r) \/ Retry(r)
      <4>1. reply' = [reply EXCEPT ![r] = "none"]
        BY <3>4 DEF Arrives, Unavailable, Retry, Again, PickBegins
      <4> QED
        BY <4>1 DEF TypeOK
    <3>5. CASE Answer(r)
      BY <3>5 DEF Answer, Finish, TypeOK
    <3> QED
      BY <2>2, <3>1, <3>2, <3>3, <3>4, <3>5 DEF RequestStep, Handler, Looks, Moves
  <2>4. CASE NobodyFound(r) /\ ~MayLower(r)
    <3>1. floor[r] = 0
      BY <2>4, BalancerAssumption DEF MayLower, TypeOK
    <3>2. \A i \in 1..Len(Bes) : i < idx[r]
      BY <2>4, BesFacts DEF NobodyFound, LookedAtAll, TypeOK
    <3>3. \A i \in 1..Len(Bes) : Bes[i] \notin steady[r]
      BY <2>4, <3>1, <3>2 DEF PassedOver, NobodyFound
    <3>4. steady[r] \subseteq Backend
      BY DEF TypeOK
    <3> QED
      BY <3>3, <3>4, BesFacts
  <2> QED
    BY <2>3, <2>4 DEF PickFails
<1>2. Init => PassedOver
  BY DEF Init, PassedOver
<1> QED
  BY <1>1, <1>2, PassedOverStep, RouterTypeCorrect, PTL DEF Spec, ServedRatherThanFailed

\* A backend that said it lacks a request's block is known to be below it, and
\* the request looks for backends at its block, or for any.
KnownBehind ==
  \A r \in Request :
    /\ floor[r] \in {0, RequiredHead(r)}
    /\ reply[r] = "unavailable" => Needs[r] # {}
    /\ \A b \in lacking[r] : 0 < head[b] /\ head[b] < RequiredHead(r)

\* No request is pinned to block 1 at the newest.
NotTheFirst == \A q \in Request : RequiredHead(q) # 1

\* A head that rises cures those whose block it reaches; one that falls, falls
\* short of no less than block 1.
LEMMA HeadsMove ==
  ASSUME TypeOK, KnownBehind, NEW b \in Backend, NEW n \in 0..MaxHeight, NEW q \in Request
  PROVE  /\ \A c \in Cured(b, n)[q] :
              0 < ObserveHead(b, n)[c] /\ ObserveHead(b, n)[c] < RequiredHead(q)
         /\ n > 1 => \A c \in lacking[q] :
              0 < HeadBelow(b, n)[c] /\ HeadBelow(b, n)[c] < RequiredHead(q)
         /\ n > 1 => 0 < HeadBelow(b, n)[b] /\ HeadBelow(b, n)[b] < n
<1>0. RequiredHead(q) \in Nat /\ n \in Nat /\ head \in [Backend -> Nat] /\ lacking[q] \subseteq Backend
  <2>1. 0..MaxHeight \subseteq Nat
    BY BalancerAssumption
  <2>2. RequiredHead(q) \in 0..MaxHeight
    BY RequiredIs
  <2> QED
    BY <2>1, <2>2 DEF TypeOK, BalancerTypeOK
<1>1. \A c \in lacking[q] : 0 < head[c] /\ head[c] < RequiredHead(q)
  BY DEF KnownBehind
<1>2. Cured(b, n)[q] = IF n >= RequiredHead(q) THEN lacking[q] \ {b} ELSE lacking[q]
  BY DEF Cured
<1>3. \A c \in Backend : ObserveHead(b, n)[c] = IF c = b /\ ~ (n <= head[b]) THEN n ELSE head[c]
  BY <1>0 DEF ObserveHead
<1>4. \A c \in Backend : HeadBelow(b, n)[c] =
        IF c = b /\ ~ (n = 0 \/ (head[b] # 0 /\ head[b] < n)) THEN n - 1 ELSE head[c]
  BY <1>0 DEF HeadBelow
<1>5. ASSUME NEW c \in Cured(b, n)[q]
      PROVE  0 < ObserveHead(b, n)[c] /\ ObserveHead(b, n)[c] < RequiredHead(q)
  <2>1. c \in lacking[q] /\ c \in Backend /\ head[c] \in Nat /\ head[b] \in Nat
    BY <1>0, <1>2, <1>5
  <2> QED
    BY <1>0, <1>1, <1>2, <1>3, <1>5, <2>1
<1>6. ASSUME n > 1, NEW c \in lacking[q]
      PROVE  0 < HeadBelow(b, n)[c] /\ HeadBelow(b, n)[c] < RequiredHead(q)
  <2>1. c \in Backend /\ head[c] \in Nat /\ head[b] \in Nat
    BY <1>0
  <2> QED
    BY <1>0, <1>1, <1>4, <1>6, <2>1
<1>7. ASSUME n > 1 PROVE 0 < HeadBelow(b, n)[b] /\ HeadBelow(b, n)[b] < n
  <2>1. head[b] \in Nat
    BY <1>0
  <2> QED
    BY <1>0, <1>4, <1>7, <2>1
<1> QED
  BY <1>5, <1>6, <1>7

\* Requests look for backends at their block, or for any, and blame a backend
\* for a missing block only if they are pinned to one.
LEMMA AimsKept ==
  ASSUME TypeOK, KnownBehind, NEW r \in Request, RequestStep(r), NEW q \in Request
  PROVE  /\ floor'[q] \in {0, RequiredHead(q)}
         /\ reply'[q] = "unavailable" => Needs[q] # {}
<1>1. CASE q # r
  BY <1>1, OthersKept DEF KnownBehind, Own
<1>2. CASE q = r
  <2>1. CASE Looks(r) \/ Moves(r) \/ ClientLeaves(r) \/ PickReady(r) \/ TokenComes(r)
    <3>1. reply' = reply
      BY <2>1 DEF Looks, Moves, LoadsHealth, Trails, Allow, Reserve, NoneReady, Holds, FallBack,
        ClientLeaves, PickReady, TokenComes, Dispatch, requestVars
    <3>2. floor' = floor \/ floor' = [floor EXCEPT ![r] = 0]
      BY <2>1 DEF Looks, Moves, LoadsHealth, Trails, Allow, Reserve, NoneReady, Holds, FallBack,
        ClientLeaves, PickReady, TokenComes, Dispatch, PickEnds, requestVars
    <3> QED
      BY <1>2, <3>1, <3>2 DEF KnownBehind, TypeOK
  <2>2. CASE BackendReplies(r)
    <3>1. Needs[r] = {} => Has(at[r], r)
      BY DEF Has
    <3>2. PICK what \in {"failed", "refused", IF Has(at[r], r) THEN "ok" ELSE "unavailable"} :
            reply' = [reply EXCEPT ![r] = what]
      BY <2>2 DEF BackendReplies
    <3>3. reply'[r] = what
      BY <3>2 DEF TypeOK
    <3>4. floor' = floor
      BY <2>2 DEF BackendReplies
    <3> QED
      BY <1>2, <3>1, <3>3, <3>4 DEF KnownBehind
  <2>3. ASSUME PickBegins(r) PROVE floor'[r] = RequiredHead(r) /\ reply'[r] = "none"
    BY <2>3 DEF PickBegins, TypeOK
  <2>4. ASSUME NEW what, Finish(r, what) PROVE floor'[r] = 0 /\ reply'[r] = what
    BY <2>4 DEF Finish, PickEnds, TypeOK
  <2>5. CASE Arrives(r) \/ PickFails(r) \/ Unavailable(r) \/ Retry(r) \/ Answer(r)
    <3>1. PickBegins(r) \/ Finish(r, "noBackend") \/ Finish(r, reply[r])
      BY <2>5 DEF Arrives, PickFails, Unavailable, Retry, Answer, Again
    <3> QED
      BY <1>2, <2>3, <2>4, <3>1 DEF KnownBehind
  <2> QED
    BY <2>1, <2>2, <2>5 DEF RequestStep, Handler, Looks, Moves
<1> QED
  BY <1>1, <1>2

\* KnownBehind is kept, by late answers, probes and missing blocks alike.
LEMMA KnownBehindStep == TypeOK /\ NotTheFirst /\ KnownBehind /\ [Next]_vars => KnownBehind'
<1> SUFFICES ASSUME TypeOK, NotTheFirst, KnownBehind, [Next]_vars PROVE KnownBehind'
  OBVIOUS
<1>0. lacking \in [Request -> SUBSET Backend] /\ at \in [Request -> Backend]
  BY DEF TypeOK
<1>1. ASSUME NEW r \in Request, RequestStep(r) PROVE KnownBehind'
  <2>1. CASE head' = head /\ \A q \in Request : lacking'[q] \subseteq lacking[q]
    BY <1>1, <2>1, AimsKept DEF KnownBehind
  <2>2. CASE Unavailable(r)
    <3>1. Needs[r] # {} /\ RequiredHead(r) \in 0..MaxHeight /\ RequiredHead(r) > 1
      <4>1. Needs[r] # {}
        BY <2>2 DEF Unavailable, KnownBehind
      <4>2. RequiredHead(r) \in 1..MaxHeight /\ RequiredHead(r) # 1
        BY <4>1, RequiredIs DEF NotTheFirst
      <4> QED
        BY <4>1, <4>2, BalancerAssumption
    <3>2. /\ head' = HeadBelow(at[r], RequiredHead(r))
          /\ lacking' = [lacking EXCEPT ![r] = @ \cup {at[r]}]
      BY <2>2 DEF Unavailable
    <3>3. ASSUME NEW q \in Request, NEW c \in lacking'[q]
          PROVE  0 < head'[c] /\ head'[c] < RequiredHead(q)
      <4>1. c \in lacking[q] \/ (q = r /\ c = at[r])
        BY <1>0, <3>2, <3>3
      <4> QED
        BY <1>0, <3>1, <3>2, <4>1, HeadsMove
    <3> QED
      BY <1>1, <3>3, AimsKept DEF KnownBehind
  <2>3. CASE Answer(r)
    <3>1. PICK n \in ExtractBlockInfo(r) :
            head' = ObserveHead(at[r], n) /\ lacking' = [Cured(at[r], n) EXCEPT ![r] = {}]
      BY <2>3 DEF Answer
    <3>2. n \in 0..MaxHeight
      BY InfoType
    <3>3. ASSUME NEW q \in Request, NEW c \in lacking'[q]
          PROVE  0 < head'[c] /\ head'[c] < RequiredHead(q)
      <4>1. c \in Cured(at[r], n)[q]
        BY <3>1, <3>3 DEF Cured
      <4> QED
        BY <1>0, <3>1, <3>2, <4>1, HeadsMove
    <3> QED
      BY <1>1, <3>3, AimsKept DEF KnownBehind
  <2>4. CASE lacking' = lacking \/ lacking' = [lacking EXCEPT ![r] = {}]
    <3>1. \A q \in Request : lacking'[q] \subseteq lacking[q]
      BY <1>0, <2>4
    <3> QED
      BY <1>1, <2>1, <2>2, <2>3, <3>1, RequestKeeps
  <2> QED
    BY <1>1, <2>2, <2>3, <2>4, RequestKeeps
<1>2. ASSUME NEW b \in Backend, Probe(b) PROVE KnownBehind'
  <2>1. UNCHANGED requestVars
    BY <1>2, QuietStep
  <2>2. CASE ProbePassed(b)
    <3>1. reading[b] \in 0..MaxHeight
      BY <2>2, BalancerAssumption DEF ProbePassed, TypeOK, BalancerTypeOK
    <3>2. head' = ObserveHead(b, reading[b]) /\ lacking' = Cured(b, reading[b])
      BY <1>2, <2>2 DEF Probe, ProbePassed
    <3>3. \A q \in Request : \A c \in lacking'[q] : 0 < head'[c] /\ head'[c] < RequiredHead(q)
      BY <3>1, <3>2, HeadsMove
    <3> QED
      BY <2>1, <3>3 DEF KnownBehind, requestVars
  <2>3. CASE ~ProbePassed(b)
    <3>1. head' = head /\ reading[b] = -1
      BY <1>2, <2>3 DEF Probe, Monitor, ProbeAnswered, ProbeFailed
    <3>2. lacking' = lacking
      BY <1>2, <3>1 DEF Probe
    <3> QED
      BY <2>1, <3>1, <3>2 DEF KnownBehind, requestVars
  <2> QED
    BY <2>2, <2>3
<1>3. CASE Elsewhere \/ UNCHANGED vars
  <2>1. UNCHANGED <<requestVars, head, lacking>>
    BY <1>3 DEF Elsewhere, Round, NodeTurns, Imports, OtherProbed, vars, routerVars, balancerVars
  <2> QED
    BY <2>1 DEF KnownBehind, requestVars
<1> QED
  BY <1>1, <1>2, <1>3 DEF Next, RequestStep, Elsewhere

\* As long as minHead has not been given up, no backend that told a request it
\* lacks its block is found for it, or held for a token.
FoundFit ==
  \A r \in Request : floor[r] > 0 =>
    found[r] \cap lacking[r] = {} /\ (phase[r] = "holding" => at[r] \notin lacking[r])

\* What a loop adds to those found does not trail the request's block.
LEMMA FindsFit ==
  ASSUME TypeOK, KnownBehind, FoundFit, NEW r \in Request, Looks(r), floor[r] > 0
  PROVE  found'[r] \cap lacking[r] = {}
<1>1. found[r] \cap lacking[r] = {}
  BY DEF FoundFit
<1>2. CASE trails(be(r), floor[r]) \/ LoadsHealth(r)
  <2>1. found' = found
    BY <1>2 DEF Looks, LoadsHealth, Trails, Allow, Reserve
  <2> QED
    BY <1>1, <2>1
<1>3. CASE ~trails(be(r), floor[r])
  <2>1. be(r) \notin lacking[r]
    <3> SUFFICES ASSUME be(r) \in lacking[r] PROVE FALSE
      OBVIOUS
    <3>1. 0 < head[be(r)] /\ head[be(r)] < RequiredHead(r) /\ floor[r] \in {0, RequiredHead(r)}
      BY DEF KnownBehind
    <3>2. floor[r] = RequiredHead(r)
      BY <3>1, BalancerAssumption DEF TypeOK
    <3> QED
      BY <1>3, <3>1, <3>2 DEF trails
  <2>2. found'[r] \subseteq found[r] \cup {be(r)}
    BY DEF Looks, LoadsHealth, Trails, Allow, Reserve, TypeOK
  <2> QED
    BY <1>1, <2>1, <2>2
<1> QED
  BY <1>2, <1>3

\* FoundFit is kept: a backend is not found lacking while it is not asked.
LEMMA FoundFitStep == TypeOK /\ KnownBehind /\ FoundFit /\ [Next]_vars => FoundFit'
<1> SUFFICES ASSUME TypeOK, KnownBehind, FoundFit, [Next]_vars PROVE FoundFit'
  OBVIOUS
<1>1. ASSUME NEW r \in Request, RequestStep(r) PROVE FoundFit'
  <2> SUFFICES ASSUME NEW q \in Request, floor'[q] > 0
               PROVE  /\ found'[q] \cap lacking'[q] = {}
                      /\ phase'[q] = "holding" => at'[q] \notin lacking'[q]
    BY DEF FoundFit
  <2>1. CASE q # r
    BY <1>1, <2>1, OthersKept DEF Own, FoundFit
  <2>2. CASE q = r /\ Looks(r) /\ UNCHANGED <<requestVars, lacking>>
    BY <2>2, FindsFit DEF FoundFit, requestVars
  <2>3. CASE q = r /\ found'[r] = {} /\ (phase'[r] = "holding" => Holds(r))
    <3>1. ASSUME Holds(r) PROVE at'[r] \notin lacking'[r]
      <4>1. at'[r] \in found[r] /\ UNCHANGED <<floor, lacking>>
        BY <3>1 DEF Holds, TypeOK
      <4> QED
        BY <2>3, <4>1 DEF FoundFit
    <3> QED
      BY <2>3, <3>1
  <2>4. CASE q = r /\ UNCHANGED <<scanVars, floor, at, lacking>> /\ phase'[r] \in {phase[r], "answered"}
    BY <2>4 DEF FoundFit, scanVars
  <2> QED
    BY <1>1, <2>1, <2>2, <2>3, <2>4, PickMoves
<1>2. ASSUME (\E b \in Backend : Probe(b)) \/ Elsewhere \/ UNCHANGED vars PROVE FoundFit'
  <2>1. UNCHANGED <<phase, floor, at, found>>
    BY <1>2, QuietStep DEF requestVars
  <2>2. \A q \in Request : lacking'[q] \subseteq lacking[q]
    <3>1. ASSUME NEW b \in Backend, Probe(b) PROVE \A q \in Request : lacking'[q] \subseteq lacking[q]
      BY <3>1 DEF Probe, Cured
    <3>2. CASE Elsewhere \/ UNCHANGED vars
      BY <3>2 DEF Elsewhere, vars, routerVars
    <3> QED
      BY <1>2, <3>1, <3>2
  <2> QED
    BY <2>1, <2>2 DEF FoundFit
<1> QED
  BY <1>1, <1>2 DEF Next, RequestStep, Elsewhere

\* No request is sent to a backend that told it that it lacks the block, at once
\* or when a token comes, as long as minHead has not been given up (HeadBelow,
\* candidate).
THEOREM TriedElsewhere == Spec => SentElsewhere
<1>1. CASE NotTheFirst
  <2>1. Init => KnownBehind /\ FoundFit
    BY DEF Init, KnownBehind, FoundFit
  <2>2. TypeOK /\ FoundFit /\ [Next]_vars =>
          [NotTheFirst =>
             \A r \in Request :
               phase[r] # "sent" /\ phase'[r] = "sent" /\ at'[r] \in lacking[r]
                 => floor[r] = 0]_vars
    <3> SUFFICES ASSUME TypeOK, FoundFit, [Next]_vars, NEW r \in Request,
                        phase[r] # "sent", phase'[r] = "sent", at'[r] \in lacking[r]
                 PROVE  floor[r] = 0
      OBVIOUS
    <3>1. ~ (UNCHANGED phase)
      OBVIOUS
    <3>2. RequestStep(r)
      BY <3>1, OthersKept, QuietStep DEF Next, RequestStep, Elsewhere, Own, requestVars
    <3>3. PickReady(r) \/ TokenComes(r)
      <4>1. CASE Looks(r) \/ ClientLeaves(r)
        BY <3>1, <4>1 DEF Looks, LoadsHealth, Trails, Allow, Reserve, ClientLeaves, requestVars
      <4>2. CASE Moves(r) \/ BackendReplies(r)
        BY <4>2 DEF Moves, NoneReady, Holds, FallBack, BackendReplies, TypeOK
      <4>3. CASE Arrives(r) \/ PickFails(r) \/ Unavailable(r) \/ Retry(r) \/ Answer(r)
        <5>1. PickBegins(r) \/ \E what : Finish(r, what)
          BY <4>3 DEF Arrives, PickFails, Unavailable, Retry, Answer, Again
        <5> QED
          BY <5>1 DEF PickBegins, Finish, TypeOK
      <4> QED
        BY <3>2, <4>1, <4>2, <4>3 DEF RequestStep, Handler, Looks, Moves
    <3>4. at'[r] \in found[r] \/ (phase[r] = "holding" /\ at'[r] = at[r])
      <4>1. CASE PickReady(r)
        BY <4>1 DEF PickReady, Dispatch, TypeOK
      <4>2. CASE TokenComes(r)
        BY <4>2 DEF TokenComes, Dispatch, TypeOK
      <4> QED
        BY <3>3, <4>1, <4>2
    <3>5. ~ (floor[r] > 0)
      BY <3>4 DEF FoundFit
    <3> QED
      BY <3>5, BalancerAssumption DEF TypeOK
  <2>3. Spec => []KnownBehind
    BY <1>1, <2>1, KnownBehindStep, RouterTypeCorrect, PTL DEF Spec
  <2>4. Spec => []FoundFit
    BY <2>1, <2>3, FoundFitStep, RouterTypeCorrect, PTL DEF Spec
  <2> QED
    BY <2>2, <2>4, RouterTypeCorrect, PTL DEF Spec, SentElsewhere, NotTheFirst
<1>2. CASE ~NotTheFirst
  BY <1>2, PTL DEF SentElsewhere, NotTheFirst
<1> QED
  BY <1>1, <1>2

-----------------------------------------------------------------------------
\* The rotation.

\* A streak of n is in the last n outcomes.
Streak(b, n, o) == n <= Len(recent[b]) /\ \A i \in 1..n : recent[b][i] = o

Streaks == \A b \in Backend : Streak(b, fails[b], "fail") /\ Streak(b, passes[b], "pass")

\* One more of the same outcome makes a streak one longer, if it counts.
LEMMA StreakGrows ==
  ASSUME BalancerTypeOK, NEW b \in Backend, NEW o \in Outcomes, recent' = Recall(b, o),
         NEW n \in Nat, Streak(b, n, o),
         NEW threshold \in Nat, n <= threshold, threshold <= Window
  PROVE  \A k \in 0..More(n, threshold) : Streak(b, k, o)'
<1>1. Window \in Nat \ {0} /\ Len(recent[b]) \in Nat
  BY BalancerAssumption DEF Window, BalancerTypeOK
<1>2. More(n, threshold) \in Nat /\ More(n, threshold) <= n + 1 /\ More(n, threshold) <= threshold
  BY DEF More
<1>3. /\ Len(recent'[b]) = IF Len(recent[b]) < Window THEN Len(recent[b]) + 1 ELSE Window
      /\ recent'[b][1] = o
      /\ \A i \in 1..Len(recent'[b]) - 1 : recent'[b][i + 1] = recent[b][i]
  BY RecallIs
<1>4. n <= Len(recent[b]) /\ \A i \in 1..n : recent[b][i] = o
  BY DEF Streak
<1>5. More(n, threshold) <= Len(recent'[b])
  BY <1>1, <1>2, <1>3, <1>4
<1>6. ASSUME NEW i \in 1..More(n, threshold) PROVE recent'[b][i] = o
  <2>1. CASE i = 1
    BY <1>3, <2>1
  <2>2. CASE i > 1
    <3>1. i - 1 \in 1..n /\ i - 1 \in 1..Len(recent'[b]) - 1
      BY <1>1, <1>2, <1>3, <1>5, <2>2
    <3>2. recent'[b][(i - 1) + 1] = recent[b][i - 1]
      BY <1>3, <3>1
    <3>3. recent[b][i - 1] = o
      BY <1>4, <3>1
    <3> QED
      BY <1>2, <3>2, <3>3
  <2> QED
    BY <1>2, <2>1, <2>2
<1> QED
  <2>1. Len(recent'[b]) \in Nat
    BY <1>1, <1>3
  <2> QED
    BY <1>2, <1>5, <1>6, <2>1 DEF Streak

\* A probe passes or fails: one streak grows, the other is over, and the
\* rotation changes only when the streak that grew has come to its threshold.
LEMMA ProbeStreaks ==
  ASSUME BalancerTypeOK, Streaks, NEW b \in Backend, ProbePassed(b) \/ ProbeFailed(b)
  PROVE  /\ Streaks'
         /\ \A c \in Backend :
              /\ up[c] /\ ~up'[c] => Newest(c, FailsToDown, "fail")
              /\ ~up[c] /\ up'[c] => Newest(c, PassesToUp, "pass")
<1>0. /\ FailsToDown \in Nat \ {0} /\ PassesToUp \in Nat \ {0}
      /\ FailsToDown <= Window /\ PassesToUp <= Window
      /\ fails[b] \in 0..FailsToDown /\ passes[b] \in 0..PassesToUp
  BY BalancerAssumption DEF Window, BalancerTypeOK
<1>1. PICK o \in Outcomes : recent' = Recall(b, o)
  BY DEF ProbePassed, ProbeFailed, Outcomes
<1>2. /\ \A c \in Backend \ {b} :
           recent'[c] = recent[c] /\ fails'[c] = fails[c] /\ passes'[c] = passes[c] /\ up'[c] = up[c]
  <2>1. \A c \in Backend \ {b} : recent'[c] = recent[c]
    BY <1>1, RecallIs
  <2>2. \A c \in Backend \ {b} : fails'[c] = fails[c] /\ passes'[c] = passes[c]
    BY DEF ProbePassed, ProbeFailed, FailsReset, PassesReset, BalancerTypeOK
  <2>3. \A c \in Backend \ {b} : up'[c] = up[c]
    BY DEF ProbePassed, ProbeFailed, BalancerTypeOK
  <2> QED
    BY <2>1, <2>2, <2>3
<1>3. Streak(b, 0, "fail")' /\ Streak(b, 0, "pass")'
  <2>1. Len(recent'[b]) \in Nat
    BY <1>1, RecallType
  <2> QED
    BY <2>1 DEF Streak
<1>4. ASSUME Streak(b, fails[b], "fail")', Streak(b, passes[b], "pass")' PROVE Streaks'
  BY <1>2, <1>4 DEF Streaks, Streak
<1>5. CASE ProbePassed(b)
  <2>1. recent' = Recall(b, "pass") /\ "pass" \in Outcomes
    BY <1>5 DEF ProbePassed, Outcomes
  <2>2. \A k \in 0..More(passes[b], PassesToUp) : Streak(b, k, "pass")'
    BY <1>0, <2>1, StreakGrows DEF Streaks
  <2>3. fails'[b] = 0 /\ passes'[b] = More(passes[b], PassesToUp)
    BY <1>5 DEF ProbePassed, FailsReset, BalancerTypeOK
  <2>4. up'[b] = (up[b] \/ UpNow(b))
    BY <1>5 DEF ProbePassed, BalancerTypeOK
  <2>5. More(passes[b], PassesToUp) \in 0..PassesToUp
    BY <1>0 DEF More
  <2>6. Streak(b, passes[b], "pass")'
    BY <2>2, <2>3, <2>5
  <2>7. Streaks'
    BY <1>3, <1>4, <2>3, <2>6 DEF Streak
  <2>8. ~up[b] /\ up'[b] => Newest(b, PassesToUp, "pass")
    <3>1. UpNow(b) => Streak(b, PassesToUp, "pass")'
      BY <1>0, <2>2, <2>5 DEF UpNow
    <3>2. Len(recent'[b]) \in Nat
      BY <1>1, RecallType
    <3> QED
      BY <1>0, <2>4, <3>1, <3>2 DEF Streak, Newest
  <2> QED
    BY <1>2, <2>4, <2>7, <2>8
<1>6. CASE ProbeFailed(b)
  <2>1. recent' = Recall(b, "fail") /\ "fail" \in Outcomes
    BY <1>6 DEF ProbeFailed, Outcomes
  <2>2. \A k \in 0..More(fails[b], FailsToDown) : Streak(b, k, "fail")'
    BY <1>0, <2>1, StreakGrows DEF Streaks
  <2>3. passes'[b] = 0 /\ fails'[b] = More(fails[b], FailsToDown)
    BY <1>6 DEF ProbeFailed, PassesReset, BalancerTypeOK
  <2>4. up'[b] = (up[b] /\ More(fails[b], FailsToDown) < FailsToDown)
    BY <1>6 DEF ProbeFailed, BalancerTypeOK
  <2>5. More(fails[b], FailsToDown) \in 0..FailsToDown
    BY <1>0 DEF More
  <2>6. Streak(b, fails[b], "fail")'
    BY <2>2, <2>3, <2>5
  <2>7. Streaks'
    BY <1>3, <1>4, <2>3, <2>6 DEF Streak
  <2>8. up[b] /\ ~up'[b] => Newest(b, FailsToDown, "fail")
    <3>1. ~ (More(fails[b], FailsToDown) < FailsToDown) => Streak(b, FailsToDown, "fail")'
      BY <1>0, <2>2, <2>5
    <3>2. Len(recent'[b]) \in Nat
      BY <1>1, RecallType
    <3> QED
      BY <1>0, <2>4, <3>1, <3>2 DEF Streak, Newest
  <2> QED
    BY <1>2, <2>4, <2>7, <2>8
<1> QED
  BY <1>5, <1>6

\* A backend leaves the rotation after FailsToDown failures in a row and comes
\* back after PassesToUp passes in a row, and at no other time (probe, markDown).
THEOREM RotationIsEarned == Spec => RotationEarned
<1>1. Init => Streaks
  BY BalancerAssumption DEF Init, BalancerInit, Streaks, Streak
<1>2. ASSUME TypeOK, Streaks, [Next]_vars
      PROVE  /\ Streaks'
             /\ \A b \in Backend :
                  /\ up[b] /\ ~up'[b] => Newest(b, FailsToDown, "fail")
                  /\ ~up[b] /\ up'[b] => Newest(b, PassesToUp, "pass")
  <2>1. CASE UNCHANGED <<up, fails, passes, recent>>
    BY <1>2, <2>1 DEF Streaks, Streak
  <2>2. CASE \E b \in Backend : ProbePassed(b) \/ ProbeFailed(b)
    <3>1. PICK b \in Backend : ProbePassed(b) \/ ProbeFailed(b)
      BY <2>2
    <3>2. BalancerTypeOK
      BY <1>2 DEF TypeOK
    <3> QED
      BY <1>2, <3>1, <3>2, ProbeStreaks
  <2>3. ASSUME NEW r \in Request, RequestStep(r) PROVE UNCHANGED <<up, fails, passes, recent>>
    BY <2>3, RequestKeeps DEF healthVars, probeVars
  <2>4. ASSUME Elsewhere \/ UNCHANGED vars \/ \E b \in Backend : ProbeAnswered(b)
        PROVE  UNCHANGED <<up, fails, passes, recent>>
    BY <2>4 DEF Elsewhere, Round, NodeTurns, Imports, OtherProbed, ProbeAnswered, vars, balancerVars,
      healthVars, probeVars
  <2> QED
    BY <1>2, <2>1, <2>2, <2>3, <2>4 DEF Next, RequestStep, Elsewhere, Probe, Monitor
<1>3. Spec => []Streaks
  BY <1>1, <1>2, RouterTypeCorrect, PTL DEF Spec
<1>4. TypeOK /\ Streaks /\ [Next]_vars =>
        [\A b \in Backend :
           /\ up[b] /\ ~up'[b] => Newest(b, FailsToDown, "fail")
           /\ ~up[b] /\ up'[b] => Newest(b, PassesToUp, "pass")]_balancerVars
  BY <1>2
<1> QED
  BY <1>3, <1>4, RouterTypeCorrect, PTL DEF Spec, RotationEarned, Newest
=============================================================================
