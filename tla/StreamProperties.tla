-------------------------- MODULE StreamProperties --------------------------
(* What keeps the subscription maps of Stream together, under no common lock. *)
EXTENDS Stream

\* A subscription is registered only while its client has it: nothing that is
\* still to come, a migration or a connection that closes included, registers
\* it again once its client has unsubscribed or gone, and nothing keeps it from
\* being taken out (handleSubscribe, handleUnsubscribe, removeClient).
RegisteredIsHeld ==
  \A s \in registered :
    LET c == Owner[s] IN
      /\ client[c] \in {"up", "leaving"}
      /\ s \in held \/ (at[c] = "unregistering" /\ job[c] = s)

\* getOrCreateWSConnection checks the limit on connections before it dials and
\* without the lock: each client's handler and the sanity loop may take a
\* backend one connection past MaxConnectionsPerBackend - 1, and no further.
ConnectionsBounded ==
  \A b \in Backend : Len(list[b]) <= MaxConns - 1 + Cardinality(Actor)

\* Its handler is still to find it a connection.
Pending(s) ==
  /\ at[Owner[s]] \in ConnectStages
  /\ job[Owner[s]] = s

\* A registered subscription has a connection that is not done closing, except
\* if that connection never came about or had closed before it was added:
\* neither closing connections nor a migration, which race with each other and
\* with unsubscribing, strand one (closeWSConnection, resetBackendConnections).
NotStranded ==
  \A s \in registered :
    Pending(s) \/ s \in lost \/ \E k \in Conn : IsLive(k) /\ s \in carries[k]

-----------------------------------------------------------------------------
(* The goroutines run; the balancer's weighted draw picks each backend and  *)
(* a dial succeeds, if tried again and again.                               *)

ConnectSteps(a) ==
  ReadList(a) \/ ChooseRoom(a) \/ ChooseDial(a) \/ ChooseLeastLoaded(a) \/ ChooseNone(a)

Fairness ==
  /\ \A a \in Actor : WF_vars(ConnectSteps(a)) /\ WF_vars(Dial(a) \/ DialFails(a))
  /\ \A c \in Client : WF_vars(Connected(c) \/ Unregister(c) \/ Unhook(c) \/ Removed(c))
  /\ WF_vars(SanityTick \/ Migrate \/ ClosedNext \/ ForgetHead)
  /\ WF_vars(\E b \in Backend : ResetNothing(b) \/ \E to \in Backend : Reset(b, to))
  /\ \A b \in Backend : SF_vars(\E to \in Backend : Reset(b, to))
  /\ SF_vars(Dial(Sanity))
  /\ WF_vars(\E k \in Conn : CloseNext(k))
  /\ \A k \in Conn : WF_vars(Unlist(k) \/ Purge(k))

FairSpec == Spec /\ Fairness

\* A subscription found on a backend that has gone quiet stays there for ever
\* only if heads come again: it is moved, or it ends (checkBlockSanity,
\* resetBackendConnections).  One that subscribes while the backend is being
\* reset can be left behind, as the record of its last head is deleted at the end.
QuietBackendLeft ==
  \A b \in Backend, s \in Sub :
    headAge[b] = "stale" /\ from # b /\ s \in OnBackend(b)
      ~> headAge[b] = "fresh" \/ s \notin OnBackend(b)
=============================================================================
