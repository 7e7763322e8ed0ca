------------------------------ MODULE HeadFeed ------------------------------
(***************************************************************************)
(* What a client that subscribed to a chain's new heads is promised, with  *)
(* no backend in sight: one feed per chain, in which a head appears again  *)
(* only once the chain has left it, and of which a client hears each entry *)
(* at most once.  Heads implements this specification.                     *)
(***************************************************************************)
EXTENDS Naturals, Sequences, SequencesExt

CONSTANTS
  Client,
  Header,    \* records of a number and a hash
  Depth      \* how far below its tip the chain may still be reorganized

VARIABLES
  feed,      \* the heads announced, in the order they were found to be news
  heard      \* for each client the entries of the feed sent to it, in order

promised == <<feed, heard>>

\* The entry of the feed announced last at a height.
IsLatestAt(i, number) ==
  /\ feed[i].number = number
  /\ \A j \in (i + 1)..Len(feed) : feed[j].number # number

\* A head is news unless it was the last at its height, and that not long ago:
\* no head announced since was more than Depth above it.
IsNews(head) ==
  \A i \in DOMAIN feed :
    IsLatestAt(i, head.number) /\ feed[i] = head =>
      \E j \in (i + 1)..Len(feed) : feed[j].number > head.number + Depth

-----------------------------------------------------------------------------
Init ==
  /\ feed = <<>>
  /\ heard = [c \in Client |-> <<>>]

Announce(head) ==
  /\ IsNews(head)
  /\ feed' = Append(feed, head)
  /\ UNCHANGED heard

Hear(c, i) ==
  /\ i \notin Range(heard[c])
  /\ heard' = [heard EXCEPT ![c] = Append(@, i)]
  /\ UNCHANGED feed

Next ==
  \/ \E head \in Header : Announce(head)
  \/ \E c \in Client : \E i \in DOMAIN feed : Hear(c, i)

Spec == Init /\ [][Next]_promised
=============================================================================
