-------------------------- MODULE CacheProperties --------------------------
(***************************************************************************)
(* What the cache has to get right.                                        *)
(***************************************************************************)
EXTENDS Cache

\* A block replaced at its height, as far as the tracker remembers heights, is
\* not served any more, from either tier, however the entry came there: by a
\* late answer, by promotion after the purge, or from before a restart.
OrphanNotServed ==
  served # None /\ served.entry.hash # Empty =>
    LET e == served.entry
    IN e.num >= latestBlocks[e.chain] - Window(e.chain) =>
         seen[e.chain][e.num] \in {None, e.hash}

\* Within the reorg depth of the tip an entry is served only when the tracker
\* has that very block at its height: not on trust from before a restart.
RecentConfirmed ==
  served # None /\ served.entry.hash # Empty =>
    LET e == served.entry
    IN e.num \in latestBlocks[e.chain] - Depth[e.chain] .. latestBlocks[e.chain] =>
         seen[e.chain][e.num] = e.hash

\* An immutable read that reached the disk is served from then on, through
\* evictions, reorgs and restarts.
ImmortalServed ==
  \A k \in Key : Class[k] = "immutable" /\ durable[k] # None =>
    \E e \in {mem[k], disk[k]} : Live(e) /\ IsBlockHashValid(e)

\* A reorg of one chain costs no other chain an entry of the memory tier.
ReorgIsLocal ==
  [][\A b \in Block : UpdateLatestBlock(b) =>
       \A k \in Key : KeyChain[k] # ChainOf[b] => mem'[k] = mem[k]]_vars

\* The tracker remembers no more heights than its window, and the tip.
TrackerBounded ==
  \A c \in Chain : Cardinality(Known(blockHashes[c])) <= Window(c) + 1

\* The tip never falls back while the process runs, and is always among the
\* heights the tracker remembers.
TipKept ==
  [][\A c \in Chain : latestBlocks'[c] < latestBlocks[c] => latestBlocks'[c] = 0 /\ mem' = NoEntries]_vars

TipRemembered ==
  \A c \in Chain : latestBlocks[c] > 0 => latestBlocks[c] \in Known(blockHashes[c])

\* No answer outlives its TTL, promotion from disk included, but one that names
\* a block past the reorg depth and an immutable read; a revert always lapses.
ServedInTime ==
  served # None =>
    LET e == served.entry
    IN \/ now - e.at <= TTL(served.key)
       \/ Class[served.key] = "immutable"
       \/ Class[served.key] \in {"pinned", "tipNamed"} /\ e.exp = Forever

\* As documented: a read of the tip lives for ttl_latest.
TipServedInTime ==
  served # None /\ Class[served.key] \in {"tip", "tipNamed"} =>
    now - served.entry.at <= TTLLatest
=============================================================================
