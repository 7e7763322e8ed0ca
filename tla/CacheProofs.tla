----------------------------- MODULE CacheProofs -----------------------------
(***************************************************************************)
(* The tracker and the tiers of Cache for any block tree, reorg depths,    *)
(* keys, capacity and TTLs.                                                *)
(***************************************************************************)
EXTENDS CacheProperties, FiniteSetTheorems, TLAPS

\* Heights are positive.
LEMMA Heights == /\ \A n \in Height : n \in Nat /\ n > 0
                 /\ \A b \in Block : Num[b] \in Height
  BY CacheAssumption DEF CacheAssumption, Height

\* What an answer gives as a block's hash is a hash, and never the absence of one.
LEMMA Hashes == /\ None \notin Hash /\ Empty \in Hash
                /\ \A b \in Block : HashOf(b) \in Hash /\ HashOf(b) # None
  BY CacheAssumption DEF CacheAssumption, Hash, HashOf

\* A chain's depth and window are numbers.
LEMMA ChainFacts ==
  ASSUME NEW c \in Chain
  PROVE  Depth[c] \in Nat /\ Window(c) \in Nat /\ Depth[c] <= Window(c)
<1>1. Depth[c] \in Nat
  BY CacheAssumption DEF CacheAssumption
<1> QED
  BY <1>1 DEF Window

\* What an entry under a key looks like: it is of the key's chain, an immutable
\* read has no block and does not lapse, a hash comes with one of the heights, and
\* what lapses does so within the TTL of the key.
Fits(k, e) ==
  /\ e \in Entry
  /\ e.num \in Height \cup {0}
  /\ e.num = 0 => e.hash = Empty
  /\ Class[k] = "immutable" => e.hash = Empty /\ e.exp = Forever
  /\ e.chain = KeyChain[k]
  /\ IF e.exp = Forever THEN Class[k] \in {"immutable", "pinned", "tipNamed"}
                        ELSE e.exp <= e.at + TTL(k)

FitsTier(m) == m \in [Key -> Slot] /\ \A k \in Key : m[k] # None => Fits(k, m[k])

\* Nothing drops an immutable read.
FitsTail(t) ==
  /\ t \in Tail
  /\ Fits(t.key, t.entry)
  /\ t.todo = "drop" => Class[t.key] # "immutable"

\* What a crash would leave of an immutable read is on disk now.
Kept == \A k \in Key : Class[k] = "immutable" /\ durable[k] # None => disk[k] # None

TiersFit ==
  /\ FitsTier(mem) /\ FitsTier(disk) /\ FitsTier(durable)
  /\ tail # None => FitsTail(tail)
  /\ tail \in Tail \cup {None}
  /\ Kept

\* The tip is a height the tracker remembers; without one there is no hash.
TipStands ==
  /\ latestBlocks \in [Chain -> Height \cup {0}]
  /\ latestHashes \in [Chain -> Hash]
  /\ \A c \in Chain : latestBlocks[c] = 0 => latestHashes[c] = Empty
  /\ TipRemembered

\* The tracker holds what it was told last of a height, or has forgotten it,
\* which it does only below its window.
Tracks ==
  /\ blockHashes \in [Chain -> [Height -> Hash \cup {None}]]
  /\ seen \in [Chain -> [Height -> Hash \cup {None}]]
  /\ \A c \in Chain, n \in Height :
       /\ blockHashes[c][n] \in {None, seen[c][n]}
       /\ seen[c][n] # None => n <= latestBlocks[c]
       /\ n >= latestBlocks[c] - Window(c) => blockHashes[c][n] = seen[c][n]

\* What was served had not lapsed and was valid.
ServedStands ==
  served # None =>
    /\ served \in [key : Key, entry : Entry]
    /\ Fits(served.key, served.entry)
    /\ Live(served.entry) /\ IsBlockHashValid(served.entry)

\* The inductive invariant.
CacheInv == now \in 0..MaxTime /\ TiersFit /\ TipStands /\ Tracks /\ ServedStands

-----------------------------------------------------------------------------
\* Adding an entry to the memory tier keeps it in shape, whatever it evicts.
LEMMA MemWithFits ==
  ASSUME NEW m, FitsTier(m), NEW k \in Key, NEW e, Fits(k, e), NEW n \in MemWith(m, k, e)
  PROVE  FitsTier(n)
<1>1. e \in Slot /\ None \in Slot
  BY DEF Fits, Slot
<1>2. CASE n = [m EXCEPT ![k] = e]
  BY <1>1, <1>2 DEF FitsTier
<1>3. ASSUME NEW j \in Key, n = [m EXCEPT ![k] = e, ![j] = None] PROVE FitsTier(n)
  BY <1>1, <1>3 DEF FitsTier
<1> QED
  BY <1>2, <1>3 DEF MemWith

\* What a Get or Put does to the tiers keeps them in shape, now or later.
LEMMA ApplyFits ==
  ASSUME TiersFit, NEW t, FitsTail(t), NEW m, FitsTier(m), Apply(t, m), durable' = durable
  PROVE  FitsTier(mem') /\ FitsTier(disk') /\ FitsTier(durable') /\ Kept'
<1>0. t.key \in Key /\ Fits(t.key, t.entry) /\ t.entry \in Slot /\ None \in Slot /\ t.entry # None
  BY NoneAssumption DEF NoneAssumption, FitsTail, Tail, Slot
<1>1. FitsTier(mem')
  BY <1>0, MemWithFits DEF Apply, FitsTail, Tail
<1>2. \/ disk' = disk
      \/ disk' = [disk EXCEPT ![t.key] = t.entry]
      \/ disk' = [disk EXCEPT ![t.key] = None] /\ Class[t.key] # "immutable"
  BY DEF Apply, FitsTail, Tail
<1>3. FitsTier(disk')
  BY <1>0, <1>2 DEF TiersFit, FitsTier
<1>4. Kept'
  BY <1>0, <1>2 DEF TiersFit, FitsTier, Kept
<1> QED
  BY <1>1, <1>3, <1>4 DEF TiersFit

\* So does a call that goes on at once or leaves that work for later.
LEMMA FinishFits ==
  ASSUME TiersFit, NEW t, FitsTail(t), NEW m, FitsTier(m), Finish(t, m), durable' = durable
  PROVE  TiersFit'
<1>1. CASE Apply(t, m) /\ UNCHANGED tail
  BY <1>1, ApplyFits DEF TiersFit
<1>2. CASE tail' = t /\ mem' = m /\ UNCHANGED disk
  <2>1. Kept'
    BY <1>2 DEF TiersFit, Kept
  <2> QED
    BY <1>2, <2>1 DEF TiersFit, FitsTail
<1> QED
  BY <1>1, <1>2 DEF Finish

\* A write keeps the invariant.
LEMMA WriteStep ==
  ASSUME CacheInv, NEW todo \in {"put", "keep"}, NEW k \in Key, NEW e, Fits(k, e),
         Write(todo, k, e)
  PROVE  CacheInv'
<1> DEFINE t == [todo |-> todo, key |-> k, entry |-> e]
<1>1. FitsTail(t)
  BY DEF FitsTail, Tail, Fits
<1>2. TiersFit'
  BY <1>1, FinishFits DEF Write, CacheInv, TiersFit
<1> QED
  BY <1>2 DEF Write, CacheInv, TipStands, TipRemembered, Known, Tracks, ServedStands, trackerVars

\* An answer is kept under a block of a known height, or under the tip.
LEMMA StoreStep ==
  ASSUME CacheInv, NEW k \in Key, Store(k) \/ cacheImmutableCall(k)
  PROVE  CacheInv'
<1> USE CacheAssumption DEF CacheAssumption
<1>0. now \in 0..MaxTime /\ now \in Nat /\ KeyChain[k] \in Chain
  BY DEF CacheInv
<1>1. ASSUME NEW b \in Block, Class[k] # "immutable", Put(k, b) PROVE CacheInv'
  <2> DEFINE c == KeyChain[k]
             call == ResponseBlock(k, b)
             block == Stamped(c, call)
             e == [exp |-> IF PastReorgDepth(c, call.num) THEN Forever ELSE now + TTL(k),
                   chain |-> c, hash |-> block.hash, num |-> block.num, at |-> now]
  <2>1. Write("put", k, e)
    BY <1>1 DEF Put
  <2>2. /\ block.num \in Height \cup {0} /\ block.hash \in Hash
        /\ block.num = 0 => block.hash = Empty
    <3>1. CASE call.num # 0
      BY <3>1, Heights DEF ResponseBlock, Stamped, Hash
    <3>2. CASE call.num = 0
      <4>1. block.num = latestBlocks[c] /\ block.hash = latestHashes[c]
        BY <3>2 DEF Stamped
      <4>2. /\ latestBlocks[c] \in Height \cup {0} /\ latestHashes[c] \in Hash
            /\ latestBlocks[c] = 0 => latestHashes[c] = Empty
        BY <1>0 DEF CacheInv, TipStands
      <4> QED
        BY <4>1, <4>2
    <3> QED
      BY <3>1, <3>2
  <2>3. /\ e.exp \in Nat \cup {Forever} /\ e.at = now /\ e.chain = c
        /\ IF e.exp = Forever THEN Class[k] \in {"pinned", "tipNamed"} ELSE e.exp = now + TTL(k)
        /\ TTL(k) \in Nat
    <3>1. TTL(k) \in Nat
      BY DEF TTL
    <3>2. PastReorgDepth(c, call.num) => Class[k] \in {"pinned", "tipNamed"}
      BY DEF PastReorgDepth, ResponseBlock
    <3> QED
      BY <1>0, <3>1, <3>2 DEF Forever
  <2>4. Fits(k, e)
    <3> HIDE DEF call, block
    <3>1. block.num \in Nat
      BY <2>2, Heights
    <3> QED
      BY <1>0, <1>1, <2>2, <2>3, <3>1 DEF Fits, Entry
  <2> HIDE DEF e
  <2> QED
    BY <2>1, <2>4, WriteStep
<1>2. ASSUME NEW exp \in Nat \cup {Forever},
             IF exp = Forever THEN Class[k] = "immutable"
                              ELSE Class[k] = "negative" /\ exp = now + TTLBlock,
             Write("keep", k, Unblocked(k, exp))
      PROVE  CacheInv'
  <2>1. Fits(k, Unblocked(k, exp))
    BY <1>0, <1>2, Hashes DEF Fits, Unblocked, Entry, Forever, TTL
  <2> QED
    BY <1>2, <2>1, WriteStep
<1>3. CASE Store(k)
  BY <1>1, <1>3 DEF Store
<1>4. CASE PutImmortal(k)
  BY <1>2, <1>4 DEF PutImmortal, Forever
<1>5. CASE putNegative(k)
  <2>1. now + TTLBlock \in Nat
    BY <1>0
  <2> QED
    BY <1>2, <1>5, <2>1 DEF putNegative, Forever
<1> QED
  BY <1>3, <1>4, <1>5 DEF cacheImmutableCall

\* A read keeps the invariant; what it returns is valid as the tracker stands.
LEMMA GetStep ==
  ASSUME CacheInv, NEW k \in Key, Get(k)
  PROVE  CacheInv'
<1>0. UNCHANGED <<trackerVars, durable, now, seen>>
  BY DEF Get, MemHit, DiskGet, Miss, tierVars
<1>1. (now \in 0..MaxTime)' /\ TipStands' /\ Tracks'
  BY <1>0 DEF CacheInv, TipStands, TipRemembered, Known, Tracks, trackerVars
<1>2. TiersFit'
  <2>1. FitsTier(Forgotten(k))
    BY DEF Forgotten, CacheInv, TiersFit, FitsTier, Slot
  <2>2. CASE MemHit(k)
    BY <2>2 DEF MemHit, tierVars, CacheInv, TiersFit, Kept
  <2>3. CASE Miss(k)
    BY <2>1, <2>3 DEF Miss, CacheInv, TiersFit, Kept
  <2>4. CASE DiskGet(k)
    <3>1. Fits(k, disk[k])
      BY <2>4 DEF DiskGet, Live, CacheInv, TiersFit, FitsTier
    <3>2. CASE IsBlockHashValid(disk[k])
      <4> DEFINE t == [todo |-> "promote", key |-> k, entry |-> disk[k]]
      <4>1. FitsTail(t) /\ Finish(t, Forgotten(k))
        BY <2>4, <3>1, <3>2 DEF DiskGet, FitsTail, Tail, Fits
      <4> QED
        BY <1>0, <2>1, <4>1, FinishFits DEF CacheInv
    <3>3. CASE ~IsBlockHashValid(disk[k])
      <4> DEFINE t == [todo |-> "drop", key |-> k, entry |-> disk[k]]
      <4>1. Class[k] # "immutable"
        BY <3>1, <3>3 DEF Fits, IsBlockHashValid
      <4>2. FitsTail(t) /\ Finish(t, Forgotten(k))
        BY <2>4, <3>1, <3>3, <4>1 DEF DiskGet, FitsTail, Tail, Fits
      <4> QED
        BY <1>0, <2>1, <4>2, FinishFits DEF CacheInv
    <3> QED
      BY <3>2, <3>3
  <2> QED
    BY <2>2, <2>3, <2>4 DEF Get
<1>3. ServedStands'
  <2>1. ASSUME NEW e, Fits(k, e), Live(e), IsBlockHashValid(e), served' = [key |-> k, entry |-> e]
        PROVE  ServedStands'
    BY <1>0, <2>1 DEF ServedStands, Fits, Live, IsBlockHashValid, Behind, trackerVars
  <2>2. CASE MemHit(k)
    BY <2>1, <2>2 DEF MemHit, Trusted, Live, CacheInv, TiersFit, FitsTier
  <2>3. CASE DiskGet(k)
    BY <2>1, <2>3 DEF DiskGet, Live, CacheInv, TiersFit, FitsTier, ServedStands
  <2>4. CASE Miss(k)
    BY <2>4 DEF Miss, ServedStands
  <2> QED
    BY <2>2, <2>3, <2>4 DEF Get
<1> QED
  BY <1>1, <1>2, <1>3 DEF CacheInv

\* Forgetting heights below the window leaves what the tracker holds of the others.
LEMMA CleanupKeeps ==
  ASSUME NEW c \in Chain, NEW hashes \in [Height -> Hash \cup {None}], NEW latest \in Nat
  PROVE  /\ cleanupOldBlockHashes(c, hashes, latest) \in [Height -> Hash \cup {None}]
         /\ \A n \in Height :
              \/ cleanupOldBlockHashes(c, hashes, latest)[n] = hashes[n]
              \/ /\ cleanupOldBlockHashes(c, hashes, latest)[n] = None
                 /\ n < latest - Window(c)
  BY DEF cleanupOldBlockHashes

\* A report of a block keeps the invariant.
LEMMA ReportStep ==
  ASSUME CacheInv, NEW b \in Block, UpdateLatestBlock(b)
  PROVE  CacheInv'
<1> DEFINE c == ChainOf[b]
           latest == IF Higher(b) THEN Num[b] ELSE latestBlocks[c]
           told == [blockHashes[c] EXCEPT ![Num[b]] = HashOf(b)]
           cleaned == cleanupOldBlockHashes(c, told, latest)
<1>0. /\ c \in Chain /\ Num[b] \in Height /\ Num[b] \in Nat /\ Num[b] > 0
      /\ HashOf(b) \in Hash /\ HashOf(b) # None
      /\ latestBlocks[c] \in Height \cup {0} /\ latestBlocks[c] \in Nat
      /\ Window(c) \in Nat
  <2>1. c \in Chain /\ Num[b] \in Height /\ HashOf(b) \in Hash /\ HashOf(b) # None
    BY CacheAssumption, Heights, Hashes DEF CacheAssumption
  <2>2. latestBlocks[c] \in Height \cup {0}
    BY <2>1 DEF CacheInv, TipStands
  <2>3. Window(c) \in Nat
    BY <2>1, ChainFacts
  <2> QED
    BY <2>1, <2>2, <2>3, Heights
<1>1. /\ latest \in Height /\ latest \in Nat /\ latest >= latestBlocks[c] /\ latest >= Num[b]
      /\ latest = Num[b] \/ (latest = latestBlocks[c] /\ latest # 0)
  BY <1>0, Heights DEF Higher
<1>2. told \in [Height -> Hash \cup {None}]
  BY <1>0 DEF CacheInv, Tracks
<1>3. /\ blockHashes' = [blockHashes EXCEPT ![c] = cleaned]
      /\ latestBlocks' = [latestBlocks EXCEPT ![c] = latest]
      /\ latestHashes' = [latestHashes EXCEPT ![c] = IF Higher(b) THEN HashOf(b) ELSE latestHashes[c]]
      /\ seen' = [seen EXCEPT ![c][Num[b]] = HashOf(b)]
      /\ served' = None
      /\ UNCHANGED <<disk, durable, now, tail>>
  BY <1>0 DEF UpdateLatestBlock, CacheInv, TipStands, Tracks
<1>4. /\ cleaned \in [Height -> Hash \cup {None}]
      /\ \A n \in Height :
           cleaned[n] = told[n] \/ (cleaned[n] = None /\ n < latest - Window(c))
  BY <1>0, <1>1, <1>2, CleanupKeeps
<1>5. TiersFit'
  <2>1. mem' \in {mem, purgeChain(c)}
    BY DEF UpdateLatestBlock
  <2>2. FitsTier(mem')
    BY <2>1 DEF CacheInv, TiersFit, FitsTier, purgeChain, Slot
  <2> QED
    BY <1>3, <2>2 DEF CacheInv, TiersFit, Kept
<1>6. TipStands'
  <2> HIDE DEF cleaned, told, latest
  <2>1. /\ latestBlocks' \in [Chain -> Height \cup {0}]
        /\ latestHashes' \in [Chain -> Hash]
    BY <1>0, <1>1, <1>3 DEF CacheInv, TipStands
  <2>2. ASSUME NEW d \in Chain PROVE latestBlocks'[d] = 0 => latestHashes'[d] = Empty
    BY <1>0, <1>1, <1>3 DEF CacheInv, TipStands, Higher, latest
  <2>3. ASSUME NEW d \in Chain, latestBlocks'[d] > 0
        PROVE  latestBlocks'[d] \in Known(blockHashes'[d])
    <3>1. CASE d = c
      <4>1. cleaned[latest] = told[latest]
        BY <1>0, <1>1, <1>4
      <4>2. told[latest] # None
        BY <1>0, <1>1 DEF told, CacheInv, TipStands, TipRemembered, Known, Tracks
      <4> QED
        BY <1>0, <1>1, <1>3, <3>1, <4>1, <4>2 DEF Known, CacheInv, TipStands, Tracks
    <3>2. CASE d # c
      BY <1>3, <2>3, <3>2 DEF Known, CacheInv, TipStands, TipRemembered, Tracks
    <3> QED
      BY <3>1, <3>2
  <2> QED
    BY <2>1, <2>2, <2>3 DEF TipStands, TipRemembered
<1>7. Tracks'
  <2> HIDE DEF cleaned, latest
  <2>1. /\ blockHashes' \in [Chain -> [Height -> Hash \cup {None}]]
        /\ seen' \in [Chain -> [Height -> Hash \cup {None}]]
    BY <1>0, <1>3, <1>4 DEF CacheInv, Tracks
  <2>2. ASSUME NEW d \in Chain, NEW n \in Height
        PROVE  /\ blockHashes'[d][n] \in {None, seen'[d][n]}
               /\ seen'[d][n] # None => n <= latestBlocks'[d]
               /\ n >= latestBlocks'[d] - Window(d) => blockHashes'[d][n] = seen'[d][n]
    <3>0. n \in Nat
      BY Heights
    <3>1. CASE d # c
      BY <1>3, <3>1 DEF CacheInv, TipStands, Tracks
    <3>2. CASE d = c /\ n = Num[b]
      <4>1. seen'[d][n] = HashOf(b) /\ told[n] = HashOf(b) /\ latestBlocks'[d] = latest
        BY <1>0, <1>3, <3>2 DEF CacheInv, TipStands, Tracks
      <4>2. blockHashes'[d][n] = cleaned[n]
        BY <1>0, <1>3, <3>2 DEF CacheInv, Tracks
      <4> HIDE DEF told
      <4> QED
        BY <1>0, <1>1, <1>4, <3>0, <3>2, <4>1, <4>2
    <3>3. CASE d = c /\ n # Num[b]
      <4>1. seen'[d][n] = seen[d][n] /\ told[n] = blockHashes[d][n] /\ latestBlocks'[d] = latest
        BY <1>0, <1>3, <3>3 DEF CacheInv, TipStands, Tracks
      <4>2. blockHashes'[d][n] = cleaned[n]
        BY <1>0, <1>3, <3>3 DEF CacheInv, Tracks
      <4>3. /\ blockHashes[d][n] \in {None, seen[d][n]}
            /\ seen[d][n] # None => n <= latestBlocks[d]
            /\ n >= latestBlocks[d] - Window(d) => blockHashes[d][n] = seen[d][n]
        BY DEF CacheInv, Tracks
      <4> HIDE DEF told
      <4> QED
        BY <1>0, <1>1, <1>4, <3>0, <3>3, <4>1, <4>2, <4>3
    <3> QED
      BY <3>1, <3>2, <3>3
  <2> QED
    BY <2>1, <2>2 DEF Tracks
<1> QED
  BY <1>3, <1>5, <1>6, <1>7 DEF CacheInv, ServedStands

\* A slow call that goes on, the clock, the disk and a restart keep the invariant.
LEMMA EnvironmentStep ==
  ASSUME CacheInv, Resume \/ Tick \/ Sync \/ Restart
  PROVE  CacheInv'
<1>1. CASE Resume
  <2>1. TiersFit'
    BY <1>1, ApplyFits DEF Resume, CacheInv, TiersFit
  <2> QED
    BY <1>1, <2>1 DEF Resume, CacheInv, TipStands, TipRemembered, Known, Tracks, ServedStands,
                      trackerVars
<1>2. CASE Tick
  <2>1. now' \in 0..MaxTime
    BY <1>2, CacheAssumption DEF CacheAssumption, Tick, CacheInv
  <2> QED
    BY <1>2, <2>1 DEF Tick, CacheInv, TiersFit, Kept, TipStands, TipRemembered, Known, Tracks,
                      ServedStands, trackerVars, tierVars
<1>3. CASE Sync
  BY <1>3 DEF Sync, CacheInv, TiersFit, Kept, TipStands, TipRemembered, Known, Tracks,
              ServedStands, trackerVars
<1>4. CASE Restart
  <2>1. FitsTier(NoEntries)
    BY DEF FitsTier, NoEntries, Slot
  <2>2. TiersFit'
    BY <1>4, <2>1 DEF Restart, CacheInv, TiersFit, Kept
  <2>3. TipStands' /\ Tracks'
    BY <1>4, CacheAssumption, Heights, Hashes
       DEF CacheAssumption, Restart, TipStands, TipRemembered, Tracks, NoHashes
  <2> QED
    BY <1>4, <2>2, <2>3 DEF Restart, CacheInv, ServedStands
<1> QED
  BY <1>1, <1>2, <1>3, <1>4

\* The invariant holds in every reachable state.
LEMMA CacheInvariance == Spec => []CacheInv
<1>1. Init => CacheInv
  <2> SUFFICES ASSUME Init PROVE CacheInv
    OBVIOUS
  <2>1. TiersFit
    BY DEF Init, TiersFit, FitsTier, Kept, NoEntries, Slot
  <2>2. TipStands /\ Tracks
    BY CacheAssumption, Heights, Hashes
       DEF CacheAssumption, Init, TipStands, TipRemembered, Tracks, NoHashes
  <2> QED
    BY <2>1, <2>2, CacheAssumption DEF CacheAssumption, Init, CacheInv, ServedStands
<1>2. CacheInv /\ [Next]_vars => CacheInv'
  <2> SUFFICES ASSUME CacheInv, [Next]_vars PROVE CacheInv'
    OBVIOUS
  <2>1. CASE UNCHANGED vars
    BY <2>1 DEF vars, trackerVars, tierVars, CacheInv, TiersFit, Kept, TipStands, TipRemembered,
                Known, Tracks, ServedStands, Live, IsBlockHashValid, Behind
  <2>2. CASE Next
    BY <2>2, ReportStep, StoreStep, GetStep, EnvironmentStep DEF Next
  <2> QED
    BY <2>1, <2>2
<1> QED
  BY <1>1, <1>2, PTL DEF Spec

\* A height of the window that was reported is held against an entry of another
\* block there, from wherever it comes (Get, isBlockHashValid).
THEOREM ReplacedNotServed == Spec => []OrphanNotServed
<1>1. CacheInv => OrphanNotServed
  <2> SUFFICES ASSUME CacheInv, served # None, served.entry.hash # Empty,
                      served.entry.num >= latestBlocks[served.entry.chain] - Window(served.entry.chain)
               PROVE  seen[served.entry.chain][served.entry.num] \in {None, served.entry.hash}
    BY DEF OrphanNotServed
  <2> DEFINE e == served.entry
  <2>1. e \in Entry /\ e.num \in Height /\ e.chain \in Chain /\ IsBlockHashValid(e)
    BY DEF CacheInv, ServedStands, Fits, Entry
  <2>2. blockHashes[e.chain][e.num] = seen[e.chain][e.num]
    BY <2>1 DEF CacheInv, Tracks
  <2> QED
    BY <2>1, <2>2 DEF IsBlockHashValid
<1> QED
  BY <1>1, CacheInvariance, PTL

\* Within the reorg depth an entry is served only under the hash the tracker was
\* told: a height it was told nothing of is not trusted (isBlockHashValid).
THEOREM RecentIsConfirmed == Spec => []RecentConfirmed
<1>1. CacheInv => RecentConfirmed
  <2> SUFFICES ASSUME CacheInv, served # None, served.entry.hash # Empty,
                      served.entry.num \in latestBlocks[served.entry.chain] - Depth[served.entry.chain]
                                           .. latestBlocks[served.entry.chain]
               PROVE  seen[served.entry.chain][served.entry.num] = served.entry.hash
    BY DEF RecentConfirmed
  <2> DEFINE e == served.entry
             latest == latestBlocks[e.chain]
  <2>1. /\ e \in Entry /\ e.num \in Height /\ e.chain \in Chain /\ IsBlockHashValid(e)
        /\ e.num \in Nat /\ e.num > 0 /\ latest \in Nat /\ Depth[e.chain] \in Nat
    <3>1. e \in Entry /\ e.num \in Height /\ e.chain \in Chain /\ IsBlockHashValid(e)
      BY DEF CacheInv, ServedStands, Fits, Entry
    <3>2. latest \in Height \cup {0}
      BY <3>1 DEF CacheInv, TipStands
    <3> QED
      BY <3>1, <3>2, ChainFacts, Heights
  <2>2. blockHashes[e.chain][e.num] = seen[e.chain][e.num]
    <3>1. e.num >= latest - Window(e.chain)
      BY <2>1, ChainFacts
    <3> QED
      BY <2>1, <3>1 DEF CacheInv, Tracks
  <2>3. latest > 0 /\ latest - e.num \in 0..Depth[e.chain]
    BY <2>1
  <2>4. Behind(e.chain, e.num) <= Depth[e.chain]
    <3>1. ASSUME NEW d \in Nat, NEW m \in Nat, d <= m PROVE d % 1024 <= m
      BY <3>1
    <3> QED
      BY <2>1, <2>3, <3>1 DEF Behind, Wrap
  <2> QED
    BY <2>1, <2>2, <2>3, <2>4 DEF IsBlockHashValid
<1> QED
  BY <1>1, CacheInvariance, PTL

\* An immutable read that reached the disk is there to be served: nothing drops
\* it, no reorg invalidates it, and a crash does not bring it down (PutImmortal).
THEOREM ImmutableStays == Spec => []ImmortalServed
<1>1. CacheInv => ImmortalServed
  <2> SUFFICES ASSUME CacheInv, NEW k \in Key, Class[k] = "immutable", durable[k] # None
               PROVE  Live(disk[k]) /\ IsBlockHashValid(disk[k])
    BY DEF ImmortalServed
  <2> QED
    BY DEF CacheInv, TiersFit, Kept, FitsTier, Fits, Live, IsBlockHashValid
<1> QED
  BY <1>1, CacheInvariance, PTL

\* The tip is among the heights the tracker remembers (UpdateLatestBlock,
\* cleanupOldBlockHashes).
THEOREM TipStays == Spec => []TipRemembered
<1>1. CacheInv => TipRemembered
  BY DEF CacheInv, TipStands
<1> QED
  BY <1>1, CacheInvariance, PTL

\* Every variable of the cache keeps its type.
THEOREM CacheTypeCorrect == Spec => []TypeOK
<1>1. CacheInv => TypeOK
  <2> SUFFICES ASSUME CacheInv PROVE TypeOK
    OBVIOUS
  <2>1. latestBlocks \in [Chain -> Nat]
    BY Heights DEF CacheInv, TipStands
  <2>2. \A k \in Key : \A e \in {mem[k], disk[k], durable[k]} \ {None} : e.num = 0 => e.hash = Empty
    BY DEF CacheInv, TiersFit, FitsTier, Fits
  <2> QED
    BY <2>1, <2>2 DEF TypeOK, CacheInv, TiersFit, FitsTier, TipStands, Tracks, ServedStands
<1> QED
  BY <1>1, CacheInvariance, PTL

\* The tip does not fall back while the process runs (UpdateLatestBlock).
THEOREM TipNeverFalls == Spec => TipKept
<1>1. CacheInv /\ [Next]_vars =>
        [\A c \in Chain : latestBlocks'[c] < latestBlocks[c] =>
           latestBlocks'[c] = 0 /\ mem' = NoEntries]_vars
  <2> SUFFICES ASSUME CacheInv, Next, NEW c \in Chain, latestBlocks'[c] < latestBlocks[c]
               PROVE  latestBlocks'[c] = 0 /\ mem' = NoEntries
    OBVIOUS
  <2>1. latestBlocks[c] \in Nat
    BY Heights DEF CacheInv, TipStands
  <2>2. CASE Restart
    BY <2>2 DEF Restart
  <2>3. ASSUME NEW b \in Block, UpdateLatestBlock(b) PROVE FALSE
    <3>1. latestBlocks' = [latestBlocks EXCEPT
                             ![ChainOf[b]] = IF Higher(b) THEN Num[b] ELSE latestBlocks[ChainOf[b]]]
      BY <2>3 DEF UpdateLatestBlock
    <3>2. Num[b] \in Nat
      BY Heights
    <3> QED
      BY <2>1, <3>1, <3>2 DEF Higher, CacheInv, TipStands
  <2>4. CASE latestBlocks' = latestBlocks
    BY <2>1, <2>4
  <2> QED
    BY <2>2, <2>3, <2>4
       DEF Next, Store, Put, cacheImmutableCall, PutImmortal, putNegative, Write, Get, MemHit,
           DiskGet, Miss, Resume, Tick, Sync, trackerVars
<1> QED
  BY <1>1, CacheInvariance, PTL DEF Spec, TipKept

\* No answer is served past its TTL but one that names a block past the reorg
\* depth and an immutable read (Get, Put, putNegative).
THEOREM NothingOutlivesItsTTL == Spec => []ServedInTime
<1>1. CacheInv => ServedInTime
  <2> SUFFICES ASSUME CacheInv, served # None, Class[served.key] # "immutable",
                      ~(Class[served.key] \in {"pinned", "tipNamed"} /\ served.entry.exp = Forever)
               PROVE  now - served.entry.at <= TTL(served.key)
    BY DEF ServedInTime
  <2> DEFINE e == served.entry
  <2>1. e.exp # Forever /\ e.exp <= e.at + TTL(served.key) /\ e.exp >= now
    BY DEF CacheInv, ServedStands, Fits, Live
  <2>2. e.at \in 0..MaxTime /\ e.exp \in Nat \cup {Forever} /\ now \in 0..MaxTime
    BY DEF CacheInv, ServedStands, Fits, Entry
  <2>3. TTL(served.key) \in Nat /\ MaxTime \in Nat
    BY CacheAssumption DEF CacheAssumption, TTL
  <2> QED
    BY <2>1, <2>2, <2>3
<1> QED
  BY <1>1, CacheInvariance, PTL

\* A reorg of one chain takes no other chain's entry from the memory tier
\* (purgeChain).
THEOREM ReorgStaysLocal == Spec => ReorgIsLocal
<1>1. CacheInv =>
        [\A b \in Block : UpdateLatestBlock(b) =>
           \A k \in Key : KeyChain[k] # ChainOf[b] => mem'[k] = mem[k]]_vars
  <2> SUFFICES ASSUME CacheInv, NEW b \in Block, UpdateLatestBlock(b),
                      NEW k \in Key, KeyChain[k] # ChainOf[b]
               PROVE  mem'[k] = mem[k]
    OBVIOUS
  <2>1. mem' \in {mem, purgeChain(ChainOf[b])}
    BY DEF UpdateLatestBlock
  <2> QED
    BY <2>1 DEF purgeChain, CacheInv, TiersFit, FitsTier, Fits
<1> QED
  BY <1>1, CacheInvariance, PTL DEF ReorgIsLocal

-----------------------------------------------------------------------------
\* The heights known, and those an interval can hold.
LEMMA KnownBounded ==
  ASSUME NEW hashes, NEW lo \in Int, NEW hi \in Int, lo <= hi + 1,
         \A n \in Known(hashes) : n \in lo..hi
  PROVE  IsFiniteSet(Known(hashes)) /\ Cardinality(Known(hashes)) <= hi - lo + 1
<1>1. IsFiniteSet(lo..hi) /\ Cardinality(lo..hi) = hi - lo + 1
  BY FS_Interval
<1>2. Known(hashes) \subseteq lo..hi
  OBVIOUS
<1> QED
  BY <1>1, <1>2, FS_Subset

\* Where the tracker has just cleaned up, it holds no more than its window.
LEMMA CleanupBounds ==
  ASSUME NEW c \in Chain, NEW hashes \in [Height -> Hash \cup {None}], NEW latest \in Nat,
         \A n \in Known(hashes) : n <= latest
  PROVE  Cardinality(Known(cleanupOldBlockHashes(c, hashes, latest))) <= Window(c) + 1
<1> DEFINE after == cleanupOldBlockHashes(c, hashes, latest)
<1>0. Window(c) \in Nat /\ \A n \in Height : n \in Nat /\ n > 0
  BY ChainFacts, Heights
<1>1. \A n \in Known(hashes) : n \in 1..latest
  BY <1>0 DEF Known
<1>2. IsFiniteSet(Known(hashes)) /\ Cardinality(Known(hashes)) \in Nat
      /\ Cardinality(Known(hashes)) <= latest
  <2>1. IsFiniteSet(Known(hashes)) /\ Cardinality(Known(hashes)) <= latest - 1 + 1
    BY <1>1, KnownBounded
  <2> QED
    BY <2>1, FS_CardinalityType
<1>3. CASE Cardinality(Known(hashes)) <= Window(c) \/ latest < Window(c)
  <2>1. after = hashes
    BY <1>3 DEF cleanupOldBlockHashes
  <2> QED
    BY <1>0, <1>2, <1>3, <2>1
<1>4. CASE ~(Cardinality(Known(hashes)) <= Window(c) \/ latest < Window(c))
  <2>1. after = [n \in Height |-> IF n < latest - Window(c) THEN None ELSE hashes[n]]
    BY <1>4 DEF cleanupOldBlockHashes
  <2>2. \A n \in Known(after) : n \in (latest - Window(c))..latest
    BY <1>0, <1>1, <2>1 DEF Known
  <2>3. Cardinality(Known(after)) <= latest - (latest - Window(c)) + 1
    BY <1>0, <2>2, KnownBounded
  <2> QED
    BY <1>0, <2>3
<1> QED
  BY <1>3, <1>4

\* The tracker stays small, however long the process runs
\* (cleanupOldBlockHashes).
THEOREM TrackerStaysSmall == Spec => []TrackerBounded
<1>0. Cardinality({}) = 0
  BY FS_EmptySet
<1>1. Init => TrackerBounded
  <2> SUFFICES ASSUME Init, NEW c \in Chain PROVE Cardinality(Known(blockHashes[c])) <= Window(c) + 1
    BY DEF TrackerBounded
  <2>1. Known(blockHashes[c]) = {}
    BY DEF Init, NoHashes, Known
  <2> QED
    BY <1>0, <2>1, ChainFacts
<1>2. CacheInv /\ TrackerBounded /\ [Next]_vars => TrackerBounded'
  <2> SUFFICES ASSUME CacheInv, TrackerBounded, [Next]_vars, NEW c \in Chain
               PROVE  Cardinality(Known(blockHashes'[c])) <= Window(c) + 1
    BY DEF TrackerBounded, Window
  <2>1. ASSUME NEW b \in Block, UpdateLatestBlock(b)
        PROVE  Cardinality(Known(blockHashes'[c])) <= Window(c) + 1
    <3> DEFINE d == ChainOf[b]
               latest == IF Higher(b) THEN Num[b] ELSE latestBlocks[d]
               told == [blockHashes[d] EXCEPT ![Num[b]] = HashOf(b)]
    <3>1. blockHashes' = [blockHashes EXCEPT ![d] = cleanupOldBlockHashes(d, told, latest)]
      BY <2>1 DEF UpdateLatestBlock
    <3>2. /\ d \in Chain /\ latestBlocks[d] \in Nat /\ Num[b] \in Height /\ Num[b] \in Nat
          /\ told \in [Height -> Hash \cup {None}]
      BY CacheAssumption, Heights, Hashes DEF CacheAssumption, CacheInv, TipStands, Tracks
    <3>3. latest \in Nat /\ latest >= latestBlocks[d] /\ latest >= Num[b]
      BY <3>2 DEF Higher
    <3>4. \A n \in Known(told) : n <= latest
      <4> SUFFICES ASSUME NEW n \in Height, told[n] # None PROVE n <= latest
        BY DEF Known
      <4>1. CASE n = Num[b]
        BY <3>3, <4>1
      <4>2. CASE n # Num[b]
        <5>1. blockHashes[d][n] # None
          BY <3>2, <4>2 DEF CacheInv, Tracks
        <5>2. n <= latestBlocks[d]
          BY <3>2, <5>1 DEF CacheInv, Tracks
        <5> QED
          BY <3>2, <3>3, <5>2, Heights
      <4> QED
        BY <4>1, <4>2
    <3> HIDE DEF told, latest
    <3>5. CASE c = d
      <4>1. blockHashes'[c] = cleanupOldBlockHashes(d, told, latest)
        BY <3>1, <3>2, <3>5 DEF CacheInv, Tracks
      <4> QED
        BY <3>2, <3>3, <3>4, <3>5, <4>1, CleanupBounds
    <3>6. CASE c # d
      BY <3>1, <3>6 DEF TrackerBounded, CacheInv, Tracks
    <3> QED
      BY <3>5, <3>6
  <2>2. CASE Restart
    <3>1. Known(blockHashes'[c]) = {}
      BY <2>2 DEF Restart, NoHashes, Known
    <3> QED
      BY <1>0, <3>1, ChainFacts
  <2>3. CASE blockHashes' = blockHashes
    BY <2>3 DEF TrackerBounded
  <2> QED
    BY <2>1, <2>2, <2>3
       DEF Next, Store, Put, cacheImmutableCall, PutImmortal, putNegative, Write, Get, MemHit,
           DiskGet, Miss, Resume, Tick, Sync, trackerVars, vars
<1> QED
  BY <1>1, <1>2, CacheInvariance, PTL DEF Spec
=============================================================================
