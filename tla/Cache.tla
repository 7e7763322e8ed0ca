------------------------------- MODULE Cache -------------------------------
(***************************************************************************)
(* The response cache (internal/backend/cache.go): a memory tier over a    *)
(* durable one, and the reorg tracker that decides whether an entry's      *)
(* block is still the chain's.  The upstream nodes are the environment:    *)
(* each stands at some block of a chain's block tree, they need not agree, *)
(* and an answer may be late, so a step may bring word of any block.       *)
(***************************************************************************)
EXTENDS Integers, FiniteSets

CONSTANTS
  Chain,
  Block,        \* block hashes
  ChainOf,      \* the chain of each block
  Num,          \* its height
  Parent,       \* its parent, None at the lowest height modelled
  Pending,      \* those still being built, which a node tells of without a hash
  Depth,        \* each chain's max_reorg_depth
  Key,          \* cache keys; CanonicalKey and subCallKey put the chain in each
  KeyChain,
  Class,        \* what kind of read each key stands for, see Classes
  At,           \* the height that pinned reads are pinned to
  TTLLatest, TTLBlock,
  MemEntries,   \* capacity of the memory tier
  MaxTime,      \* bound on the clock
  Empty,        \* the hash ""
  None

\* "pinned"     a read of one block whose answer names it (a block, a receipt)
\* "call"       a read of one block whose answer names none (eth_call)
\* "tip"        a read of the latest state whose answer names no block
\* "tipNamed"   a read of the latest state whose answer names one (the latest
\*              block; the logs up to the latest block, by the newest of them)
\* "immutable"  a read that never changes
\* "negative"   the same, known to revert
Classes == {"pinned", "call", "tip", "tipNamed", "immutable", "negative"}

ASSUME CacheAssumption ==
  /\ ChainOf \in [Block -> Chain]
  /\ Num \in [Block -> Nat \ {0}]
  /\ Pending \subseteq Block
  /\ Parent \in [Block -> (Block \ Pending) \cup {None}]
  /\ Depth \in [Chain -> Nat]
  /\ KeyChain \in [Key -> Chain]
  /\ Class \in [Key -> Classes]
  /\ At \in [Key -> Nat]
  /\ TTLLatest \in Nat \ {0} /\ TTLBlock \in Nat
  /\ MemEntries \in Nat \ {0}
  /\ MaxTime \in Nat
  /\ None \notin Block \cup {Empty} /\ Empty \notin Block

VARIABLES
  blockHashes,   \* the hash the tracker holds for each height of each chain
  latestBlocks,  \* the highest height it was told of
  latestHashes,  \* and the hash it was told then
  mem, disk,     \* the two tiers
  durable,       \* what of disk would survive a crash: writes are not synced
  now,           \* the clock
  tail,          \* what one slow Get or Put has left to do to the tiers
  served,        \* what the last step's Get returned
  seen           \* history: the hash last reported at each height

trackerVars == <<blockHashes, latestBlocks, latestHashes>>
tierVars == <<mem, disk, durable>>
vars == <<trackerVars, tierVars, now, tail, served, seen>>

Height == {Num[b] : b \in Block}
Hash == Block \cup {Empty}
Forever == -1

Entry ==
  [exp : Nat \cup {Forever}, chain : Chain, hash : Hash, num : Nat, at : 0..MaxTime]

Slot == Entry \cup {None}

\* Work on the tiers that a call does after it let go of the tracker's lock.
Tail == [todo : {"put", "keep", "promote", "drop"}, key : Key, entry : Entry]

ASSUME NoneAssumption == None \notin Entry \cup Tail

TypeOK ==
  /\ blockHashes \in [Chain -> [Height -> Hash \cup {None}]]
  /\ latestBlocks \in [Chain -> Nat]
  /\ latestHashes \in [Chain -> Hash]
  /\ mem \in [Key -> Slot] /\ disk \in [Key -> Slot] /\ durable \in [Key -> Slot]
  /\ \A k \in Key : \A e \in {mem[k], disk[k], durable[k]} \ {None} :
       e.num = 0 => e.hash = Empty
  /\ now \in 0..MaxTime
  /\ tail \in Tail \cup {None}
  /\ served \in {None} \cup [key : Key, entry : Entry]
  /\ seen \in [Chain -> [Height -> Hash \cup {None}]]

NoHashes == [c \in Chain |-> [n \in Height |-> None]]
NoEntries == [k \in Key |-> None]

Init ==
  /\ blockHashes = NoHashes
  /\ latestBlocks = [c \in Chain |-> 0]
  /\ latestHashes = [c \in Chain |-> Empty]
  /\ mem = NoEntries /\ disk = NoEntries /\ durable = NoEntries
  /\ now = 0
  /\ tail = None
  /\ served = None
  /\ seen = NoHashes

-----------------------------------------------------------------------------
\* The reorg tracker.

Known(hashes) == {n \in Height : hashes[n] # None}

\* The hash an answer gives with block b.
HashOf(b) == IF b \in Pending THEN Empty ELSE b

\* The height is known under another hash, or the height below it is and is not
\* the block's parent.
detectReorg(b) ==
  LET hashes == blockHashes[ChainOf[b]]
  IN \/ hashes[Num[b]] \notin {None, HashOf(b)}
     \/ Num[b] - 1 \in Known(hashes) /\ hashes[Num[b] - 1] # Parent[b]

\* Mutant: every chain's entries leave it.
purgeAll(c) == NoEntries

\* A chain's entries leave the memory tier.
purgeChain(c) == [k \in Key |-> IF mem[k] # None /\ mem[k].chain = c THEN None ELSE mem[k]]

Window(c) == 2 * Depth[c]

\* Mutants: nothing is forgotten; the heights above the cutoff are.
cleanupNothing(c, hashes, latest) == hashes
cleanupRecent(c, hashes, latest) ==
  IF Cardinality(Known(hashes)) <= Window(c) \/ latest < Window(c)
  THEN hashes
  ELSE [n \in Height |-> IF n > latest - Window(c) THEN None ELSE hashes[n]]

\* Heights more than the window below the tip are forgotten, once there are
\* more than the window holds.
cleanupOldBlockHashes(c, hashes, latest) ==
  IF Cardinality(Known(hashes)) <= Window(c) \/ latest < Window(c)
  THEN hashes
  ELSE [n \in Height |-> IF n < latest - Window(c) THEN None ELSE hashes[n]]

\* Mutant: the tip is wherever the last report was.
Always(b) == TRUE

Higher(b) == Num[b] > latestBlocks[ChainOf[b]]

\* A poll of a backend's head, or an answer that is a block, reports b: a block
\* with a height, whether it has a hash or not.
UpdateLatestBlock(b) ==
  LET c == ChainOf[b]
      higher == Higher(b)
      latest == IF higher THEN Num[b] ELSE latestBlocks[c]
  IN /\ mem' = IF detectReorg(b) THEN purgeChain(c) ELSE mem
     /\ blockHashes' = [blockHashes EXCEPT ![c] =
          cleanupOldBlockHashes(c, [@ EXCEPT ![Num[b]] = HashOf(b)], latest)]
     /\ latestBlocks' = [latestBlocks EXCEPT ![c] = latest]
     /\ latestHashes' = [latestHashes EXCEPT ![c] = IF higher THEN HashOf(b) ELSE @]
     /\ seen' = [seen EXCEPT ![c][Num[b]] = HashOf(b)]
     /\ served' = None
     /\ UNCHANGED <<disk, durable, now, tail>>

\* uint64 subtraction: an entry above the tip is taken to be far below it.
Wrap == 1024
Behind(c, num) == (latestBlocks[c] - num) % Wrap

\* Mutant: a height the tracker does not know is never held against an entry.
ValidUnlessReplaced(e) ==
  LET known == IF e.num \in Height THEN blockHashes[e.chain][e.num] ELSE None
  IN e.hash = Empty \/ known \in {None, e.hash}

\* An entry's block is the tracker's for that height, or is of a height that the
\* tracker does not know and that is not within the reorg depth of the tip.
IsBlockHashValid(e) ==
  LET known == IF e.num \in Height THEN blockHashes[e.chain][e.num] ELSE None
  IN \/ e.hash = Empty
     \/ known = e.hash
     \/ /\ known = None
        /\ ~(latestBlocks[e.chain] > 0 /\ Behind(e.chain, e.num) <= Depth[e.chain])

-----------------------------------------------------------------------------
\* The tiers.

Live(e) == e # None /\ (e.exp = Forever \/ e.exp >= now)

\* What the memory tier may hold after k is added: at its capacity it evicts.
MemWith(m, k, e) ==
  LET held == {j \in Key : m[j] # None}
  IN IF k \in held \/ Cardinality(held) < MemEntries
     THEN {[m EXCEPT ![k] = e]}
     ELSE {[m EXCEPT ![k] = e, ![j] = None] : j \in held}

shortLived(e) == e.exp # Forever /\ e.exp - now <= TTLLatest

\* What a call does to the tiers, m being the memory tier as it finds it: Put
\* writes both, the durable one unless the entry is too short-lived by then;
\* Get promotes what it found on disk, or deletes the key, whatever is there.
Apply(t, m) ==
  CASE t.todo \in {"put", "keep"} ->
         /\ mem' \in MemWith(m, t.key, t.entry)
         /\ disk' = IF t.todo = "put" /\ shortLived(t.entry)
                    THEN disk ELSE [disk EXCEPT ![t.key] = t.entry]
    [] t.todo = "promote" -> mem' \in MemWith(m, t.key, t.entry) /\ UNCHANGED disk
    [] t.todo = "drop" -> mem' = m /\ disk' = [disk EXCEPT ![t.key] = None]

\* The call goes on at once, or other calls and the tracker come first.
Finish(t, m) ==
  \/ Apply(t, m) /\ UNCHANGED tail
  \/ tail = None /\ tail' = t /\ mem' = m /\ UNCHANGED disk

Resume ==
  /\ tail # None
  /\ Apply(tail, mem)
  /\ tail' = None
  /\ served' = None
  /\ UNCHANGED <<trackerVars, durable, now, seen>>

Write(todo, k, e) ==
  /\ Finish([todo |-> todo, key |-> k, entry |-> e], mem)
  /\ served' = None
  /\ UNCHANGED <<trackerVars, durable, now, seen>>

\* Mutant: every read is kept as long as a pinned one.
TTLPinned(k) == TTLBlock

TTL(k) == IF Class[k] \in {"tip", "tipNamed"} THEN TTLLatest ELSE TTLBlock

\* The block an answer read at b names.
ResponseBlock(k, b) ==
  IF Class[k] \in {"pinned", "tipNamed"} /\ b \notin Pending
  THEN [num |-> Num[b], hash |-> b]
  ELSE [num |-> 0, hash |-> Empty]

\* Mutant: an answer that names no block takes the tip's hash without its height.
StampedHash(c, call) ==
  [num |-> call.num, hash |-> IF call.hash = Empty THEN latestHashes[c] ELSE call.hash]

\* The block an answer is kept under: the one it names, or else the tip, whose
\* hash may be empty.
Stamped(c, call) ==
  IF call.num = 0 THEN [num |-> latestBlocks[c], hash |-> latestHashes[c]] ELSE call

PastReorgDepth(c, num) ==
  num > 0 /\ latestBlocks[c] > num /\ latestBlocks[c] - num > Depth[c]

\* Put, for an answer read at b: it is kept for ever if it names a block past the
\* reorg depth.
Put(k, b) ==
  LET c == KeyChain[k]
      call == ResponseBlock(k, b)
      block == Stamped(c, call)
  IN Write("put", k, [exp |-> IF PastReorgDepth(c, call.num) THEN Forever ELSE now + TTL(k),
                      chain |-> c, hash |-> block.hash, num |-> block.num,
                      at |-> now])

\* Store: an upstream answer that is final.  A pinned read is answered from a
\* block of its height, any other from wherever the node stands or, if that is
\* what it asks for, from the block the node is building.
Store(k) ==
  /\ Class[k] \in {"pinned", "call", "tip", "tipNamed"}
  /\ \E b \in Block :
       /\ ChainOf[b] = KeyChain[k]
       /\ Class[k] \in {"pinned", "call"} => Num[b] = At[k] /\ b \notin Pending
       /\ Put(k, b)

\* Mutant: immutable reads are kept under the tip as well.
UnderTip(k, exp) ==
  [exp |-> exp, chain |-> KeyChain[k], hash |-> latestHashes[KeyChain[k]],
   num |-> latestBlocks[KeyChain[k]], at |-> now]

Unblocked(k, exp) ==
  [exp |-> exp, chain |-> KeyChain[k], hash |-> Empty, num |-> 0, at |-> now]

PutImmortal(k) == Class[k] = "immutable" /\ Write("keep", k, Unblocked(k, Forever))

\* Mutant: a revert is kept for ever.
NegativeForever(k) == Class[k] = "negative" /\ Write("keep", k, Unblocked(k, Forever))

putNegative(k) ==
  Class[k] = "negative" /\ Write("keep", k, Unblocked(k, now + TTLBlock))

\* The answer to an immutable read: its value, or that it reverts.
cacheImmutableCall(k) == PutImmortal(k) \/ putNegative(k)

\* Mutant: the purge is trusted to have cleared the memory tier.
Purged(k) == Live(mem[k])

\* The memory tier holds a live entry whose block still stands.
Trusted(k) == Live(mem[k]) /\ IsBlockHashValid(mem[k])

MemHit(k) ==
  /\ Trusted(k)
  /\ served' = [key |-> k, entry |-> mem[k]]
  /\ UNCHANGED <<trackerVars, tierVars, now, tail, seen>>

\* Otherwise the memory tier lets go of an entry that is live but whose block
\* does not stand, and the durable tier is asked.
Forgotten(k) == IF Live(mem[k]) THEN [mem EXCEPT ![k] = None] ELSE mem

DiskGet(k) ==
  /\ ~Trusted(k)
  /\ Live(disk[k])
  /\ IF IsBlockHashValid(disk[k])
     THEN /\ Finish([todo |-> "promote", key |-> k, entry |-> disk[k]], Forgotten(k))
          /\ served' = [key |-> k, entry |-> disk[k]]
     ELSE /\ Finish([todo |-> "drop", key |-> k, entry |-> disk[k]], Forgotten(k))
          /\ served' = None
  /\ UNCHANGED <<trackerVars, durable, now, seen>>

Miss(k) ==
  /\ ~Trusted(k)
  /\ ~Live(disk[k])
  /\ mem' = Forgotten(k)
  /\ served' = None
  /\ UNCHANGED <<trackerVars, disk, durable, now, tail, seen>>

Get(k) == MemHit(k) \/ DiskGet(k) \/ Miss(k)

-----------------------------------------------------------------------------
\* The environment.

Tick ==
  /\ now < MaxTime
  /\ now' = now + 1
  /\ served' = None
  /\ UNCHANGED <<trackerVars, tierVars, tail, seen>>

\* What was written so far reaches the disk.
Sync ==
  /\ durable' = disk
  /\ served' = None
  /\ UNCHANGED <<trackerVars, mem, disk, now, tail, seen>>

\* The process stops and starts: the tracker and the memory tier start empty.
Restart ==
  /\ blockHashes' = NoHashes
  /\ latestBlocks' = [c \in Chain |-> 0]
  /\ latestHashes' = [c \in Chain |-> Empty]
  /\ mem' = NoEntries
  /\ disk' = durable
  /\ tail' = None
  /\ served' = None
  /\ seen' = NoHashes
  /\ UNCHANGED <<durable, now>>

Next ==
  \/ \E b \in Block : UpdateLatestBlock(b)
  \/ \E k \in Key : Store(k) \/ cacheImmutableCall(k) \/ Get(k)
  \/ Resume
  \/ Tick
  \/ Sync
  \/ Restart

Spec == Init /\ [][Next]_vars
=============================================================================
