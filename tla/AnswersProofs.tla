--------------------------- MODULE AnswersProofs ---------------------------
(***************************************************************************)
(* Every item gets its own answer and every key keeps its own, for any     *)
(* reads, ids, batches, multicall size and replies of the upstream.        *)
(***************************************************************************)
EXTENDS AnswersProperties, FunctionTheorems, FiniteSetTheorems, SequenceTheorems,
        WellFoundedInduction, TLAPS

-----------------------------------------------------------------------------
(* What the operators return.                                              *)

\* A set of naturals that is not empty has a smallest element.
LEMMA Smallest ==
  ASSUME NEW S \in SUBSET Nat, S # {}
  PROVE  \E m \in S : \A k \in S : m <= k
<1>1. PICK m \in S : \A k \in S : ~ (<<k, m>> \in OpToRel(<, Nat))
  <2> DEFINE R == OpToRel(<, Nat)
  <2>1. IsWellFoundedOn(R, Nat)
    BY NatLessThanWellFounded
  <2> HIDE DEF R
  <2>2. \E m \in S : \A k \in S : ~ (<<k, m>> \in R)
    BY <2>1, WFMin
  <2> QED
    BY <2>2 DEF R
<1>2. \A k \in S : ~ (k < m)
  BY <1>1 DEF OpToRel
<1> QED
  BY <1>2

\* Max and Min pick one of the positions they are given: of those of a reply, of
\* a batch, there are finitely many.
LEMMA MaxMinIn ==
  ASSUME NEW n \in Nat, NEW S \in SUBSET (1..n), S # {}
  PROVE  Max(S) \in S /\ Min(S) \in S
<1>1. S \in SUBSET Nat
  OBVIOUS
<1>2. \E m \in S : \A k \in S : m <= k
  BY <1>1, Smallest
<1>3. \E m \in S : \A k \in S : m >= k
  <2> DEFINE T == {n - k : k \in S}
  <2>1. T \in SUBSET Nat /\ T # {}
    <3>1. \A k \in S : n - k \in Nat
      OBVIOUS
    <3> QED
      BY <3>1
  <2>2. PICK t \in T : \A u \in T : t <= u
    <3> HIDE DEF T
    <3> QED
      BY <2>1, Smallest
  <2>3. PICK m \in S : t = n - m
    OBVIOUS
  <2>4. \A k \in S : n - m <= n - k
    BY <2>2, <2>3
  <2> QED
    BY <2>4
<1> QED
  BY <1>2, <1>3 DEF Max, Min

\* Of two numbers, Min is the smaller.
LEMMA MinOfTwo ==
  ASSUME NEW a \in Int, NEW b \in Int
  PROVE  Min({a, b}) = IF a <= b THEN a ELSE b
  BY DEF Min

\* InOrder lists each position once, in order: uncachedIndices and the calls of a
\* tag (the "/" handler, aggregateEthCalls).  The rank of a position, how many
\* there are up to it, tells where it stands.
LEMMA Ordered ==
  ASSUME NEW n \in Nat, NEW S \in SUBSET (1..n)
  PROVE  /\ Cardinality(S) \in Nat
         /\ InOrder(S) \in [1..Cardinality(S) -> S]
         /\ \A a, b \in 1..Cardinality(S) : a < b => InOrder(S)[a] < InOrder(S)[b]
<1> DEFINE UpTo(i) == {m \in S : m <= i}
           rank == [i \in S |-> Cardinality(UpTo(i))]
           N == Cardinality(S)
<1>1. IsFiniteSet(S) /\ N \in Nat /\ S \subseteq Int
  <2>1. IsFiniteSet(1..n)
    BY FS_Interval
  <2>2. IsFiniteSet(S)
    BY <2>1, FS_Subset
  <2> QED
    BY <2>2, FS_CardinalityType
<1>2. ASSUME NEW i \in S, NEW j \in S
      PROVE  /\ IsFiniteSet(UpTo(j)) /\ Cardinality(UpTo(j)) \in 1..N
             /\ i <= j => Cardinality(UpTo(i)) <= Cardinality(UpTo(j))
             /\ Cardinality(UpTo(i)) = Cardinality(UpTo(j)) /\ i <= j => i = j
  <2>1. UpTo(j) \in SUBSET S /\ j \in UpTo(j)
    BY <1>1
  <2>2. IsFiniteSet(UpTo(j)) /\ Cardinality(UpTo(j)) <= N
    BY <1>1, <2>1, FS_Subset
  <2>3. Cardinality(UpTo(j)) \in Nat /\ Cardinality(UpTo(j)) # 0
    <3> HIDE DEF UpTo
    <3> QED
      BY <2>1, <2>2, FS_CardinalityType, FS_EmptySet
  <2>4. ASSUME i <= j
        PROVE  /\ Cardinality(UpTo(i)) <= Cardinality(UpTo(j))
               /\ Cardinality(UpTo(i)) = Cardinality(UpTo(j)) => i = j
    <3>1. UpTo(i) \in SUBSET UpTo(j)
      <4>1. \A m \in S : m <= i => m <= j
        BY <1>1, <2>4
      <4> QED
        BY <4>1
    <3>2. UpTo(i) = UpTo(j) => i = j
      <4>1. UpTo(i) = UpTo(j) => j <= i
        BY <2>1
      <4> QED
        BY <1>1, <2>4, <4>1
    <3> HIDE DEF UpTo
    <3>3. /\ Cardinality(UpTo(i)) <= Cardinality(UpTo(j))
          /\ Cardinality(UpTo(j)) = Cardinality(UpTo(i)) => UpTo(j) = UpTo(i)
      BY <2>2, <3>1, FS_Subset
    <3> QED
      BY <3>2, <3>3
  <2> QED
    BY <1>1, <2>2, <2>3, <2>4
<1>3. rank \in Injection(S, 1..N)
  <2>1. rank \in [S -> 1..N]
    BY <1>2
  <2>2. ASSUME NEW i \in S, NEW j \in S, rank[i] = rank[j] PROVE i = j
    <3>1. i <= j \/ j <= i
      BY <1>1
    <3> HIDE DEF UpTo
    <3> QED
      BY <1>2, <2>2, <3>1
  <2> QED
    BY <2>1, <2>2, Fun_IsInj
<1>4. rank \in Surjection(S, 1..N)
  <2>1. IsFiniteSet(1..N) /\ Cardinality(1..N) = N
    BY <1>1, FS_Interval
  <2> HIDE DEF rank
  <2> QED
    BY <1>3, <2>1, FS_Injection
<1> DEFINE s == [j \in 1..N |-> CHOOSE i \in S : rank[i] = j]
<1>5. s \in [1..N -> S] /\ \A j \in 1..N : rank[s[j]] = j
  <2> HIDE DEF rank
  <2>1. \A j \in 1..N : \E i \in S : rank[i] = j
    BY <1>4 DEF Surjection
  <2> QED
    BY <2>1
<1>6. ASSUME NEW a \in 1..N, NEW b \in 1..N, a < b PROVE s[a] < s[b]
  <2>1. s[a] \in S /\ s[b] \in S /\ rank[s[a]] = a /\ rank[s[b]] = b
    BY <1>5
  <2> HIDE DEF s
  <2>2. s[b] <= s[a] => rank[s[b]] <= rank[s[a]]
    BY <1>2, <2>1
  <2>3. ~ (b <= a)
    BY <1>1, <1>6
  <2>4. s[a] \in Int /\ s[b] \in Int
    BY <1>1, <2>1
  <2> HIDE DEF rank
  <2> QED
    BY <2>1, <2>2, <2>3, <2>4
<1>7. \E t \in [1..N -> S] : \A a, b \in DOMAIN t : a < b => t[a] < t[b]
  <2>1. DOMAIN s = 1..N
    OBVIOUS
  <2> HIDE DEF s
  <2> QED
    BY <1>5, <1>6, <2>1
<1> QED
  BY <1>1, <1>7 DEF InOrder

\* So it has every position at one place.
LEMMA OrderedOnce ==
  ASSUME NEW n \in Nat, NEW S \in SUBSET (1..n)
  PROVE  /\ \A a, b \in 1..Cardinality(S) : InOrder(S)[a] = InOrder(S)[b] => a = b
         /\ \A i \in S : \E j \in 1..Cardinality(S) : InOrder(S)[j] = i
<1> DEFINE N == Cardinality(S)
           s == InOrder(S)
<1>1. /\ N \in Nat /\ s \in [1..N -> S]
      /\ \A a, b \in 1..N : a < b => s[a] < s[b]
  BY Ordered
<1> HIDE DEF s
<1>2. \A a, b \in 1..N : s[a] = s[b] => a = b
  <2> SUFFICES ASSUME NEW a \in 1..N, NEW b \in 1..N, s[a] = s[b] PROVE a = b
    OBVIOUS
  <2>1. s[a] \in Int /\ s[b] \in Int
    <3>1. s[a] \in S /\ s[b] \in S
      BY <1>1
    <3>2. S \subseteq Int
      OBVIOUS
    <3> QED
      BY <3>1, <3>2
  <2>2. ~ (a < b) /\ ~ (b < a)
    BY <1>1, <2>1
  <2> QED
    BY <1>1, <2>2
<1>3. s \in Surjection(1..N, S)
  <2>1. s \in Injection(1..N, S)
    BY <1>1, <1>2, Fun_IsInj
  <2>2. Cardinality(1..N) = N
    BY <1>1, FS_Interval
  <2>3. IsFiniteSet(S)
    <3>1. IsFiniteSet(1..n)
      BY FS_Interval
    <3> QED
      BY <3>1, FS_Subset
  <2> QED
    BY <2>1, <2>2, <2>3, FS_Injection
<1>4. \A i \in S : \E j \in 1..N : s[j] = i
  BY <1>3 DEF Surjection
<1> QED
  BY <1>2, <1>4 DEF s

\* The chunk from k on: as many positions as there are, up to MaxCalls of them.
EndOf(s, k) == Min({k + MaxCalls, Len(s)})
ChunkAt(s, k) == SubSeq(s, k + 1, EndOf(s, k))
Starts(s) == {n * MaxCalls : n \in 0..Len(s)} \cap 0..(Len(s) - 1)

\* What a chunk holds (aggregateEthCalls).
LEMMA ChunkHolds ==
  ASSUME NEW S, NEW s \in Seq(S), NEW k \in 0..(Len(s) - 1)
  PROVE  LET c == ChunkAt(s, k)
             size == EndOf(s, k) - k
         IN  /\ k + size <= Len(s) /\ size \in 1..MaxCalls
             /\ size < MaxCalls => k + size = Len(s)
             /\ c \in Seq(S) /\ Len(c) = size /\ DOMAIN c = 1..size
             /\ \A i \in 1..size : c[i] = s[k + i]
<1> DEFINE L == Len(s)
           end == EndOf(s, k)
           c == ChunkAt(s, k)
<1>1. /\ L \in Nat /\ DOMAIN s = 1..L /\ MaxCalls \in Nat /\ MaxCalls >= 1
      /\ \A i \in 1..L : s[i] \in S
  BY AnswersAssumption DEF AnswersAssumption
<1>2. end = (IF k + MaxCalls <= L THEN k + MaxCalls ELSE L)
  BY <1>1, MinOfTwo DEF EndOf
<1>3. end \in Int /\ k \in Int /\ end <= L /\ k + 1 <= end /\ 0 <= k
  BY <1>1, <1>2
<1>4. c = SubSeq(s, k + 1, end)
  BY DEF ChunkAt
<1> HIDE DEF end, c, L
<1>5. end - k \in 1..MaxCalls /\ (end - k < MaxCalls => k + (end - k) = L)
  <2>1. k + (end - k) = end /\ end - k \in Int /\ 1 <= end - k
    BY <1>3
  <2>2. end - k <= MaxCalls /\ (end - k < MaxCalls => end = L)
    BY <1>1, <1>2, <1>3
  <2> QED
    BY <1>1, <2>1, <2>2
<1>6. \A i \in (k + 1)..end : s[i] \in S
  BY <1>1, <1>3
<1>7. /\ c \in Seq(S)
      /\ Len(c) = end - (k + 1) + 1
      /\ \A i \in 1..(end - (k + 1) + 1) : c[i] = s[k + 1 + i - 1]
  BY <1>3, <1>4, <1>6, SubSeqProperties
<1>8. end - (k + 1) + 1 = end - k /\ end - k \in Nat
  BY <1>3
<1>9. ASSUME NEW i \in 1..(end - k) PROVE c[i] = s[k + i]
  <2>1. c[i] = s[k + 1 + i - 1]
    BY <1>7, <1>8
  <2>2. k + 1 + i - 1 = k + i
    BY <1>3
  <2> QED
    BY <2>1, <2>2
<1>10. k + (end - k) <= L
  BY <1>1, <1>3
<1>11. Len(c) = end - k /\ DOMAIN c = 1..(end - k)
  BY <1>7, <1>8
<1> QED
  BY <1>5, <1>7, <1>9, <1>10, <1>11 DEF c, end, L

\* Two chunks that start at different places are MaxCalls apart, or more.
LEMMA StartsApart ==
  ASSUME NEW L \in Nat, NEW m \in 0..L, NEW n \in 0..L, m * MaxCalls < n * MaxCalls
  PROVE  m * MaxCalls + MaxCalls <= n * MaxCalls
<1>1. MaxCalls \in Nat /\ MaxCalls >= 1
  BY AnswersAssumption DEF AnswersAssumption
<1>2. m < n
  <2> SUFFICES ASSUME n <= m PROVE FALSE
    OBVIOUS
  <2>1. m - n \in Nat /\ m * MaxCalls = n * MaxCalls + (m - n) * MaxCalls
    BY <1>1
  <2>2. (m - n) * MaxCalls \in Nat
    BY <1>1, <2>1
  <2> QED
    BY <1>1, <2>1, <2>2
<1>3. (n - m - 1) \in Nat /\ n * MaxCalls = m * MaxCalls + MaxCalls + (n - m - 1) * MaxCalls
  BY <1>1, <1>2
<1>4. (n - m - 1) * MaxCalls \in Nat
  BY <1>1, <1>3
<1> QED
  BY <1>1, <1>3, <1>4

\* Whatever positions a multicall is made of, each chunk has some of them, and
\* each is in a chunk (aggregateEthCalls).
LEMMA Chunked ==
  ASSUME NEW S, NEW s \in Seq(S)
  PROVE  /\ \A c \in Chunks(s) : c \in Seq(S) /\ ToSet(c) \subseteq ToSet(s)
         /\ \A m \in 1..Len(s) : \E c \in Chunks(s) : s[m] \in ToSet(c)
<1> DEFINE L == Len(s)
           end(k) == EndOf(s, k)
           chunk(k) == ChunkAt(s, k)
<1>1. /\ L \in Nat /\ DOMAIN s = 1..L /\ MaxCalls \in Nat /\ MaxCalls >= 1
      /\ \A i \in 1..L : s[i] \in S
  BY AnswersAssumption DEF AnswersAssumption
<1>2. Chunks(s) = {chunk(k) : k \in Starts(s)}
  BY DEF Chunks, Starts, ChunkAt, EndOf
<1>3. ASSUME NEW k \in Starts(s)
      PROVE  k \in 0..(L - 1) /\ end(k) = (IF k + MaxCalls <= L THEN k + MaxCalls ELSE L)
  BY <1>1, MinOfTwo DEF Starts, EndOf
<1>4. ASSUME NEW k \in Starts(s)
      PROVE  /\ chunk(k) \in Seq(S)
             /\ Len(chunk(k)) = end(k) - k
             /\ \A i \in 1..(end(k) - k) : chunk(k)[i] = s[k + i]
  BY <1>3, ChunkHolds
<1>5. ASSUME NEW k \in Starts(s) PROVE ToSet(chunk(k)) \subseteq ToSet(s)
  <2>1. \A i \in 1..(end(k) - k) : k + i \in 1..L
    <3>1. end(k) \in Int /\ k \in Int /\ end(k) <= L /\ 0 <= k
      BY <1>1, <1>3
    <3> HIDE DEF end
    <3> QED
      BY <1>1, <3>1
  <2> HIDE DEF end, chunk
  <2>2. DOMAIN chunk(k) = 1..(end(k) - k)
    BY <1>4
  <2> QED
    BY <1>1, <1>4, <2>1, <2>2 DEF ToSet
<1>6. ASSUME NEW m \in 1..L PROVE \E k \in Starts(s) : s[m] \in ToSet(chunk(k))
  <2> DEFINE Ends == {n \in 0..L : m <= (n + 1) * MaxCalls}
  <2>1. L \in Ends
    <3>1. PICK d \in Nat : MaxCalls = d + 1
      <4>1. MaxCalls - 1 \in Nat /\ MaxCalls = (MaxCalls - 1) + 1
        BY <1>1
      <4> QED
        BY <4>1
    <3>2. (L + 1) * d \in Nat /\ (L + 1) * (d + 1) = (L + 1) * d + (L + 1)
      BY <1>1, <3>1
    <3> QED
      BY <1>1, <3>1, <3>2
  <2>2. PICK n \in Ends : \A l \in Ends : n <= l
    <3>1. Ends \in SUBSET Nat
      OBVIOUS
    <3> HIDE DEF Ends
    <3> QED
      BY <2>1, <3>1, Smallest
  <2>3. n * MaxCalls < m
    <3>1. CASE n = 0
      BY <1>1, <3>1
    <3>2. CASE n # 0
      <4>1. n - 1 \in 0..L /\ n - 1 \notin Ends
        BY <1>1, <2>2, <3>2
      <4>2. ~ (m <= (n - 1 + 1) * MaxCalls)
        BY <4>1
      <4>3. n - 1 + 1 = n /\ n * MaxCalls \in Int
        BY <1>1
      <4> QED
        BY <1>1, <4>2, <4>3
    <3> QED
      BY <3>1, <3>2
  <2> DEFINE k == n * MaxCalls
  <2>4. k \in Int /\ 0 <= k /\ k < m /\ m <= k + MaxCalls /\ n \in 0..L
    <3>1. (n + 1) * MaxCalls = k + MaxCalls /\ 0 <= k
      BY <1>1
    <3> QED
      BY <1>1, <2>3, <3>1
  <2>5. k \in Starts(s)
    BY <1>1, <2>4 DEF Starts
  <2> HIDE DEF k
  <2>6. m - k \in 1..(end(k) - k)
    BY <1>1, <1>3, <2>4, <2>5
  <2> HIDE DEF end, chunk
  <2>7. m - k \in DOMAIN chunk(k) /\ chunk(k)[m - k] = s[m]
    <3>1. k + (m - k) = m
      BY <2>4
    <3>2. DOMAIN chunk(k) = 1..(end(k) - k)
      BY <1>4, <2>5
    <3> QED
      BY <1>4, <2>5, <2>6, <3>1, <3>2
  <2> QED
    BY <2>5, <2>7 DEF ToSet
<1> QED
  <2> HIDE DEF chunk
  <2> QED
    BY <1>2, <1>4, <1>5, <1>6

\* No position is in two chunks, nor twice in one, and none is larger than a
\* multicall may be (aggregateEthCalls).
LEMMA ChunksApart ==
  ASSUME NEW s \in Seq(Nat), \A a, b \in 1..Len(s) : a < b => s[a] < s[b]
  PROVE  /\ \A c \in Chunks(s) :
              /\ Len(c) \in 1..MaxCalls
              /\ \A a, b \in DOMAIN c : a < b => c[a] < c[b]
         /\ \A c, d \in Chunks(s) : ToSet(c) \cap ToSet(d) # {} => c = d
<1> DEFINE L == Len(s)
           chunk(k) == ChunkAt(s, k)
           size(k) == EndOf(s, k) - k
<1>1. Chunks(s) = {chunk(k) : k \in Starts(s)}
  BY DEF Chunks, Starts, ChunkAt, EndOf
<1>2. L \in Nat /\ \A a, b \in 1..L : s[a] \in Nat /\ (s[a] = s[b] => a = b)
  <2>1. L \in Nat /\ \A a \in 1..L : s[a] \in Nat
    OBVIOUS
  <2>2. ASSUME NEW a \in 1..L, NEW b \in 1..L, s[a] = s[b] PROVE a = b
    <3>1. ~ (a < b) /\ ~ (b < a)
      BY <2>1, <2>2
    <3> QED
      BY <3>1
  <2> QED
    BY <2>1, <2>2
<1>3. ASSUME NEW k \in Starts(s)
      PROVE  /\ k \in 0..(L - 1) /\ size(k) \in 1..MaxCalls /\ k + size(k) <= L
             /\ Len(chunk(k)) = size(k) /\ DOMAIN chunk(k) = 1..size(k)
             /\ \A i \in 1..size(k) : chunk(k)[i] = s[k + i]
  <2>1. k \in 0..(L - 1)
    BY DEF Starts
  <2> QED
    BY <2>1, ChunkHolds
<1> HIDE DEF chunk, size
<1>4. ASSUME NEW k \in Starts(s), NEW a \in 1..size(k), NEW b \in 1..size(k), a < b
      PROVE  chunk(k)[a] < chunk(k)[b]
  <2>1. k + a \in 1..L /\ k + b \in 1..L /\ k + a < k + b
    <3>1. k \in 0..(L - 1) /\ size(k) \in 1..MaxCalls /\ k + size(k) <= L
      BY <1>3
    <3>2. MaxCalls \in Nat
      BY AnswersAssumption DEF AnswersAssumption
    <3> HIDE DEF L
    <3> QED
      BY <1>2, <1>4, <3>1, <3>2
  <2>2. s[k + a] < s[k + b]
    BY <2>1
  <2> QED
    BY <1>3, <2>2
<1>5. ASSUME NEW k \in Starts(s), NEW l \in Starts(s), k < l
      PROVE  ToSet(chunk(k)) \cap ToSet(chunk(l)) = {}
  <2> SUFFICES ASSUME NEW x \in ToSet(chunk(k)), x \in ToSet(chunk(l)) PROVE FALSE
    OBVIOUS
  <2>1. PICK m \in 0..L, n \in 0..L : k = m * MaxCalls /\ l = n * MaxCalls
    BY DEF Starts
  <2>2. k + MaxCalls <= l
    BY <1>2, <1>5, <2>1, StartsApart
  <2>3. PICK a \in 1..size(k) : x = chunk(k)[a]
    BY <1>3 DEF ToSet
  <2>4. PICK b \in 1..size(l) : x = chunk(l)[b]
    BY <1>3 DEF ToSet
  <2>5. /\ MaxCalls \in Nat /\ k \in 0..(L - 1) /\ l \in 0..(L - 1)
        /\ a \in Nat /\ b \in Nat /\ 1 <= a /\ 1 <= b
        /\ a <= MaxCalls /\ k + a <= L /\ l + b <= L
    <3>1. MaxCalls \in Nat
      BY AnswersAssumption DEF AnswersAssumption
    <3>2. k \in 0..(L - 1) /\ size(k) \in 1..MaxCalls /\ k + size(k) <= L
      BY <1>3
    <3>3. l \in 0..(L - 1) /\ size(l) \in 1..MaxCalls /\ l + size(l) <= L
      BY <1>3
    <3> HIDE DEF L
    <3> QED
      BY <1>2, <3>1, <3>2, <3>3
  <2>6. s[k + a] = s[l + b]
    BY <1>3, <2>3, <2>4
  <2> HIDE DEF L
  <2>7. k + a \in 1..L /\ l + b \in 1..L /\ k + a < l + b
    BY <1>2, <2>2, <2>5
  <2> QED
    BY <1>2, <2>6, <2>7
<1>6. ASSUME NEW k \in Starts(s), NEW l \in Starts(s), ToSet(chunk(k)) \cap ToSet(chunk(l)) # {}
      PROVE  k = l
  <2>1. ~ (k < l) /\ ~ (l < k)
    BY <1>5, <1>6
  <2>2. k \in Int /\ l \in Int
    BY <1>2, <1>3
  <2> QED
    BY <2>1, <2>2
<1>7. ASSUME NEW c \in Chunks(s)
      PROVE  /\ Len(c) \in 1..MaxCalls
             /\ \A a, b \in DOMAIN c : a < b => c[a] < c[b]
  <2>1. PICK k \in Starts(s) : c = chunk(k)
    BY <1>1
  <2> QED
    BY <1>3, <1>4, <2>1
<1>8. ASSUME NEW c \in Chunks(s), NEW d \in Chunks(s), ToSet(c) \cap ToSet(d) # {} PROVE c = d
  <2>1. PICK k \in Starts(s) : c = chunk(k)
    BY <1>1
  <2>2. PICK l \in Starts(s) : d = chunk(l)
    BY <1>1
  <2> QED
    BY <1>6, <1>8, <2>1, <2>2
<1> QED
  BY <1>7, <1>8

-----------------------------------------------------------------------------
(* To the upstream and back.                                               *)

Item == [id : Id, read : Read]

\* The calls of one tag.
Group(reqs, t) == {j \in Eligible(reqs) : BlockTag(reqs[j].read) = t}

\* The calls of a tag, each once and in order (aggregateEthCalls).
LEMMA Grouped ==
  ASSUME NEW reqs \in Seq(Item), NEW t
  PROVE  LET s == OfTag(reqs, t)
         IN  /\ s \in Seq(DOMAIN reqs) /\ s \in Seq(Nat)
             /\ ToSet(s) = Group(reqs, t)
             /\ \A j \in Group(reqs, t) : \E m \in 1..Len(s) : s[m] = j
             /\ \A a, b \in 1..Len(s) : a < b => s[a] < s[b]
<1> DEFINE n == Len(reqs)
           G == Group(reqs, t)
           s == InOrder(G)
           N == Cardinality(G)
<1>1. n \in Nat /\ DOMAIN reqs = 1..n
  OBVIOUS
<1>2. G \in SUBSET (1..n) /\ OfTag(reqs, t) = s
  BY <1>1 DEF Eligible, OfTag, Group
<1> HIDE DEF G
<1>3. /\ N \in Nat /\ s \in [1..N -> G]
      /\ \A j \in G : \E m \in 1..N : s[m] = j
      /\ \A a, b \in 1..N : a < b => s[a] < s[b]
  <2>1. /\ N \in Nat /\ s \in [1..N -> G]
        /\ \A a, b \in 1..N : a < b => s[a] < s[b]
    BY <1>1, <1>2, Ordered
  <2>2. \A j \in G : \E m \in 1..N : s[m] = j
    BY <1>1, <1>2, OrderedOnce
  <2> QED
    BY <2>1, <2>2
<1> HIDE DEF s, N
<1>4. s \in Seq(G) /\ Len(s) = N /\ DOMAIN s = 1..N
  BY <1>3
<1>5. s \in Seq(DOMAIN reqs) /\ s \in Seq(Nat)
  <2>1. G \subseteq DOMAIN reqs /\ G \subseteq Nat
    BY <1>1, <1>2
  <2> QED
    BY <1>4, <2>1
<1>6. ToSet(s) = G
  BY <1>3, <1>4 DEF ToSet
<1> QED
  BY <1>2, <1>3, <1>4, <1>5, <1>6 DEF G

\* Of the upstream requests that a batch becomes, each stands for positions of the
\* batch, of one block tag if it is a multicall; and none is left out
\* (aggregateEthCalls).
LEMMA Aggregated ==
  ASSUME NEW reqs \in Seq(Item)
  PROVE  /\ \A q \in aggregateEthCalls(reqs) :
              /\ q \in Seq(DOMAIN reqs)
              /\ Len(q) > 1 =>
                   \A k, l \in ToSet(q) : BlockTag(reqs[k].read) = BlockTag(reqs[l].read)
         /\ \A j \in DOMAIN reqs : \E q \in aggregateEthCalls(reqs) : j \in ToSet(q)
<1> DEFINE n == Len(reqs)
           tag(j) == BlockTag(reqs[j].read)
           Alone == {<<j>> : j \in DOMAIN reqs \ Eligible(reqs)}
           Packed == UNION {Chunks(OfTag(reqs, tag(j))) : j \in Eligible(reqs)}
<1>1. n \in Nat /\ DOMAIN reqs = 1..n
  OBVIOUS
<1>2. ASSUME NEW j \in DOMAIN reqs
      PROVE  /\ <<j>> \in Seq(DOMAIN reqs) /\ Len(<<j>>) = 1 /\ j \in ToSet(<<j>>)
  BY DEF ToSet
<1>3. ASSUME NEW t
      PROVE  /\ OfTag(reqs, t) \in Seq(DOMAIN reqs)
             /\ ToSet(OfTag(reqs, t)) = Group(reqs, t)
             /\ \A j \in Group(reqs, t) : \E m \in 1..Len(OfTag(reqs, t)) : OfTag(reqs, t)[m] = j
  BY Grouped
<1>4. ASSUME NEW j \in Eligible(reqs)
      PROVE  /\ \A q \in Chunks(OfTag(reqs, tag(j))) :
                  q \in Seq(DOMAIN reqs) /\ \A k \in ToSet(q) : tag(k) = tag(j)
             /\ \E q \in Chunks(OfTag(reqs, tag(j))) : j \in ToSet(q)
  <2> DEFINE s == OfTag(reqs, tag(j))
  <2>1. /\ s \in Seq(DOMAIN reqs)
        /\ ToSet(s) = Group(reqs, tag(j))
        /\ \E m \in 1..Len(s) : s[m] = j
    <3>1. j \in Group(reqs, tag(j))
      BY DEF Group
    <3> QED
      BY <1>3, <3>1
  <2>2. \A k \in ToSet(s) : tag(k) = tag(j)
    BY <2>1 DEF Group
  <2> HIDE DEF s, tag
  <2>3. /\ \A c \in Chunks(s) : c \in Seq(DOMAIN reqs) /\ ToSet(c) \subseteq ToSet(s)
        /\ \A m \in 1..Len(s) : \E c \in Chunks(s) : s[m] \in ToSet(c)
    BY <2>1, Chunked
  <2> QED
    BY <2>1, <2>2, <2>3 DEF s
<1>5. CASE Aggregates(reqs)
  <2>1. aggregateEthCalls(reqs) = Alone \cup Packed
    BY <1>5 DEF aggregateEthCalls
  <2>2. Eligible(reqs) \subseteq DOMAIN reqs
    BY DEF Eligible
  <2>3. ASSUME NEW q \in Packed
        PROVE  q \in Seq(DOMAIN reqs) /\ \A k, l \in ToSet(q) : tag(k) = tag(l)
    <3>1. PICK j \in Eligible(reqs) : q \in Chunks(OfTag(reqs, tag(j)))
      BY <2>3
    <3> HIDE DEF tag
    <3> QED
      BY <1>4, <3>1
  <2>4. ASSUME NEW q \in Alone PROVE q \in Seq(DOMAIN reqs) /\ ~ (Len(q) > 1)
    <3>1. PICK j \in DOMAIN reqs : q = <<j>>
      BY <2>4
    <3> QED
      BY <1>2, <3>1
  <2>5. ASSUME NEW j \in DOMAIN reqs PROVE \E q \in Alone \cup Packed : j \in ToSet(q)
    <3>1. CASE j \in Eligible(reqs)
      BY <1>4, <3>1
    <3>2. CASE j \notin Eligible(reqs)
      BY <1>2, <3>2
    <3> QED
      BY <3>1, <3>2
  <2> HIDE DEF Alone, Packed
  <2> QED
    BY <2>1, <2>3, <2>4, <2>5
<1>6. CASE ~ Aggregates(reqs)
  <2>1. aggregateEthCalls(reqs) = {<<j>> : j \in DOMAIN reqs}
    BY <1>6 DEF aggregateEthCalls
  <2>2. ASSUME NEW q \in aggregateEthCalls(reqs)
        PROVE  q \in Seq(DOMAIN reqs) /\ ~ (Len(q) > 1)
    <3>1. PICK j \in DOMAIN reqs : q = <<j>>
      BY <2>1
    <3> QED
      BY <1>2, <3>1
  <2>3. \A j \in DOMAIN reqs : <<j>> \in aggregateEthCalls(reqs) /\ j \in ToSet(<<j>>)
    BY <1>2, <2>1
  <2> QED
    BY <2>2, <2>3
<1> QED
  BY <1>5, <1>6

\* Every request of a batch goes upstream exactly once, alone or as a call of one
\* multicall; a multicall keeps the order of its calls and has MaxCalls at most
\* (aggregateEthCalls).
THEOREM PackedOnce ==
  ASSUME NEW reqs \in Seq(Item)
  PROVE  /\ \A q \in aggregateEthCalls(reqs) :
              /\ Len(q) \in 1..MaxCalls
              /\ \A a, b \in DOMAIN q : a < b => q[a] < q[b]
         /\ \A j \in DOMAIN reqs : \E q \in aggregateEthCalls(reqs) :
              \A p \in aggregateEthCalls(reqs) : j \in ToSet(p) <=> p = q
<1> DEFINE n == Len(reqs)
           up == aggregateEthCalls(reqs)
           tag(j) == BlockTag(reqs[j].read)
           Alone == {<<j>> : j \in DOMAIN reqs \ Eligible(reqs)}
           Packed == UNION {Chunks(OfTag(reqs, tag(j))) : j \in Eligible(reqs)}
           Fits(q) == /\ Len(q) \in 1..MaxCalls
                      /\ \A a, b \in DOMAIN q : a < b => q[a] < q[b]
<1>1. n \in Nat /\ DOMAIN reqs = 1..n /\ Eligible(reqs) \subseteq DOMAIN reqs
  BY DEF Eligible
<1>2. ASSUME NEW j \in DOMAIN reqs PROVE Fits(<<j>>) /\ ToSet(<<j>>) = {j}
  BY AnswersAssumption DEF AnswersAssumption, ToSet
<1>3. ASSUME NEW t
      PROVE  /\ \A q \in Chunks(OfTag(reqs, t)) :
                  Fits(q) /\ ToSet(q) \subseteq Group(reqs, t)
             /\ \A p, q \in Chunks(OfTag(reqs, t)) : ToSet(p) \cap ToSet(q) # {} => p = q
  <2> DEFINE s == OfTag(reqs, t)
  <2>1. /\ s \in Seq(DOMAIN reqs) /\ s \in Seq(Nat) /\ ToSet(s) = Group(reqs, t)
        /\ \A a, b \in 1..Len(s) : a < b => s[a] < s[b]
    BY Grouped
  <2> HIDE DEF s
  <2>2. \A q \in Chunks(s) : ToSet(q) \subseteq ToSet(s)
    BY <2>1, Chunked
  <2>3. /\ \A q \in Chunks(s) : Fits(q)
        /\ \A p, q \in Chunks(s) : ToSet(p) \cap ToSet(q) # {} => p = q
    BY <2>1, ChunksApart
  <2> HIDE DEF Fits
  <2> QED
    BY <2>1, <2>2, <2>3 DEF s
<1> HIDE DEF Fits
<1>4. CASE Aggregates(reqs)
  <2>1. up = Alone \cup Packed
    BY <1>4 DEF aggregateEthCalls
  <2>2. ASSUME NEW q \in Packed
        PROVE  /\ Fits(q)
               /\ \E t : q \in Chunks(OfTag(reqs, t)) /\ ToSet(q) \subseteq Group(reqs, t)
    <3>1. PICK j \in Eligible(reqs) : q \in Chunks(OfTag(reqs, tag(j)))
      BY <2>2
    <3> QED
      BY <1>3, <3>1
  <2>3. ASSUME NEW q \in Alone
        PROVE  Fits(q) /\ \E j \in DOMAIN reqs \ Eligible(reqs) : q = <<j>> /\ ToSet(q) = {j}
    <3>1. PICK j \in DOMAIN reqs \ Eligible(reqs) : q = <<j>>
      BY <2>3
    <3> QED
      BY <1>2, <3>1
  <2> HIDE DEF Alone, Packed
  <2>4. ASSUME NEW p \in up, NEW q \in up, NEW j \in ToSet(p), j \in ToSet(q) PROVE p = q
    <3>1. CASE p \in Packed /\ q \in Packed
      <4>1. PICK t : p \in Chunks(OfTag(reqs, t)) /\ ToSet(p) \subseteq Group(reqs, t)
        BY <2>2, <3>1
      <4>2. PICK u : q \in Chunks(OfTag(reqs, u)) /\ ToSet(q) \subseteq Group(reqs, u)
        BY <2>2, <3>1
      <4>3. t = u
        BY <2>4, <4>1, <4>2 DEF Group
      <4> QED
        BY <1>3, <2>4, <4>1, <4>2, <4>3
    <3>2. CASE p \in Packed /\ q \in Alone
      BY <2>2, <2>3, <2>4, <3>2 DEF Group
    <3>3. CASE p \in Alone /\ q \in Packed
      BY <2>2, <2>3, <2>4, <3>3 DEF Group
    <3>4. CASE p \in Alone /\ q \in Alone
      BY <2>3, <2>4, <3>4
    <3> QED
      BY <2>1, <3>1, <3>2, <3>3, <3>4
  <2>5. \A q \in up : Fits(q)
    BY <2>1, <2>2, <2>3
  <2>6. \A j \in DOMAIN reqs : \E q \in up : j \in ToSet(q)
    BY Aggregated
  <2> HIDE DEF up
  <2>7. \A j \in DOMAIN reqs : \E q \in up : \A p \in up : j \in ToSet(p) <=> p = q
    BY <2>4, <2>6
  <2> QED
    BY <2>5, <2>7 DEF up, Fits
<1>5. CASE ~ Aggregates(reqs)
  <2>1. up = {<<j>> : j \in DOMAIN reqs}
    BY <1>5 DEF aggregateEthCalls
  <2>2. \A q \in up : Fits(q)
    BY <1>2, <2>1
  <2>3. ASSUME NEW j \in DOMAIN reqs
        PROVE  \E q \in up : \A p \in up : j \in ToSet(p) <=> p = q
    <3>1. <<j>> \in up
      BY <2>1
    <3>2. ASSUME NEW p \in up PROVE j \in ToSet(p) <=> p = <<j>>
      <4>1. PICK k \in DOMAIN reqs : p = <<k>>
        BY <2>1
      <4>2. ToSet(p) = {k} /\ ToSet(<<j>>) = {j}
        BY <1>2, <4>1
      <4> QED
        BY <4>1, <4>2
    <3> QED
      BY <3>1, <3>2
  <2> HIDE DEF up
  <2> QED
    BY <2>2, <2>3 DEF up, Fits
<1> QED
  BY <1>4, <1>5

\* What the upstream says of a read, at the block it was asked for or at the tip
\* in place of one given by an object, is a result that tells of the read.
LEMMA ToldOf ==
  ASSUME NEW r \in Read, NEW kind \in {"ok", "revert"},
         NEW block \in {BlockOf[r], BlockTag(r)}
  PROVE  LET body == [kind |-> kind, of |-> Subject(CallOf[r], block)]
         IN  body \in Result /\ body \in Body /\ TellsOf(body, r)
<1> DEFINE body == [kind |-> kind, of |-> Subject(CallOf[r], block)]
<1>1. CallOf[r] \in Call /\ BlockOf[r] \in {BlockOf[x] : x \in Read}
  BY DEF Call
<1>2. block \in {Latest} \cup {BlockOf[x] : x \in Read}
  BY <1>1 DEF BlockTag
<1>3. body \in Result
  BY <1>1, <1>2 DEF Result, Subject
<1>4. TellsOf(body, r)
  <2>1. body.of = Subject(CallOf[r], block)
    OBVIOUS
  <2>2. body.of[1] = CallOf[r]
    BY <2>1 DEF Subject
  <2>3. r \notin ByObject => block = BlockOf[r]
    BY DEF BlockTag
  <2> HIDE DEF body
  <2> QED
    BY <2>1, <2>2, <2>3 DEF TellsOf, Own
<1> QED
  BY <1>3, <1>4 DEF Body

\* An error tells of nothing.
LEMMA NothingTold ==
  /\ Error \notin Result /\ Missing \notin Result
  /\ \A r : TellsOf(Error, r) /\ TellsOf(Missing, r)
<1>1. Error \notin Result /\ Missing \notin Result
  BY DEF Result, Error, Missing
<1> QED
  BY <1>1 DEF TellsOf

\* The request that a position of a batch went upstream in has it, and if it is a
\* multicall is executed at the tag of the position's call.
LEMMA Requested ==
  ASSUME NEW reqs \in Seq(Item), NEW j \in DOMAIN reqs
  PROVE  LET up == aggregateEthCalls(reqs)
             q == RequestOf(up, j)
         IN  /\ q \in up /\ q \in Seq(DOMAIN reqs) /\ j \in ToSet(q)
             /\ Len(q) \in Nat \ {0}
             /\ Len(q) > 1 => BlockTag(reqs[q[1]].read) = BlockTag(reqs[j].read)
<1> DEFINE up == aggregateEthCalls(reqs)
           q == RequestOf(up, j)
<1>1. q \in up /\ j \in ToSet(q)
  <2>1. \E p \in up : j \in ToSet(p)
    BY Aggregated
  <2> HIDE DEF up
  <2> QED
    BY <2>1 DEF RequestOf
<1>2. q \in Seq(DOMAIN reqs)
  BY <1>1, Aggregated
<1>3. /\ Len(q) > 1 => \A k, l \in ToSet(q) : BlockTag(reqs[k].read) = BlockTag(reqs[l].read)
  BY <1>1, Aggregated
<1> HIDE DEF q
<1>4. Len(q) \in Nat /\ DOMAIN q = 1..Len(q)
  BY <1>2
<1>5. PICK k \in 1..Len(q) : q[k] = j
  BY <1>1, <1>4 DEF ToSet
<1>6. Len(q) # 0
  BY <1>4, <1>5
<1>7. q[1] \in ToSet(q)
  BY <1>4, <1>6 DEF ToSet
<1> QED
  BY <1>1, <1>2, <1>3, <1>4, <1>6, <1>7 DEF q

\* As many outcomes as were asked for say of each whether it succeeded.
LEMMA OutcomeOf ==
  ASSUME NEW n \in Nat, NEW o \in Outcomes(n), Len(o) = n
  PROVE  \A k \in 1..n : o[k] \in {"ok", "revert"}
<1>1. CASE o = <<>>
  BY <1>1
<1>2. CASE o \in [1..n -> {"ok", "revert"}]
  BY <1>2
<1>3. ASSUME NEW m \in {n - 1, n + 1}, n > 1, o = [k \in 1..m |-> "ok"] PROVE FALSE
  <2>1. m \in Nat /\ m # n
    BY <1>3
  <2>2. Len(o) = m
    BY <1>3, <2>1
  <2> QED
    BY <2>1, <2>2
<1> QED
  BY <1>1, <1>2, <1>3 DEF Outcomes

\* An envelope for the request of a position is unpacked to an error or to what it
\* says of the position's read (expandMulticallResponses).
LEMMA UnpackedOf ==
  ASSUME NEW reqs \in Seq(Item), NEW j \in DOMAIN reqs,
         NEW e \in Envelopes(aggregateEthCalls(reqs)),
         e.id = RequestOf(aggregateEthCalls(reqs), j)
  PROVE  LET body == Unpacked(reqs, RequestOf(aggregateEthCalls(reqs), j), j, e)
         IN  body \in Result \cup {Error} /\ TellsOf(body, reqs[j].read)
<1> DEFINE up == aggregateEthCalls(reqs)
           q == RequestOf(up, j)
           n == Len(q)
<1>1. /\ q \in up /\ q \in Seq(DOMAIN reqs) /\ j \in ToSet(q) /\ n \in Nat \ {0}
      /\ n > 1 => BlockTag(reqs[q[1]].read) = BlockTag(reqs[j].read)
  BY Requested
<1>2. reqs[j].read \in Read
  <2>1. reqs[j] \in Item
    OBVIOUS
  <2> QED
    BY <2>1 DEF Item
<1>3. DOMAIN q = 1..n /\ \A k \in 1..n : q[k] \in DOMAIN reqs
  BY <1>1
<1>4. PICK p \in up : \E o \in Outcomes(Len(p)) : e = [id |-> p, outcome |-> o]
  <2>1. e # [id |-> <<0>>, outcome |-> <<"ok">>]
    <3>1. q # <<0>>
      <4>1. 0 \notin DOMAIN reqs
        OBVIOUS
      <4>2. ToSet(q) \subseteq DOMAIN reqs
        BY <1>3 DEF ToSet
      <4>3. 0 \in ToSet(<<0>>)
        BY DEF ToSet
      <4> QED
        BY <4>1, <4>2, <4>3
    <3> HIDE DEF q
    <3> QED
      BY <3>1 DEF q
  <2> HIDE DEF up
  <2> QED
    BY <2>1 DEF Envelopes, up
<1> DEFINE o == e.outcome
<1>5. p = q /\ o \in Outcomes(n)
  BY <1>4
<1> HIDE DEF q, up, o
<1>6. CASE Len(o) = n
  <2>1. \A k \in 1..n : o[k] \in {"ok", "revert"}
    BY <1>1, <1>5, <1>6, OutcomeOf
  <2>2. EntryIndex(q, j) \in 1..n
    BY <1>1, <1>3 DEF EntryIndex, ToSet
  <2>3. o[EntryIndex(q, j)] \in {"ok", "revert"}
    BY <2>1, <2>2
  <2>4. \E block \in {BlockOf[reqs[j].read], BlockTag(reqs[j].read)} :
          SubjectIn(reqs, q, j) = Subject(CallOf[reqs[j].read], block)
    BY <1>1 DEF SubjectIn
  <2>5. Unpacked(reqs, q, j, e)
          = [kind |-> o[EntryIndex(q, j)], of |-> SubjectIn(reqs, q, j)]
    BY <1>6 DEF Unpacked, o
  <2> QED
    BY <1>2, <2>3, <2>4, <2>5, ToldOf DEF q, up
<1>7. CASE Len(o) # n
  <2>1. Unpacked(reqs, q, j, e) = Error
    BY <1>7 DEF Unpacked, o
  <2> QED
    BY <2>1, NothingTold DEF q, up
<1> QED
  BY <1>6, <1>7

\* A position gets one of the things the upstream said of it, or if nothing was
\* said an error; and what it gets tells of its read (processBatch).
LEMMA DeliveredOf ==
  ASSUME NEW reqs \in Seq(Item), NEW j \in DOMAIN reqs,
         NEW reply \in Replies(aggregateEthCalls(reqs))
  PROVE  LET up == aggregateEthCalls(reqs)
             body == Delivered(reqs, up, reply, j)
             said == Said(reqs, up, reply, j)
         IN  /\ body \in Body /\ TellsOf(body, reqs[j].read)
             /\ body \in IF said = {} THEN {Error, Missing} ELSE said
<1> DEFINE up == aggregateEthCalls(reqs)
           q == RequestOf(up, j)
           ks == Of(reply, q)
           body == Delivered(reqs, up, reply, j)
           unpacked(k) == Unpacked(reqs, q, j, reply[k])
<1>1. PICK m \in 0..MaxReply : reply \in [1..m -> Envelopes(up)]
  BY DEF Replies
<1>2. m \in Nat /\ ks \in SUBSET (1..m)
  BY <1>1, AnswersAssumption DEF Of, AnswersAssumption
<1>3. ASSUME NEW k \in ks
      PROVE  unpacked(k) \in Result \cup {Error} /\ TellsOf(unpacked(k), reqs[j].read)
  <2>1. reply[k] \in Envelopes(up) /\ reply[k].id = q
    BY <1>1, <1>2 DEF Of
  <2> QED
    BY <2>1, UnpackedOf
<1>4. Said(reqs, up, reply, j) = {unpacked(k) : k \in ks}
  BY DEF Said
<1>5. CASE ks = {}
  <2>1. body \in {Error, Missing}
    BY <1>5 DEF Delivered
  <2>2. Said(reqs, up, reply, j) = {}
    BY <1>4, <1>5
  <2> QED
    BY <2>1, <2>2, NothingTold DEF Body
<1>6. CASE ks # {}
  <2>1. Max(ks) \in ks /\ Min(ks) \in ks
    BY <1>2, <1>6, MaxMinIn
  <2>2. body = unpacked(IF Aggregates(reqs) THEN Max(ks) ELSE Min(ks))
    BY <1>6 DEF Delivered
  <2>3. PICK k \in ks : body = unpacked(k)
    BY <2>1, <2>2
  <2> HIDE DEF ks, body, unpacked
  <2>4. Said(reqs, up, reply, j) # {} /\ unpacked(k) \in Said(reqs, up, reply, j)
    BY <1>4
  <2> QED
    BY <1>3, <2>3, <2>4 DEF Body, body
<1> QED
  BY <1>5, <1>6

-----------------------------------------------------------------------------
(* The invariant.                                                          *)

\* What the cache had of a handler's items is theirs.
OwnHits(w, hits) ==
  /\ hits \in Seq(Response \cup {None}) /\ Len(hits) = Len(w.items)
  /\ \A i \in DOMAIN w.items : hits[i] # None /\ (w.form = "calls" \/ hits[i].matched) =>
       hits[i].id = w.items[i].id /\ TellsOf(hits[i].body, w.items[i].read)

WorkOwn ==
  /\ DOMAIN work = Handler
  /\ \A h \in Handler : work[h] # None =>
       /\ work[h].ask \in Asks[h]
       /\ work[h].stage \in {"planning", "fetching"}
       /\ OwnHits(work[h].ask, work[h].hits)

CacheOwn ==
  /\ kept \in [Read -> [body : Success, matched : BOOLEAN] \cup {None}]
  /\ forever \in [Call -> Success \cup {None}]
  /\ reverted \in [Call -> (Result \ Success) \cup {None}]
  /\ KeptIsOwn

AnswerOwn == EachItsOwn /\ (last # None => last.answer \in Seq(Response \cup {None}))

\* The inductive invariant.
OwnInv == WorkOwn /\ CacheOwn /\ AnswerOwn

\* A good answer to w, if said is what there was to say of each item.
IsAnswer(w, answer, said) ==
  /\ answer \in Seq(Response \cup {None}) /\ Len(answer) = Len(w.items)
  /\ \A i \in DOMAIN w.items : answer[i] # None /\ answer[i].matched =>
       /\ answer[i].id = w.items[i].id
       /\ TellsOf(answer[i].body, w.items[i].read)
       /\ answer[i].body \in IF said[i] = {} THEN {Error, Missing} ELSE said[i]

\* What a client may send is a sequence of items.
LEMMA Asked ==
  ASSUME NEW h \in Handler, NEW w \in Asks[h]
  PROVE  /\ w \in Ask /\ w.items \in Seq(Item)
         /\ Len(w.items) \in Nat /\ DOMAIN w.items = 1..Len(w.items)
         /\ \A i \in DOMAIN w.items :
              w.items[i] \in Item /\ w.items[i].id \in Id /\ w.items[i].read \in Read
<1>1. w \in Ask
  BY AnswersAssumption DEF AnswersAssumption
<1>2. w.items \in Seq(Item)
  BY <1>1 DEF Ask, Item
<1> DEFINE items == w.items
<1> HIDE DEF items
<1>3. Len(items) \in Nat /\ DOMAIN items = 1..Len(items) /\ \A i \in DOMAIN items : items[i] \in Item
  BY <1>2 DEF items
<1>4. \A i \in DOMAIN items : items[i].id \in Id /\ items[i].read \in Read
  BY <1>3 DEF Item
<1> QED
  BY <1>1, <1>2, <1>3, <1>4 DEF items

\* An answer that goes out keeps the invariant if it is a good one.
LEMMA GivesOwn ==
  ASSUME NEW w, NEW answer, NEW said, Gives(w, answer, said), IsAnswer(w, answer, said)
  PROVE  AnswerOwn'
  BY DEF Gives, IsAnswer, AnswerOwn, EachItsOwn

\* A step that gives none keeps it.
LEMMA SilentOwn ==
  ASSUME last' = None
  PROVE  AnswerOwn'
  BY DEF AnswerOwn, EachItsOwn

\* So does going on with w, if what is taken from the cache is its own.
LEMMA BusyOwn ==
  ASSUME WorkOwn, NEW h \in Handler, NEW w \in Asks[h], NEW stage \in {"planning", "fetching"},
         NEW hits, OwnHits(w, hits), Busy(h, w, stage, hits)
  PROVE  WorkOwn'
  BY DEF WorkOwn, Busy

\* And being done with it.
LEMMA DoneOwn ==
  ASSUME WorkOwn, NEW h \in Handler, work' = [work EXCEPT ![h] = None]
  PROVE  WorkOwn'
  BY DEF WorkOwn

-----------------------------------------------------------------------------
(* From the cache.                                                         *)

\* Results are bodies that tell of something.
LEMMA Bodies ==
  /\ Success \subseteq Result /\ Result \subseteq Body
  /\ Error \in Body /\ Missing \in Body
  BY DEF Success, Body

\* A response whose request is known is one.
LEMMA MatchedOf ==
  ASSUME NEW id, NEW body
  PROVE  /\ Matched(id, body).id = id /\ Matched(id, body).body = body
         /\ Matched(id, body).matched = TRUE
         /\ id \in Id /\ body \in Body => Matched(id, body) \in Response
  BY DEF Matched, Response

\* What is kept under the key of an item's read is a response to the item, once it
\* has the item's id (cstore.Get, RewriteResponseID).
LEMMA KeptHitOf ==
  ASSUME CacheOwn, NEW item \in Item, KeptHit(item) # None
  PROVE  /\ KeptHit(item) \in Response /\ KeptHit(item).id = item.id
         /\ KeptHit(item).matched => TellsOf(KeptHit(item).body, item.read)
<1> DEFINE r == item.read
<1>1. item.id \in Id /\ r \in Read
  BY DEF Item
<1>2. /\ kept[r] # None
      /\ KeptHit(item) = [id |-> item.id, body |-> kept[r].body, matched |-> kept[r].matched]
  BY DEF KeptHit, RewriteResponseID
<1>3. /\ kept[r] \in [body : Success, matched : BOOLEAN]
      /\ kept[r].matched => TellsOf(kept[r].body, r)
  BY <1>1, <1>2 DEF CacheOwn, KeptIsOwn
<1>4. kept[r].body \in Success /\ kept[r].matched \in BOOLEAN
  BY <1>3
<1> HIDE DEF r
<1> QED
  BY <1>1, <1>2, <1>3, <1>4, Bodies DEF Response, r

\* What is kept of an immutable call is a response to an item of a multicall that
\* makes it (PlanMulticall).
LEMMA SubHitOf ==
  ASSUME CacheOwn, NEW item \in Item, SubHit(item) # None
  PROVE  /\ SubHit(item) \in Response
         /\ SubHit(item).id = item.id /\ TellsOf(SubHit(item).body, item.read)
<1> DEFINE r == item.read
           c == CallOf[r]
<1>1. item.id \in Id /\ r \in Read /\ c \in Call
  BY DEF Item, Call
<1>2. \/ c \in Immutable /\ forever[c] # None /\ SubHit(item) = Matched(item.id, forever[c])
      \/ c \in Immutable /\ reverted[c] # None /\ SubHit(item) = Matched(item.id, reverted[c])
  BY DEF SubHit
<1>3. /\ forever[c] # None => forever[c] \in Result
      /\ reverted[c] # None => reverted[c] \in Result
  BY <1>1, Bodies DEF CacheOwn
<1>4. c \in Immutable =>
        /\ forever[c] # None => TellsOf(forever[c], r)
        /\ reverted[c] # None => TellsOf(reverted[c], r)
  BY <1>1 DEF CacheOwn, KeptIsOwn
<1>5. PICK body \in Result : SubHit(item) = Matched(item.id, body) /\ TellsOf(body, r)
  <2> HIDE DEF c
  <2> QED
    BY <1>2, <1>3, <1>4
<1>6. Matched(item.id, body) \in Response /\ Matched(item.id, body).id = item.id
      /\ Matched(item.id, body).body = body
  <2> HIDE DEF r, c
  <2> QED
    BY <1>1, Bodies DEF Matched, Response
<1> QED
  BY <1>5, <1>6

\* What a handler finds in the cache is its items' own.
LEMMA HitsOwn ==
  ASSUME CacheOwn, NEW h \in Handler, NEW w \in Asks[h]
  PROVE  /\ DOMAIN Hits(w) = DOMAIN w.items
         /\ OwnHits(w, Hits(w)) /\ OwnHits(w, NoHits(w))
<1> DEFINE items == w.items
           n == Len(items)
           hit(i) == IF w.form = "calls" THEN SubHit(items[i]) ELSE KeptHit(items[i])
<1>1. n \in Nat /\ DOMAIN items = 1..n /\ \A i \in 1..n : items[i] \in Item
  BY Asked
<1>2. ASSUME NEW i \in 1..n
      PROVE  /\ hit(i) \in Response \cup {None}
             /\ hit(i) # None /\ (w.form = "calls" \/ hit(i).matched) =>
                  hit(i).id = items[i].id /\ TellsOf(hit(i).body, items[i].read)
  BY <1>1, KeptHitOf, SubHitOf
<1>3. Hits(w) = [i \in 1..n |-> hit(i)] /\ NoHits(w) = [i \in 1..n |-> None]
  BY <1>1 DEF Hits, NoHits
<1> HIDE DEF items, hit, n
<1>4. Hits(w) \in Seq(Response \cup {None}) /\ Len(Hits(w)) = n
  BY <1>1, <1>2, <1>3
<1>5. NoHits(w) \in Seq(Response \cup {None}) /\ Len(NoHits(w)) = n
  BY <1>1, <1>3
<1>6. \A i \in 1..n : Hits(w)[i] = hit(i) /\ NoHits(w)[i] = None
  BY <1>3
<1> QED
  BY <1>1, <1>2, <1>3, <1>4, <1>5, <1>6 DEF OwnHits, items, n

\* A batch served from the cache alone is served well.
LEMMA ServedOwn ==
  ASSUME NEW h \in Handler, NEW w \in Asks[h], NEW hits, OwnHits(w, hits), Missed(hits) = {}
  PROVE  IsAnswer(w, hits, [i \in DOMAIN hits |-> {hits[i].body}])
<1>1. DOMAIN hits = DOMAIN w.items
  BY Asked DEF OwnHits
<1> QED
  BY <1>1 DEF IsAnswer, OwnHits

\* Serving an item or a batch from the cache, or going on with it, keeps the
\* invariant (the "/" handler, Lookup).
LEMMA ArrivesOwn ==
  ASSUME OwnInv, NEW h \in Handler, NEW w \in Asks[h], Arrives(h, w)
  PROVE  OwnInv'
<1>1. WorkOwn /\ CacheOwn
  BY DEF OwnInv
<1>2. CacheOwn'
  BY <1>1 DEF Arrives, cacheVars, CacheOwn, KeptIsOwn
<1>3. OwnHits(w, Hits(w)) /\ OwnHits(w, NoHits(w))
  BY <1>1, HitsOwn
<1>4. CASE Missed(Hits(w)) = {}
  <2>1. Gives(w, Hits(w), [i \in DOMAIN Hits(w) |-> {Hits(w)[i].body}]) /\ UNCHANGED work
    BY <1>4 DEF Arrives
  <2>2. AnswerOwn'
    BY <1>3, <1>4, <2>1, ServedOwn, GivesOwn
  <2>3. WorkOwn'
    BY <1>1, <2>1 DEF WorkOwn
  <2> QED
    BY <1>2, <2>2, <2>3 DEF OwnInv
<1>5. CASE Missed(Hits(w)) # {}
  <2>1. last' = None
    BY <1>5 DEF Arrives
  <2>2. Busy(h, w, "planning", NoHits(w)) \/ Busy(h, w, "fetching", Hits(w))
    BY <1>5 DEF Arrives
  <2>3. WorkOwn'
    BY <1>1, <1>3, <2>2, BusyOwn
  <2> QED
    BY <1>2, <2>1, <2>3, SilentOwn DEF OwnInv
<1> QED
  BY <1>4, <1>5

\* So does planning a multicall.
LEMMA PlanOwn ==
  ASSUME OwnInv, NEW h \in Handler, Plan(h)
  PROVE  OwnInv'
<1>1. WorkOwn /\ CacheOwn
  BY DEF OwnInv
<1>2. CacheOwn'
  BY <1>1 DEF Plan, cacheVars, CacheOwn, KeptIsOwn
<1>3. PICK w \in Asks[h] : w = work[h].ask
  BY <1>1 DEF Plan, WorkOwn
<1>4. OwnHits(w, Hits(w)) /\ OwnHits(w, NoHits(w))
  BY <1>1, HitsOwn
<1>5. Busy(h, w, "fetching", Hits(w)) \/ Busy(h, w, "fetching", NoHits(w))
  BY <1>3 DEF Plan
<1>6. WorkOwn'
  BY <1>1, <1>4, <1>5, BusyOwn
<1>7. AnswerOwn'
  BY SilentOwn DEF Plan
<1> QED
  BY <1>2, <1>6, <1>7 DEF OwnInv

\* If nothing could be fetched, an error for each item is all there is to say.
LEMMA ErrorsOwn ==
  ASSUME NEW h \in Handler, NEW w \in Asks[h]
  PROVE  IsAnswer(w, Errors(w), Nothing(w))
<1>1. /\ Len(w.items) \in Nat /\ DOMAIN w.items = 1..Len(w.items)
      /\ \A i \in DOMAIN w.items : w.items[i].id \in Id
  BY Asked
<1>2. /\ Errors(w) = [i \in 1..Len(w.items) |-> Matched(w.items[i].id, Error)]
      /\ Nothing(w) = [i \in 1..Len(w.items) |-> {}]
  BY <1>1 DEF Errors, ToEach, Nothing
<1>3. \A i \in 1..Len(w.items) : Matched(w.items[i].id, Error) \in Response
  BY <1>1, Bodies, MatchedOf
<1>4. Errors(w) \in Seq(Response \cup {None}) /\ Len(Errors(w)) = Len(w.items)
  BY <1>1, <1>2, <1>3
<1>5. ASSUME NEW i \in 1..Len(w.items)
      PROVE  Errors(w)[i].id = w.items[i].id /\ Errors(w)[i].body = Error /\ Nothing(w)[i] = {}
  <2>1. Errors(w)[i] = Matched(w.items[i].id, Error) /\ Nothing(w)[i] = {}
    BY <1>2
  <2> QED
    BY <2>1 DEF Matched
<1> QED
  BY <1>1, <1>4, <1>5, NothingTold DEF IsAnswer

\* And telling a client that nothing could be fetched.
LEMMA FailsOwn ==
  ASSUME OwnInv, NEW h \in Handler, Fails(h)
  PROVE  OwnInv'
<1>1. WorkOwn /\ CacheOwn
  BY DEF OwnInv
<1>2. CacheOwn'
  BY <1>1 DEF Fails, cacheVars, CacheOwn, KeptIsOwn
<1>3. WorkOwn'
  BY <1>1, DoneOwn DEF Fails
<1>4. PICK w \in Asks[h] : w = work[h].ask
  BY <1>1 DEF Fails, WorkOwn
<1>5. Gives(w, Errors(w), Nothing(w))
  BY <1>4 DEF Fails
<1>6. IsAnswer(w, Errors(w), Nothing(w))
  BY ErrorsOwn
<1>7. AnswerOwn'
  BY <1>5, <1>6, GivesOwn
<1> QED
  BY <1>2, <1>3, <1>7 DEF OwnInv

\* And forgetting an entry.
LEMMA ForgetOwn ==
  ASSUME OwnInv, Forget
  PROVE  OwnInv'
<1>1. WorkOwn'
  BY DEF OwnInv, Forget, WorkOwn
<1>2. AnswerOwn'
  BY SilentOwn DEF Forget
<1>3. CacheOwn'
  <2>1. CASE \E r \in Read : kept' = [kept EXCEPT ![r] = None] /\ UNCHANGED <<forever, reverted>>
    BY <2>1 DEF OwnInv, CacheOwn, KeptIsOwn
  <2>2. CASE \E c \in Call : reverted' = [reverted EXCEPT ![c] = None] /\ UNCHANGED <<kept, forever>>
    BY <2>2 DEF OwnInv, CacheOwn, KeptIsOwn, Call
  <2>3. CASE \E c \in Call : forever' = [forever EXCEPT ![c] = None] /\ UNCHANGED <<kept, reverted>>
    BY <2>3 DEF OwnInv, CacheOwn, KeptIsOwn, Call
  <2> QED
    BY <2>1, <2>2, <2>3 DEF Forget
<1> QED
  BY <1>1, <1>2, <1>3 DEF OwnInv

-----------------------------------------------------------------------------
(* What comes back.                                                        *)

\* uncachedIndices has each missing item at one place, and the requests are those
\* of the items at theirs.
LEMMA Fetched ==
  ASSUME WorkOwn, NEW h \in Handler, work[h] # None
  PROVE  LET hits == work[h].hits
             items == work[h].ask.items
             N == Cardinality(Missed(hits))
         IN  /\ N \in Nat /\ DOMAIN hits = DOMAIN items /\ Missed(hits) \subseteq DOMAIN items
             /\ Uncached(h) \in [1..N -> Missed(hits)]
             /\ \A i \in Missed(hits) :
                  Place(Uncached(h), i) \in 1..N /\ Uncached(h)[Place(Uncached(h), i)] = i
             /\ \A a, b \in 1..N : Uncached(h)[a] = Uncached(h)[b] => a = b
<1> DEFINE w == work[h].ask
           hits == work[h].hits
           S == Missed(hits)
           u == Uncached(h)
<1>1. w \in Asks[h] /\ OwnHits(w, hits)
  BY DEF WorkOwn
<1>2. /\ Len(hits) \in Nat /\ DOMAIN hits = 1..Len(hits) /\ DOMAIN hits = DOMAIN w.items
  BY <1>1, Asked DEF OwnHits
<1>3. S \in SUBSET (1..Len(hits))
  BY <1>2 DEF Missed
<1>4. u = InOrder(S)
  BY DEF Uncached
<1> HIDE DEF hits, S, u
<1>5. /\ Cardinality(S) \in Nat /\ u \in [1..Cardinality(S) -> S]
      /\ \A a, b \in 1..Cardinality(S) : u[a] = u[b] => a = b
      /\ \A i \in S : \E j \in 1..Cardinality(S) : u[j] = i
  <2>1. Cardinality(S) \in Nat /\ InOrder(S) \in [1..Cardinality(S) -> S]
    BY <1>2, <1>3, Ordered
  <2>2. /\ \A a, b \in 1..Cardinality(S) : InOrder(S)[a] = InOrder(S)[b] => a = b
        /\ \A i \in S : \E j \in 1..Cardinality(S) : InOrder(S)[j] = i
    BY <1>2, <1>3, OrderedOnce
  <2> QED
    BY <1>4, <2>1, <2>2
<1>6. \A i \in S : Place(u, i) \in 1..Cardinality(S) /\ u[Place(u, i)] = i
  <2> SUFFICES ASSUME NEW i \in S
               PROVE  Place(u, i) \in 1..Cardinality(S) /\ u[Place(u, i)] = i
    OBVIOUS
  <2>1. DOMAIN u = 1..Cardinality(S)
    BY <1>5
  <2>2. Place(u, i) = CHOOSE j \in 1..Cardinality(S) : u[j] = i
    BY <2>1 DEF Place
  <2>3. PICK j \in 1..Cardinality(S) : u[j] = i
    BY <1>5
  <2> QED
    BY <2>2, <2>3
<1> QED
  BY <1>2, <1>3, <1>5, <1>6 DEF hits, S, u

\* The requests are a sequence of items.
LEMMA RequestsOf ==
  ASSUME WorkOwn, NEW h \in Handler, work[h] # None
  PROVE  /\ Requests(h) \in Seq(Item)
         /\ Len(Requests(h)) = Cardinality(Missed(work[h].hits))
         /\ DOMAIN Requests(h) = 1..Cardinality(Missed(work[h].hits))
         /\ \A j \in DOMAIN Requests(h) : Requests(h)[j] = work[h].ask.items[Uncached(h)[j]]
<1> DEFINE w == work[h].ask
           N == Cardinality(Missed(work[h].hits))
           u == Uncached(h)
<1>1. w \in Asks[h]
  BY DEF WorkOwn
<1>2. N \in Nat /\ u \in [1..N -> Missed(work[h].hits)] /\ Missed(work[h].hits) \subseteq DOMAIN w.items
  BY Fetched
<1>3. Requests(h) = [j \in 1..N |-> w.items[u[j]]]
  BY <1>2 DEF Requests
<1>4. \A j \in 1..N : w.items[u[j]] \in Item
  BY <1>1, <1>2, Asked
<1> HIDE DEF N, u, w
<1> QED
  BY <1>2, <1>3, <1>4 DEF N, u, w

\* If each request has got a response under its id, the order they came in makes no
\* difference, or else they are in order (orderBatchResponses).
LEMMA InOrderAlready ==
  ASSUME NEW reqs \in Seq(Item), NEW responses \in Seq(Response),
         Len(responses) = Len(reqs),
         \A j \in DOMAIN reqs : responses[j].id = reqs[j].id
  PROVE  orderBatchResponses(responses, reqs) = responses
<1> DEFINE n == Len(reqs)
<1>1. n \in Nat /\ DOMAIN reqs = 1..n /\ DOMAIN responses = 1..n
  OBVIOUS
<1>2. CASE IsInjective(Ids(reqs))
  <2>1. \A a, b \in 1..n : reqs[a].id = reqs[b].id => a = b
    BY <1>1, <1>2 DEF IsInjective, Ids
  <2>2. ASSUME NEW j \in 1..n
        PROVE  (CHOOSE r \in ToSet(responses) : r.id = reqs[j].id) = responses[j]
    <3>1. responses[j] \in ToSet(responses) /\ responses[j].id = reqs[j].id
      BY <1>1 DEF ToSet
    <3>2. \A r \in ToSet(responses) : r.id = reqs[j].id => r = responses[j]
      BY <1>1, <2>1 DEF ToSet
    <3> QED
      BY <3>1, <3>2
  <2>3. [j \in DOMAIN reqs |-> CHOOSE r \in ToSet(responses) : r.id = reqs[j].id] = responses
    BY <1>1, <2>2
  <2> QED
    BY <2>3 DEF orderBatchResponses
<1>3. CASE ~ IsInjective(Ids(reqs))
  BY <1>3 DEF orderBatchResponses
<1> QED
  BY <1>2, <1>3

\* What is to be got for each request, unless none is left for it or it cannot be told
\* which is for which: a response to it, which tells of its read, as far as
\* something was said of it.
GoodResponses(reqs, ordered, said) ==
  /\ ordered \in Seq(Response)
  /\ \A j \in DOMAIN reqs : j <= Len(ordered) /\ ordered[j].matched =>
       /\ ordered[j].id = reqs[j].id
       /\ TellsOf(ordered[j].body, reqs[j].read)
       /\ ordered[j].body \in IF said[j] = {} THEN {Error, Missing} ELSE said[j]

\* Merged with what the cache had, it is an answer to the batch.
LEMMA MergedOwn ==
  ASSUME WorkOwn, NEW h \in Handler, work[h] # None, NEW ordered, NEW said,
         GoodResponses(Requests(h), ordered, said)
  PROVE  LET hits == work[h].hits
         IN  IsAnswer(work[h].ask, Merged(h, Uncached(h), ordered),
                      [i \in DOMAIN hits |->
                         IF hits[i] # None THEN {hits[i].body} ELSE said[Place(Uncached(h), i)]])
<1> DEFINE w == work[h].ask
           items == w.items
           n == Len(items)
           hits == work[h].hits
           u == Uncached(h)
           place(i) == Place(u, i)
           merged == Merged(h, u, ordered)
           told == [i \in DOMAIN hits |-> IF hits[i] # None THEN {hits[i].body} ELSE said[place(i)]]
<1>1. w \in Asks[h] /\ OwnHits(w, hits)
  BY DEF WorkOwn
<1>2. n \in Nat /\ DOMAIN items = 1..n /\ DOMAIN hits = 1..n
  BY <1>1, Asked, Fetched
<1>3. /\ DOMAIN merged = 1..n /\ merged = [i \in 1..n |-> merged[i]]
      /\ \A i \in 1..n :
           /\ hits[i] # None => merged[i] = hits[i]
           /\ hits[i] = None /\ place(i) <= Len(ordered) => merged[i] = ordered[place(i)]
           /\ hits[i] = None /\ ~ (place(i) <= Len(ordered)) => merged[i] = None
  BY <1>2 DEF Merged
<1>4. \A i \in 1..n : i \in Missed(hits) <=> hits[i] = None
  BY <1>2 DEF Missed
<1>5. ASSUME NEW i \in 1..n
      PROVE  /\ merged[i] \in Response \cup {None}
             /\ merged[i] # None /\ merged[i].matched =>
                  /\ merged[i].id = items[i].id
                  /\ TellsOf(merged[i].body, items[i].read)
                  /\ merged[i].body \in IF told[i] = {} THEN {Error, Missing} ELSE told[i]
  <2>1. CASE hits[i] = None
    <3> DEFINE j == place(i)
    <3>1. j \in DOMAIN Requests(h) /\ Requests(h)[j] = items[i] /\ j \in Nat \ {0}
      <4>1. i \in Missed(hits)
        BY <1>4, <2>1
      <4>2. j \in DOMAIN Requests(h) /\ Requests(h)[j] = items[i]
        BY <4>1, Fetched, RequestsOf
      <4>3. Requests(h) \in Seq(Item)
        BY RequestsOf
      <4> HIDE DEF j
      <4> QED
        BY <4>2, <4>3
    <3>2. told[i] = said[j]
      BY <1>2, <2>1
    <3>3. CASE j <= Len(ordered)
      <4>1. merged[i] = ordered[j]
        BY <1>3, <2>1, <3>3
      <4>2. ordered[j] \in Response
        <5> HIDE DEF j
        <5> QED
          BY <3>1, <3>3 DEF GoodResponses
      <4> HIDE DEF j, merged, told, items
      <4> QED
        BY <3>1, <3>2, <3>3, <4>1, <4>2 DEF GoodResponses
    <3>4. CASE ~ (j <= Len(ordered))
      <4>1. merged[i] = None
        BY <1>3, <2>1, <3>4
      <4> HIDE DEF merged, told
      <4> QED
        BY <4>1
    <3> QED
      BY <3>3, <3>4
  <2>2. CASE hits[i] # None
    <3>1. hits[i] \in Response
      BY <1>1, <1>2, <2>2 DEF OwnHits
    <3>2. merged[i] = hits[i] /\ told[i] = {hits[i].body}
      BY <1>2, <1>3, <2>2
    <3> HIDE DEF merged, told
    <3> QED
      BY <1>1, <1>2, <3>1, <3>2 DEF OwnHits
  <2> QED
    BY <2>1, <2>2
<1>6. merged \in Seq(Response \cup {None}) /\ Len(merged) = n
  <2>1. merged \in [1..n -> Response \cup {None}]
    <3> HIDE DEF merged, n
    <3> QED
      BY <1>3, <1>5
  <2> HIDE DEF merged, n
  <2> QED
    BY <1>2, <2>1
<1> HIDE DEF merged, told, n
<1> QED
  BY <1>2, <1>5, <1>6 DEF IsAnswer, n, merged, told

\* What is then kept of it is kept under its own keys (cstore.Put as called by the "/"
\* handler).
LEMMA KeptAfterOwn ==
  ASSUME OwnInv, NEW h \in Handler, work[h] # None, NEW merged, NEW said,
         IsAnswer(work[h].ask, merged, said), kept' = KeptAfter(h, merged),
         UNCHANGED <<forever, reverted>>
  PROVE  CacheOwn'
<1> DEFINE items == work[h].ask.items
           n == Len(items)
           puts(r) == {i \in Missed(work[h].hits) :
                         /\ items[i].read = r /\ r \in Cached
                         /\ merged[i] # None /\ Cacheable(merged[i].body)}
           put(response) == [body |-> response.body, matched |-> response.matched]
<1>1. work[h].ask \in Asks[h] /\ CacheOwn /\ WorkOwn
  BY DEF OwnInv, WorkOwn
<1>2. n \in Nat /\ DOMAIN items = 1..n /\ Missed(work[h].hits) \subseteq 1..n
  <2>1. n \in Nat /\ DOMAIN items = 1..n
    BY <1>1, Asked
  <2>2. Missed(work[h].hits) \subseteq DOMAIN items
    BY <1>1, Fetched
  <2> QED
    BY <2>1, <2>2
<1>3. kept' = [r \in Read |-> IF puts(r) = {} THEN kept[r] ELSE put(merged[Max(puts(r))])]
  BY DEF KeptAfter
<1>4. ASSUME NEW r \in Read
      PROVE  /\ kept'[r] \in [body : Success, matched : BOOLEAN] \cup {None}
             /\ kept'[r] # None /\ kept'[r].matched => TellsOf(kept'[r].body, r)
  <2>1. CASE puts(r) = {}
    <3>1. kept'[r] = kept[r]
      BY <1>3, <2>1
    <3> QED
      BY <1>1, <3>1 DEF CacheOwn, KeptIsOwn
  <2>2. CASE puts(r) # {}
    <3>1. puts(r) \in SUBSET (1..n)
      BY <1>2
    <3> DEFINE m == Max(puts(r))
    <3>2. m \in puts(r)
      <4> HIDE DEF puts, n
      <4> QED
        BY <1>2, <2>2, <3>1, MaxMinIn
    <3>3. kept'[r] = put(merged[m])
      BY <1>3, <2>2
    <3> HIDE DEF m
    <3>4. /\ m \in 1..n /\ items[m].read = r
          /\ merged[m] # None /\ merged[m].body \in Success
      BY <3>1, <3>2 DEF Cacheable
    <3>5. /\ merged[m] \in Response
          /\ merged[m].matched => TellsOf(merged[m].body, r)
      BY <1>2, <3>4 DEF IsAnswer
    <3>6. merged[m].matched \in BOOLEAN
      BY <3>5 DEF Response
    <3>7. kept'[r] = [body |-> merged[m].body, matched |-> merged[m].matched]
      BY <3>3
    <3> QED
      BY <3>4, <3>5, <3>6, <3>7
  <2> QED
    BY <2>1, <2>2
<1>5. kept' \in [Read -> [body : Success, matched : BOOLEAN] \cup {None}]
  <2>1. kept' = [r \in Read |-> kept'[r]]
    BY <1>3
  <2> QED
    BY <1>4, <2>1
<1> QED
  BY <1>1, <1>4, <1>5 DEF CacheOwn, KeptIsOwn

\* So completing a batch keeps the invariant, if the responses are good once in order.
LEMMA CompletesOwn ==
  ASSUME OwnInv, NEW h \in Handler, work[h] # None, NEW responses, NEW said,
         GoodResponses(Requests(h), orderBatchResponses(responses, Requests(h)), said),
         Completes(h, responses, said)
  PROVE  OwnInv'
<1> DEFINE w == work[h].ask
           hits == work[h].hits
           merged == Merged(h, Uncached(h), orderBatchResponses(responses, Requests(h)))
           told == [i \in DOMAIN hits |->
                      IF hits[i] # None THEN {hits[i].body} ELSE said[Place(Uncached(h), i)]]
<1>1. /\ Gives(w, merged, told) /\ kept' = KeptAfter(h, merged)
      /\ work' = [work EXCEPT ![h] = None] /\ UNCHANGED <<forever, reverted>>
  BY DEF Completes
<1>2. IsAnswer(w, merged, told)
  BY MergedOwn DEF OwnInv
<1> HIDE DEF merged, told
<1>3. CacheOwn'
  BY <1>1, <1>2, KeptAfterOwn
<1>4. AnswerOwn'
  BY <1>1, <1>2, GivesOwn
<1>5. WorkOwn'
  BY <1>1, DoneOwn DEF OwnInv
<1> QED
  BY <1>3, <1>4, <1>5 DEF OwnInv

\* Unpacking and ordering what came back of a batch keeps the invariant
\* (processBatchRequest).
LEMMA BatchReplyOwn ==
  ASSUME OwnInv, NEW h \in Handler, BatchReply(h)
  PROVE  OwnInv'
<1> DEFINE reqs == Requests(h)
           up == aggregateEthCalls(reqs)
           n == Len(reqs)
<1>1. work[h] # None
  BY DEF BatchReply, Fetching
<1>2. reqs \in Seq(Item) /\ n \in Nat /\ DOMAIN reqs = 1..n
  <2>1. reqs \in Seq(Item)
    BY <1>1, RequestsOf DEF OwnInv
  <2> HIDE DEF reqs
  <2> QED
    BY <2>1
<1>3. PICK reply \in Replies(up) :
        Completes(h, Responses(reqs, up, reply), [j \in DOMAIN reqs |-> Said(reqs, up, reply, j)])
  BY DEF BatchReply
<1> DEFINE responses == Responses(reqs, up, reply)
           said == [j \in DOMAIN reqs |-> Said(reqs, up, reply, j)]
<1>4. responses = [j \in 1..n |-> Matched(reqs[j].id, Delivered(reqs, up, reply, j))]
  BY <1>2 DEF Responses
<1> HIDE DEF reqs
<1>5. \A j \in 1..n : reqs[j].id \in Id
  <2>1. \A j \in 1..n : reqs[j] \in Item
    BY <1>2
  <2> QED
    BY <2>1 DEF Item
<1>6. ASSUME NEW j \in 1..n
      PROVE  /\ responses[j] \in Response /\ responses[j].id = reqs[j].id
             /\ TellsOf(responses[j].body, reqs[j].read)
             /\ responses[j].body \in IF said[j] = {} THEN {Error, Missing} ELSE said[j]
  <2>1. /\ Delivered(reqs, up, reply, j) \in Body
        /\ TellsOf(Delivered(reqs, up, reply, j), reqs[j].read)
        /\ Delivered(reqs, up, reply, j)
             \in IF Said(reqs, up, reply, j) = {} THEN {Error, Missing} ELSE Said(reqs, up, reply, j)
    BY <1>2, DeliveredOf
  <2>2. said[j] = Said(reqs, up, reply, j)
    BY <1>2
  <2> HIDE DEF said, up, responses
  <2> QED
    <3> DEFINE body == Delivered(reqs, up, reply, j)
    <3>1. responses[j] = Matched(reqs[j].id, body)
      BY <1>4
    <3> HIDE DEF body
    <3>2. /\ responses[j] \in Response /\ responses[j].id = reqs[j].id
          /\ responses[j].body = body
      BY <1>5, <2>1, <3>1 DEF body, Matched, Response
    <3> QED
      BY <2>1, <2>2, <3>2 DEF body
<1>7. responses \in Seq(Response) /\ Len(responses) = n
  <2> HIDE DEF responses, n
  <2>1. responses \in [1..n -> Response]
    BY <1>4, <1>6
  <2> QED
    BY <1>2, <2>1
<1>8. orderBatchResponses(responses, reqs) = responses
  <2> HIDE DEF responses
  <2> QED
    BY <1>2, <1>6, <1>7, InOrderAlready
<1>9. GoodResponses(reqs, orderBatchResponses(responses, reqs), said)
  <2> HIDE DEF responses, said
  <2> QED
    BY <1>2, <1>6, <1>7, <1>8 DEF GoodResponses
<1> HIDE DEF responses, said
<1> QED
  BY <1>1, <1>3, <1>9, CompletesOwn DEF reqs, responses, said

\* Whatever the order in which the responses to a batch come, each under the id of
\* its request and no two requests under one, they end in the order of the requests
\* (orderBatchResponses).
THEOREM OrderRestored ==
  ASSUME NEW reqs \in Seq(Item),
         \A i, j \in DOMAIN reqs : reqs[i].id = reqs[j].id => i = j,
         NEW sent \in Seq(Response), Len(sent) = Len(reqs),
         \A j \in DOMAIN reqs : sent[j].id = reqs[j].id,
         NEW p \in [DOMAIN reqs -> DOMAIN reqs], IsInjective(p)
  PROVE  orderBatchResponses([k \in DOMAIN reqs |-> sent[p[k]]], reqs) = sent
<1> DEFINE n == Len(reqs)
           came == [k \in DOMAIN reqs |-> sent[p[k]]]
<1>1. /\ n \in Nat /\ DOMAIN reqs = 1..n /\ DOMAIN sent = 1..n /\ DOMAIN came = 1..n
      /\ p \in [1..n -> 1..n] /\ \A k \in 1..n : came[k] = sent[p[k]]
  OBVIOUS
<1>2. \A j \in 1..n : \E k \in 1..n : p[k] = j
  <2>1. p \in Injection(1..n, 1..n)
    BY <1>1 DEF Injection
  <2>2. IsFiniteSet(1..n)
    BY <1>1, FS_Interval
  <2>3. p \in Surjection(1..n, 1..n)
    BY <2>1, <2>2, FS_Injection
  <2> QED
    BY <2>3 DEF Surjection
<1>3. \A j, k \in 1..n : reqs[j].id = reqs[k].id => j = k
  BY <1>1
<1>4. \A j, k \in 1..n : p[j] = p[k] => j = k
  BY <1>1 DEF IsInjective
<1>5. \A j \in 1..n : sent[j].id = reqs[j].id
  BY <1>1
<1> HIDE DEF n, came
<1>6. ASSUME NEW j \in 1..n
      PROVE  (CHOOSE r \in ToSet(came) : r.id = reqs[j].id) = sent[j]
  <2>1. PICK k \in 1..n : p[k] = j
    BY <1>2
  <2>2. came[k] \in ToSet(came) /\ came[k] = sent[j]
    BY <1>1, <2>1 DEF ToSet
  <2>3. ASSUME NEW r \in ToSet(came), r.id = reqs[j].id PROVE r = sent[j]
    <3>1. PICK l \in 1..n : r = sent[p[l]]
      BY <1>1 DEF ToSet
    <3>2. p[l] \in 1..n
      BY <1>1
    <3>3. reqs[p[l]].id = reqs[j].id
      BY <1>5, <2>3, <3>1, <3>2
    <3>4. p[l] = j
      BY <1>3, <3>2, <3>3
    <3> QED
      BY <3>1, <3>4
  <2> QED
    BY <1>5, <2>2, <2>3
<1> DEFINE asked == Ids(reqs)
           told == Ids(came)
<1>7. /\ DOMAIN asked = 1..n /\ DOMAIN told = 1..n
      /\ \A k \in 1..n : asked[k] = reqs[k].id /\ told[k] = reqs[p[k]].id /\ p[k] \in 1..n
  BY <1>1, <1>5 DEF Ids
<1> HIDE DEF asked, told
<1>8. IsInjective(asked) /\ IsInjective(told)
  <2>1. \A j, k \in 1..n : asked[j] = asked[k] => j = k
    BY <1>3, <1>7
  <2>2. ASSUME NEW j \in 1..n, NEW k \in 1..n, told[j] = told[k] PROVE j = k
    <3>1. p[j] \in 1..n /\ p[k] \in 1..n /\ reqs[p[j]].id = reqs[p[k]].id
      BY <1>7, <2>2
    <3>2. p[j] = p[k]
      BY <1>3, <3>1
    <3> QED
      BY <1>4, <3>2
  <2> QED
    BY <1>7, <2>1, <2>2 DEF IsInjective
<1>9. ToSet(asked) = ToSet(told)
  <2>1. ASSUME NEW j \in 1..n PROVE asked[j] \in ToSet(told)
    <3>1. PICK k \in 1..n : p[k] = j
      BY <1>2
    <3>2. asked[j] = told[k]
      BY <1>7, <3>1
    <3> QED
      BY <1>7, <3>2 DEF ToSet
  <2>2. ASSUME NEW k \in 1..n PROVE told[k] \in ToSet(asked)
    <3>1. told[k] = asked[p[k]]
      BY <1>7
    <3> QED
      BY <1>7, <3>1 DEF ToSet
  <2> QED
    BY <1>7, <2>1, <2>2 DEF ToSet
<1>10. orderBatchResponses(came, reqs) =
        [j \in DOMAIN reqs |-> CHOOSE r \in ToSet(came) : r.id = reqs[j].id]
  <2>1. Len(came) = Len(reqs)
    BY <1>1 DEF came, n
  <2> QED
    BY <1>8, <1>9, <2>1 DEF orderBatchResponses, asked, told
<1>11. sent = [j \in 1..n |-> sent[j]]
  BY <1>1
<1>12. [j \in DOMAIN reqs |-> CHOOSE r \in ToSet(came) : r.id = reqs[j].id] =
          [j \in 1..n |-> sent[j]]
  BY <1>1, <1>6
<1>13. orderBatchResponses(came, reqs) = sent
  BY <1>10, <1>11, <1>12
<1> QED
  BY <1>13 DEF came

\* If there are as many responses as requests and one under the id of each request, no
\* two of them are under one id.
LEMMA OneEachApart ==
  ASSUME NEW reqs \in Seq(Item), NEW responses \in Seq(Response), OneEach(reqs, responses)
  PROVE  IsInjective(Ids(responses))
<1> DEFINE n == Len(reqs)
           asked == Ids(reqs)
           told == Ids(responses)
           S == ToSet(asked)
<1>1. /\ n \in Nat /\ DOMAIN asked = 1..n /\ DOMAIN told = 1..n
      /\ asked = [j \in 1..n |-> asked[j]] /\ told = [j \in 1..n |-> told[j]]
      /\ IsInjective(asked) /\ ToSet(told) = S
  <2>1. n \in Nat /\ DOMAIN reqs = 1..n /\ DOMAIN responses = 1..n
    BY DEF OneEach
  <2> QED
    BY <2>1 DEF OneEach, Ids
<1>2. S = {asked[j] : j \in 1..n} /\ S = {told[j] : j \in 1..n}
  BY <1>1 DEF ToSet
<1> HIDE DEF asked, told, S
<1>3. asked \in Surjection(1..n, S) /\ told \in Surjection(1..n, S)
  <2>1. asked \in [1..n -> S] /\ told \in [1..n -> S]
    BY <1>1, <1>2
  <2>2. \A x \in S : (\E j \in 1..n : asked[j] = x) /\ (\E j \in 1..n : told[j] = x)
    BY <1>2
  <2> QED
    BY <2>1, <2>2 DEF Surjection
<1>4. asked \in Injection(1..n, S)
  BY <1>1, <1>3 DEF Surjection, Injection
<1> HIDE DEF n
<1>5. IsFiniteSet(1..n)
  <2>1. n \in Int
    BY <1>1
  <2> QED
    BY <2>1, FS_Interval
<1>6. Cardinality(S) = Cardinality(1..n)
  BY <1>3, <1>4, <1>5, FS_Surjection
<1>7. told \in Injection(1..n, S)
  BY <1>3, <1>5, <1>6, FS_Surjection
<1>8. \A a, b \in 1..n : told[a] = told[b] => a = b
  BY <1>7 DEF Injection, IsInjective
<1> QED
  BY <1>1, <1>8 DEF IsInjective, told

\* What has been put in order is some of the responses, or all.  If as many came as there
\* are requests, one under the id of each, each request has one under its id
\* (orderBatchResponses).
LEMMA OrderedFrom ==
  ASSUME NEW reqs \in Seq(Item), NEW responses \in Seq(Response)
  PROVE  LET ordered == orderBatchResponses(responses, reqs)
         IN  /\ ordered \in Seq(Response)
             /\ \A j \in DOMAIN ordered : ordered[j] \in ToSet(responses)
             /\ OneEach(reqs, responses) =>
                  \A j \in DOMAIN reqs : ordered[j].id = reqs[j].id
<1> DEFINE n == Len(reqs)
           ordered == orderBatchResponses(responses, reqs)
           pick(j) == CHOOSE r \in ToSet(responses) : r.id = reqs[j].id
<1>1. n \in Nat /\ DOMAIN reqs = 1..n
  OBVIOUS
<1>2. ToSet(responses) \subseteq Response
  BY DEF ToSet
<1>3. ASSUME ToSet(Ids(reqs)) = ToSet(Ids(responses)), NEW j \in 1..n
      PROVE  pick(j) \in ToSet(responses) /\ pick(j).id = reqs[j].id
  <2>1. reqs[j].id \in ToSet(Ids(responses))
    <3>1. Ids(reqs)[j] \in ToSet(Ids(reqs)) /\ Ids(reqs)[j] = reqs[j].id
      BY <1>1 DEF Ids, ToSet
    <3> QED
      BY <1>3, <3>1
  <2>2. PICK k \in DOMAIN responses : responses[k].id = reqs[j].id
    BY <2>1 DEF Ids, ToSet
  <2>3. responses[k] \in ToSet(responses)
    BY DEF ToSet
  <2> QED
    BY <2>2, <2>3
<1> HIDE DEF n, pick
<1>4. CASE ordered = [j \in 1..n |-> pick(j)] /\ ToSet(Ids(reqs)) = ToSet(Ids(responses))
  <2>1. \A j \in 1..n : ordered[j] \in ToSet(responses) /\ ordered[j].id = reqs[j].id
    <3> HIDE DEF ordered
    <3> QED
      BY <1>3, <1>4
  <2> HIDE DEF ordered
  <2>2. ordered \in [1..n -> Response]
    BY <1>2, <1>4, <2>1
  <2>3. ordered \in Seq(Response) /\ DOMAIN ordered = 1..n
    BY <1>1, <2>2
  <2> QED
    BY <1>1, <2>1, <2>3 DEF ordered
<1>5. CASE ordered = responses /\ ~ OneEach(reqs, responses)
  <2>1. \A j \in DOMAIN responses : responses[j] \in ToSet(responses)
    BY DEF ToSet
  <2> HIDE DEF ordered
  <2> QED
    BY <1>5, <2>1 DEF ordered
<1>6. \/ ordered = [j \in 1..n |-> pick(j)] /\ ToSet(Ids(reqs)) = ToSet(Ids(responses))
      \/ ordered = responses /\ ~ OneEach(reqs, responses)
  <2>1. OneEach(reqs, responses) => IsInjective(Ids(responses))
    BY OneEachApart
  <2>2. ordered = IF /\ Len(responses) = n
                    /\ IsInjective(Ids(reqs)) /\ IsInjective(Ids(responses))
                    /\ ToSet(Ids(reqs)) = ToSet(Ids(responses))
                   THEN [j \in 1..n |-> pick(j)] ELSE responses
    BY <1>1 DEF orderBatchResponses, pick, n
  <2> HIDE DEF ordered
  <2> QED
    BY <2>1, <2>2 DEF OneEach, n
<1> QED
  BY <1>4, <1>5, <1>6

\* So does putting in order the responses to a batch that went upstream as it is: if
\* there is one under the id of each request, each tells whose it is, and if not, no
\* more is said than that they are responses (orderBatchResponses, sendTo).
LEMMA DirectReplyOwn ==
  ASSUME OwnInv, NEW h \in Handler, DirectReply(h)
  PROVE  OwnInv'
<1> DEFINE reqs == Requests(h)
           n == Len(reqs)
<1>1. work[h] # None /\ WorkOwn
  BY DEF DirectReply, Fetching, OwnInv
<1>2. reqs \in Seq(Item) /\ n \in Nat /\ DOMAIN reqs = 1..n
  <2>1. reqs \in Seq(Item)
    BY <1>1, RequestsOf
  <2> HIDE DEF reqs
  <2> QED
    BY <2>1
<1>3. PICK m \in 0..MaxReply : \E reply \in [1..m -> ResponsesTo(reqs)] :
        Completes(h, [k \in 1..m |-> [id |-> reply[k].id, body |-> reply[k].body,
                                     matched |-> OneEach(reqs, reply)]],
                     [j \in DOMAIN reqs |->
                        {reply[k].body : k \in {l \in 1..m : reply[l].id = reqs[j].id}}])
  BY DEF DirectReply
<1>4. PICK reply \in [1..m -> ResponsesTo(reqs)] :
        Completes(h, [k \in 1..m |-> [id |-> reply[k].id, body |-> reply[k].body,
                                     matched |-> OneEach(reqs, reply)]],
                     [j \in DOMAIN reqs |->
                        {reply[k].body : k \in {l \in 1..m : reply[l].id = reqs[j].id}}])
  BY <1>3
<1> DEFINE one == OneEach(reqs, reply)
           responses == [k \in 1..m |-> [id |-> reply[k].id, body |-> reply[k].body,
                                        matched |-> one]]
           said == [j \in DOMAIN reqs |->
                      {reply[k].body : k \in {l \in 1..m : reply[l].id = reqs[j].id}}]
           ordered == orderBatchResponses(responses, reqs)
<1>5. m \in Nat
  BY AnswersAssumption DEF AnswersAssumption
<1> HIDE DEF reqs, n
<1>6. \A j \in 1..n : reqs[j].id \in Id /\ reqs[j].read \in Read
  <2>1. \A j \in 1..n : reqs[j] \in Item
    BY <1>2
  <2> QED
    BY <2>1 DEF Item
<1>7. ASSUME NEW k \in 1..m
      PROVE  \E l \in 1..n : /\ reply[k].id \in {reqs[l].id, None}
                            /\ reply[k].body \in Result /\ TellsOf(reply[k].body, reqs[l].read)
  <2>1. PICK l \in 1..n :
          reply[k] \in [id : {reqs[l].id, None},
                        body : {[kind |-> kind, of |-> Own(reqs[l].read)] : kind \in {"ok", "revert"}}]
    <3>1. reply[k] \in ResponsesTo(reqs)
      OBVIOUS
    <3> QED
      BY <1>2, <3>1 DEF ResponsesTo
  <2>2. PICK kind \in {"ok", "revert"} : reply[k].body = [kind |-> kind, of |-> Own(reqs[l].read)]
    BY <2>1
  <2>3. reply[k].body \in Result /\ TellsOf(reply[k].body, reqs[l].read)
    BY <1>6, <2>2, ToldOf DEF Own
  <2> QED
    BY <2>1, <2>3
<1>8. one \in BOOLEAN
  BY DEF OneEach
<1>9. responses \in Seq(Response) /\ Len(responses) = m /\ DOMAIN responses = 1..m
  <2>1. ASSUME NEW k \in 1..m
        PROVE  [id |-> reply[k].id, body |-> reply[k].body, matched |-> one] \in Response
    <3>1. reply[k].id \in Id \cup {None} /\ reply[k].body \in Body
      BY <1>6, <1>7, Bodies
    <3> HIDE DEF one
    <3> QED
      BY <1>8, <3>1 DEF Response
  <2> HIDE DEF one
  <2>2. responses \in [1..m -> Response]
    BY <2>1
  <2> HIDE DEF responses
  <2> QED
    BY <1>5, <2>2
<1>10. \A k \in 1..m : /\ responses[k].id = reply[k].id /\ responses[k].body = reply[k].body
                      /\ responses[k].matched = one
  <2> HIDE DEF one
  <2> QED
    OBVIOUS
<1>11. one => OneEach(reqs, responses)
  <2>1. Len(reply) = m /\ DOMAIN reply = 1..m
    BY <1>5
  <2>2. Ids(responses) = Ids(reply)
    <3> HIDE DEF responses
    <3> QED
      BY <1>9, <1>10, <2>1 DEF Ids
  <2> HIDE DEF responses
  <2> QED
    BY <1>9, <2>1, <2>2 DEF OneEach, one
<1> HIDE DEF responses, one
<1>12. /\ ordered \in Seq(Response)
       /\ \A j \in DOMAIN ordered : ordered[j] \in ToSet(responses)
       /\ one => \A j \in 1..n : ordered[j].id = reqs[j].id
  BY <1>2, <1>9, <1>11, OrderedFrom
<1> HIDE DEF ordered
<1>13. ASSUME NEW j \in 1..n, j <= Len(ordered), ordered[j].matched
       PROVE  /\ ordered[j].id = reqs[j].id
              /\ TellsOf(ordered[j].body, reqs[j].read)
              /\ ordered[j].body \in said[j]
  <2>1. ordered[j] \in ToSet(responses)
    <3>1. j \in DOMAIN ordered
      BY <1>2, <1>12, <1>13
    <3> QED
      BY <1>12, <3>1
  <2>2. PICK k \in 1..m : ordered[j] = responses[k]
    BY <1>9, <2>1 DEF ToSet
  <2>3. one
    BY <1>10, <1>13, <2>2
  <2>4. reply[k].id = reqs[j].id /\ ordered[j].body = reply[k].body
    BY <1>10, <1>12, <2>2, <2>3
  <2>5. PICK l \in 1..n : reply[k].id \in {reqs[l].id, None} /\ TellsOf(reply[k].body, reqs[l].read)
    BY <1>7
  <2>6. l = j
    <3>1. reqs[l].id = reqs[j].id
      BY <1>6, <2>4, <2>5, AnswersAssumption DEF AnswersAssumption
    <3>2. IsInjective(Ids(reqs))
      BY <2>3 DEF OneEach, one
    <3>3. \A a, b \in 1..n : reqs[a].id = reqs[b].id => a = b
      BY <1>2, <3>2 DEF IsInjective, Ids
    <3> QED
      BY <3>1, <3>3
  <2>7. said[j] = {reply[i].body : i \in {l2 \in 1..m : reply[l2].id = reqs[j].id}}
    BY <1>2
  <2>8. reply[k].body \in said[j]
    BY <2>4, <2>7
  <2> HIDE DEF said
  <2> QED
    BY <1>12, <2>3, <2>4, <2>5, <2>6, <2>8
<1> HIDE DEF said
<1>14. GoodResponses(reqs, ordered, said)
  BY <1>2, <1>12, <1>13 DEF GoodResponses
<1>15. Completes(h, responses, said)
  BY <1>4 DEF responses, said, one
<1> QED
  BY <1>1, <1>14, <1>15, CompletesOwn DEF reqs, ordered

\* So does passing a reply on as it is (sendTo).
LEMMA PassesOnOwn ==
  ASSUME OwnInv, NEW h \in Handler, PassesOn(h)
  PROVE  OwnInv'
<1>1. CacheOwn'
  BY DEF OwnInv, PassesOn, cacheVars, CacheOwn, KeptIsOwn
<1>2. WorkOwn'
  BY DoneOwn DEF OwnInv, PassesOn
<1>3. AnswerOwn'
  BY SilentOwn DEF PassesOn
<1> QED
  BY <1>1, <1>2, <1>3 DEF OwnInv

\* What comes back of a multicall, and what of it is kept for good, is its calls' own
\* (CompleteMulticall, cacheMulticallSubcalls).
LEMMA CallsReplyOwn ==
  ASSUME OwnInv, NEW h \in Handler, CallsReply(h)
  PROVE  OwnInv'
<1> DEFINE w == work[h].ask
           items == w.items
           hits == work[h].hits
           n == Len(items)
           N == Cardinality(Missed(hits))
           place(i) == Place(Uncached(h), i)
<1>1. work[h] # None /\ w \in Asks[h] /\ OwnHits(w, hits) /\ WorkOwn /\ CacheOwn
  BY DEF CallsReply, Fetching, OwnInv, WorkOwn
<1>2. /\ n \in Nat /\ DOMAIN items = 1..n
      /\ \A i \in 1..n : items[i].id \in Id /\ items[i].read \in Read
  BY <1>1, Asked
<1>3. /\ N \in Nat /\ DOMAIN hits = 1..n /\ Missed(hits) \in SUBSET (1..n)
      /\ \A i \in Missed(hits) : place(i) \in 1..N
  BY <1>1, <1>2, Fetched
<1>4. PICK outcome \in Outcomes(N) :
        LET result(i) == [kind |-> outcome[place(i)], of |-> SubjectAsked(h, items[i].read)]
            results == [i \in DOMAIN hits |-> IF hits[i] = None THEN result(i) ELSE hits[i].body]
            said == IF Len(outcome) = N THEN [i \in DOMAIN hits |-> {results[i]}] ELSE Nothing(w)
            of(c, kind) == {i \in Missed(hits) : /\ CallOf[items[i].read] = c
                                                 /\ c \in Immutable
                                                 /\ results[i].kind = kind}
            put(tier, kind) ==
              [c \in Call |-> IF of(c, kind) = {} THEN tier[c] ELSE results[Max(of(c, kind))]]
        IN  IF Len(outcome) = N
              THEN /\ Gives(w, ToEach(w, results), said)
                   /\ forever' = put(forever, "ok")
                   /\ reverted' = put(reverted, "revert")
              ELSE /\ IF Planned(h) THEN Gives(w, Errors(w), said) ELSE last' = None
                   /\ UNCHANGED <<forever, reverted>>
  BY DEF CallsReply, Reduced
<1>5. kept' = kept /\ work' = [work EXCEPT ![h] = None]
  BY DEF CallsReply
<1>6. WorkOwn'
  BY <1>1, <1>5, DoneOwn
<1> DEFINE result(i) == [kind |-> outcome[place(i)], of |-> SubjectAsked(h, items[i].read)]
           results == [i \in DOMAIN hits |-> IF hits[i] = None THEN result(i) ELSE hits[i].body]
           of(c, kind) == {i \in Missed(hits) : /\ CallOf[items[i].read] = c
                                                /\ c \in Immutable
                                                /\ results[i].kind = kind}
           put(tier, kind) ==
             [c \in Call |-> IF of(c, kind) = {} THEN tier[c] ELSE results[Max(of(c, kind))]]
<1>7. CASE Len(outcome) # N
  <2>1. /\ Gives(w, Errors(w), Nothing(w)) \/ last' = None
        /\ UNCHANGED <<forever, reverted>>
    BY <1>4, <1>7
  <2>2. AnswerOwn'
    BY <1>1, <2>1, ErrorsOwn, GivesOwn, SilentOwn
  <2>3. CacheOwn'
    BY <1>1, <1>5, <2>1 DEF CacheOwn, KeptIsOwn
  <2> QED
    BY <1>6, <2>2, <2>3 DEF OwnInv
<1>8. CASE Len(outcome) = N
  <2>1. /\ Gives(w, ToEach(w, results), [i \in DOMAIN hits |-> {results[i]}])
        /\ forever' = put(forever, "ok") /\ reverted' = put(reverted, "revert")
    BY <1>4, <1>8
  <2>2. \A i \in Missed(hits) : outcome[place(i)] \in {"ok", "revert"}
    <3> HIDE DEF place, N
    <3> QED
      BY <1>3, <1>4, <1>8, OutcomeOf
  <2>3. ASSUME NEW i \in Missed(hits)
        PROVE  /\ results[i] \in Result /\ TellsOf(results[i], items[i].read)
               /\ CallOf[items[i].read] \in Immutable =>
                    results[i].of = <<CallOf[items[i].read], None>>
    <3> DEFINE r == items[i].read
    <3>1. r \in Read /\ results[i] = result(i)
      BY <1>2, <1>3 DEF Missed
    <3>2. PICK block \in {BlockOf[r], BlockTag(r)} : SubjectAsked(h, r) = Subject(CallOf[r], block)
      BY DEF SubjectAsked
    <3>3. result(i) = [kind |-> outcome[place(i)], of |-> Subject(CallOf[r], block)]
      BY <3>2
    <3>4. CallOf[r] \in Immutable => Subject(CallOf[r], block) = <<CallOf[r], None>>
      BY DEF Subject
    <3> HIDE DEF result, results, place, r
    <3>5. results[i] \in Result /\ TellsOf(results[i], r)
      BY <2>2, <3>1, <3>3, ToldOf
    <3>6. CallOf[r] \in Immutable => results[i].of = <<CallOf[r], None>>
      BY <3>1, <3>3, <3>4
    <3> QED
      BY <3>5, <3>6 DEF r
  <2>4. ASSUME NEW i \in 1..n
        PROVE  results[i] \in Body /\ TellsOf(results[i], items[i].read)
    <3>1. CASE hits[i] = None
      BY <1>3, <2>3, <3>1, Bodies DEF Missed
    <3>2. CASE hits[i] # None
      <4>1. results[i] = hits[i].body /\ hits[i] \in Response
        BY <1>1, <1>3, <3>2 DEF OwnHits
      <4>2. w.form = "calls"
        BY DEF CallsReply, Fetching
      <4>3. TellsOf(hits[i].body, items[i].read)
        BY <1>1, <1>2, <3>2, <4>2 DEF OwnHits
      <4>4. hits[i].body \in Body
        BY <4>1 DEF Response
      <4> HIDE DEF results, items, hits
      <4> QED
        BY <4>1, <4>3, <4>4
    <3> QED
      BY <3>1, <3>2
  <2>5. AnswerOwn'
    <3> DEFINE answer == ToEach(w, results)
               told == [i \in DOMAIN hits |-> {results[i]}]
    <3>1. answer = [i \in 1..n |-> Matched(items[i].id, results[i])]
      BY <1>3 DEF ToEach
    <3>2. \A i \in 1..n : told[i] = {results[i]}
      BY <1>3
    <3> HIDE DEF results, told, n
    <3>3. answer \in [1..n -> Response]
      <4>1. \A i \in 1..n : Matched(items[i].id, results[i]) \in Response
        BY <1>2, <2>4, MatchedOf
      <4> HIDE DEF answer, items
      <4> QED
        BY <3>1, <4>1
    <3>4. answer \in Seq(Response \cup {None}) /\ Len(answer) = n
      <4> HIDE DEF answer
      <4> QED
        BY <1>2, <3>3
    <3>5. ASSUME NEW i \in DOMAIN items
          PROVE  /\ answer[i].id = items[i].id /\ TellsOf(answer[i].body, items[i].read)
                 /\ answer[i].body \in told[i]
      <4>1. i \in 1..n
        BY <1>2, <3>5
      <4>2. answer[i] = Matched(items[i].id, results[i])
        <5> HIDE DEF answer, items
        <5> QED
          BY <3>1, <4>1
      <4>3. answer[i].id = items[i].id /\ answer[i].body = results[i]
        <5> HIDE DEF answer, items
        <5> QED
          BY <4>2 DEF Matched
      <4>4. TellsOf(results[i], items[i].read) /\ told[i] = {results[i]}
        BY <2>4, <3>2, <4>1
      <4> HIDE DEF answer, items
      <4> QED
        BY <4>3, <4>4
    <3>6. IsAnswer(w, answer, told)
      <4>1. \A i \in DOMAIN items : told[i] # {}
        BY <1>2, <3>2
      <4> HIDE DEF answer
      <4> QED
        BY <3>4, <3>5, <4>1 DEF IsAnswer, n
    <3> QED
      BY <2>1, <3>6, GivesOwn DEF told
  <2>6. ASSUME NEW tier, NEW kind, NEW c \in Call
        PROVE  \/ put(tier, kind)[c] = tier[c]
               \/ /\ c \in Immutable
                  /\ put(tier, kind)[c] \in Result /\ put(tier, kind)[c].kind = kind
                  /\ put(tier, kind)[c].of = <<c, None>>
    <3>1. CASE of(c, kind) = {}
      BY <3>1
    <3>2. CASE of(c, kind) # {}
      <4> DEFINE m == Max(of(c, kind))
      <4>1. m \in of(c, kind)
        <5>1. of(c, kind) \in SUBSET (1..n)
          BY <1>3
        <5> HIDE DEF of, n
        <5> QED
          BY <1>2, <3>2, <5>1, MaxMinIn
      <4>2. put(tier, kind)[c] = results[m]
        BY <3>2
      <4>3. /\ m \in Missed(hits) /\ CallOf[items[m].read] = c /\ c \in Immutable
            /\ results[m].kind = kind
        <5> HIDE DEF results, m
        <5> QED
          BY <4>1
      <4> HIDE DEF put, results, m
      <4> QED
        BY <2>3, <4>2, <4>3
    <3> QED
      BY <3>1, <3>2
  <2> HIDE DEF put
  <2>7. /\ forever' \in [Call -> Success \cup {None}]
        /\ reverted' \in [Call -> (Result \ Success) \cup {None}]
    <3>1. forever' = [c \in Call |-> forever'[c]] /\ reverted' = [c \in Call |-> reverted'[c]]
      <4>1. \A tier, kind : put(tier, kind) = [c \in Call |-> put(tier, kind)[c]]
        <5> HIDE DEF of, results
        <5> QED
          BY DEF put
      <4> QED
        BY <2>1, <4>1
    <3>2. /\ forever \in [Call -> Success \cup {None}]
          /\ reverted \in [Call -> (Result \ Success) \cup {None}]
      BY <1>1 DEF CacheOwn
    <3>3. ASSUME NEW c \in Call PROVE forever'[c] \in Success \cup {None}
      <4>1. forever'[c] = forever[c] \/ (forever'[c] \in Result /\ forever'[c].kind = "ok")
        BY <2>1, <2>6
      <4> QED
        BY <3>2, <4>1 DEF Success
    <3>4. ASSUME NEW c \in Call PROVE reverted'[c] \in (Result \ Success) \cup {None}
      <4>1. reverted'[c] = reverted[c] \/ (reverted'[c] \in Result /\ reverted'[c].kind = "revert")
        BY <2>1, <2>6
      <4> QED
        BY <3>2, <4>1 DEF Success
    <3> QED
      BY <3>1, <3>3, <3>4
  <2>8. ASSUME NEW r \in Read, CallOf[r] \in Immutable
        PROVE  /\ forever'[CallOf[r]] # None => TellsOf(forever'[CallOf[r]], r)
               /\ reverted'[CallOf[r]] # None => TellsOf(reverted'[CallOf[r]], r)
    <3> DEFINE c == CallOf[r]
    <3>1. c \in Call /\ Own(r) = <<c, None>>
      BY <2>8 DEF Call, Own, Subject
    <3>2. /\ forever[c] # None => TellsOf(forever[c], r)
          /\ reverted[c] # None => TellsOf(reverted[c], r)
      BY <1>1, <2>8 DEF CacheOwn, KeptIsOwn
    <3> HIDE DEF c
    <3>3. forever'[c] = forever[c] \/ forever'[c].of = <<c, None>>
      BY <2>1, <2>6, <3>1
    <3>4. reverted'[c] = reverted[c] \/ reverted'[c].of = <<c, None>>
      BY <2>1, <2>6, <3>1
    <3> QED
      BY <3>1, <3>2, <3>3, <3>4 DEF TellsOf, c
  <2>9. CacheOwn'
    BY <1>1, <1>5, <2>7, <2>8 DEF CacheOwn, KeptIsOwn
  <2> QED
    BY <1>6, <2>5, <2>9 DEF OwnInv
<1> QED
  BY <1>7, <1>8

-----------------------------------------------------------------------------
\* The invariant holds in every reachable state.
LEMMA OwnInvariance == Spec => []OwnInv
<1>1. Init => OwnInv
  <2> SUFFICES ASSUME Init PROVE OwnInv
    OBVIOUS
  <2>1. \A r \in Read : CallOf[r] \in Call
    BY DEF Call
  <2>2. KeptIsOwn
    BY <2>1 DEF Init, KeptIsOwn
  <2> QED
    BY <2>2 DEF Init, OwnInv, WorkOwn, CacheOwn, AnswerOwn, EachItsOwn
<1>2. OwnInv /\ [Next]_vars => OwnInv'
  <2> SUFFICES ASSUME OwnInv, [Next]_vars PROVE OwnInv'
    OBVIOUS
  <2>1. CASE UNCHANGED vars
    BY <2>1 DEF vars, cacheVars, OwnInv, WorkOwn, CacheOwn, KeptIsOwn, AnswerOwn, EachItsOwn
  <2>2. ASSUME NEW h \in Handler, NEW w \in Asks[h], Arrives(h, w) PROVE OwnInv'
    BY <2>2, ArrivesOwn
  <2>3. ASSUME NEW h \in Handler, Plan(h) PROVE OwnInv'
    BY <2>3, PlanOwn
  <2>4. ASSUME NEW h \in Handler, BatchReply(h) PROVE OwnInv'
    BY <2>4, BatchReplyOwn
  <2>5. ASSUME NEW h \in Handler, DirectReply(h) PROVE OwnInv'
    BY <2>5, DirectReplyOwn
  <2>6. ASSUME NEW h \in Handler, CallsReply(h) PROVE OwnInv'
    BY <2>6, CallsReplyOwn
  <2>7. ASSUME NEW h \in Handler, Fails(h) PROVE OwnInv'
    BY <2>7, FailsOwn
  <2>8. CASE Forget
    BY <2>8, ForgetOwn
  <2>9. ASSUME NEW h \in Handler, PassesOn(h) PROVE OwnInv'
    BY <2>9, PassesOnOwn
  <2> QED
    BY <2>1, <2>2, <2>3, <2>4, <2>5, <2>6, <2>7, <2>8, <2>9 DEF Next
<1> QED
  BY <1>1, <1>2, PTL DEF Spec

\* Every variable keeps its type: what is kept is a success, or under the negative
\* key a revert (router.go, cache.go).
THEOREM AnswersTypeCorrect == Spec => []TypeOK
<1>1. OwnInv => TypeOK
  BY DEF OwnInv, WorkOwn, OwnHits, CacheOwn, AnswerOwn, TypeOK
<1> QED
  BY <1>1, OwnInvariance, PTL

\* Each item of a batch or a multicall is answered under its id, about its own
\* read, with what the cache or the upstream said of it, however many of them are
\* cached, packed into multicalls, repeated, reordered or left out on the way
\* ("/" handler, processBatchRequest, CompleteMulticall).  Excepted are the block of a
\* read that gives it by an object, and the responses of a reply to a batch sent as it
\* is that does not have one under the id of each request.
THEOREM EachGetsItsOwn == Spec => []EachItsOwn
<1>1. OwnInv => EachItsOwn
  BY DEF OwnInv, AnswerOwn
<1> QED
  BY <1>1, OwnInvariance, PTL

\* No response is ever kept under a key it does not belong to (cstore.Put,
\* PutImmortal, putNegative), but for the same exceptions.
THEOREM KeptUnderItsOwn == Spec => []KeptIsOwn
<1>1. OwnInv => KeptIsOwn
  BY DEF OwnInv, CacheOwn
<1> QED
  BY <1>1, OwnInvariance, PTL
=============================================================================
