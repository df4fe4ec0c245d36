---------------------------- MODULE PagedKVProofs ----------------------------
(***************************************************************************)
(* Proofs about the paged KV pool of module PagedKV, for every number of   *)
(* blocks and slots, every vocabulary, block size and context length.      *)
(*                                                                         *)
(* The inductive invariant KVInv adds to the invariants of PagedKV what    *)
(* they rest on: a slot's blocks cover what it was fed (HeldFits), a block *)
(* in two slots is registered (SharedRegistered), and a registered block   *)
(* of a slot closes a full prefix of that slot's own text (OwnPrefix).     *)
(* Each operation of the pool has a lemma of its own, stated for any       *)
(* caller that respects the operation's precondition.                      *)
(***************************************************************************)
EXTENDS PagedKV, TLAPS, FiniteSetTheorems, SequenceTheorems, WellFoundedInduction

-----------------------------------------------------------------------------
(* Arithmetic of blocks and positions *)

\* The logical block (from 1) of a position (from 1).
LogicalOf(p) == ((p - 1) \div BlockSize) + 1

\* A block has at least one position (DEFAULT_BLOCK_SIZE).
LEMMA BlockSizeNat == BlockSize \in Nat \ {0}
  BY PagedKVAssumption

\* A position is determined by its logical block and its offset.
LEMMA PositionSplit ==
  ASSUME NEW p \in Nat \ {0}
  PROVE  /\ LogicalOf(p) \in Nat \ {0}
         /\ OffsetAt(p) \in 0..(BlockSize - 1)
         /\ p = ((LogicalOf(p) - 1) * BlockSize) + OffsetAt(p) + 1
         /\ BlocksFor(p) = LogicalOf(p)
  BY BlockSizeNat, Z3 DEF LogicalOf, OffsetAt, BlocksFor

\* The converse: the position at offset o of logical block i.
LEMMA PositionJoin ==
  ASSUME NEW i \in Nat \ {0}, NEW o \in 0..(BlockSize - 1)
  PROVE  LET p == ((i - 1) * BlockSize) + o + 1
         IN  p \in Nat \ {0} /\ LogicalOf(p) = i /\ OffsetAt(p) = o
  BY BlockSizeNat, Z3 DEF LogicalOf, OffsetAt

\* A position lies in the first k blocks iff it is at most k * BlockSize.
LEMMA PositionBound ==
  ASSUME NEW p \in Nat \ {0}, NEW k \in Nat
  PROVE  LogicalOf(p) <= k <=> p <= k * BlockSize
  BY BlockSizeNat, Z3 DEF LogicalOf

\* A position lies before the end of its own logical block.
LEMMA PositionBlockEnd ==
  ASSUME NEW p \in Nat \ {0}
  PROVE  LogicalOf(p) * BlockSize \in Nat /\ p <= LogicalOf(p) * BlockSize
  BY BlockSizeNat, Z3 DEF LogicalOf

\* The demand BlocksFor(n) of ensure_blocks is the least number of blocks with
\* room for n positions.
LEMMA BlocksForBound ==
  ASSUME NEW n \in Nat, NEW k \in Nat
  PROVE  /\ BlocksFor(n) \in Nat
         /\ BlocksFor(n) <= k <=> n <= k * BlockSize
  BY BlockSizeNat, Z3 DEF BlocksFor

\* Full blocks of n positions: the logical blocks i with i * BlockSize <= n.
LEMMA FullBlocks ==
  ASSUME NEW n \in Nat
  PROVE  /\ n \div BlockSize \in Nat
         /\ \A i \in Nat : i <= n \div BlockSize <=> i * BlockSize <= n
  BY BlockSizeNat, Z3

\* The block boundary of prefill_prefix_reuse: i whole blocks hold i * BlockSize
\* positions, and back.
LEMMA Product ==
  ASSUME NEW i \in Nat
  PROVE  /\ i * BlockSize \in Nat
         /\ (i * BlockSize) \div BlockSize = i
         /\ i * BlockSize = 0 <=> i = 0
         /\ i # 0 => i * BlockSize = ((i - 1) * BlockSize) + BlockSize
  BY BlockSizeNat, Z3

\* Block boundaries are ordered like the blocks they end.
LEMMA ProductMonotone ==
  ASSUME NEW i \in Nat, NEW j \in Nat
  PROVE  i <= j <=> i * BlockSize <= j * BlockSize
  BY BlockSizeNat, Z3

-----------------------------------------------------------------------------
(* Prefixes of a text *)

\* Length and elements of a prefix of a text.
LEMMA PrefixFacts ==
  ASSUME NEW t \in Seq(Token), NEW n \in 0..Len(t)
  PROVE  /\ SubSeq(t, 1, n) \in Seq(Token)
         /\ Len(SubSeq(t, 1, n)) = n
         /\ \A i \in 1..n : SubSeq(t, 1, n)[i] = t[i]
<1>1. \A i \in 1..n : t[i] \in Token
  BY ElementOfSeq, LenProperties
<1> QED BY <1>1, SubSeqProperties, LenProperties

\* The hash of prefill_prefix_reuse is cumulative: a prefix of a prefix is a
\* prefix of the whole.
LEMMA PrefixOfPrefix ==
  ASSUME NEW t \in Seq(Token), NEW n \in 0..Len(t), NEW m \in 0..n
  PROVE  SubSeq(SubSeq(t, 1, n), 1, m) = SubSeq(t, 1, m)
<1> DEFINE u == SubSeq(t, 1, n)
<1>1. Len(t) \in Nat
  BY LenProperties
<1>2. u \in Seq(Token) /\ Len(u) = n /\ \A i \in 1..n : u[i] = t[i]
  BY PrefixFacts
<1>3. SubSeq(u, 1, m) \in Seq(Token) /\ Len(SubSeq(u, 1, m)) = m
      /\ \A i \in 1..m : SubSeq(u, 1, m)[i] = u[i]
  <2> HIDE DEF u
  <2> QED BY <1>1, <1>2, PrefixFacts
<1>4. m \in 0..Len(t)
  BY <1>1
<1>5. SubSeq(t, 1, m) \in Seq(Token) /\ Len(SubSeq(t, 1, m)) = m
      /\ \A i \in 1..m : SubSeq(t, 1, m)[i] = t[i]
  BY <1>4, PrefixFacts
<1>6. \A i \in 1..m : SubSeq(u, 1, m)[i] = SubSeq(t, 1, m)[i]
  BY <1>1, <1>2, <1>3, <1>5
<1> QED BY <1>3, <1>5, <1>6, SeqEqual

\* A text stays a prefix of itself when it is extended (by a draft, in Feed).
LEMMA ConcatPrefix ==
  ASSUME NEW a \in Seq(Token), NEW d \in Seq(Token)
  PROVE  /\ a \o d \in Seq(Token) /\ Len(a \o d) = Len(a) + Len(d)
         /\ a = SubSeq(a \o d, 1, Len(a))
<1> DEFINE w == a \o d
<1>1. /\ w \in Seq(Token) /\ Len(w) = Len(a) + Len(d)
      /\ \A i \in 1..(Len(a) + Len(d)) : w[i] = IF i <= Len(a) THEN a[i] ELSE d[i - Len(a)]
  BY ConcatProperties
<1>2. Len(a) \in Nat /\ Len(d) \in Nat
  BY LenProperties
<1> HIDE DEF w
<1>3. \A i \in 1..Len(a) : w[i] = a[i]
  BY <1>1, <1>2
<1>4. Len(a) \in 0..Len(w)
  BY <1>1, <1>2
<1>5. /\ SubSeq(w, 1, Len(a)) \in Seq(Token) /\ Len(SubSeq(w, 1, Len(a))) = Len(a)
      /\ \A i \in 1..Len(a) : SubSeq(w, 1, Len(a))[i] = w[i]
  BY <1>1, <1>4, PrefixFacts
<1>6. a = SubSeq(w, 1, Len(a))
  BY <1>3, <1>5, SeqEqual
<1> QED BY <1>1, <1>6 DEF w

-----------------------------------------------------------------------------
(* The longest cached prefix *)

\* A nonempty bounded set of numbers has a largest element.
LEMMA LargestExists ==
  ASSUME NEW m \in Nat, NEW T \in SUBSET (0..m), T # {}
  PROVE  \E x \in T : \A y \in T : y <= x
<1> DEFINE Above(x) == {y \in T : y > x}
           F == {Above(x) : x \in T}
<1>1. IsFiniteSet(T)
  <2>1. IsFiniteSet(0..m)
    BY FS_Interval
  <2> QED BY <2>1, FS_Subset
<1>2. F \subseteq FiniteSubsetsOf(T) /\ F # {}
  <2>1. \A x \in T : IsFiniteSet(Above(x))
    BY <1>1, FS_Subset
  <2> QED BY <2>1 DEF FiniteSubsetsOf
<1>3. \E A \in F : \A C \in F : ~ (<<C, A>> \in StrictSubsetOrdering(T))
  <2> HIDE DEF F
  <2> QED BY <1>2, FS_StrictSubsetOrderingWellFounded, WFMin, Zenon
<1>4. PICK x \in T : \A C \in F : ~ (<<C, Above(x)>> \in StrictSubsetOrdering(T))
  BY <1>3
<1>5. ASSUME NEW y \in T, y > x PROVE FALSE
  <2>1. Above(y) \subseteq Above(x) /\ Above(y) # Above(x)
    <3>1. y \in Above(x) /\ y \notin Above(y)
      BY <1>5
    <3>2. ASSUME NEW z \in Above(y) PROVE z \in Above(x)
      <4>1. z \in Nat /\ y \in Nat /\ x \in Nat /\ z \in T /\ z > y
        OBVIOUS
      <4> QED BY <1>5, <4>1
    <3> QED BY <3>1, <3>2
  <2>2. Above(y) \in SUBSET T /\ Above(x) \in SUBSET T
    OBVIOUS
  <2>3. <<Above(y), Above(x)>> \in StrictSubsetOrdering(T)
    <3> HIDE DEF Above
    <3> QED BY <2>1, <2>2 DEF StrictSubsetOrdering
  <2> QED BY <1>4, <2>3
<1> QED BY <1>5

\* What CachedBlocks returns: a number of blocks short of the whole prompt whose
\* prefixes are all in the cache.
LEMMA CachedBlocksFacts ==
  ASSUME NEW prompt \in Seq(Token), prompt # <<>>
  PROVE  /\ CachedBlocks(prompt) \in Nat
         /\ CachedBlocks(prompt) * BlockSize < Len(prompt)
         /\ \A lb \in 1..CachedBlocks(prompt) : PrefixHash(prompt, lb) \in DOMAIN cacheMap
<1> DEFINE maxReuse == (Len(prompt) - 1) \div BlockSize
           hit == {n \in 0..maxReuse :
                     \A lb \in 1..n : PrefixHash(prompt, lb) \in DOMAIN cacheMap}
<1>1. Len(prompt) - 1 \in Nat
  BY EmptySeq, LenProperties
<1>2. maxReuse \in Nat /\ \A i \in Nat : i <= maxReuse => i * BlockSize <= Len(prompt) - 1
  BY <1>1, FullBlocks
<1>3. hit \in SUBSET (0..maxReuse) /\ 0 \in hit
  BY <1>2
<1>4. \E n \in hit : \A m \in hit : m <= n
  <2> HIDE DEF hit, maxReuse
  <2> QED BY <1>2, <1>3, LargestExists
<1>5. CachedBlocks(prompt) \in hit
  <2>1. CachedBlocks(prompt) = CHOOSE n \in hit : \A m \in hit : m <= n
    BY Zenon DEF CachedBlocks
  <2> HIDE DEF hit
  <2> QED BY <1>4, <2>1
<1>6. CachedBlocks(prompt) \in Nat /\ CachedBlocks(prompt) <= maxReuse
  BY <1>2, <1>5
<1>7. CachedBlocks(prompt) * BlockSize <= Len(prompt) - 1
  <2> HIDE DEF maxReuse
  <2> QED BY <1>2, <1>6
<1>8. CachedBlocks(prompt) * BlockSize \in Nat
  BY <1>6, Product
<1> QED BY <1>1, <1>5, <1>6, <1>7, <1>8

-----------------------------------------------------------------------------
(* The inductive invariant *)

\* Every position a slot was fed has a block.
HeldFits == \A s \in Slot : Len(held[s]) <= Len(slotBlocks[s]) * BlockSize

\* Only registered blocks are shared.
SharedRegistered ==
  \A s, t \in Slot : s # t => \A b \in Blocks(s) \cap Blocks(t) : blockHash[b] # NoHash

\* A registered block in a slot is registered under that slot's own text, and the
\* slot has written all of it.
OwnPrefix ==
  \A s \in Slot : \A i \in 1..Len(slotBlocks[s]) :
    blockHash[slotBlocks[s][i]] # NoHash =>
      /\ i * BlockSize <= Len(held[s])
      /\ blockHash[slotBlocks[s][i]] = SubSeq(held[s], 1, i * BlockSize)

\* Who holds which block, and under which prefix.
Books == /\ KVTypeOK
         /\ HeldFits
         /\ RefcountExact
         /\ BlocksDistinct
         /\ FreeExact
         /\ CacheInverse
         /\ SharedRegistered
         /\ OwnPrefix

\* What is in the blocks.
Contents == AttendsOwnTokens /\ CacheHoldsItsPrefix

KVInv == Books /\ Contents

\* The types of one slot's block list and text.
LEMMA SlotTypes ==
  ASSUME KVTypeOK, NEW s \in Slot
  PROVE  /\ slotBlocks[s] \in Seq(Block) /\ Len(slotBlocks[s]) \in Nat
         /\ \A i \in 1..Len(slotBlocks[s]) : slotBlocks[s][i] \in Block
         /\ Blocks(s) \subseteq Block
         /\ held[s] \in Seq(Token) /\ Len(held[s]) \in Nat
<1>1. slotBlocks[s] \in Seq(Block) /\ held[s] \in Seq(Token)
  BY DEF KVTypeOK
<1>2. \A i \in 1..Len(slotBlocks[s]) : slotBlocks[s][i] \in Block
  BY <1>1, ElementOfSeq
<1> QED BY <1>1, <1>2, LenProperties DEF Blocks

\* The holders of a block can be counted.
LEMMA HoldersFinite ==
  ASSUME NEW b \in Block
  PROVE  /\ IsFiniteSet(Holders(b))
         /\ Cardinality(Holders(b)) \in Nat
         /\ Cardinality(Holders(b)) = 0 <=> Holders(b) = {}
<1>1. Holders(b) \in SUBSET Slot
  BY DEF Holders
<1>2. IsFiniteSet(Holders(b))
  BY <1>1, FS_Subset, PagedKVAssumption
<1> QED BY <1>2, FS_CardinalityType, FS_EmptySet

\* A block whose count is one has a single holder.
LEMMA OneHolder ==
  ASSUME Books, NEW b \in Block, NEW s \in Slot, NEW t \in Slot,
         b \in Blocks(s), b \in Blocks(t), refcount[b] <= 1
  PROVE  s = t
<1>1. Cardinality(Holders(b)) <= 1 /\ s \in Holders(b) /\ t \in Holders(b)
  BY DEF Books, RefcountExact, Holders
<1>2. Holders(b) # {}
  BY <1>1
<1>3. Cardinality(Holders(b)) = 1
  BY <1>1, <1>2, HoldersFinite
<1>4. PICK x : Holders(b) = {x}
  BY <1>3, HoldersFinite, FS_Singleton
<1> QED BY <1>1, <1>4

\* A block that some slot still writes to is its own: NextWriteExclusive and the
\* other invariants of PagedKV follow from Books.
LEMMA BooksExclusive ==
  ASSUME Books, NEW s \in Slot, NEW i \in 1..Len(slotBlocks[s]),
         i * BlockSize > Len(held[s])
  PROVE  /\ blockHash[slotBlocks[s][i]] = NoHash
         /\ refcount[slotBlocks[s][i]] = 1
         /\ \A t \in Slot : slotBlocks[s][i] \in Blocks(t) => t = s
<1> DEFINE b == slotBlocks[s][i]
<1>1. b \in Block /\ b \in Blocks(s) /\ Len(held[s]) \in Nat
  BY SlotTypes DEF Books, Blocks
<1>2. blockHash[b] = NoHash
  <2>1. i * BlockSize \in Nat
    BY Product
  <2>2. blockHash[b] # NoHash => i * BlockSize <= Len(held[s])
    BY DEF Books, OwnPrefix
  <2> QED BY <1>1, <2>1, <2>2
<1>3. \A t \in Slot : b \in Blocks(t) => t = s
  BY <1>1, <1>2 DEF Books, SharedRegistered
<1>4. Holders(b) = {s}
  BY <1>1, <1>3 DEF Holders
<1>5. refcount[b] = 1
  BY <1>1, <1>4, FS_Singleton DEF Books, RefcountExact
<1> QED BY <1>2, <1>3, <1>5

\* new_paged starts with every block free: the books balance.
LEMMA BooksInit == KVInit => Books
<1> SUFFICES ASSUME KVInit PROVE Books
  OBVIOUS
<1> USE DEF KVInit
<1>1. KVTypeOK
  <2>1. \A S : <<>> \in Seq(S)
    BY EmptySeq
  <2>2. EmptyBlock \in [0..(BlockSize - 1) -> Seq(Token)]
    BY <2>1 DEF EmptyBlock, NoKV
  <2> QED BY <2>1, <2>2 DEF KVTypeOK, NoHash
<1>2. \A s \in Slot : Len(slotBlocks[s]) = 0 /\ Len(held[s]) = 0 /\ Blocks(s) = {}
  <2>1. Len(<<>>) = 0
    BY EmptySeq
  <2> QED BY <2>1 DEF Blocks
<1>3. HeldFits
  BY <1>2, BlockSizeNat DEF HeldFits
<1>4. RefcountExact
  BY <1>2, FS_EmptySet DEF RefcountExact, Holders
<1>5. BlocksDistinct /\ OwnPrefix /\ SharedRegistered
  BY <1>2 DEF BlocksDistinct, OwnPrefix, SharedRegistered
<1>6. FreeExact /\ CacheInverse
  BY DEF FreeExact, CacheInverse
<1> QED BY <1>1, <1>3, <1>4, <1>5, <1>6 DEF Books

\* new_paged starts with nothing fed and nothing cached: no contents to hold.
LEMMA ContentsInit == KVInit => Contents
<1> SUFFICES ASSUME KVInit PROVE Contents
  OBVIOUS
<1>1. \A s \in Slot : Len(held[s]) = 0
  BY EmptySeq DEF KVInit
<1> QED BY <1>1 DEF KVInit, Contents, AttendsOwnTokens, CacheHoldsItsPrefix

-----------------------------------------------------------------------------
(* alloc, and one iteration of ensure_blocks *)

\* What both ways of finding a block have in common.
LEMMA AllocFinds ==
  ASSUME Books, NEW b \in Block, PopFree(b) \/ Reclaim(b)
  PROVE  /\ refcount[b] = 0 /\ \A s \in Slot : b \notin Blocks(s)
         /\ free' = free \ {b}
         /\ blockHash' = [blockHash EXCEPT ![b] = NoHash]
         /\ DOMAIN cacheMap' = {h \in DOMAIN cacheMap : cacheMap[h] # b}
         /\ \A h \in DOMAIN cacheMap' : cacheMap'[h] = cacheMap[h]
         /\ cacheMap' \in [DOMAIN cacheMap' -> Block]
<1> USE DEF Books
<1>1. refcount[b] = 0
  BY DEF PopFree, Reclaim, Victims, Reclaimable, FreeExact
<1>2. \A s \in Slot : b \notin Blocks(s)
  BY <1>1, HoldersFinite DEF RefcountExact, Holders
<1>3. free' = free \ {b}
  BY DEF PopFree, Reclaim
<1>4. blockHash \in [Block -> Seq(Token)] /\ cacheMap \in [DOMAIN cacheMap -> Block]
  BY DEF KVTypeOK
<1>5. CASE PopFree(b)
  <2>1. blockHash[b] = NoHash /\ blockHash' = blockHash /\ cacheMap' = cacheMap
    BY <1>5 DEF PopFree, FreeExact
  <2>2. blockHash' = [blockHash EXCEPT ![b] = NoHash]
    BY <1>4, <2>1
  <2>3. \A h \in DOMAIN cacheMap : cacheMap[h] # b
    BY <2>1 DEF CacheInverse
  <2> QED BY <1>1, <1>2, <1>3, <1>4, <2>1, <2>2, <2>3
<1>6. CASE Reclaim(b)
  <2>1. blockHash[b] # NoHash
    BY <1>6 DEF Reclaim, Victims, Reclaimable
  <2>2. cacheMap' = [h \in DOMAIN cacheMap \ {blockHash[b]} |-> cacheMap[h]]
        /\ blockHash' = [blockHash EXCEPT ![b] = NoHash]
    BY <1>6 DEF Reclaim
  <2>3. \A h \in DOMAIN cacheMap : cacheMap[h] = b <=> h = blockHash[b]
    BY <2>1 DEF CacheInverse
  <2> QED BY <1>1, <1>2, <1>3, <1>4, <2>2, <2>3
<1> QED BY <1>5, <1>6

\* ensure_blocks keeps the books, whichever block it finds.
LEMMA AllocIntoBooks ==
  ASSUME Books, NEW s \in Slot, AllocInto(s)
  PROVE  Books'
<1> PICK b \in Block :
      /\ PopFree(b) \/ Reclaim(b)
      /\ refcount' = [refcount EXCEPT ![b] = 1]
      /\ slotBlocks' = [slotBlocks EXCEPT ![s] = Append(@, b)]
      /\ kv' = [kv EXCEPT ![b] = EmptyBlock]
      /\ UNCHANGED <<older, held>>
  BY Zenon DEF AllocInto
<1> DEFINE n == Len(slotBlocks[s])
<1>1. /\ refcount[b] = 0 /\ \A t \in Slot : b \notin Blocks(t)
      /\ free' = free \ {b}
      /\ blockHash' = [blockHash EXCEPT ![b] = NoHash]
      /\ DOMAIN cacheMap' = {h \in DOMAIN cacheMap : cacheMap[h] # b}
      /\ \A h \in DOMAIN cacheMap' : cacheMap'[h] = cacheMap[h]
      /\ cacheMap' \in [DOMAIN cacheMap' -> Block]
  BY AllocFinds
<1>2. KVTypeOK
  BY DEF Books
<1>3. /\ slotBlocks[s] \in Seq(Block) /\ n \in Nat
      /\ slotBlocks'[s] \in Seq(Block) /\ Len(slotBlocks'[s]) = n + 1
      /\ \A i \in 1..n : slotBlocks'[s][i] = slotBlocks[s][i]
      /\ slotBlocks'[s][n + 1] = b
      /\ \A t \in Slot \ {s} : slotBlocks'[t] = slotBlocks[t]
  <2>1. slotBlocks[s] \in Seq(Block) /\ n \in Nat
    BY <1>2, SlotTypes
  <2>2. slotBlocks'[s] = Append(slotBlocks[s], b)
        /\ \A t \in Slot \ {s} : slotBlocks'[t] = slotBlocks[t]
    BY <1>2 DEF KVTypeOK
  <2> QED BY <2>1, <2>2, AppendProperties
<1>4. Blocks(s)' = Blocks(s) \cup {b} /\ \A t \in Slot \ {s} : Blocks(t)' = Blocks(t)
  BY <1>3 DEF Blocks
<1>5. \A x \in Block : blockHash'[x] = IF x = b THEN NoHash ELSE blockHash[x]
  BY <1>1, <1>2 DEF KVTypeOK
<1>6. \A x \in Block : refcount'[x] = IF x = b THEN 1 ELSE refcount[x]
  BY <1>2 DEF KVTypeOK
<1>7. KVTypeOK'
  <2>1. <<>> \in Seq(Token)
    BY EmptySeq
  <2>2. EmptyBlock \in [0..(BlockSize - 1) -> Seq(Token)]
    BY <2>1 DEF EmptyBlock, NoKV
  <2>3. slotBlocks' \in [Slot -> Seq(Block)]
    BY <1>2, <1>3 DEF KVTypeOK
  <2> QED BY <1>1, <1>2, <2>1, <2>2, <2>3 DEF KVTypeOK, NoHash
<1>8. HeldFits'
  <2>1. ASSUME NEW t \in Slot PROVE Len(held'[t]) <= Len(slotBlocks'[t]) * BlockSize
    <3>1. Len(held[t]) <= Len(slotBlocks[t]) * BlockSize
      BY DEF Books, HeldFits
    <3>2. Len(slotBlocks[s]) * BlockSize <= (Len(slotBlocks[s]) + 1) * BlockSize
      BY <1>3, ProductMonotone
    <3>3. Len(held[t]) \in Nat /\ Len(slotBlocks[t]) * BlockSize \in Nat
          /\ (Len(slotBlocks[s]) + 1) * BlockSize \in Nat
      <4>1. Len(held[t]) \in Nat /\ Len(slotBlocks[t]) \in Nat
        BY <1>2, SlotTypes
      <4>2. Len(slotBlocks[s]) + 1 \in Nat
        BY <1>3
      <4>3. \A i \in Nat : i * BlockSize \in Nat
        BY Product, Zenon
      <4> QED BY <4>1, <4>2, <4>3
    <3> QED BY <1>3, <3>1, <3>2, <3>3
  <2> QED BY <2>1 DEF HeldFits
<1>9. RefcountExact'
  <2>1. Holders(b)' = {s}
    BY <1>1, <1>4 DEF Holders
  <2>2. \A x \in Block \ {b} : Holders(x)' = Holders(x)
    BY <1>4 DEF Holders
  <2> QED BY <1>6, <2>1, <2>2, FS_Singleton DEF RefcountExact, Books
<1>10. BlocksDistinct'
  <2>1. \A i \in 1..n : slotBlocks[s][i] # b
    BY <1>1 DEF Blocks
  <2> QED BY <1>3, <2>1 DEF BlocksDistinct, Books
<1>11. FreeExact'
  BY <1>1, <1>5, <1>6 DEF FreeExact, Books
<1>12. CacheInverse'
  <2>1. ASSUME NEW h \in DOMAIN cacheMap' PROVE h # NoHash /\ blockHash'[cacheMap'[h]] = h
    BY <1>1, <1>2, <1>5 DEF CacheInverse, Books, KVTypeOK
  <2>2. ASSUME NEW x \in Block, blockHash'[x] # NoHash
        PROVE  blockHash'[x] \in DOMAIN cacheMap' /\ cacheMap'[blockHash'[x]] = x
    BY <1>1, <1>5, <2>2 DEF CacheInverse, Books
  <2> QED BY <2>1, <2>2 DEF CacheInverse
<1>13. SharedRegistered'
  <2>1. ASSUME NEW t \in Slot, NEW u \in Slot, t # u, NEW x \in Blocks(t)' \cap Blocks(u)'
        PROVE  blockHash'[x] # NoHash
    <3>1. x # b /\ x \in Blocks(t) \cap Blocks(u)
      BY <1>1, <1>4, <2>1
    <3>2. x \in Block /\ blockHash[x] # NoHash
      BY <1>2, <2>1, <3>1, SlotTypes DEF SharedRegistered, Books
    <3> QED BY <1>5, <3>1, <3>2
  <2> QED BY <2>1 DEF SharedRegistered
<1>14. OwnPrefix'
  <2>1. ASSUME NEW t \in Slot, NEW i \in 1..Len(slotBlocks'[t]),
               blockHash'[slotBlocks'[t][i]] # NoHash
        PROVE  /\ i * BlockSize <= Len(held'[t])
               /\ blockHash'[slotBlocks'[t][i]] = SubSeq(held'[t], 1, i * BlockSize)
    <3>1. b \in Block /\ blockHash'[b] = NoHash
      BY <1>5
    <3>2. slotBlocks'[t][i] # b
      BY <2>1, <3>1
    <3>3. i \in 1..Len(slotBlocks[t]) /\ slotBlocks'[t][i] = slotBlocks[t][i]
      BY <1>3, <2>1, <3>2
    <3>4. slotBlocks[t][i] \in Block
      BY <1>2, <3>3, SlotTypes
    <3>5. blockHash'[slotBlocks'[t][i]] = blockHash[slotBlocks[t][i]]
      BY <1>5, <3>2, <3>3, <3>4
    <3> QED BY <2>1, <3>3, <3>5 DEF OwnPrefix, Books
  <2> QED BY <2>1 DEF OwnPrefix
<1> QED BY <1>7, <1>8, <1>9, <1>10, <1>11, <1>12, <1>13, <1>14 DEF Books

\* The place a fed position is read from.
LEMMA ReadPlace ==
  ASSUME Books, NEW s \in Slot, NEW p \in 1..Len(held[s])
  PROVE  /\ p \in Nat \ {0}
         /\ LogicalOf(p) \in 1..Len(slotBlocks[s])
         /\ BlocksFor(p) <= Len(slotBlocks[s])
         /\ BlockAt(s, p) = slotBlocks[s][LogicalOf(p)]
         /\ BlockAt(s, p) \in Block /\ BlockAt(s, p) \in Blocks(s)
         /\ OffsetAt(p) \in 0..(BlockSize - 1)
<1>1. Len(held[s]) \in Nat /\ Len(slotBlocks[s]) \in Nat
  BY SlotTypes DEF Books
<1>2. p \in Nat \ {0}
  BY <1>1
<1>3. Len(held[s]) <= Len(slotBlocks[s]) * BlockSize /\ Len(slotBlocks[s]) * BlockSize \in Nat
  BY <1>1, Product DEF Books, HeldFits
<1>4. LogicalOf(p) <= Len(slotBlocks[s])
  BY <1>1, <1>2, <1>3, PositionBound
<1>5. LogicalOf(p) \in 1..Len(slotBlocks[s])
  BY <1>1, <1>2, <1>4, PositionSplit
<1>6. BlockAt(s, p) = slotBlocks[s][LogicalOf(p)]
  BY DEF BlockAt, LogicalOf
<1> QED BY <1>2, <1>4, <1>5, <1>6, PositionSplit, SlotTypes DEF Blocks, Books

\* ensure_blocks touches no position that a slot or a cache entry relies on.
LEMMA AllocIntoContents ==
  ASSUME KVInv, NEW s \in Slot, AllocInto(s)
  PROVE  Contents'
<1> USE DEF KVInv
<1> PICK b \in Block :
      /\ PopFree(b) \/ Reclaim(b)
      /\ slotBlocks' = [slotBlocks EXCEPT ![s] = Append(@, b)]
      /\ kv' = [kv EXCEPT ![b] = EmptyBlock]
      /\ UNCHANGED <<older, held>>
  BY Zenon DEF AllocInto
<1>1. /\ \A t \in Slot : b \notin Blocks(t)
      /\ DOMAIN cacheMap' = {h \in DOMAIN cacheMap : cacheMap[h] # b}
      /\ \A h \in DOMAIN cacheMap' : cacheMap'[h] = cacheMap[h]
  BY AllocFinds
<1>2. KVTypeOK
  BY DEF Books
<1>3. \A x \in Block \ {b} : kv'[x] = kv[x]
  BY <1>2 DEF KVTypeOK
<1>4. AttendsOwnTokens'
  <2>1. ASSUME NEW t \in Slot, NEW p \in 1..Len(held[t])
        PROVE  /\ BlocksFor(p) <= Len(slotBlocks'[t])
               /\ kv'[slotBlocks'[t][LogicalOf(p)]][OffsetAt(p)] = SubSeq(held[t], 1, p)
    <3>1. /\ LogicalOf(p) \in 1..Len(slotBlocks[t]) /\ BlocksFor(p) <= Len(slotBlocks[t])
          /\ BlockAt(t, p) = slotBlocks[t][LogicalOf(p)]
          /\ BlockAt(t, p) \in Block \ {b}
          /\ p \in Nat \ {0}
      BY <1>1, ReadPlace
    <3>2. slotBlocks[t] \in Seq(Block) /\ Len(slotBlocks[t]) \in Nat
      BY <1>2, SlotTypes
    <3>3. Len(slotBlocks'[t]) >= Len(slotBlocks[t])
          /\ \A i \in 1..Len(slotBlocks[t]) : slotBlocks'[t][i] = slotBlocks[t][i]
      <4>1. CASE t = s
        <5>1. slotBlocks'[t] = Append(slotBlocks[t], b)
          BY <1>2, <4>1 DEF KVTypeOK
        <5> QED BY <3>2, <5>1, AppendProperties
      <4>2. CASE t # s
        <5>1. slotBlocks'[t] = slotBlocks[t]
          BY <1>2, <4>2 DEF KVTypeOK
        <5> QED BY <3>2, <5>1
      <4> QED BY <4>1, <4>2
    <3>4. kv[BlockAt(t, p)][OffsetAt(p)] = SubSeq(held[t], 1, p)
      BY DEF Contents, AttendsOwnTokens
    <3>5. BlocksFor(p) \in Nat /\ Len(slotBlocks'[t]) \in Nat
      <4>1. slotBlocks'[t] \in Seq(Block)
        BY AllocIntoBooks, SlotTypes DEF Books, KVTypeOK
      <4> QED BY <3>1, <4>1, PositionSplit, LenProperties
    <3> QED BY <1>3, <3>1, <3>2, <3>3, <3>4, <3>5
  <2> QED BY <2>1 DEF AttendsOwnTokens, BlockAt, LogicalOf
<1>5. CacheHoldsItsPrefix'
  <2>1. \A h \in DOMAIN cacheMap' : h \in DOMAIN cacheMap /\ cacheMap'[h] = cacheMap[h]
                                    /\ cacheMap[h] \in Block \ {b}
    BY <1>1, <1>2 DEF KVTypeOK
  <2> QED BY <1>3, <2>1 DEF CacheHoldsItsPrefix, Contents
<1> QED BY <1>4, <1>5 DEF Contents

-----------------------------------------------------------------------------
(* free_slot *)

\* free_slot keeps the books: it drops one reference a block, and frees the
\* blocks without another holder unless the prefix cache keeps them.
LEMMA FreeSlotBooks ==
  ASSUME Books, NEW s \in Slot, FreeSlot(s)
  PROVE  Books'
<1> USE DEF FreeSlot
<1>1. KVTypeOK
  BY DEF Books
<1>2. /\ slotBlocks'[s] = <<>> /\ Len(slotBlocks'[s]) = 0
      /\ held'[s] = <<>> /\ Len(held'[s]) = 0
      /\ \A t \in Slot \ {s} : slotBlocks'[t] = slotBlocks[t] /\ held'[t] = held[t]
  BY <1>1, EmptySeq DEF KVTypeOK
<1>3. Blocks(s)' = {} /\ \A t \in Slot \ {s} : Blocks(t)' = Blocks(t)
  BY <1>2 DEF Blocks
<1>4. \A b \in Block : refcount[b] \in Nat /\ (b \in Blocks(s) => refcount[b] > 0)
  <2>1. ASSUME NEW b \in Block, b \in Blocks(s) PROVE refcount[b] # 0
    <3>1. s \in Holders(b)
      BY <2>1 DEF Holders
    <3> QED BY <3>1, HoldersFinite DEF Books, RefcountExact
  <2> QED BY <1>1, <2>1 DEF KVTypeOK
<1>5. \A b \in Block : refcount'[b] = IF b \in Blocks(s) THEN refcount[b] - 1 ELSE refcount[b]
  BY <1>4
<1>6. KVTypeOK'
  <2>1. <<>> \in Seq(Token) /\ <<>> \in Seq(Block)
    BY EmptySeq
  <2>2. EmptyBlock \in [0..(BlockSize - 1) -> Seq(Token)]
    BY <2>1 DEF EmptyBlock, NoKV
  <2>3. refcount' \in [Block -> Nat]
    BY <1>4
  <2>4. free' \subseteq Block
    BY <1>1, SlotTypes DEF KVTypeOK, Released
  <2>5. kv' \in [Block -> [0..(BlockSize - 1) -> Seq(Token)]]
    BY <1>1, <2>2 DEF KVTypeOK
  <2> QED BY <1>1, <2>1, <2>3, <2>4, <2>5 DEF KVTypeOK
<1>7. HeldFits'
  <2>1. 0 * BlockSize = 0
    BY BlockSizeNat
  <2> QED BY <1>2, <2>1 DEF HeldFits, Books
<1>8. RefcountExact'
  <2>1. ASSUME NEW b \in Block PROVE refcount'[b] = Cardinality(Holders(b)')
    <3>1. Holders(b)' = Holders(b) \ {s}
      BY <1>3 DEF Holders
    <3>2. Cardinality(Holders(b) \ {s}) =
            IF s \in Holders(b) THEN Cardinality(Holders(b)) - 1 ELSE Cardinality(Holders(b))
      BY HoldersFinite, FS_RemoveElement
    <3>3. s \in Holders(b) <=> b \in Blocks(s)
      BY DEF Holders
    <3> QED BY <1>5, <3>1, <3>2, <3>3 DEF RefcountExact, Books
  <2> QED BY <2>1 DEF RefcountExact
<1>9. BlocksDistinct'
  BY <1>2 DEF BlocksDistinct, Books
<1>10. FreeExact'
  <2>1. ASSUME NEW b \in Block
        PROVE  b \in free' <=> refcount'[b] = 0 /\ blockHash'[b] = NoHash
    <3>1. b \in free <=> refcount[b] = 0 /\ blockHash[b] = NoHash
      BY DEF FreeExact, Books
    <3>2. b \in Released(s) <=> b \in Blocks(s) /\ refcount[b] <= 1 /\ blockHash[b] = NoHash
      BY DEF Released
    <3> QED BY <1>4, <1>5, <3>1, <3>2
  <2> QED BY <2>1 DEF FreeExact
<1>11. CacheInverse'
  BY DEF CacheInverse, Books
<1>12. SharedRegistered'
  BY <1>3 DEF SharedRegistered, Books
<1>13. OwnPrefix'
  BY <1>2 DEF OwnPrefix, Books
<1> QED BY <1>6, <1>7, <1>8, <1>9, <1>10, <1>11, <1>12, <1>13 DEF Books

\* The blocks free_slot lets go are no other slot's and in no cache entry.
LEMMA FreeSlotContents ==
  ASSUME KVInv, NEW s \in Slot, FreeSlot(s)
  PROVE  Contents'
<1> USE DEF KVInv
<1>1. KVTypeOK
  BY DEF Books
<1>2. held'[s] = <<>> /\ Len(held'[s]) = 0
  BY <1>1, EmptySeq DEF KVTypeOK, FreeSlot
<1>3. \A t \in Slot \ {s} : slotBlocks'[t] = slotBlocks[t] /\ held'[t] = held[t]
  BY <1>1 DEF KVTypeOK, FreeSlot
<1>4. \A b \in Block \ Released(s) : kv'[b] = kv[b]
  BY DEF FreeSlot
<1>5. AttendsOwnTokens'
  <2>1. ASSUME NEW t \in Slot, NEW p \in 1..Len(held'[t])
        PROVE  /\ BlocksFor(p) <= Len(slotBlocks'[t])
               /\ kv'[slotBlocks'[t][LogicalOf(p)]][OffsetAt(p)] = SubSeq(held'[t], 1, p)
    <3>1. t # s
      BY <1>2
    <3>2. slotBlocks'[t] = slotBlocks[t] /\ held'[t] = held[t]
      BY <1>3, <3>1
    <3>3. /\ BlocksFor(p) <= Len(slotBlocks[t])
          /\ BlockAt(t, p) = slotBlocks[t][LogicalOf(p)]
          /\ BlockAt(t, p) \in Block /\ BlockAt(t, p) \in Blocks(t)
      BY <3>2, ReadPlace
    <3>4. BlockAt(t, p) \notin Released(s)
      BY <3>1, <3>3, OneHolder DEF Released
    <3>5. kv[BlockAt(t, p)][OffsetAt(p)] = SubSeq(held[t], 1, p)
      BY <3>2 DEF Contents, AttendsOwnTokens
    <3> QED BY <1>4, <3>2, <3>3, <3>4, <3>5
  <2> QED BY <2>1 DEF AttendsOwnTokens, BlockAt, LogicalOf
<1>6. CacheHoldsItsPrefix'
  <2>1. \A h \in DOMAIN cacheMap : cacheMap[h] \in Block \ Released(s)
    BY <1>1 DEF KVTypeOK, Books, CacheInverse, Released
  <2>2. cacheMap' = cacheMap
    BY DEF FreeSlot
  <2> QED BY <1>4, <2>1, <2>2 DEF CacheHoldsItsPrefix, Contents
<1> QED BY <1>5, <1>6 DEF Contents

-----------------------------------------------------------------------------
(* prefill_prefix_reuse *)

\* touch leaves an order of the blocks by last use.
LEMMA TouchedType ==
  ASSUME KVTypeOK, NEW blk, NEW I, \A i \in I : blk[i] \in Block
  PROVE  Touched(blk, I) \in [Block -> SUBSET Block]
BY Zenon DEF KVTypeOK, Touched

\* The blocks of the longest cached prefix: registered, each under its own prefix
\* of the prompt, hence all different.
LEMMA ReusedFacts ==
  ASSUME Books, NEW prompt \in Seq(Token), prompt # <<>>
  PROVE  /\ CachedBlocks(prompt) \in Nat
         /\ Reused(prompt) \in Seq(Block) /\ Len(Reused(prompt)) = CachedBlocks(prompt)
         /\ DOMAIN Reused(prompt) = 1..CachedBlocks(prompt)
         /\ CachedText(prompt) \in Seq(Token)
         /\ Len(CachedText(prompt)) = CachedBlocks(prompt) * BlockSize
         /\ \A i \in 1..CachedBlocks(prompt) :
              LET b == Reused(prompt)[i] IN
              /\ b \in Block
              /\ i * BlockSize \in 0..Len(CachedText(prompt))
              /\ SubSeq(CachedText(prompt), 1, i * BlockSize) # NoHash
              /\ SubSeq(CachedText(prompt), 1, i * BlockSize) \in DOMAIN cacheMap
              /\ cacheMap[SubSeq(CachedText(prompt), 1, i * BlockSize)] = b
              /\ blockHash[b] = SubSeq(CachedText(prompt), 1, i * BlockSize)
         /\ \A i, j \in 1..CachedBlocks(prompt) :
              Reused(prompt)[i] = Reused(prompt)[j] => i = j
<1> DEFINE n == CachedBlocks(prompt)
           text == CachedText(prompt)
<1>1. n \in Nat /\ n * BlockSize < Len(prompt)
      /\ \A lb \in 1..n : PrefixHash(prompt, lb) \in DOMAIN cacheMap
  BY CachedBlocksFacts
<1>2. n * BlockSize \in 0..Len(prompt)
  BY <1>1, Product, LenProperties
<1>3. text \in Seq(Token) /\ Len(text) = n * BlockSize
  BY <1>2, PrefixFacts DEF CachedText, PrefixHash
<1>4. ASSUME NEW i \in 1..n
      PROVE  /\ i * BlockSize \in 0..Len(text)
             /\ PrefixHash(prompt, i) = SubSeq(text, 1, i * BlockSize)
             /\ Len(SubSeq(text, 1, i * BlockSize)) = i * BlockSize
             /\ SubSeq(text, 1, i * BlockSize) # NoHash
  <2>1. i * BlockSize \in 0..(n * BlockSize) /\ i * BlockSize # 0
    BY <1>1, Product, ProductMonotone
  <2>2. PrefixHash(prompt, i) = SubSeq(text, 1, i * BlockSize)
    BY <1>2, <2>1, PrefixOfPrefix DEF CachedText, PrefixHash
  <2>3. Len(SubSeq(text, 1, i * BlockSize)) = i * BlockSize
    BY <1>3, <2>1, PrefixFacts
  <2>4. Len(NoHash) = 0
    BY EmptySeq DEF NoHash
  <2> QED BY <1>3, <2>1, <2>2, <2>3, <2>4
<1>5. Reused(prompt) = [lb \in 1..n |-> cacheMap[PrefixHash(prompt, lb)]]
  BY DEF Reused
<1>6. cacheMap \in [DOMAIN cacheMap -> Block]
  BY DEF Books, KVTypeOK
<1>7. \A i \in 1..n : cacheMap[PrefixHash(prompt, i)] \in Block
  BY <1>1, <1>6
<1>8. Reused(prompt) \in Seq(Block) /\ Len(Reused(prompt)) = n
  BY <1>1, <1>5, <1>7
<1>9. ASSUME NEW i \in 1..n
      PROVE  LET b == Reused(prompt)[i] IN
             /\ b \in Block
             /\ SubSeq(text, 1, i * BlockSize) \in DOMAIN cacheMap
             /\ cacheMap[SubSeq(text, 1, i * BlockSize)] = b
             /\ blockHash[b] = SubSeq(text, 1, i * BlockSize)
  <2>1. Reused(prompt)[i] = cacheMap[SubSeq(text, 1, i * BlockSize)]
    BY <1>4, <1>5
  <2>2. SubSeq(text, 1, i * BlockSize) \in DOMAIN cacheMap
    BY <1>1, <1>4
  <2> QED BY <1>6, <2>1, <2>2 DEF Books, CacheInverse
<1>10. ASSUME NEW i \in 1..n, NEW j \in 1..n, Reused(prompt)[i] = Reused(prompt)[j]
       PROVE  i = j
  <2>1. SubSeq(text, 1, i * BlockSize) = SubSeq(text, 1, j * BlockSize)
    BY <1>9, <1>10
  <2>2. i * BlockSize = j * BlockSize
    BY <1>4, <2>1
  <2>3. i \in Nat /\ j \in Nat
    BY <1>1
  <2> QED BY <2>2, <2>3, ProductMonotone
<1>11. DOMAIN Reused(prompt) = 1..n
  BY <1>5
<1> HIDE DEF n, text
<1> QED BY <1>1, <1>3, <1>4, <1>8, <1>9, <1>10, <1>11 DEF n, text

\* The state change of prefill_prefix_reuse for an empty slot.
LEMMA PrefixReuseStep ==
  ASSUME Books, NEW s \in Slot, slotBlocks[s] = <<>>,
         NEW prompt \in Seq(Token), prompt # <<>>, PrefixReuse(s, prompt)
  PROVE  /\ slotBlocks' = [slotBlocks EXCEPT ![s] = Reused(prompt)]
         /\ held' = [held EXCEPT ![s] = CachedText(prompt)]
         /\ \A b \in Block : refcount'[b] =
              IF b \in Blocks(s)' THEN refcount[b] + 1 ELSE refcount[b]
         /\ refcount' \in [Block -> Nat]
         /\ Blocks(s)' = {Reused(prompt)[i] : i \in 1..CachedBlocks(prompt)}
         /\ \A b \in Blocks(s)' : blockHash[b] # NoHash
         /\ older' \in [Block -> SUBSET Block]
         /\ UNCHANGED <<free, cacheMap, blockHash, kv>>
<1> DEFINE reused == Reused(prompt)
<1>1. KVTypeOK
  BY DEF Books
<1>2. reused \in Seq(Block) /\ Len(reused) = CachedBlocks(prompt)
      /\ DOMAIN reused = 1..CachedBlocks(prompt)
      /\ \A i \in 1..CachedBlocks(prompt) :
           reused[i] \in Block /\ blockHash[reused[i]] # NoHash
  BY ReusedFacts
<1>3. /\ refcount' = [b \in Block |-> IF b \in {reused[lb] : lb \in DOMAIN reused}
                                      THEN refcount[b] + 1 ELSE refcount[b]]
      /\ older' = Touched(reused, DOMAIN reused)
      /\ slotBlocks' = [slotBlocks EXCEPT ![s] = @ \o reused]
      /\ held' = [held EXCEPT ![s] = CachedText(prompt)]
      /\ UNCHANGED <<free, cacheMap, blockHash, kv>>
  BY Zenon DEF PrefixReuse
<1>4. <<>> \o reused = reused
  BY <1>2, ConcatEmptySeq
<1>5. slotBlocks' = [slotBlocks EXCEPT ![s] = reused]
  BY <1>3, <1>4
<1>6. slotBlocks'[s] = reused
  BY <1>1, <1>5 DEF KVTypeOK
<1>7. Blocks(s)' = {reused[i] : i \in 1..CachedBlocks(prompt)}
  BY <1>2, <1>6 DEF Blocks
<1>8. older' \in [Block -> SUBSET Block]
  <2>1. \A i \in DOMAIN reused : reused[i] \in Block
    BY <1>2
  <2> HIDE DEF reused
  <2> QED BY <1>1, <1>3, <2>1, TouchedType
<1>9. \A b \in Block : refcount'[b] = IF b \in Blocks(s)' THEN refcount[b] + 1 ELSE refcount[b]
  BY <1>2, <1>3, <1>7
<1>10. refcount' \in [Block -> Nat]
  BY <1>1, <1>3 DEF KVTypeOK
<1> HIDE DEF reused
<1> QED BY <1>2, <1>3, <1>5, <1>7, <1>8, <1>9, <1>10 DEF reused

\* Reuse for an empty slot keeps the books: shared blocks are counted.
LEMMA PrefixReuseBooks ==
  ASSUME Books, NEW s \in Slot, slotBlocks[s] = <<>>,
         NEW prompt \in Seq(Token), prompt # <<>>, PrefixReuse(s, prompt)
  PROVE  Books'
<1> DEFINE n == CachedBlocks(prompt)
           reused == Reused(prompt)
           text == CachedText(prompt)
<1>1. KVTypeOK
  BY DEF Books
<1>2. /\ slotBlocks' = [slotBlocks EXCEPT ![s] = reused]
      /\ held' = [held EXCEPT ![s] = text]
      /\ \A b \in Block : refcount'[b] =
           IF b \in Blocks(s)' THEN refcount[b] + 1 ELSE refcount[b]
      /\ refcount' \in [Block -> Nat]
      /\ Blocks(s)' = {reused[i] : i \in 1..n}
      /\ \A b \in Blocks(s)' : blockHash[b] # NoHash
      /\ older' \in [Block -> SUBSET Block]
      /\ UNCHANGED <<free, cacheMap, blockHash, kv>>
  BY PrefixReuseStep
<1>3. /\ n \in Nat /\ reused \in Seq(Block) /\ Len(reused) = n
      /\ text \in Seq(Token) /\ Len(text) = n * BlockSize
      /\ \A i \in 1..n : /\ reused[i] \in Block /\ i * BlockSize \in 0..Len(text)
                         /\ blockHash[reused[i]] = SubSeq(text, 1, i * BlockSize)
      /\ \A i, j \in 1..n : reused[i] = reused[j] => i = j
  BY ReusedFacts
<1>4. slotBlocks'[s] = reused /\ held'[s] = text
      /\ \A t \in Slot \ {s} : slotBlocks'[t] = slotBlocks[t] /\ held'[t] = held[t]
  BY <1>1, <1>2 DEF KVTypeOK
<1>5. Blocks(s) = {} /\ \A t \in Slot \ {s} : Blocks(t)' = Blocks(t)
  BY <1>4, EmptySeq DEF Blocks
<1> HIDE DEF n, reused, text
<1>6. KVTypeOK'
  <2>1. slotBlocks' \in [Slot -> Seq(Block)] /\ held' \in [Slot -> Seq(Token)]
    BY <1>1, <1>2, <1>3 DEF KVTypeOK
  <2> QED BY <1>1, <1>2, <2>1 DEF KVTypeOK
<1>7. HeldFits'
  <2>1. n * BlockSize \in Nat
    BY <1>3, Product
  <2> QED BY <1>3, <1>4, <2>1 DEF HeldFits, Books
<1>8. RefcountExact'
  <2>1. ASSUME NEW b \in Block PROVE refcount'[b] = Cardinality(Holders(b)')
    <3>1. Holders(b)' = IF b \in Blocks(s)' THEN Holders(b) \cup {s} ELSE Holders(b)
      BY <1>5 DEF Holders
    <3>2. s \notin Holders(b)
      BY <1>5 DEF Holders
    <3>3. Cardinality(Holders(b) \cup {s}) = Cardinality(Holders(b)) + 1
      BY <3>2, HoldersFinite, FS_AddElement
    <3> QED BY <1>2, <3>1, <3>3 DEF RefcountExact, Books
  <2> QED BY <2>1 DEF RefcountExact
<1>9. BlocksDistinct'
  <2>1. ASSUME NEW t \in Slot, NEW i \in 1..Len(slotBlocks'[t]), NEW j \in 1..Len(slotBlocks'[t]),
               slotBlocks'[t][i] = slotBlocks'[t][j]
        PROVE  i = j
    <3>1. CASE t = s
      <4>1. slotBlocks'[t] = reused /\ i \in 1..n /\ j \in 1..n
        BY <1>3, <1>4, <3>1
      <4> QED BY <1>3, <2>1, <4>1
    <3>2. CASE t # s
      BY <1>4, <2>1, <3>2 DEF BlocksDistinct, Books
    <3> QED BY <3>1, <3>2
  <2> QED BY <2>1 DEF BlocksDistinct
<1>10. FreeExact'
  <2>1. ASSUME NEW b \in Block
        PROVE  b \in free <=> refcount'[b] = 0 /\ blockHash[b] = NoHash
    <3>1. refcount[b] \in Nat
      BY <1>1 DEF KVTypeOK
    <3>2. b \in free <=> refcount[b] = 0 /\ blockHash[b] = NoHash
      BY DEF FreeExact, Books
    <3> QED BY <1>2, <3>1, <3>2
  <2> QED BY <1>2, <2>1 DEF FreeExact
<1>11. CacheInverse'
  BY <1>2 DEF CacheInverse, Books
<1>12. SharedRegistered'
  <2>1. ASSUME NEW t \in Slot, NEW u \in Slot, t # u, NEW b \in Blocks(t)' \cap Blocks(u)'
        PROVE  blockHash[b] # NoHash
    <3>1. CASE t = s \/ u = s
      BY <1>2, <3>1
    <3>2. CASE t # s /\ u # s
      BY <1>5, <2>1, <3>2 DEF SharedRegistered, Books
    <3> QED BY <3>1, <3>2
  <2> QED BY <1>2, <2>1 DEF SharedRegistered
<1>13. OwnPrefix'
  <2>1. ASSUME NEW t \in Slot, NEW i \in 1..Len(slotBlocks'[t]),
               blockHash[slotBlocks'[t][i]] # NoHash
        PROVE  /\ i * BlockSize <= Len(held'[t])
               /\ blockHash[slotBlocks'[t][i]] = SubSeq(held'[t], 1, i * BlockSize)
    <3>1. CASE t = s
      <4>1. i \in 1..n /\ slotBlocks'[t] = reused /\ held'[t] = text
        BY <1>3, <1>4, <3>1
      <4>2. Len(text) \in Nat
        BY <1>3, LenProperties
      <4>3. i * BlockSize \in 0..Len(text)
        BY <1>3, <4>1
      <4> QED BY <1>3, <4>1, <4>2, <4>3
    <3>2. CASE t # s
      BY <1>4, <2>1, <3>2 DEF OwnPrefix, Books
    <3> QED BY <3>1, <3>2
  <2> QED BY <1>2, <2>1 DEF OwnPrefix
<1> QED BY <1>6, <1>7, <1>8, <1>9, <1>10, <1>11, <1>12, <1>13 DEF Books

\* What a reused block holds is what recomputing the prefix would store there.
LEMMA PrefixReuseContents ==
  ASSUME KVInv, NEW s \in Slot, slotBlocks[s] = <<>>,
         NEW prompt \in Seq(Token), prompt # <<>>, PrefixReuse(s, prompt)
  PROVE  Contents'
<1> USE DEF KVInv
<1> DEFINE n == CachedBlocks(prompt)
           reused == Reused(prompt)
           text == CachedText(prompt)
<1>1. KVTypeOK /\ Books'
  BY PrefixReuseBooks DEF Books
<1>2. /\ slotBlocks' = [slotBlocks EXCEPT ![s] = reused]
      /\ held' = [held EXCEPT ![s] = text]
      /\ UNCHANGED <<free, cacheMap, blockHash, kv>>
  BY PrefixReuseStep
<1>3. /\ n \in Nat /\ reused \in Seq(Block) /\ Len(reused) = n
      /\ text \in Seq(Token) /\ Len(text) = n * BlockSize
      /\ \A i \in 1..n : /\ reused[i] \in Block /\ i * BlockSize \in 0..Len(text)
                         /\ SubSeq(text, 1, i * BlockSize) \in DOMAIN cacheMap
                         /\ cacheMap[SubSeq(text, 1, i * BlockSize)] = reused[i]
  BY ReusedFacts
<1>4. slotBlocks'[s] = reused /\ held'[s] = text
      /\ \A t \in Slot \ {s} : slotBlocks'[t] = slotBlocks[t] /\ held'[t] = held[t]
  BY <1>1, <1>2 DEF KVTypeOK
<1> HIDE DEF n, reused, text
<1>5. ASSUME NEW p \in 1..Len(text)
      PROVE  /\ LogicalOf(p) \in 1..n
             /\ kv[reused[LogicalOf(p)]][OffsetAt(p)] = SubSeq(text, 1, p)
  <2> DEFINE i == LogicalOf(p)
             o == OffsetAt(p)
             h == SubSeq(text, 1, i * BlockSize)
  <2>1. Len(text) \in Nat /\ p \in Nat \ {0} /\ p <= n * BlockSize
    BY <1>3, LenProperties
  <2>2. i \in 1..n
    BY <1>3, <2>1, PositionBound, PositionSplit
  <2>3. i \in Nat \ {0} /\ o \in 0..(BlockSize - 1) /\ p = ((i - 1) * BlockSize) + o + 1
    BY <2>1, PositionSplit
  <2>4. i * BlockSize \in Nat /\ i * BlockSize = ((i - 1) * BlockSize) + BlockSize
    BY <2>3, Product
  <2>5. i * BlockSize \in 0..Len(text) /\ h \in DOMAIN cacheMap /\ cacheMap[h] = reused[i]
    BY <1>3, <2>2
  <2>6. h \in Seq(Token) /\ Len(h) = i * BlockSize
    BY <1>3, <2>5, PrefixFacts
  <2>7. kv[cacheMap[h]][o] = SubSeq(h, 1, Len(h) - BlockSize + o + 1)
    BY <2>3, <2>5 DEF Contents, CacheHoldsItsPrefix
  <2>8. Len(h) - BlockSize + o + 1 = p /\ p \in 0..(i * BlockSize)
    <3> HIDE DEF i, o, h
    <3>1. (i - 1) * BlockSize \in Nat
      BY <2>3, Product
    <3> QED BY <2>1, <2>3, <2>4, <2>6, <3>1, BlockSizeNat
  <2>9. SubSeq(h, 1, p) = SubSeq(text, 1, p)
    BY <1>3, <2>5, <2>8, PrefixOfPrefix
  <2> QED BY <2>2, <2>5, <2>7, <2>8, <2>9
<1>6. AttendsOwnTokens'
  <2>1. ASSUME NEW t \in Slot, NEW p \in 1..Len(held'[t])
        PROVE  /\ BlocksFor(p) <= Len(slotBlocks'[t])
               /\ kv[slotBlocks'[t][LogicalOf(p)]][OffsetAt(p)] = SubSeq(held'[t], 1, p)
    <3>1. CASE t = s
      <4>1. p \in 1..Len(text) /\ p \in Nat \ {0}
        BY <1>3, <1>4, <3>1, LenProperties
      <4>2. BlocksFor(p) = LogicalOf(p) /\ LogicalOf(p) \in 1..n
        BY <1>5, <4>1, PositionSplit
      <4>3. slotBlocks'[t] = reused /\ held'[t] = text /\ Len(slotBlocks'[t]) = n
        BY <1>3, <1>4, <3>1
      <4>4. kv[reused[LogicalOf(p)]][OffsetAt(p)] = SubSeq(text, 1, p)
        BY <1>5, <4>1
      <4>5. BlocksFor(p) <= n
        BY <1>3, <4>2
      <4> QED BY <4>3, <4>4, <4>5
    <3>2. CASE t # s
      <4>1. slotBlocks'[t] = slotBlocks[t] /\ held'[t] = held[t]
        BY <1>4, <3>2
      <4>2. BlockAt(t, p) = slotBlocks[t][LogicalOf(p)]
        BY DEF BlockAt, LogicalOf
      <4> QED BY <4>1, <4>2 DEF Contents, AttendsOwnTokens
    <3> QED BY <3>1, <3>2
  <2>2. kv' = kv
    BY <1>2
  <2> QED BY <2>1, <2>2 DEF AttendsOwnTokens, BlockAt, LogicalOf
<1>7. CacheHoldsItsPrefix'
  BY <1>2 DEF CacheHoldsItsPrefix, Contents
<1> QED BY <1>6, <1>7 DEF Contents

-----------------------------------------------------------------------------
(* prefill_register *)

\* The logical blocks prefill_register publishes.
Published(s, n) == {lb \in (n + 1)..(Len(held[s]) \div BlockSize) :
                      PrefixHash(held[s], lb) \notin DOMAIN cacheMap}

\* They are full, and none of them is registered yet: under its own prefix it
\* would be in the cache map, and a slot's block is registered under no other.
LEMMA PublishedFacts ==
  ASSUME Books, NEW s \in Slot, NEW n \in Nat, NEW lb \in Published(s, n)
  PROVE  /\ lb \in Nat \ {0} /\ lb \in 1..Len(slotBlocks[s])
         /\ lb * BlockSize \in 1..Len(held[s])
         /\ slotBlocks[s][lb] \in Block /\ slotBlocks[s][lb] \in Blocks(s)
         /\ blockHash[slotBlocks[s][lb]] = NoHash
         /\ PrefixHash(held[s], lb) = SubSeq(held[s], 1, lb * BlockSize)
         /\ PrefixHash(held[s], lb) \in Seq(Token) \ {NoHash}
         /\ Len(PrefixHash(held[s], lb)) = lb * BlockSize
         /\ Len(PrefixHash(held[s], lb)) \div BlockSize = lb
         /\ PrefixHash(held[s], lb) \notin DOMAIN cacheMap
<1>1. /\ slotBlocks[s] \in Seq(Block) /\ Len(slotBlocks[s]) \in Nat
      /\ held[s] \in Seq(Token) /\ Len(held[s]) \in Nat
      /\ \A i \in 1..Len(slotBlocks[s]) : slotBlocks[s][i] \in Block
  BY SlotTypes DEF Books
<1>2. Len(held[s]) \div BlockSize \in Nat
  BY <1>1, FullBlocks
<1>3. lb \in Nat \ {0} /\ lb <= Len(held[s]) \div BlockSize
      /\ PrefixHash(held[s], lb) \notin DOMAIN cacheMap
  BY <1>2 DEF Published
<1>4. lb * BlockSize <= Len(held[s]) /\ lb * BlockSize \in Nat \ {0}
      /\ (lb * BlockSize) \div BlockSize = lb
  BY <1>1, <1>3, FullBlocks, Product
<1>5. Len(held[s]) <= Len(slotBlocks[s]) * BlockSize /\ Len(slotBlocks[s]) * BlockSize \in Nat
  BY <1>1, Product DEF Books, HeldFits
<1>6. lb \in 1..Len(slotBlocks[s])
  <2>1. lb * BlockSize <= Len(slotBlocks[s]) * BlockSize
    BY <1>1, <1>4, <1>5
  <2> QED BY <1>1, <1>3, <2>1, ProductMonotone
<1>7. slotBlocks[s][lb] \in Block /\ slotBlocks[s][lb] \in Blocks(s)
  BY <1>1, <1>6 DEF Blocks
<1>8. PrefixHash(held[s], lb) \in Seq(Token) /\ Len(PrefixHash(held[s], lb)) = lb * BlockSize
  BY <1>1, <1>4, PrefixFacts DEF PrefixHash
<1>9. PrefixHash(held[s], lb) # NoHash
  <2>1. Len(NoHash) = 0
    BY EmptySeq DEF NoHash
  <2> QED BY <1>4, <1>8, <2>1
<1>10. blockHash[slotBlocks[s][lb]] = NoHash
  <2>1. SUFFICES ASSUME blockHash[slotBlocks[s][lb]] # NoHash PROVE FALSE
    OBVIOUS
  <2>2. blockHash[slotBlocks[s][lb]] = PrefixHash(held[s], lb)
    BY <1>6, <2>1 DEF Books, OwnPrefix, PrefixHash
  <2> QED BY <1>3, <1>7, <2>1, <2>2 DEF Books, CacheInverse
<1>11. PrefixHash(held[s], lb) = SubSeq(held[s], 1, lb * BlockSize)
  BY DEF PrefixHash
<1> QED BY <1>1, <1>3, <1>4, <1>6, <1>7, <1>8, <1>9, <1>10, <1>11

\* The state change of prefill_register for what a slot was fed.
LEMMA RegisterStep ==
  ASSUME Books, NEW s \in Slot, NEW n \in Nat, Register(s, held[s], n)
  PROVE  /\ \A lb \in Published(s, n) :
              LET h == PrefixHash(held[s], lb) IN
              /\ h \in DOMAIN cacheMap' /\ cacheMap'[h] = slotBlocks[s][lb]
              /\ blockHash'[slotBlocks[s][lb]] = h
         /\ \A b \in Block : \/ \E lb \in Published(s, n) : b = slotBlocks[s][lb]
                             \/ blockHash'[b] = blockHash[b]
         /\ \A h \in DOMAIN cacheMap : h \in DOMAIN cacheMap' /\ cacheMap'[h] = cacheMap[h]
         /\ \A h \in DOMAIN cacheMap' : \/ h \in DOMAIN cacheMap
                                        \/ \E lb \in Published(s, n) : h = PrefixHash(held[s], lb)
         /\ cacheMap' \in [DOMAIN cacheMap' -> Block]
         /\ blockHash' \in [Block -> Seq(Token)]
         /\ older' \in [Block -> SUBSET Block]
         /\ UNCHANGED <<free, slotBlocks, refcount, kv, held>>
<1> DEFINE new == Published(s, n)
           hashes == {PrefixHash(held[s], lb) : lb \in new}
           T == {slotBlocks[s][lb] : lb \in new}
<1>1. /\ cacheMap' = [h \in DOMAIN cacheMap \cup hashes |->
                        IF h \in hashes THEN slotBlocks[s][Len(h) \div BlockSize] ELSE cacheMap[h]]
      /\ blockHash' = [b \in Block |->
                         IF b \in T
                         THEN PrefixHash(held[s], CHOOSE lb \in new : slotBlocks[s][lb] = b)
                         ELSE blockHash[b]]
      /\ older' = Touched(slotBlocks[s], new)
      /\ UNCHANGED <<free, slotBlocks, refcount, kv, held>>
  BY Zenon DEF Register, Published
<1>2. KVTypeOK /\ BlocksDistinct
  BY DEF Books
<1>3. \A lb \in new : /\ lb \in 1..Len(slotBlocks[s]) /\ slotBlocks[s][lb] \in Block
                      /\ PrefixHash(held[s], lb) \in Seq(Token) \ {NoHash}
                      /\ Len(PrefixHash(held[s], lb)) \div BlockSize = lb
                      /\ PrefixHash(held[s], lb) \notin DOMAIN cacheMap
  BY PublishedFacts
<1> HIDE DEF new
<1>4. \A lb, k \in new : slotBlocks[s][lb] = slotBlocks[s][k] => lb = k
  BY <1>2, <1>3 DEF BlocksDistinct
<1>5. \A lb \in new : (CHOOSE k \in new : slotBlocks[s][k] = slotBlocks[s][lb]) = lb
  BY <1>4
<1>6. ASSUME NEW lb \in new
      PROVE  LET h == PrefixHash(held[s], lb) IN
             /\ h \in DOMAIN cacheMap' /\ cacheMap'[h] = slotBlocks[s][lb]
             /\ blockHash'[slotBlocks[s][lb]] = h
  BY <1>1, <1>3, <1>5
<1>7. \A h \in DOMAIN cacheMap : h \in DOMAIN cacheMap' /\ cacheMap'[h] = cacheMap[h]
  BY <1>1, <1>3
<1>8. \A h \in DOMAIN cacheMap' : h \in DOMAIN cacheMap \/ \E lb \in new : h = PrefixHash(held[s], lb)
  BY <1>1
<1>9. \A b \in Block : (\E lb \in new : b = slotBlocks[s][lb]) \/ blockHash'[b] = blockHash[b]
  BY <1>1
<1>10. cacheMap' \in [DOMAIN cacheMap' -> Block]
  <2>1. \A h \in DOMAIN cacheMap' : cacheMap'[h] \in Block
    <3>1. ASSUME NEW h \in DOMAIN cacheMap' PROVE cacheMap'[h] \in Block
      <4>1. CASE h \in DOMAIN cacheMap
        BY <1>2, <1>7, <4>1 DEF KVTypeOK
      <4>2. CASE \E lb \in new : h = PrefixHash(held[s], lb)
        BY <1>3, <1>6, <4>2
      <4> QED BY <1>8, <4>1, <4>2
    <3> QED BY <3>1
  <2>2. cacheMap' = [h \in DOMAIN cacheMap' |-> cacheMap'[h]]
    BY <1>1
  <2> QED BY <2>1, <2>2
<1>11. blockHash' \in [Block -> Seq(Token)]
  <2>1. \A b \in Block : blockHash'[b] \in Seq(Token)
    <3>1. ASSUME NEW b \in Block PROVE blockHash'[b] \in Seq(Token)
      <4>1. CASE \E lb \in new : b = slotBlocks[s][lb]
        BY <1>3, <1>6, <4>1
      <4>2. CASE blockHash'[b] = blockHash[b]
        BY <1>2, <4>2 DEF KVTypeOK
      <4> QED BY <1>9, <4>1, <4>2
    <3> QED BY <3>1
  <2>2. blockHash' = [b \in Block |-> blockHash'[b]]
    BY <1>1
  <2> QED BY <2>1, <2>2
<1>12. older' \in [Block -> SUBSET Block]
  BY <1>1, <1>2, <1>3, TouchedType
<1> QED BY <1>1, <1>6, <1>7, <1>8, <1>9, <1>10, <1>11, <1>12 DEF new

\* prefill_register keeps the books: it publishes full blocks of own text only.
LEMMA RegisterBooks ==
  ASSUME Books, NEW s \in Slot, NEW n \in Nat, Register(s, held[s], n)
  PROVE  Books'
<1> DEFINE new == Published(s, n)
<1>1. /\ \A lb \in new :
           LET h == PrefixHash(held[s], lb) IN
           /\ h \in DOMAIN cacheMap' /\ cacheMap'[h] = slotBlocks[s][lb]
           /\ blockHash'[slotBlocks[s][lb]] = h
      /\ \A b \in Block : \/ \E lb \in new : b = slotBlocks[s][lb]
                          \/ blockHash'[b] = blockHash[b]
      /\ \A h \in DOMAIN cacheMap : h \in DOMAIN cacheMap' /\ cacheMap'[h] = cacheMap[h]
      /\ \A h \in DOMAIN cacheMap' : \/ h \in DOMAIN cacheMap
                                     \/ \E lb \in new : h = PrefixHash(held[s], lb)
      /\ cacheMap' \in [DOMAIN cacheMap' -> Block]
      /\ blockHash' \in [Block -> Seq(Token)]
      /\ older' \in [Block -> SUBSET Block]
      /\ UNCHANGED <<free, slotBlocks, refcount, kv, held>>
  BY RegisterStep
<1>2. KVTypeOK
  BY DEF Books
<1>3. \A lb \in new :
        /\ lb \in 1..Len(slotBlocks[s]) /\ lb * BlockSize \in 1..Len(held[s])
        /\ slotBlocks[s][lb] \in Block /\ slotBlocks[s][lb] \in Blocks(s)
        /\ blockHash[slotBlocks[s][lb]] = NoHash
        /\ PrefixHash(held[s], lb) = SubSeq(held[s], 1, lb * BlockSize)
        /\ PrefixHash(held[s], lb) \in Seq(Token) \ {NoHash}
  BY PublishedFacts
<1> HIDE DEF new
<1>4. \A b \in Block : blockHash[b] # NoHash => blockHash'[b] = blockHash[b]
  BY <1>1, <1>3
<1>5. \A t \in Slot : Blocks(t)' = Blocks(t)
  BY <1>1 DEF Blocks
<1>6. KVTypeOK'
  <2>1. DOMAIN cacheMap' \subseteq Seq(Token)
    BY <1>1, <1>2, <1>3 DEF KVTypeOK
  <2> QED BY <1>1, <1>2, <2>1 DEF KVTypeOK
<1>7. HeldFits' /\ BlocksDistinct'
  BY <1>1 DEF Books, HeldFits, BlocksDistinct
<1>8. RefcountExact'
  <2>1. \A b \in Block : Holders(b)' = Holders(b)
    BY <1>5 DEF Holders
  <2> QED BY <1>1, <2>1 DEF Books, RefcountExact
<1>9. FreeExact'
  <2>1. ASSUME NEW b \in Block
        PROVE  b \in free <=> refcount[b] = 0 /\ blockHash'[b] = NoHash
    <3>1. CASE \E lb \in new : b = slotBlocks[s][lb]
      <4>1. b \in Blocks(s) /\ blockHash'[b] # NoHash /\ blockHash[b] = NoHash
        BY <1>1, <1>3, <3>1
      <4>2. refcount[b] # 0
        <5>1. s \in Holders(b)
          BY <4>1 DEF Holders
        <5> QED BY <5>1, HoldersFinite DEF Books, RefcountExact
      <4> QED BY <4>1, <4>2 DEF Books, FreeExact
    <3>2. CASE blockHash'[b] = blockHash[b]
      BY <3>2 DEF Books, FreeExact
    <3> QED BY <1>1, <3>1, <3>2
  <2> QED BY <1>1, <2>1 DEF FreeExact
<1>10. CacheInverse'
  <2>1. ASSUME NEW h \in DOMAIN cacheMap' PROVE h # NoHash /\ blockHash'[cacheMap'[h]] = h
    <3>1. CASE h \in DOMAIN cacheMap
      <4>1. h # NoHash /\ cacheMap[h] \in Block /\ blockHash[cacheMap[h]] = h
        BY <1>2, <3>1 DEF Books, CacheInverse, KVTypeOK
      <4> QED BY <1>1, <1>4, <3>1, <4>1
    <3>2. CASE \E lb \in new : h = PrefixHash(held[s], lb)
      <4>1. PICK lb \in new : h = PrefixHash(held[s], lb)
        BY <3>2
      <4>2. cacheMap'[h] = slotBlocks[s][lb] /\ blockHash'[slotBlocks[s][lb]] = h
        BY <1>1, <4>1
      <4>3. h # NoHash
        BY <1>3, <4>1
      <4> QED BY <4>2, <4>3
    <3> QED BY <1>1, <3>1, <3>2
  <2>2. ASSUME NEW b \in Block, blockHash'[b] # NoHash
        PROVE  blockHash'[b] \in DOMAIN cacheMap' /\ cacheMap'[blockHash'[b]] = b
    <3>1. CASE \E lb \in new : b = slotBlocks[s][lb]
      BY <1>1, <3>1
    <3>2. CASE blockHash'[b] = blockHash[b]
      BY <1>1, <2>2, <3>2 DEF Books, CacheInverse
    <3> QED BY <1>1, <3>1, <3>2
  <2> QED BY <2>1, <2>2 DEF CacheInverse
<1>11. SharedRegistered'
  <2>1. ASSUME NEW t \in Slot, NEW u \in Slot, t # u, NEW b \in Blocks(t) \cap Blocks(u)
        PROVE  blockHash'[b] # NoHash
    <3>1. b \in Block /\ blockHash[b] # NoHash
      BY <1>2, <2>1, SlotTypes DEF Books, SharedRegistered
    <3> QED BY <1>4, <3>1
  <2> QED BY <1>5, <2>1 DEF SharedRegistered
<1>12. OwnPrefix'
  <2>1. ASSUME NEW t \in Slot, NEW i \in 1..Len(slotBlocks[t]),
               blockHash'[slotBlocks[t][i]] # NoHash
        PROVE  /\ i * BlockSize <= Len(held[t])
               /\ blockHash'[slotBlocks[t][i]] = SubSeq(held[t], 1, i * BlockSize)
    <3> DEFINE b == slotBlocks[t][i]
    <3>1. b \in Block /\ b \in Blocks(t)
      BY <1>2, SlotTypes DEF Blocks
    <3>2. CASE \E lb \in new : b = slotBlocks[s][lb]
      <4>1. PICK lb \in new : b = slotBlocks[s][lb]
        BY <3>2
      <4>2. t = s
        BY <1>3, <3>1, <4>1 DEF Books, SharedRegistered
      <4>3. i = lb
        BY <1>3, <4>1, <4>2 DEF Books, BlocksDistinct
      <4>4. Len(held[s]) \in Nat
        BY <1>2, SlotTypes
      <4>5. lb * BlockSize \in 1..Len(held[s])
        BY <1>3
      <4>6. blockHash'[slotBlocks[s][lb]] = SubSeq(held[s], 1, lb * BlockSize)
        BY <1>1, <1>3
      <4> QED BY <4>2, <4>3, <4>4, <4>5, <4>6
    <3>3. CASE blockHash'[b] = blockHash[b]
      BY <2>1, <3>3 DEF Books, OwnPrefix
    <3> QED BY <1>1, <3>1, <3>2, <3>3
  <2> QED BY <1>1, <2>1 DEF OwnPrefix
<1> QED BY <1>6, <1>7, <1>8, <1>9, <1>10, <1>11, <1>12 DEF Books

\* A published block holds its whole prefix already.
LEMMA RegisterContents ==
  ASSUME KVInv, NEW s \in Slot, NEW n \in Nat, Register(s, held[s], n)
  PROVE  Contents'
<1> USE DEF KVInv
<1>1. /\ \A lb \in Published(s, n) : cacheMap'[PrefixHash(held[s], lb)] = slotBlocks[s][lb]
      /\ \A h \in DOMAIN cacheMap : cacheMap'[h] = cacheMap[h]
      /\ \A h \in DOMAIN cacheMap' : \/ h \in DOMAIN cacheMap
                                     \/ \E lb \in Published(s, n) : h = PrefixHash(held[s], lb)
      /\ UNCHANGED <<free, slotBlocks, refcount, kv, held>>
  BY RegisterStep
<1>2. AttendsOwnTokens'
  BY <1>1 DEF Contents, AttendsOwnTokens, BlockAt
<1>3. ASSUME NEW lb \in Published(s, n), NEW o \in 0..(BlockSize - 1)
      PROVE  LET h == PrefixHash(held[s], lb)
             IN  kv[slotBlocks[s][lb]][o] = SubSeq(h, 1, Len(h) - BlockSize + o + 1)
  <2> DEFINE p == ((lb - 1) * BlockSize) + o + 1
             h == PrefixHash(held[s], lb)
  <2>1. /\ lb \in Nat \ {0} /\ lb * BlockSize \in 1..Len(held[s])
        /\ h = SubSeq(held[s], 1, lb * BlockSize) /\ Len(h) = lb * BlockSize
    BY PublishedFacts
  <2>2. p \in Nat \ {0} /\ LogicalOf(p) = lb /\ OffsetAt(p) = o
    BY <2>1, PositionJoin
  <2>3. held[s] \in Seq(Token) /\ Len(held[s]) \in Nat
    BY SlotTypes DEF Books
  <2>4. lb * BlockSize = ((lb - 1) * BlockSize) + BlockSize /\ (lb - 1) * BlockSize \in Nat
    BY <2>1, Product
  <2>5. p = Len(h) - BlockSize + o + 1 /\ p \in 0..(lb * BlockSize) /\ p \in 1..Len(held[s])
    <3> DEFINE q == (lb - 1) * BlockSize
               r == lb * BlockSize
    <3>1. q \in Nat /\ r = q + BlockSize /\ r \in 1..Len(held[s]) /\ Len(h) = r
      BY <2>1, <2>4
    <3> HIDE DEF q, r, h
    <3>2. q + o + 1 = Len(h) - BlockSize + o + 1 /\ q + o + 1 \in 0..r
          /\ q + o + 1 \in 1..Len(held[s])
      BY <2>3, <3>1, BlockSizeNat
    <3> QED BY <3>2 DEF q, r
  <2>6. kv[BlockAt(s, p)][OffsetAt(p)] = SubSeq(held[s], 1, p)
    BY <2>5 DEF Contents, AttendsOwnTokens
  <2>7. BlockAt(s, p) = slotBlocks[s][LogicalOf(p)]
    BY DEF BlockAt, LogicalOf
  <2>8. lb * BlockSize \in 0..Len(held[s])
    BY <2>1, <2>3
  <2>9. SubSeq(h, 1, p) = SubSeq(held[s], 1, p)
    BY <2>1, <2>3, <2>5, <2>8, PrefixOfPrefix
  <2> HIDE DEF p, h
  <2> QED BY <2>2, <2>5, <2>6, <2>7, <2>9 DEF h
<1>4. CacheHoldsItsPrefix'
  BY <1>1, <1>3 DEF Contents, CacheHoldsItsPrefix
<1> QED BY <1>2, <1>4 DEF Contents

-----------------------------------------------------------------------------
(* The forward pass *)

\* The entries that WriteKV stores at offset o of block b.
StoredAt(entries, b, o) ==
  {w \in Slot \X (1..(MaxSeq + BlockSize)) :
     /\ w[2] <= Len(entries[w[1]])
     /\ BlockAt(w[1], Len(held[w[1]]) + w[2]) = b
     /\ OffsetAt(Len(held[w[1]]) + w[2]) = o}

\* What a caller of the forward pass guarantees: the rows of slot s continue what
\* the slot was fed to text[s], in blocks the slot has, and kept[s] is a prefix of
\* that text no shorter than what was fed before.
Extends(entries, text, kept) ==
  /\ text \in [Slot -> Seq(Token)] /\ kept \in [Slot -> Seq(Token)]
  /\ \A s \in Slot :
       /\ Len(held[s]) <= Len(kept[s]) /\ Len(kept[s]) <= Len(text[s])
       /\ held[s] = SubSeq(text[s], 1, Len(held[s]))
       /\ kept[s] = SubSeq(text[s], 1, Len(kept[s]))
       /\ Len(text[s]) <= Len(slotBlocks[s]) * BlockSize
       /\ Len(text[s]) - Len(held[s]) <= MaxSeq + BlockSize
       /\ Len(entries[s]) = Len(text[s]) - Len(held[s])
       /\ \A i \in 1..Len(entries[s]) : entries[s][i] = SubSeq(text[s], 1, Len(held[s]) + i)

\* A position that a slot has yet to write is no other position of any slot.
LEMMA PlaceUnique ==
  ASSUME Books, NEW s \in Slot, NEW t \in Slot, NEW p \in Nat \ {0}, NEW q \in Nat \ {0},
         LogicalOf(p) <= Len(slotBlocks[s]), LogicalOf(q) <= Len(slotBlocks[t]),
         q > Len(held[t]),
         BlockAt(s, p) = BlockAt(t, q), OffsetAt(p) = OffsetAt(q)
  PROVE  s = t /\ p = q
<1>1. Len(slotBlocks[s]) \in Nat /\ Len(slotBlocks[t]) \in Nat /\ Len(held[t]) \in Nat
  BY SlotTypes DEF Books
<1>2. /\ LogicalOf(p) \in Nat \ {0} /\ LogicalOf(q) \in Nat \ {0}
      /\ p = ((LogicalOf(p) - 1) * BlockSize) + OffsetAt(p) + 1
      /\ q = ((LogicalOf(q) - 1) * BlockSize) + OffsetAt(q) + 1
  BY PositionSplit
<1>3. LogicalOf(p) \in 1..Len(slotBlocks[s]) /\ LogicalOf(q) \in 1..Len(slotBlocks[t])
  BY <1>1, <1>2
<1>4. BlockAt(s, p) = slotBlocks[s][LogicalOf(p)] /\ BlockAt(t, q) = slotBlocks[t][LogicalOf(q)]
  BY DEF BlockAt, LogicalOf
<1>5. LogicalOf(q) * BlockSize > Len(held[t])
  <2>1. q <= LogicalOf(q) * BlockSize /\ LogicalOf(q) * BlockSize \in Nat
    BY <1>2, PositionBlockEnd
  <2> QED BY <1>1, <2>1
<1>6. s = t
  <2>1. slotBlocks[t][LogicalOf(q)] \in Blocks(s)
    BY <1>3, <1>4 DEF Blocks
  <2> QED BY <1>3, <1>5, <2>1, BooksExclusive
<1>7. LogicalOf(p) = LogicalOf(q)
  BY <1>3, <1>4, <1>6 DEF Books, BlocksDistinct
<1>8. p = q
  BY <1>2, <1>7
<1> QED BY <1>6, <1>8

\* Where the entries go: to blocks that nobody else relies on, each to its place.
LEMMA StoredAtFacts ==
  ASSUME Books, NEW entries, NEW text, NEW kept, Extends(entries, text, kept),
         NEW b, NEW o, NEW w \in StoredAt(entries, b, o)
  PROVE  /\ w[1] \in Slot /\ w[2] \in 1..Len(entries[w[1]])
         /\ Len(held[w[1]]) + w[2] \in 1..Len(text[w[1]])
         /\ Len(held[w[1]]) + w[2] \in Nat \ {0}
         /\ Len(held[w[1]]) + w[2] > Len(held[w[1]])
         /\ LogicalOf(Len(held[w[1]]) + w[2]) <= Len(slotBlocks[w[1]])
         /\ BlockAt(w[1], Len(held[w[1]]) + w[2]) = b
         /\ OffsetAt(Len(held[w[1]]) + w[2]) = o
         /\ blockHash[b] = NoHash /\ refcount[b] = 1
<1> DEFINE s == w[1]
           i == w[2]
           q == Len(held[s]) + i
<1>1. /\ s \in Slot /\ i \in Nat \ {0} /\ i <= Len(entries[s])
      /\ BlockAt(s, q) = b /\ OffsetAt(q) = o
  <2>1. MaxSeq + BlockSize \in Nat
    BY PagedKVAssumption
  <2> QED BY <2>1 DEF StoredAt
<1> HIDE DEF s, i
<1>2. /\ Len(held[s]) \in Nat /\ Len(slotBlocks[s]) \in Nat /\ Len(text[s]) \in Nat
      /\ Len(entries[s]) = Len(text[s]) - Len(held[s])
      /\ Len(text[s]) <= Len(slotBlocks[s]) * BlockSize
      /\ Len(slotBlocks[s]) * BlockSize \in Nat
  BY <1>1, SlotTypes, LenProperties, Product DEF Extends, Books
<1>3. q \in Nat \ {0} /\ q > Len(held[s]) /\ q <= Len(text[s]) /\ i \in 1..Len(entries[s])
  BY <1>1, <1>2
<1>4. LogicalOf(q) <= Len(slotBlocks[s])
  <2>1. q <= Len(slotBlocks[s]) * BlockSize
    BY <1>2, <1>3
  <2> QED BY <1>2, <1>3, <2>1, PositionBound
<1>5. LogicalOf(q) \in 1..Len(slotBlocks[s])
  BY <1>2, <1>3, <1>4, PositionSplit
<1>6. LogicalOf(q) * BlockSize > Len(held[s])
  <2>1. q <= LogicalOf(q) * BlockSize /\ LogicalOf(q) * BlockSize \in Nat
    BY <1>3, PositionBlockEnd
  <2> QED BY <1>2, <1>3, <2>1
<1>7. blockHash[b] = NoHash /\ refcount[b] = 1
  <2>1. b = slotBlocks[s][LogicalOf(q)]
    BY <1>1 DEF BlockAt, LogicalOf
  <2> QED BY <1>1, <1>5, <1>6, <2>1, BooksExclusive
<1>8. q \in 1..Len(text[s])
  BY <1>2, <1>3
<1> QED BY <1>1, <1>3, <1>4, <1>7, <1>8 DEF s, i

\* The effect of WriteKV, place by place.
LEMMA WriteKVStep ==
  ASSUME KVInv, NEW entries, NEW text, NEW kept, Extends(entries, text, kept),
         WriteKV(entries, kept)
  PROVE  /\ held' = kept
         /\ UNCHANGED <<free, slotBlocks, refcount, cacheMap, blockHash, older>>
         /\ kv' \in [Block -> [0..(BlockSize - 1) -> Seq(Token)]]
         /\ \A b \in Block : (blockHash[b] # NoHash \/ refcount[b] # 1) => kv'[b] = kv[b]
         /\ \A s \in Slot : \A p \in 1..Len(text[s]) :
              /\ p \in Nat \ {0} /\ LogicalOf(p) <= Len(slotBlocks[s])
              /\ kv'[BlockAt(s, p)][OffsetAt(p)] = SubSeq(text[s], 1, p)
<1> USE DEF KVInv
<1>1. /\ kv' = [b \in Block |-> [o \in 0..(BlockSize - 1) |->
                  IF StoredAt(entries, b, o) = {} THEN kv[b][o]
                  ELSE LET w == CHOOSE w \in StoredAt(entries, b, o) : TRUE
                       IN  entries[w[1]][w[2]]]]
      /\ held' = kept
      /\ UNCHANGED <<free, slotBlocks, refcount, cacheMap, blockHash, older>>
  BY Zenon DEF WriteKV, StoredAt
<1>2. KVTypeOK
  BY DEF Books
<1>3. \A b \in Block : \A o \in 0..(BlockSize - 1) :
        StoredAt(entries, b, o) = {} => kv'[b][o] = kv[b][o]
  BY <1>1
<1>4. ASSUME NEW b \in Block, NEW o \in 0..(BlockSize - 1), NEW w \in StoredAt(entries, b, o),
             \A v \in StoredAt(entries, b, o) : v = w
      PROVE  kv'[b][o] = entries[w[1]][w[2]]
  <2>1. (CHOOSE v \in StoredAt(entries, b, o) : TRUE) = w
    BY <1>4
  <2> QED BY <1>1, <1>4, <2>1
<1>5. ASSUME NEW b \in Block, NEW o \in 0..(BlockSize - 1), NEW w \in StoredAt(entries, b, o)
      PROVE  entries[w[1]][w[2]] = SubSeq(text[w[1]], 1, Len(held[w[1]]) + w[2])
             /\ entries[w[1]][w[2]] \in Seq(Token)
  <2>1. w[1] \in Slot /\ w[2] \in 1..Len(entries[w[1]])
        /\ Len(held[w[1]]) + w[2] \in 1..Len(text[w[1]])
    BY StoredAtFacts
  <2>2. text[w[1]] \in Seq(Token) /\ Len(text[w[1]]) \in Nat
    BY <2>1, LenProperties DEF Extends
  <2>3. entries[w[1]][w[2]] = SubSeq(text[w[1]], 1, Len(held[w[1]]) + w[2])
    BY <2>1 DEF Extends
  <2>4. Len(held[w[1]]) + w[2] \in 0..Len(text[w[1]])
    BY <2>1, <2>2
  <2> QED BY <2>2, <2>3, <2>4, PrefixFacts
<1>6. ASSUME NEW b \in Block, NEW o \in 0..(BlockSize - 1)
      PROVE  kv'[b][o] \in Seq(Token)
  <2>1. CASE StoredAt(entries, b, o) = {}
    BY <1>2, <1>3, <2>1 DEF KVTypeOK
  <2>2. CASE StoredAt(entries, b, o) # {}
    <3> DEFINE w == CHOOSE w \in StoredAt(entries, b, o) : TRUE
    <3>1. w \in StoredAt(entries, b, o)
      BY <2>2
    <3>2. kv'[b][o] = entries[w[1]][w[2]]
      BY <1>1, <2>2
    <3> QED BY <1>5, <3>1, <3>2
  <2> QED BY <2>1, <2>2
<1>7. kv' \in [Block -> [0..(BlockSize - 1) -> Seq(Token)]]
  <2>1. kv' = [b \in Block |-> [o \in 0..(BlockSize - 1) |-> kv'[b][o]]]
    BY <1>1
  <2> QED BY <1>6, <2>1
<1>8. ASSUME NEW b \in Block, blockHash[b] # NoHash \/ refcount[b] # 1
      PROVE  kv'[b] = kv[b]
  <2>1. \A o \in 0..(BlockSize - 1) : StoredAt(entries, b, o) = {}
    BY <1>8, StoredAtFacts
  <2>2. kv[b] \in [0..(BlockSize - 1) -> Seq(Token)] /\ kv'[b] \in [0..(BlockSize - 1) -> Seq(Token)]
    BY <1>2, <1>7 DEF KVTypeOK
  <2>3. \A o \in 0..(BlockSize - 1) : kv'[b][o] = kv[b][o]
    BY <1>3, <2>1
  <2>4. kv'[b] = [o \in 0..(BlockSize - 1) |-> kv'[b][o]]
    BY <2>2
  <2>5. kv[b] = [o \in 0..(BlockSize - 1) |-> kv[b][o]]
    BY <2>2
  <2>6. [o \in 0..(BlockSize - 1) |-> kv'[b][o]] = [o \in 0..(BlockSize - 1) |-> kv[b][o]]
    BY <2>3
  <2> QED BY <2>4, <2>5, <2>6
<1>9. ASSUME NEW s \in Slot, NEW p \in 1..Len(text[s])
      PROVE  /\ p \in Nat \ {0} /\ LogicalOf(p) <= Len(slotBlocks[s])
             /\ kv'[BlockAt(s, p)][OffsetAt(p)] = SubSeq(text[s], 1, p)
  <2>1. /\ text[s] \in Seq(Token) /\ Len(text[s]) \in Nat /\ Len(held[s]) \in Nat
        /\ Len(slotBlocks[s]) \in Nat /\ Len(slotBlocks[s]) * BlockSize \in Nat
        /\ Len(text[s]) <= Len(slotBlocks[s]) * BlockSize
        /\ Len(entries[s]) = Len(text[s]) - Len(held[s])
        /\ Len(text[s]) - Len(held[s]) <= MaxSeq + BlockSize
        /\ held[s] = SubSeq(text[s], 1, Len(held[s])) /\ Len(held[s]) <= Len(text[s])
    <3>1. text[s] \in Seq(Token) /\ Len(text[s]) \in Nat
      BY LenProperties DEF Extends
    <3>2. Len(held[s]) <= Len(kept[s]) /\ Len(kept[s]) <= Len(text[s]) /\ Len(kept[s]) \in Nat
      BY LenProperties DEF Extends
    <3>3. Len(held[s]) \in Nat /\ Len(slotBlocks[s]) \in Nat
      BY <1>2, SlotTypes
    <3>4. Len(slotBlocks[s]) * BlockSize \in Nat
      BY <3>3, Product
    <3>5. Len(held[s]) <= Len(text[s])
      BY <3>1, <3>2, <3>3
    <3> QED BY <3>1, <3>3, <3>4, <3>5 DEF Extends
  <2>2. p \in Nat \ {0} /\ p <= Len(slotBlocks[s]) * BlockSize
    BY <2>1
  <2>3. LogicalOf(p) <= Len(slotBlocks[s])
    BY <2>1, <2>2, PositionBound
  <2>4. OffsetAt(p) \in 0..(BlockSize - 1) /\ LogicalOf(p) \in Nat \ {0}
    BY <2>2, PositionSplit
  <2>5. BlockAt(s, p) \in Block
    <3>1. BlockAt(s, p) = slotBlocks[s][LogicalOf(p)]
      BY DEF BlockAt, LogicalOf
    <3>2. LogicalOf(p) \in 1..Len(slotBlocks[s])
      BY <2>1, <2>3, <2>4
    <3> QED BY <1>2, <3>1, <3>2, SlotTypes
  <2>6. ASSUME NEW w \in StoredAt(entries, BlockAt(s, p), OffsetAt(p))
        PROVE  w[1] = s /\ Len(held[s]) + w[2] = p /\ p > Len(held[s])
    <3> DEFINE t == w[1]
               q == Len(held[t]) + w[2]
    <3>1. /\ t \in Slot /\ q \in Nat \ {0} /\ q > Len(held[t])
          /\ LogicalOf(q) <= Len(slotBlocks[t])
          /\ BlockAt(t, q) = BlockAt(s, p) /\ OffsetAt(q) = OffsetAt(p)
      BY StoredAtFacts
    <3> HIDE DEF t, q
    <3>2. s = t /\ p = q
      BY <2>2, <2>3, <3>1, PlaceUnique
    <3> QED BY <3>1, <3>2 DEF t, q
  <2>7. CASE p <= Len(held[s])
    <3>1. StoredAt(entries, BlockAt(s, p), OffsetAt(p)) = {}
      BY <2>1, <2>2, <2>6, <2>7
    <3>2. kv'[BlockAt(s, p)][OffsetAt(p)] = kv[BlockAt(s, p)][OffsetAt(p)]
      BY <1>3, <2>4, <2>5, <3>1
    <3>3. p \in 1..Len(held[s])
      BY <2>1, <2>2, <2>7
    <3>4. kv[BlockAt(s, p)][OffsetAt(p)] = SubSeq(held[s], 1, p)
      BY <3>3 DEF Contents, AttendsOwnTokens
    <3>5. SubSeq(SubSeq(text[s], 1, Len(held[s])), 1, p) = SubSeq(text[s], 1, p)
      <4>1. Len(held[s]) \in 0..Len(text[s]) /\ p \in 0..Len(held[s])
        BY <2>1, <2>2, <2>7
      <4> QED BY <2>1, <4>1, PrefixOfPrefix
    <3> QED BY <2>1, <2>2, <2>3, <3>2, <3>4, <3>5
  <2>8. CASE p > Len(held[s])
    <3> DEFINE i == p - Len(held[s])
               v == <<s, i>>
    <3>1. i \in 1..Len(entries[s]) /\ Len(held[s]) + i = p /\ i \in 1..(MaxSeq + BlockSize)
      <4>1. MaxSeq \in Nat /\ BlockSize \in Nat
        BY PagedKVAssumption
      <4>2. i \in Nat \ {0} /\ Len(held[s]) + i = p /\ i <= Len(text[s]) - Len(held[s])
        BY <2>1, <2>2, <2>8
      <4> HIDE DEF i
      <4>3. i <= Len(entries[s]) /\ i <= MaxSeq + BlockSize /\ Len(entries[s]) \in Nat
        <5> DEFINE lt == Len(text[s])
                   lh == Len(held[s])
                   le == Len(entries[s])
        <5>1. lt \in Nat /\ lh \in Nat /\ lh <= lt /\ le = lt - lh /\ lt - lh <= MaxSeq + BlockSize
              /\ i <= lt - lh
          BY <2>1, <4>2
        <5> HIDE DEF lt, lh, le
        <5>2. i <= le /\ i <= MaxSeq + BlockSize /\ le \in Nat
          BY <4>1, <4>2, <5>1
        <5> QED BY <5>2 DEF le
      <4> QED BY <4>1, <4>2, <4>3
    <3>2. v \in StoredAt(entries, BlockAt(s, p), OffsetAt(p))
      <4>1. v[1] = s /\ v[2] = i /\ v \in Slot \X (1..(MaxSeq + BlockSize))
        BY <3>1
      <4>2. i <= Len(entries[s])
        BY <2>1, <3>1
      <4> HIDE DEF v, i
      <4> QED BY <3>1, <4>1, <4>2 DEF StoredAt
    <3>3. \A w \in StoredAt(entries, BlockAt(s, p), OffsetAt(p)) : w = v
      <4>1. ASSUME NEW w \in StoredAt(entries, BlockAt(s, p), OffsetAt(p)) PROVE w = v
        <5>1. w[1] = s /\ Len(held[s]) + w[2] = p
          BY <2>6
        <5>2. w \in Slot \X (1..(MaxSeq + BlockSize)) /\ w[2] \in Nat
          BY PagedKVAssumption DEF StoredAt
        <5>3. w = <<w[1], w[2]>>
          BY <5>2
        <5>4. w[2] = i
          BY <2>1, <2>2, <5>1, <5>2
        <5> QED BY <5>1, <5>3, <5>4
      <4> QED BY <4>1
    <3>4. v[1] = s /\ v[2] = i
      OBVIOUS
    <3> HIDE DEF v, i
    <3>5. kv'[BlockAt(s, p)][OffsetAt(p)] = entries[s][i]
      BY <1>4, <2>4, <2>5, <3>2, <3>3, <3>4
    <3>6. entries[s][i] = SubSeq(text[s], 1, p)
      BY <3>1 DEF Extends
    <3> QED BY <2>2, <2>3, <3>5, <3>6
  <2> QED BY <2>1, <2>2, <2>7, <2>8
<1> QED BY <1>1, <1>7, <1>8, <1>9

\* What a slot is fed extends what it held and stays within its blocks.
LEMMA ExtendsHeld ==
  ASSUME Books, NEW entries, NEW text, NEW kept, Extends(entries, text, kept), NEW s \in Slot
  PROVE  /\ kept[s] \in Seq(Token) /\ Len(kept[s]) \in Nat /\ Len(held[s]) \in Nat
         /\ Len(held[s]) <= Len(kept[s])
         /\ Len(kept[s]) <= Len(slotBlocks[s]) * BlockSize
         /\ Len(kept[s]) <= Len(text[s]) /\ Len(text[s]) \in Nat
         /\ \A n \in 0..Len(held[s]) : SubSeq(kept[s], 1, n) = SubSeq(held[s], 1, n)
         /\ \A n \in 0..Len(kept[s]) : SubSeq(kept[s], 1, n) = SubSeq(text[s], 1, n)
<1>1. /\ kept[s] \in Seq(Token) /\ text[s] \in Seq(Token)
      /\ Len(kept[s]) \in Nat /\ Len(text[s]) \in Nat
  BY LenProperties DEF Extends
<1>2. Len(held[s]) \in Nat /\ Len(slotBlocks[s]) * BlockSize \in Nat
  BY SlotTypes, Product DEF Books
<1>3. /\ Len(held[s]) <= Len(kept[s]) /\ Len(kept[s]) <= Len(text[s])
      /\ Len(text[s]) <= Len(slotBlocks[s]) * BlockSize
      /\ held[s] = SubSeq(text[s], 1, Len(held[s]))
      /\ kept[s] = SubSeq(text[s], 1, Len(kept[s]))
  BY DEF Extends
<1>4. ASSUME NEW n \in 0..Len(kept[s])
      PROVE  SubSeq(kept[s], 1, n) = SubSeq(text[s], 1, n)
  <2>1. Len(kept[s]) \in 0..Len(text[s])
    BY <1>1, <1>3
  <2>2. SubSeq(SubSeq(text[s], 1, Len(kept[s])), 1, n) = SubSeq(text[s], 1, n)
    BY <1>1, <2>1, PrefixOfPrefix
  <2> QED BY <1>3, <2>2
<1>5. ASSUME NEW n \in 0..Len(held[s])
      PROVE  SubSeq(kept[s], 1, n) = SubSeq(held[s], 1, n)
  <2>1. Len(held[s]) \in 0..Len(text[s]) /\ n \in 0..Len(kept[s])
    BY <1>1, <1>2, <1>3
  <2>2. SubSeq(SubSeq(text[s], 1, Len(held[s])), 1, n) = SubSeq(text[s], 1, n)
    BY <1>1, <2>1, PrefixOfPrefix
  <2> QED BY <1>3, <1>4, <2>1, <2>2
<1>6. Len(kept[s]) <= Len(slotBlocks[s]) * BlockSize
  BY <1>1, <1>2, <1>3
<1> QED BY <1>1, <1>2, <1>3, <1>4, <1>5, <1>6

\* A forward pass, or swap_in, moves no block and keeps the books.
LEMMA WriteKVBooks ==
  ASSUME KVInv, NEW entries, NEW text, NEW kept, Extends(entries, text, kept),
         WriteKV(entries, kept)
  PROVE  Books'
<1>1. /\ held' = kept
      /\ UNCHANGED <<free, slotBlocks, refcount, cacheMap, blockHash, older>>
      /\ kv' \in [Block -> [0..(BlockSize - 1) -> Seq(Token)]]
  BY WriteKVStep
<1> USE DEF KVInv, Books
<1>2. KVTypeOK'
  BY <1>1 DEF KVTypeOK, Extends
<1>3. HeldFits'
  BY <1>1, ExtendsHeld DEF HeldFits
<1>4. \A s \in Slot : Blocks(s)' = Blocks(s)
  BY <1>1 DEF Blocks
<1>5. RefcountExact'
  <2>1. \A b \in Block : Holders(b)' = Holders(b)
    BY <1>4 DEF Holders
  <2> QED BY <1>1, <2>1 DEF RefcountExact
<1>6. BlocksDistinct' /\ FreeExact' /\ CacheInverse'
  BY <1>1 DEF BlocksDistinct, FreeExact, CacheInverse
<1>7. SharedRegistered'
  BY <1>1, <1>4 DEF SharedRegistered
<1>8. OwnPrefix'
  <2>1. ASSUME NEW s \in Slot, NEW i \in 1..Len(slotBlocks[s]),
               blockHash[slotBlocks[s][i]] # NoHash
        PROVE  /\ i * BlockSize <= Len(kept[s])
               /\ blockHash[slotBlocks[s][i]] = SubSeq(kept[s], 1, i * BlockSize)
    <3>1. /\ i * BlockSize <= Len(held[s])
          /\ blockHash[slotBlocks[s][i]] = SubSeq(held[s], 1, i * BlockSize)
      BY <2>1 DEF OwnPrefix
    <3>2. i * BlockSize \in Nat
      <4>1. i \in Nat
        BY SlotTypes
      <4> QED BY <4>1, Product
    <3>3. Len(held[s]) \in Nat /\ Len(kept[s]) \in Nat /\ Len(held[s]) <= Len(kept[s])
      BY ExtendsHeld
    <3>4. i * BlockSize \in 0..Len(held[s])
      BY <3>1, <3>2, <3>3
    <3>5. SubSeq(kept[s], 1, i * BlockSize) = SubSeq(held[s], 1, i * BlockSize)
      BY <3>4, ExtendsHeld
    <3> QED BY <3>1, <3>2, <3>3, <3>5
  <2> QED BY <1>1, <2>1 DEF OwnPrefix
<1> QED BY <1>2, <1>3, <1>5, <1>6, <1>7, <1>8

\* A forward pass stores exactly what the slots then read, and overwrites nothing.
LEMMA WriteKVContents ==
  ASSUME KVInv, NEW entries, NEW text, NEW kept, Extends(entries, text, kept),
         WriteKV(entries, kept)
  PROVE  Contents'
<1> USE DEF KVInv
<1>1. /\ held' = kept /\ cacheMap' = cacheMap /\ slotBlocks' = slotBlocks
      /\ \A b \in Block : (blockHash[b] # NoHash \/ refcount[b] # 1) => kv'[b] = kv[b]
      /\ \A s \in Slot : \A p \in 1..Len(text[s]) :
           /\ p \in Nat \ {0} /\ LogicalOf(p) <= Len(slotBlocks[s])
           /\ kv'[BlockAt(s, p)][OffsetAt(p)] = SubSeq(text[s], 1, p)
  BY WriteKVStep
<1>2. AttendsOwnTokens'
  <2>1. ASSUME NEW s \in Slot, NEW p \in 1..Len(kept[s])
        PROVE  /\ BlocksFor(p) <= Len(slotBlocks[s])
               /\ kv'[BlockAt(s, p)][OffsetAt(p)] = SubSeq(kept[s], 1, p)
    <3>1. Len(kept[s]) \in Nat /\ Len(text[s]) \in Nat /\ Len(kept[s]) <= Len(text[s])
      BY ExtendsHeld
    <3>2. p \in 1..Len(text[s]) /\ p \in 0..Len(kept[s])
      BY <3>1
    <3>3. SubSeq(kept[s], 1, p) = SubSeq(text[s], 1, p)
      BY <3>2, ExtendsHeld
    <3>4. p \in Nat \ {0} /\ LogicalOf(p) <= Len(slotBlocks[s])
          /\ kv'[BlockAt(s, p)][OffsetAt(p)] = SubSeq(text[s], 1, p)
      BY <1>1, <3>2
    <3> QED BY <3>3, <3>4, PositionSplit
  <2> QED BY <1>1, <2>1 DEF AttendsOwnTokens, BlockAt
<1>3. CacheHoldsItsPrefix'
  <2>1. \A h \in DOMAIN cacheMap : cacheMap[h] \in Block /\ blockHash[cacheMap[h]] # NoHash
    BY DEF Books, KVTypeOK, CacheInverse
  <2> QED BY <1>1, <2>1 DEF Contents, CacheHoldsItsPrefix
<1> QED BY <1>2, <1>3 DEF Contents

-----------------------------------------------------------------------------
(* The steps of the specification *)

\* A forward pass for one slot.
LEMMA OneSlotExtends ==
  ASSUME Books, NEW s \in Slot, NEW written \in Seq(Token), NEW kept \in Seq(Token),
         Len(held[s]) <= Len(kept), Len(kept) <= Len(written),
         held[s] = SubSeq(written, 1, Len(held[s])), kept = SubSeq(written, 1, Len(kept)),
         Len(written) <= Len(slotBlocks[s]) * BlockSize,
         Len(written) - Len(held[s]) <= MaxSeq + BlockSize
  PROVE  Extends([r \in Slot |-> IF r = s THEN KVOf(written, Len(held[s])) ELSE <<>>],
                 [held EXCEPT ![s] = written], [held EXCEPT ![s] = kept])
<1> DEFINE entries == [r \in Slot |-> IF r = s THEN KVOf(written, Len(held[s])) ELSE <<>>]
           texts == [held EXCEPT ![s] = written]
           kepts == [held EXCEPT ![s] = kept]
           n == Len(written) - Len(held[s])
<1>1. KVTypeOK /\ held \in [Slot -> Seq(Token)]
  BY DEF Books, KVTypeOK
<1>2. n \in Nat
  <2>1. Len(held[s]) \in Nat /\ Len(kept) \in Nat /\ Len(written) \in Nat
    BY <1>1, SlotTypes, LenProperties
  <2> QED BY <2>1
<1>3. entries[s] = [i \in 1..n |-> SubSeq(written, 1, Len(held[s]) + i)]
  BY DEF KVOf
<1>4. \A r \in Slot \ {s} : entries[r] = <<>>
  OBVIOUS
<1>5. /\ texts \in [Slot -> Seq(Token)] /\ kepts \in [Slot -> Seq(Token)]
      /\ texts[s] = written /\ kepts[s] = kept
      /\ \A r \in Slot \ {s} : texts[r] = held[r] /\ kepts[r] = held[r]
  BY <1>1
<1>6. Len(entries[s]) = n
      /\ \A i \in 1..Len(entries[s]) : entries[s][i] = SubSeq(written, 1, Len(held[s]) + i)
  <2> HIDE DEF entries, n
  <2>1. Len(entries[s]) = n
    BY <1>2, <1>3
  <2> QED BY <1>3, <2>1
<1> HIDE DEF entries, texts, kepts
<1>7. ASSUME NEW r \in Slot
      PROVE  /\ Len(held[r]) <= Len(kepts[r]) /\ Len(kepts[r]) <= Len(texts[r])
             /\ held[r] = SubSeq(texts[r], 1, Len(held[r]))
             /\ kepts[r] = SubSeq(texts[r], 1, Len(kepts[r]))
             /\ Len(texts[r]) <= Len(slotBlocks[r]) * BlockSize
             /\ Len(texts[r]) - Len(held[r]) <= MaxSeq + BlockSize
             /\ Len(entries[r]) = Len(texts[r]) - Len(held[r])
             /\ \A i \in 1..Len(entries[r]) : entries[r][i] = SubSeq(texts[r], 1, Len(held[r]) + i)
  <2>1. CASE r = s
    BY <1>5, <1>6, <2>1
  <2>2. CASE r # s
    <3>1. kepts[r] = held[r] /\ texts[r] = held[r] /\ entries[r] = <<>>
      BY <1>4, <1>5, <2>2
    <3>2. held[r] \in Seq(Token) /\ Len(held[r]) \in Nat
      BY <1>1, SlotTypes
    <3>3. SubSeq(held[r], 1, Len(held[r])) = held[r]
      BY <3>2, SubSeqFull
    <3>4. Len(held[r]) - Len(held[r]) = 0 /\ 0 <= MaxSeq + BlockSize /\ Len(held[r]) <= Len(held[r])
      BY <3>2, PagedKVAssumption
    <3>5. Len(entries[r]) = 0 /\ 1..0 = {}
      BY <3>1, EmptySeq
    <3>6. Len(held[r]) <= Len(slotBlocks[r]) * BlockSize
      BY DEF Books, HeldFits
    <3> QED BY <3>1, <3>3, <3>4, <3>5, <3>6
  <2> QED BY <2>1, <2>2
<1>8. Extends(entries, texts, kepts)
  BY <1>5, <1>7 DEF Extends
<1> QED BY <1>8 DEF entries, texts, kepts

\* Feed is a forward pass of one row, or of a row and the row of a draft.
LEMMA FeedExtends ==
  ASSUME Books, NEW s \in Slot, NEW t \in Token, NEW draft \in Seq(Token), Len(draft) <= 1,
         BlocksFor(Len(Append(held[s], t) \o draft)) <= Len(slotBlocks[s])
  PROVE  LET kept == Append(held[s], t)
             written == kept \o draft
         IN  Extends([r \in Slot |-> IF r = s THEN KVOf(written, Len(held[s])) ELSE <<>>],
                     [held EXCEPT ![s] = written], [held EXCEPT ![s] = kept])
<1> DEFINE kept == Append(held[s], t)
           written == kept \o draft
<1>1. held[s] \in Seq(Token) /\ Len(held[s]) \in Nat /\ Len(slotBlocks[s]) \in Nat
  BY SlotTypes DEF Books
<1>2. kept \in Seq(Token) /\ Len(kept) = Len(held[s]) + 1 /\ kept = held[s] \o <<t>>
  BY <1>1, AppendProperties, AppendIsConcat
<1>3. held[s] = SubSeq(kept, 1, Len(held[s]))
  <2>1. <<t>> \in Seq(Token)
    OBVIOUS
  <2> QED BY <1>1, <1>2, <2>1, ConcatPrefix
<1>4. BlocksFor(Len(written)) <= Len(slotBlocks[s])
  OBVIOUS
<1> HIDE DEF kept
<1>5. written \in Seq(Token) /\ Len(written) = Len(kept) + Len(draft)
      /\ kept = SubSeq(written, 1, Len(kept))
  BY <1>2, ConcatPrefix
<1> HIDE DEF written
<1>6. Len(draft) \in Nat
  BY LenProperties
<1>7. Len(held[s]) <= Len(kept) /\ Len(kept) <= Len(written) /\ Len(written) \in Nat
  BY <1>1, <1>2, <1>5, <1>6
<1>8. held[s] = SubSeq(written, 1, Len(held[s]))
  <2>1. Len(kept) \in 0..Len(written) /\ Len(held[s]) \in 0..Len(kept)
    BY <1>1, <1>2, <1>5, <1>6
  <2>2. SubSeq(SubSeq(written, 1, Len(kept)), 1, Len(held[s])) = SubSeq(written, 1, Len(held[s]))
    BY <1>5, <2>1, PrefixOfPrefix
  <2> QED BY <1>3, <1>5, <2>2
<1>9. Len(written) <= Len(slotBlocks[s]) * BlockSize
  BY <1>1, <1>4, <1>7, BlocksForBound
<1>10. Len(written) - Len(held[s]) <= MaxSeq + BlockSize
  <2>1. MaxSeq \in Nat \ {0} /\ BlockSize \in Nat \ {0}
    BY PagedKVAssumption
  <2> DEFINE lw == Len(written)
             lh == Len(held[s])
             ld == Len(draft)
  <2>2. lh \in Nat /\ ld \in Nat /\ ld <= 1 /\ lw = lh + 1 + ld
    BY <1>1, <1>2, <1>5, <1>6
  <2> HIDE DEF lw, lh, ld
  <2>3. lw - lh <= MaxSeq + BlockSize
    BY <2>1, <2>2
  <2> QED BY <2>3 DEF lw, lh
<1>11. Extends([r \in Slot |-> IF r = s THEN KVOf(written, Len(held[s])) ELSE <<>>],
               [held EXCEPT ![s] = written], [held EXCEPT ![s] = kept])
  BY <1>2, <1>5, <1>7, <1>8, <1>9, <1>10, OneSlotExtends
<1> QED BY <1>11 DEF kept, written

\* A prompt is a nonempty text that fits the context.
LEMMA TextsFacts ==
  ASSUME NEW prompt \in Texts
  PROVE  prompt \in Seq(Token) /\ prompt # <<>> /\ Len(prompt) \in 1..MaxSeq
<1>1. PICK n \in 1..MaxSeq : prompt \in [1..n -> Token]
  BY DEF Texts
<1>2. n \in Nat \ {0}
  BY PagedKVAssumption
<1>3. prompt \in Seq(Token) /\ Len(prompt) = n
  BY <1>1, <1>2
<1> QED BY <1>1, <1>2, <1>3, EmptySeq

\* Begin, Grow, Feed, Publish and Release as calls whose preconditions hold.
LEMMA BeginCall ==
  ASSUME NEW s \in Slot, Begin(s)
  PROVE  /\ slotBlocks[s] = <<>>
         /\ \E prompt \in Seq(Token) : /\ prompt # <<>> /\ Len(prompt) \in 1..MaxSeq
                                       /\ PrefixReuse(s, prompt)
BY TextsFacts DEF Begin

\* Feed calls the forward pass with its precondition: one more token is kept.
LEMMA FeedCall ==
  ASSUME Books, NEW s \in Slot, Feed(s)
  PROVE  \E t \in Token : \E entries, text :
           /\ Len(held[s]) < MaxSeq
           /\ Extends(entries, text, [held EXCEPT ![s] = Append(held[s], t)])
           /\ WriteKV(entries, [held EXCEPT ![s] = Append(held[s], t)])
<1>1. PICK t \in Token, draft \in {<<>>} \cup {<<d>> : d \in Token} :
        LET kept    == Append(held[s], t)
            written == kept \o draft
        IN  /\ Len(written) <= MaxSeq
            /\ BlocksFor(Len(written)) <= Len(slotBlocks[s])
            /\ WriteKV([r \in Slot |-> IF r = s THEN KVOf(written, Len(held[s])) ELSE <<>>],
                       [held EXCEPT ![s] = kept])
  BY DEF Feed
<1> DEFINE kept == Append(held[s], t)
           written == kept \o draft
           entries == [r \in Slot |-> IF r = s THEN KVOf(written, Len(held[s])) ELSE <<>>]
<1>2. draft \in Seq(Token) /\ Len(draft) \in Nat /\ Len(draft) <= 1
  <2>1. CASE draft = <<>>
    BY <2>1, EmptySeq
  <2>2. CASE draft # <<>>
    <3>1. PICK d \in Token : draft = <<d>>
      BY <2>2
    <3> QED BY <3>1
  <2> QED BY <2>1, <2>2
<1>3. Extends(entries, [held EXCEPT ![s] = written], [held EXCEPT ![s] = kept])
  BY <1>1, <1>2, FeedExtends
<1>4. Len(held[s]) < MaxSeq
  <2>1. held[s] \in Seq(Token) /\ Len(held[s]) \in Nat
    BY SlotTypes DEF Books
  <2>2. kept \in Seq(Token) /\ Len(kept) = Len(held[s]) + 1
    BY <2>1, AppendProperties
  <2> HIDE DEF kept
  <2>3. Len(written) = Len(kept) + Len(draft) /\ Len(written) <= MaxSeq
    BY <1>1, <1>2, <2>2, ConcatPrefix DEF kept
  <2> HIDE DEF written
  <2> QED BY <1>2, <2>1, <2>2, <2>3, PagedKVAssumption
<1>5. WriteKV(entries, [held EXCEPT ![s] = kept])
  BY <1>1
<1> HIDE DEF entries, written
<1> QED BY <1>3, <1>4, <1>5 DEF kept

\* Publish calls prefill_register on what the slot was fed.
LEMMA PublishCall ==
  ASSUME Books, NEW s \in Slot, Publish(s)
  PROVE  \E n \in Nat : Register(s, held[s], n)
<1>1. Len(held[s]) \div BlockSize \in Nat
  BY SlotTypes, FullBlocks DEF Books
<1> QED BY <1>1 DEF Publish

\* KVInv is inductive.
LEMMA KVStep == KVInv /\ [KVNext]_kvVars => KVInv'
<1> SUFFICES ASSUME KVInv, [KVNext]_kvVars PROVE KVInv'
  OBVIOUS
<1>1. Books
  BY DEF KVInv
<1>2. ASSUME NEW s \in Slot, Begin(s) PROVE KVInv'
  BY <1>1, <1>2, BeginCall, PrefixReuseBooks, PrefixReuseContents DEF KVInv
<1>3. ASSUME NEW s \in Slot, Grow(s) PROVE KVInv'
  BY <1>1, <1>3, AllocIntoBooks, AllocIntoContents DEF KVInv, Grow
<1>4. ASSUME NEW s \in Slot, Feed(s) PROVE KVInv'
  BY <1>1, <1>4, FeedCall, WriteKVBooks, WriteKVContents DEF KVInv
<1>5. ASSUME NEW s \in Slot, Publish(s) PROVE KVInv'
  BY <1>1, <1>5, PublishCall, RegisterBooks, RegisterContents DEF KVInv
<1>6. ASSUME NEW s \in Slot, Release(s) PROVE KVInv'
  BY <1>1, <1>6, FreeSlotBooks, FreeSlotContents DEF KVInv, Release
<1>7. CASE UNCHANGED kvVars
  <2>1. UNCHANGED <<free, slotBlocks, refcount, cacheMap, blockHash, older, kv, held>>
    BY <1>7 DEF kvVars
  <2>2. \A s \in Slot : Blocks(s)' = Blocks(s)
    BY <2>1 DEF Blocks
  <2>3. \A b \in Block : Holders(b)' = Holders(b)
    BY <2>2 DEF Holders
  <2>4. KVTypeOK' /\ HeldFits' /\ BlocksDistinct' /\ FreeExact' /\ CacheInverse' /\ OwnPrefix'
    BY <1>1, <2>1
    DEF Books, KVTypeOK, HeldFits, BlocksDistinct, FreeExact, CacheInverse, OwnPrefix
  <2>5. RefcountExact' /\ SharedRegistered'
    BY <1>1, <2>1, <2>2, <2>3 DEF Books, RefcountExact, SharedRegistered
  <2>6. AttendsOwnTokens' /\ CacheHoldsItsPrefix'
    BY <2>1 DEF KVInv, Contents, AttendsOwnTokens, CacheHoldsItsPrefix, BlockAt
  <2> QED BY <2>4, <2>5, <2>6 DEF KVInv, Books, Contents
<1> QED BY <1>2, <1>3, <1>4, <1>5, <1>6, <1>7 DEF KVNext

\* The pool's invariant holds in every run, whoever calls it.
THEOREM PoolInvariant == KVSpec => []KVInv
<1>1. KVInit => KVInv
  BY BooksInit, ContentsInit DEF KVInv
<1> QED BY <1>1, KVStep, PTL DEF KVSpec

-----------------------------------------------------------------------------
(* The theorems *)

\* The bookkeeping of BlockState stays well typed.
THEOREM PoolTypeCorrect == KVSpec => []KVTypeOK
<1>1. KVInv => KVTypeOK
  BY DEF KVInv, Books
<1> QED BY <1>1, PoolInvariant, PTL

\* Reference counts are exact: reuse, alloc and free_slot lose no reference and
\* invent none.
THEOREM RefcountsExact == KVSpec => []RefcountExact
<1>1. KVInv => RefcountExact
  BY DEF KVInv, Books
<1> QED BY <1>1, PoolInvariant, PTL

\* No block leaks and none is handed out while it is in use.
THEOREM FreeListExact == KVSpec => []FreeExact
<1>1. KVInv => FreeExact
  BY DEF KVInv, Books
<1> QED BY <1>1, PoolInvariant, PTL

\* The prefix cache's two maps stay inverse to each other through registration
\* and reclaim.
THEOREM PrefixCacheConsistent == KVSpec => []CacheInverse
<1>1. KVInv => CacheInverse
  BY DEF KVInv, Books
<1> QED BY <1>1, PoolInvariant, PTL

\* No slot lists a block twice.
THEOREM NoAliasInSlot == KVSpec => []BlocksDistinct
<1>1. KVInv => BlocksDistinct
  BY DEF KVInv, Books
<1> QED BY <1>1, PoolInvariant, PTL

\* A slot never writes into a block that another slot or the cache reads.
THEOREM WritesAreExclusive == KVSpec => []NextWriteExclusive
<1>1. KVInv => NextWriteExclusive
  BY BooksExclusive DEF KVInv, NextWriteExclusive
<1> QED BY <1>1, PoolInvariant, PTL

\* Attention reads the KV of the slot's own tokens at every position.
THEOREM SlotsAttendOwnTokens == KVSpec => []AttendsOwnTokens
<1>1. KVInv => AttendsOwnTokens
  BY DEF KVInv, Contents
<1> QED BY <1>1, PoolInvariant, PTL

\* A cached block holds the KV of the prefix it is registered under.
THEOREM CacheIsFaithful == KVSpec => []CacheHoldsItsPrefix
<1>1. KVInv => CacheHoldsItsPrefix
  BY DEF KVInv, Contents
<1> QED BY <1>1, PoolInvariant, PTL

\* Steps that change what a block holds.
LEMMA KVChange ==
  KVInv /\ [KVNext]_kvVars =>
    \A b \in Block : kv'[b] # kv[b] => blockHash'[b] = NoHash /\ refcount'[b] <= 1
<1> SUFFICES ASSUME KVInv, [KVNext]_kvVars, NEW b \in Block, kv'[b] # kv[b]
             PROVE  blockHash'[b] = NoHash /\ refcount'[b] <= 1
  OBVIOUS
<1>1. Books /\ KVTypeOK
  BY DEF KVInv, Books
<1>2. ASSUME NEW s \in Slot, Begin(s) PROVE FALSE
  BY <1>2 DEF Begin, PrefixReuse
<1>3. ASSUME NEW s \in Slot, Grow(s) PROVE blockHash'[b] = NoHash /\ refcount'[b] <= 1
  <2>1. AllocInto(s)
    BY <1>3 DEF Grow
  <2>2. PICK x \in Block : /\ PopFree(x) \/ Reclaim(x)
                           /\ refcount' = [refcount EXCEPT ![x] = 1]
                           /\ kv' = [kv EXCEPT ![x] = EmptyBlock]
    BY <2>1, Zenon DEF AllocInto
  <2>3. x = b
    BY <1>1, <2>2 DEF KVTypeOK
  <2>4. blockHash' = [blockHash EXCEPT ![x] = NoHash]
    BY <1>1, <2>2, AllocFinds
  <2> QED BY <1>1, <2>2, <2>3, <2>4 DEF KVTypeOK
<1>4. ASSUME NEW s \in Slot, Feed(s) PROVE blockHash'[b] = NoHash /\ refcount'[b] <= 1
  <2>1. blockHash' = blockHash /\ refcount' = refcount
        /\ (blockHash[b] # NoHash \/ refcount[b] # 1 => kv'[b] = kv[b])
    BY <1>1, <1>4, FeedCall, WriteKVStep
  <2> QED BY <2>1
<1>5. ASSUME NEW s \in Slot, Publish(s) PROVE FALSE
  BY <1>5 DEF Publish, Register
<1>6. ASSUME NEW s \in Slot, Release(s) PROVE blockHash'[b] = NoHash /\ refcount'[b] <= 1
  <2>1. FreeSlot(s)
    BY <1>6 DEF Release
  <2>2. b \in Released(s)
    BY <2>1 DEF FreeSlot
  <2>3. refcount[b] \in Nat /\ refcount[b] <= 1 /\ blockHash[b] = NoHash /\ b \in Blocks(s)
    BY <1>1, <2>2 DEF Released, KVTypeOK
  <2> QED BY <2>1, <2>3 DEF FreeSlot
<1>7. ASSUME UNCHANGED kvVars PROVE FALSE
  BY <1>7 DEF kvVars
<1> QED BY <1>2, <1>3, <1>4, <1>5, <1>6, <1>7 DEF KVNext

\* The KV a cache entry or a second slot relies on is never overwritten.
THEOREM CachedKVIsImmutable == KVSpec => CachedKVImmutable
<1>1. KVInv /\ [KVNext]_kvVars =>
        [\A b \in Block : kv'[b] # kv[b] => blockHash'[b] = NoHash /\ refcount'[b] <= 1]_kvVars
  BY KVChange
<1> QED BY <1>1, PoolInvariant, PTL DEF KVSpec, CachedKVImmutable

-----------------------------------------------------------------------------
(* Refinement: the pool implements a private contiguous cache per slot *)

\* What a slot reads back is what it was fed.
ReadsWhatWasFed == [s \in Slot |-> ReadBack(s)] = held

\* Under the invariant, a slot reads through its block table what it was fed.
LEMMA ReadBackHeld == KVInv => ReadsWhatWasFed
<1> SUFFICES ASSUME KVInv PROVE [s \in Slot |-> ReadBack(s)] = held
  BY DEF ReadsWhatWasFed
<1>1. Books /\ KVTypeOK /\ held \in [Slot -> Seq(Token)]
  BY DEF KVInv, Books, KVTypeOK
<1>2. ASSUME NEW s \in Slot PROVE ReadBack(s) = held[s]
  <2>1. held[s] \in Seq(Token) /\ Len(held[s]) \in Nat
    BY <1>1, SlotTypes
  <2>2. ASSUME NEW p \in 1..Len(held[s])
        PROVE  LET text == kv[BlockAt(s, p)][OffsetAt(p)]
               IN  (IF text = NoKV THEN NoKV ELSE text[Len(text)]) = held[s][p]
    <3> DEFINE text == kv[BlockAt(s, p)][OffsetAt(p)]
    <3>1. text = SubSeq(held[s], 1, p)
      BY DEF KVInv, Contents, AttendsOwnTokens
    <3>2. p \in 0..Len(held[s]) /\ p \in 1..p
      BY <2>1
    <3>3. /\ SubSeq(held[s], 1, p) \in Seq(Token) /\ Len(SubSeq(held[s], 1, p)) = p
          /\ \A i \in 1..p : SubSeq(held[s], 1, p)[i] = held[s][i]
      BY <2>1, <3>2, PrefixFacts
    <3>4. text # NoKV
      <4>1. Len(NoKV) = 0 /\ p # 0
        BY <3>2, EmptySeq DEF NoKV
      <4> QED BY <3>1, <3>3, <4>1
    <3> QED BY <3>1, <3>2, <3>3, <3>4
  <2>3. ReadBack(s) = [p \in 1..Len(held[s]) |-> held[s][p]]
    BY <2>2 DEF ReadBack
  <2>4. held[s] = [p \in 1..Len(held[s]) |-> held[s][p]]
    BY <2>1, LenProperties
  <2> QED BY <2>3, <2>4
<1>3. held = [s \in Slot |-> held[s]]
  BY <1>1
<1> QED BY <1>2, <1>3

\* The same after a step.
LEMMA ReadBackHeldNext == KVInv' => ReadsWhatWasFed'
BY ReadBackHeld, PTL

\* Every call on the pool is a step of one private cache, or changes nothing that
\* a slot can read.
LEMMA StepRefines == KVInv /\ KVInv' /\ [KVNext]_kvVars => [SC!Next]_([s \in Slot |-> ReadBack(s)])
<1> SUFFICES ASSUME KVInv, KVInv', [KVNext]_kvVars
             PROVE  [SC!Next]_([s \in Slot |-> ReadBack(s)])
  OBVIOUS
<1> DEFINE cache == [s \in Slot |-> ReadBack(s)]
<1>1. cache = held /\ cache' = held'
  BY ReadBackHeld, ReadBackHeldNext DEF ReadsWhatWasFed
<1>2. Books /\ KVTypeOK /\ held \in [Slot -> Seq(Token)]
  BY DEF KVInv, Books, KVTypeOK
<1>3. ASSUME NEW s \in Slot, Begin(s) PROVE SC!Start(s)
  <2>1. PICK prompt \in Seq(Token) : /\ prompt # <<>> /\ Len(prompt) \in 1..MaxSeq
                                     /\ slotBlocks[s] = <<>> /\ PrefixReuse(s, prompt)
    BY <1>3, BeginCall
  <2>2. held' = [held EXCEPT ![s] = CachedText(prompt)]
    BY <2>1 DEF PrefixReuse
  <2>3. CachedText(prompt) \in Seq(Token)
        /\ Len(CachedText(prompt)) = CachedBlocks(prompt) * BlockSize
    BY <1>2, <2>1, ReusedFacts
  <2>4. Len(CachedText(prompt)) \in 0..MaxSeq
    <3>1. CachedBlocks(prompt) * BlockSize < Len(prompt)
      BY <2>1, CachedBlocksFacts
    <3> QED BY <2>1, <2>3, <3>1, LenProperties, PagedKVAssumption
  <2>5. CachedText(prompt) \in [1..Len(CachedText(prompt)) -> Token]
    BY <2>3, LenProperties
  <2>6. held[s] = <<>>
    <3>1. Len(slotBlocks[s]) = 0
      BY <2>1, EmptySeq
    <3>2. Len(held[s]) <= 0 * BlockSize /\ 0 * BlockSize = 0
      BY <1>2, <3>1, BlockSizeNat DEF Books, HeldFits
    <3>3. held[s] \in Seq(Token) /\ Len(held[s]) \in Nat
      BY <1>2, SlotTypes
    <3> QED BY <3>2, <3>3, EmptySeq
  <2> HIDE DEF cache
  <2>7. cache[s] = <<>> /\ cache' = [cache EXCEPT ![s] = CachedText(prompt)]
    BY <1>1, <2>2, <2>6
  <2> QED BY <2>4, <2>5, <2>7, Zenon DEF SC!Start, cache
<1>4. ASSUME NEW s \in Slot, Feed(s) PROVE SC!Extend(s)
  <2>1. PICK t \in Token : Len(held[s]) < MaxSeq
                           /\ held' = [held EXCEPT ![s] = Append(held[s], t)]
    BY <1>2, <1>4, FeedCall DEF WriteKV
  <2> HIDE DEF cache
  <2>2. Len(cache[s]) < MaxSeq /\ cache' = [cache EXCEPT ![s] = Append(cache[s], t)]
    BY <1>1, <2>1
  <2> QED BY <2>2, Zenon DEF SC!Extend, cache
<1>5. ASSUME NEW s \in Slot, Release(s) PROVE SC!Clear(s)
  <2>1. held' = [held EXCEPT ![s] = <<>>]
    BY <1>5 DEF Release, FreeSlot
  <2> HIDE DEF cache
  <2>2. cache' = [cache EXCEPT ![s] = <<>>]
    BY <1>1, <2>1
  <2> QED BY <2>2 DEF SC!Clear, cache
<1>6. ASSUME NEW s \in Slot, Grow(s) \/ Publish(s) PROVE UNCHANGED cache
  <2>1. held' = held
    BY <1>6 DEF Grow, AllocInto, Publish, Register
  <2> QED BY <1>1, <2>1
<1>7. CASE UNCHANGED kvVars
  <2>1. held' = held
    BY <1>7 DEF kvVars
  <2> QED BY <1>1, <2>1
<1> QED BY <1>3, <1>4, <1>5, <1>6, <1>7 DEF KVNext, SC!Next

\* Paging, sharing, reclaim and rejected drafts are invisible: what the slots read
\* through their block tables is a behaviour of one private cache per slot.
THEOREM PagingIsInvisible == KVSpec => ImplementsSlotCache
<1>1. KVInit => SC!Init
  <2>1. KVInit => [s \in Slot |-> ReadBack(s)] = held
    BY BooksInit, ContentsInit, ReadBackHeld DEF KVInv, ReadsWhatWasFed
  <2> QED BY <2>1 DEF KVInit, SC!Init
<1> QED BY <1>1, StepRefines, PoolInvariant, PTL DEF KVSpec, ImplementsSlotCache, SC!Spec

=============================================================================
