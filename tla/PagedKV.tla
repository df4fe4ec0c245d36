------------------------------- MODULE PagedKV -------------------------------
(***************************************************************************)
(* The paged KV pool of the GPU batcher: the host-side bookkeeping         *)
(* BlockState of src/src/backend/gpu/mod.rs and the BatchedDecoder methods *)
(* that change it.  A slot's KV cache is a list of physical blocks of      *)
(* BlockSize positions.  Blocks are reference counted, a full prompt block *)
(* can be registered in a cross-request prefix cache, and an unreferenced  *)
(* registered block stays resident until the pool needs it back.           *)
(*                                                                         *)
(* Each operator below that primes a variable is one method, or one        *)
(* iteration of a method's loop.  ContinuousBatcher conjoins them with its *)
(* own scheduling state; the specification at the end of this module lets  *)
(* any caller use them in any order that respects their preconditions.     *)
(*                                                                         *)
(* Abstractions.  A prefix hash (prefix_block_hash) is the prefix itself:  *)
(* collisions of the 64-bit hash are not modelled.  last_use and clock are *)
(* kept as the order they induce.  The order of the free stack is not      *)
(* kept.  table_host repeats slotBlocks and is not kept.  The KV vectors   *)
(* of position p depend on tokens 0..p only, so they are represented by    *)
(* that token prefix.                                                      *)
(***************************************************************************)
EXTENDS Integers, Sequences, FiniteSets

CONSTANTS
  Block,      \* physical block indices, 0..n_blocks-1 in the code
  Slot,       \* KV slots, 0..m_max-1 in the code
  Token,      \* vocabulary
  BlockSize,  \* positions per block (DEFAULT_BLOCK_SIZE)
  MaxSeq,     \* context length per slot (max_seq)
  FirstFit    \* the ZLLM_FIRST_FIT switch: reclaim regardless of last use

ASSUME PagedKVAssumption ==
  /\ IsFiniteSet(Block)
  /\ IsFiniteSet(Slot)
  /\ BlockSize \in Nat \ {0}
  /\ MaxSeq \in Nat \ {0}
  /\ FirstFit \in BOOLEAN

VARIABLES
  free,        \* truly free blocks
  slotBlocks,  \* blocks of each slot, in logical order
  refcount,    \* number of slots that reference a block
  cacheMap,    \* prefix -> block that holds the KV of its last BlockSize tokens
  blockHash,   \* block -> the prefix it is registered under, or NoHash
  older,       \* older[b] = blocks whose last_use tick is smaller than b's
  kv,          \* the pool: kv[b][o] = the prefix whose last token's KV is there
  held         \* the tokens fed to each slot so far: what its KV should hold

kvVars == <<free, slotBlocks, refcount, cacheMap, blockHash, older, kv, held>>

-----------------------------------------------------------------------------
NoHash == <<>>      \* Option::None of block_hash
NoKV   == <<>>      \* a position nobody may rely on
EmptyBlock == [o \in 0..(BlockSize - 1) |-> NoKV]

BlocksFor(n) == (n + BlockSize - 1) \div BlockSize
MaxBlocks    == BlocksFor(MaxSeq)

Blocks(s) == {slotBlocks[s][i] : i \in 1..Len(slotBlocks[s])}

\* Mutant of PrefixHash: the hash of the block's own tokens only.
BlockOnlyHash(toks, lb) ==
  IF lb = 0 THEN <<>> ELSE SubSeq(toks, (lb - 1) * BlockSize + 1, lb * BlockSize)

\* The prefix a logical block closes: its cumulative hash.
PrefixHash(toks, lb) == SubSeq(toks, 1, lb * BlockSize)

\* Physical place of position p, counted from 1.
BlockAt(s, p)  == slotBlocks[s][((p - 1) \div BlockSize) + 1]
OffsetAt(p)    == (p - 1) % BlockSize

-----------------------------------------------------------------------------
\* Mutant of Reclaimable: a cached block is reclaimed while slots use it.
ReclaimableInUse == {b \in Block : blockHash[b] # NoHash}

Reclaimable == {b \in Block : refcount[b] = 0 /\ blockHash[b] # NoHash}

\* Mutant of FreeBlocks: cached blocks are not counted as available.
FreeBlocksUncached == Cardinality(free)

FreeBlocks == Cardinality(free) + Cardinality(Reclaimable)

CanFit(n) == FreeBlocks >= BlocksFor(n)

BlocksShort(s, n) == IF BlocksFor(n) > Len(slotBlocks[s])
                     THEN BlocksFor(n) - Len(slotBlocks[s]) ELSE 0

\* The reclaim victims: the least recently used reclaimable block, or any of
\* them under first-fit (block indices are interchangeable here).
Victims == {b \in Reclaimable : FirstFit \/ Reclaimable \cap older[b] = {}}

\* ensure_blocks gives up (and its caller panics) when alloc finds nothing.
PoolExhausted == free = {} /\ Reclaimable = {}

\* last_use after touching the blocks blk[i], i \in I, in increasing order of i.
Touched(blk, I) ==
  LET T == {blk[i] : i \in I}
      FromOn(x) == {j \in I : \E i \in I : i <= j /\ blk[i] = x}
  IN  [x \in Block |-> IF x \in T THEN Block \ {blk[j] : j \in FromOn(x)}
                      ELSE older[x] \ T]

-----------------------------------------------------------------------------
KVInit ==
  /\ free = Block
  /\ slotBlocks = [s \in Slot |-> <<>>]
  /\ refcount = [b \in Block |-> 0]
  /\ cacheMap = [h \in {} |-> {}]
  /\ blockHash = [b \in Block |-> NoHash]
  /\ older = [b \in Block |-> {}]
  /\ kv = [b \in Block |-> EmptyBlock]
  /\ held = [s \in Slot |-> <<>>]

\* Mutant of Reclaim: one half of the prefix-cache entry survives.
ReclaimKeepsHash(b) ==
  /\ free = {} /\ b \in Victims
  /\ cacheMap' = [h \in DOMAIN cacheMap \ {blockHash[b]} |-> cacheMap[h]]
  /\ UNCHANGED <<free, blockHash>>

\* The two ways alloc finds a block: pop the free stack, or reclaim a cached
\* block, which loses its prefix-cache entry.
PopFree(b) ==
  /\ b \in free
  /\ free' = free \ {b}
  /\ UNCHANGED <<cacheMap, blockHash>>

Reclaim(b) ==
  /\ free = {}
  /\ b \in Victims
  /\ blockHash' = [blockHash EXCEPT ![b] = NoHash]
  /\ cacheMap' = [h \in DOMAIN cacheMap \ {blockHash[b]} |-> cacheMap[h]]
  /\ UNCHANGED free

\* One iteration of ensure_blocks: alloc a block and append it to the slot.
\* The block's old contents are stale from here on.
AllocInto(s) ==
  \E b \in Block :
    /\ PopFree(b) \/ Reclaim(b)
    /\ refcount' = [refcount EXCEPT ![b] = 1]
    /\ slotBlocks' = [slotBlocks EXCEPT ![s] = Append(@, b)]
    /\ kv' = [kv EXCEPT ![b] = EmptyBlock]
    /\ UNCHANGED <<older, held>>

\* Mutant of Released: a registered block goes to the free list as well.
ReleasedCached(s) == {b \in Blocks(s) : refcount[b] <= 1}

\* The blocks free_slot returns to the free list: those left without a holder,
\* unless they are registered in the prefix cache.
Released(s) == {b \in Blocks(s) : refcount[b] <= 1 /\ blockHash[b] = NoHash}

\* free_slot: the slot drops its references to its blocks.
FreeSlot(s) ==
  /\ refcount' = [b \in Block |-> IF b \in Blocks(s) /\ refcount[b] > 0
                                  THEN refcount[b] - 1 ELSE refcount[b]]
  /\ free' = free \cup Released(s)
  /\ slotBlocks' = [slotBlocks EXCEPT ![s] = <<>>]
  /\ held' = [held EXCEPT ![s] = <<>>]
  /\ kv' = [b \in Block |-> IF b \in Released(s) THEN EmptyBlock ELSE kv[b]]
  /\ UNCHANGED <<cacheMap, blockHash, older>>

\* Length in blocks of the longest cached full-block prefix of a prompt.  The
\* block of the last position is never reused: its logits are needed.
CachedBlocks(prompt) ==
  LET maxReuse == (Len(prompt) - 1) \div BlockSize
      hit == {n \in 0..maxReuse :
                \A lb \in 1..n : PrefixHash(prompt, lb) \in DOMAIN cacheMap}
  IN  CHOOSE n \in hit : \A m \in hit : m <= n

\* Mutant of CachedText: prefill starts inside the last shared block.
CachedTextEarly(prompt) == SubSeq(prompt, 1, CachedBlocks(prompt) * BlockSize - 1)

\* The blocks that hold the longest cached prefix, and that prefix.
Reused(prompt) == [lb \in 1..CachedBlocks(prompt) |-> cacheMap[PrefixHash(prompt, lb)]]
CachedText(prompt) == PrefixHash(prompt, CachedBlocks(prompt))

\* Mutant of PrefixReuse: the shared blocks are not counted.
PrefixReuseUncounted(s, prompt) ==
  /\ slotBlocks' = [slotBlocks EXCEPT ![s] = @ \o Reused(prompt)]
  /\ held' = [held EXCEPT ![s] = CachedText(prompt)]
  /\ UNCHANGED <<free, refcount, older, cacheMap, blockHash, kv>>

\* prefill_prefix_reuse: point the slot at the cached blocks, counting and
\* touching each.
PrefixReuse(s, prompt) ==
  LET reused == Reused(prompt)
      R      == {reused[lb] : lb \in DOMAIN reused}
  IN
  /\ refcount' = [b \in Block |-> IF b \in R THEN refcount[b] + 1 ELSE refcount[b]]
  /\ older' = Touched(reused, DOMAIN reused)
  /\ slotBlocks' = [slotBlocks EXCEPT ![s] = @ \o reused]
  /\ held' = [held EXCEPT ![s] = CachedText(prompt)]
  /\ UNCHANGED <<free, cacheMap, blockHash, kv>>

\* The KV of positions from+1..Len(text), one entry a position.
KVOf(text, from) == [i \in 1..(Len(text) - from) |-> SubSeq(text, 1, from + i)]

\* The forward pass, or the copy of swap_in, stores entries[s] at the positions
\* that follow held[s].  kept[s] is what the caller then treats as fed (the
\* positions of a rejected draft are written and not kept).
WriteKV(entries, kept) ==
  LET Position(w) == Len(held[w[1]]) + w[2]
      Into(b, o) == {w \in Slot \X (1..(MaxSeq + BlockSize)) :
                       /\ w[2] <= Len(entries[w[1]])
                       /\ BlockAt(w[1], Position(w)) = b
                       /\ OffsetAt(Position(w)) = o}
  IN
  /\ kv' = [b \in Block |-> [o \in 0..(BlockSize - 1) |->
              IF Into(b, o) = {} THEN kv[b][o]
              ELSE LET w == CHOOSE w \in Into(b, o) : TRUE IN entries[w[1]][w[2]]]]
  /\ held' = kept
  /\ UNCHANGED <<free, slotBlocks, refcount, cacheMap, blockHash, older>>

\* prefill_register: publish the slot's full blocks after the cached ones,
\* skipping a prefix some other block already holds.
Register(s, prompt, cachedBlocks) ==
  LET nFull == Len(prompt) \div BlockSize
      new   == {lb \in (cachedBlocks + 1)..nFull :
                  PrefixHash(prompt, lb) \notin DOMAIN cacheMap}
      hashes == {PrefixHash(prompt, lb) : lb \in new}
      lbOf(h) == Len(h) \div BlockSize
      T == {slotBlocks[s][lb] : lb \in new}
  IN
  /\ cacheMap' = [h \in DOMAIN cacheMap \cup hashes |->
                    IF h \in hashes THEN slotBlocks[s][lbOf(h)] ELSE cacheMap[h]]
  /\ blockHash' = [b \in Block |->
                     IF b \in T
                     THEN PrefixHash(prompt, CHOOSE lb \in new : slotBlocks[s][lb] = b)
                     ELSE blockHash[b]]
  /\ older' = Touched(slotBlocks[s], new)
  /\ UNCHANGED <<free, slotBlocks, refcount, kv, held>>

-----------------------------------------------------------------------------
(* Any caller.  A caller may reuse a prefix for an idle slot, grow a slot up  *)
(* to MaxSeq positions, feed tokens to positions it has blocks for (writing a *)
(* draft beyond them that it then rejects), publish what it has fed, and free *)
(* the slot.                                                                  *)

Texts == UNION {[1..n -> Token] : n \in 1..MaxSeq}

Begin(s) == /\ slotBlocks[s] = <<>>
            /\ \E prompt \in Texts : PrefixReuse(s, prompt)

Grow(s) == /\ Len(slotBlocks[s]) < MaxBlocks
           /\ AllocInto(s)

\* Len(held[s]) + 1 positions, plus those of a rejected draft, have a block.
Feed(s) ==
  \E t \in Token, draft \in {<<>>} \cup {<<d>> : d \in Token} :
    LET kept    == Append(held[s], t)
        written == kept \o draft
    IN  /\ Len(written) <= MaxSeq
        /\ BlocksFor(Len(written)) <= Len(slotBlocks[s])
        /\ WriteKV([r \in Slot |-> IF r = s THEN KVOf(written, Len(held[s])) ELSE <<>>],
                   [held EXCEPT ![s] = kept])

\* The first cachedBlocks blocks were reused, hence are registered already.
Publish(s) ==
  \E n \in 0..(Len(held[s]) \div BlockSize) :
    /\ held[s] # <<>>
    /\ \A i \in 1..n : blockHash[slotBlocks[s][i]] # NoHash
    /\ Register(s, held[s], n)

Release(s) == slotBlocks[s] # <<>> /\ FreeSlot(s)

KVNext == \E s \in Slot : Begin(s) \/ Grow(s) \/ Feed(s) \/ Publish(s) \/ Release(s)

KVSpec == KVInit /\ [][KVNext]_kvVars

-----------------------------------------------------------------------------
(* Properties *)

\* Type correctness of the pool's bookkeeping (BlockState, mod.rs).
KVTypeOK ==
  /\ free \subseteq Block
  /\ slotBlocks \in [Slot -> Seq(Block)]
  /\ refcount \in [Block -> Nat]
  /\ DOMAIN cacheMap \subseteq Seq(Token)
  /\ cacheMap \in [DOMAIN cacheMap -> Block]
  /\ blockHash \in [Block -> Seq(Token)]
  /\ older \in [Block -> SUBSET Block]
  /\ kv \in [Block -> [0..(BlockSize - 1) -> Seq(Token)]]
  /\ held \in [Slot -> Seq(Token)]

Holders(b) == {s \in Slot : b \in Blocks(s)}

\* The reference count of a block is the number of slots whose block list names
\* it: reuse, alloc and free_slot never lose or invent a reference.
RefcountExact == \A b \in Block : refcount[b] = Cardinality(Holders(b))

\* No slot lists a block twice (two of its logical blocks would alias).
BlocksDistinct ==
  \A s \in Slot : \A i, j \in 1..Len(slotBlocks[s]) :
    slotBlocks[s][i] = slotBlocks[s][j] => i = j

\* A block is on the free list exactly when no slot and no cache entry needs it:
\* no block leaks, and none is handed out while it is in use.
FreeExact ==
  \A b \in Block : b \in free <=> refcount[b] = 0 /\ blockHash[b] = NoHash

\* cache_map and block_hash stay inverse to each other, so a lookup never
\* returns a block that was reclaimed for something else.
CacheInverse ==
  /\ \A h \in DOMAIN cacheMap : h # NoHash /\ blockHash[cacheMap[h]] = h
  /\ \A b \in Block : blockHash[b] # NoHash =>
       blockHash[b] \in DOMAIN cacheMap /\ cacheMap[blockHash[b]] = b

\* A block reachable from a second slot, or from the prefix cache, holds full
\* prompt blocks only: every position a slot has yet to write lies in a block
\* that is its own.
NextWriteExclusive ==
  \A s \in Slot : \A i \in 1..Len(slotBlocks[s]) :
    i * BlockSize > Len(held[s]) =>
      refcount[slotBlocks[s][i]] = 1 /\ blockHash[slotBlocks[s][i]] = NoHash

\* What attention reads: through the block table, every position a slot has fed
\* still holds the KV of that slot's own tokens, whatever the other slots did
\* and however its blocks were shared, freed, reclaimed and registered.
AttendsOwnTokens ==
  \A s \in Slot : \A p \in 1..Len(held[s]) :
    /\ BlocksFor(p) <= Len(slotBlocks[s])
    /\ kv[BlockAt(s, p)][OffsetAt(p)] = SubSeq(held[s], 1, p)

\* A cached block holds the KV of the prefix it is registered under, so reusing
\* it equals recomputing it ("bit-identical to recomputing them").
CacheHoldsItsPrefix ==
  \A h \in DOMAIN cacheMap : \A o \in 0..(BlockSize - 1) :
    kv[cacheMap[h]][o] = SubSeq(h, 1, Len(h) - BlockSize + o + 1)

\* The KV a cache entry promises is never overwritten: a step that changes the
\* contents of a block leaves it unregistered and with one holder at most.
CachedKVImmutable ==
  [][\A b \in Block : kv'[b] # kv[b] =>
       blockHash'[b] = NoHash /\ refcount'[b] <= 1]_kvVars

\* The last token of every position a slot reads back through its block table.
ReadBack(s) ==
  [p \in 1..Len(held[s]) |->
     LET text == kv[BlockAt(s, p)][OffsetAt(p)]
     IN  IF text = NoKV THEN NoKV ELSE text[Len(text)]]

SC == INSTANCE SlotCache WITH cache <- [s \in Slot |-> ReadBack(s)]

\* Paging is invisible ("contiguous-equivalent"): what the slots read through
\* their block tables changes as if each had a private cache, one slot at a time.
ImplementsSlotCache == SC!Spec
=============================================================================
