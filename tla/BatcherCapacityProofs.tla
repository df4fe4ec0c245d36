------------------------ MODULE BatcherCapacityProofs ------------------------
(***************************************************************************)
(* Proofs that the pool suffices: how many blocks the scheduler can need   *)
(* at once, counted against how many there are.                            *)
(*                                                                         *)
(* FreeBlocks is the number of blocks no slot lists (FreeIsUnused), and a  *)
(* listed block can be charged to a place of a slot's block table          *)
(* (UsedBound).  With one request left that leaves room for a full         *)
(* sequence, whatever the size of the pool; with MaxBlocks blocks per slot *)
(* and texts that stay within the context it always leaves room for what   *)
(* every slot may still need, so nothing is preempted and no assertion of  *)
(* the decoder fails.                                                      *)
(***************************************************************************)
EXTENDS BatcherProofs

-----------------------------------------------------------------------------
(* Counting blocks *)

Used == UNION {Blocks(s) : s \in Slot}

\* free_blocks counts the blocks no slot lists.
LEMMA FreeIsUnused ==
  ASSUME KVInv
  PROVE  /\ Used \subseteq Block /\ IsFiniteSet(Used)
         /\ Cardinality(Block) \in Nat /\ Cardinality(Used) \in Nat
         /\ FreeBlocks = Cardinality(Block) - Cardinality(Used)
         /\ FreeBlocks \in Nat
         /\ PoolExhausted => FreeBlocks = 0
<1>1. free \subseteq Block /\ Used \subseteq Block /\ Reclaimable \subseteq Block
  BY SlotTypes DEF KVInv, Books, KVTypeOK, Used, Reclaimable
<1>2. IsFiniteSet(Block)
  BY PagedKVAssumption
<1>3. IsFiniteSet(Used) /\ IsFiniteSet(free) /\ IsFiniteSet(Reclaimable)
  BY <1>1, <1>2, FS_Subset
<1>4. \A b \in Block : refcount[b] = 0 <=> b \notin Used
  <2> SUFFICES ASSUME NEW b \in Block PROVE refcount[b] = 0 <=> b \notin Used
    OBVIOUS
  <2>1. refcount[b] = Cardinality(Holders(b))
    BY DEF KVInv, Books, RefcountExact
  <2>2. refcount[b] = 0 <=> Holders(b) = {}
    BY <2>1, HoldersFinite
  <2> QED BY <2>2 DEF Holders, Used
<1>5. free \cup Reclaimable = Block \ Used /\ free \cap Reclaimable = {}
  BY <1>1, <1>4 DEF KVInv, Books, FreeExact, Reclaimable
<1>6. Cardinality(free \cup Reclaimable) = FreeBlocks
  <2>1. Cardinality(free \cup Reclaimable) =
          Cardinality(free) + Cardinality(Reclaimable) - Cardinality(free \cap Reclaimable)
    BY <1>3, FS_Union
  <2>2. Cardinality(free \cap Reclaimable) = 0
    BY <1>5, FS_EmptySet
  <2>3. Cardinality(free) \in Nat /\ Cardinality(Reclaimable) \in Nat
    BY <1>3, FS_CardinalityType
  <2> QED BY <2>1, <2>2, <2>3 DEF FreeBlocks
<1>7. Cardinality(Block \ Used) = Cardinality(Block) - Cardinality(Used)
  <2>1. Block \cap Used = Used
    BY <1>1
  <2> QED BY <1>2, <2>1, FS_Difference
<1>8. FreeBlocks \in Nat
  BY <1>3, FS_CardinalityType DEF FreeBlocks
<1>9. PoolExhausted => FreeBlocks = 0
  BY FS_EmptySet DEF PoolExhausted, FreeBlocks
<1> QED BY <1>1, <1>2, <1>3, <1>5, <1>6, <1>7, <1>8, <1>9, FS_CardinalityType

\* The listed blocks are no more than the places of the block tables that list them.
LEMMA UsedBound ==
  ASSUME KVInv, NEW T, IsFiniteSet(T),
         \A b \in Used : \E w \in T : slotBlocks[w[1]][w[2]] = b
  PROVE  Cardinality(Used) <= Cardinality(T)
<1> DEFINE f == [b \in Used |-> CHOOSE w \in T : slotBlocks[w[1]][w[2]] = b]
<1>1. \A b \in Used : f[b] \in T /\ slotBlocks[f[b][1]][f[b][2]] = b
  OBVIOUS
<1>2. f \in [Used -> T]
  BY <1>1
<1>3. \A b, c \in Used : f[b] = f[c] => b = c
  BY <1>1
<1> HIDE DEF f
<1>4. f \in Injection(Used, T)
  BY <1>2, <1>3 DEF Injection, IsInjective
<1> QED BY <1>4, FS_Injection

\* The first k numbers.
LEMMA CountTo ==
  ASSUME NEW k \in Nat
  PROVE  IsFiniteSet(1..k) /\ Cardinality(1..k) = k
<1>1. 1 \in Int /\ k \in Int
  OBVIOUS
<1>2. IsFiniteSet(1..k) /\ Cardinality(1..k) = IF 1 > k THEN 0 ELSE k - 1 + 1
  BY <1>1, FS_Interval
<1> QED BY <1>2

LEMMA MaxBlocksNat ==
  /\ MaxBlocks \in Nat
  /\ \A n \in Nat : n <= MaxSeq => BlocksFor(n) \in Nat /\ BlocksFor(n) <= MaxBlocks
<1>1. MaxSeq \in Nat
  BY PagedKVAssumption
<1>2. MaxBlocks \in Nat
  BY <1>1, BlocksForBound DEF MaxBlocks
<1>3. MaxSeq <= MaxBlocks * BlockSize
  BY <1>1, <1>2, BlocksForBound DEF MaxBlocks
<1>4. ASSUME NEW n \in Nat, n <= MaxSeq PROVE BlocksFor(n) \in Nat /\ BlocksFor(n) <= MaxBlocks
  <2>1. MaxBlocks * BlockSize \in Nat
    BY <1>2, Product
  <2>2. n <= MaxBlocks * BlockSize
    BY <1>1, <1>3, <1>4, <2>1
  <2> QED BY <1>2, <2>2, BlocksForBound
<1> QED BY <1>2, <1>4

\* What a slot is short of, as a number.
LEMMA ShortFacts ==
  ASSUME KVInv, NEW s \in Slot, NEW n \in Nat
  PROVE  /\ BlocksShort(s, n) \in Nat
         /\ BlocksShort(s, n) > 0 => BlocksShort(s, n) = BlocksFor(n) - Len(slotBlocks[s])
         /\ BlocksShort(s, n) > 0 <=> BlocksFor(n) > Len(slotBlocks[s])
<1>1. PICK k \in Nat : k = BlocksFor(n)
  BY BlocksForBound
<1>2. PICK l \in Nat : l = Len(slotBlocks[s])
  BY SlotTypes DEF KVInv, Books
<1>3. BlocksShort(s, n) = IF k > l THEN k - l ELSE 0
  BY <1>1, <1>2 DEF BlocksShort
<1> QED BY <1>1, <1>2, <1>3

-----------------------------------------------------------------------------
(* The front of the prefill queue always progresses *)

\* The chunk that is prefilled next lies in the prompt.
LEMMA ChunkInContext ==
  ASSUME BatcherInv, NEW r \in Prefills
  PROVE  ChunkEnd(r) \in Nat /\ ChunkEnd(r) <= MaxSeq
<1>1. r \in Req /\ Len(Prompt[r]) <= MaxSeq
  BY PrefillsFacts, QueueMembers
     DEF BatcherInv, SchedulerInv, SchedulerTypeOK, Prefills, RequestOK, PrefillsOK
<1>2. PICK l \in Nat : l = Len(Prompt[r])
  BY <1>1, PromptFacts
<1>3. PICK p \in Nat : p = prefillPos[r]
  BY <1>1 DEF BatcherInv, SchedulerInv, SchedulerTypeOK
<1>4. Chunk \in Nat /\ MaxSeq \in Nat
  BY BatcherAssumption, PagedKVAssumption
<1>5. ChunkEnd(r) = IF p + Chunk < l THEN p + Chunk ELSE l
  BY <1>2, <1>3 DEF ChunkEnd
<1> QED BY <1>1, <1>2, <1>4, <1>5

\* With one request mid-prefill, the others evicted, its next chunk always fits.
LEMMA LastOneFits ==
  ASSUME BatcherInv, phase = "prefill", prefilling # <<>>, active = <<>>,
         ~(Len(prefilling) >= 2)
  PROVE  FrontShort <= FreeBlocks
<1> DEFINE r == Head(prefilling)
<1>1. prefilling \in Seq(Req) /\ active \in Seq(Req)
  BY DEF BatcherInv, SchedulerInv, SchedulerTypeOK
<1>2. r \in Prefills /\ Prefills = {r}
  <2>1. Len(prefilling) = 1
    <3>1. PICK k \in Nat : k = Len(prefilling)
      BY <1>1
    <3>2. k # 0
      BY <1>1, <3>1, EmptySeq
    <3>3. ~(k >= 2)
      BY <3>1
    <3>4. k = 1
      BY <3>2, <3>3
    <3> QED BY <3>1, <3>4
  <2>2. \A x \in Prefills : \E i \in 1..Len(prefilling) : prefilling[i] = x
    BY <1>1, QueueMembers DEF Prefills
  <2>3. \A x \in Prefills : x = prefilling[1]
    BY <2>1, <2>2
  <2>4. prefilling[1] \in Prefills
    BY <1>1, <2>1, QueueMembers DEF Prefills
  <2> QED BY <1>1, <2>3, <2>4
<1> HIDE DEF r
<1>3. DOMAIN slotOf = {r}
  <2>1. loading = {}
    BY DEF BatcherInv, SchedulerInv, PhaseOK, Failed
  <2>2. Decoding = {}
    BY <1>1, QueueMembers DEF Decoding
  <2> QED BY <1>2, <2>1, <2>2 DEF BatcherInv, SchedulerInv, SlotHolders
<1>4. PICK s \in Slot : s = slotOf[r]
  BY <1>3 DEF BatcherInv, SchedulerInv, SlotsOK
<1>5. KVInv
  BY DEF BatcherInv
<1>6. PICK l \in Nat : l = Len(slotBlocks[s])
  BY <1>5, SlotTypes DEF KVInv, Books
<1>7. \A t \in Slot : t # s => Blocks(t) = {}
  <2> SUFFICES ASSUME NEW t \in Slot, t # s PROVE Blocks(t) = {}
    OBVIOUS
  <2>1. t \in freeSlots
    BY <1>3, <1>4 DEF BatcherInv, SchedulerInv, SlotsOK
  <2>2. slotBlocks[t] = <<>>
    BY <2>1 DEF BatcherInv, SchedulerInv, SlotsOK
  <2> QED BY <2>2 DEF Blocks
<1>8. Cardinality(Used) <= l
  <2> DEFINE T == {s} \X (1..l)
  <2>1. IsFiniteSet({s}) /\ Cardinality({s}) = 1 /\ IsFiniteSet(1..l) /\ Cardinality(1..l) = l
    <3>1. IsFiniteSet({s}) /\ Cardinality({s}) = 1
      BY FS_Singleton
    <3> QED BY <3>1, CountTo
  <2>2. IsFiniteSet(T) /\ Cardinality(T) = l
    BY <2>1, FS_Product
  <2>3. \A b \in Used : \E w \in T : slotBlocks[w[1]][w[2]] = b
    <3> SUFFICES ASSUME NEW b \in Used PROVE \E w \in T : slotBlocks[w[1]][w[2]] = b
      OBVIOUS
    <3>1. b \in Blocks(s)
      BY <1>7 DEF Used
    <3>2. PICK i \in 1..l : slotBlocks[s][i] = b
      BY <1>6, <3>1 DEF Blocks
    <3>3. <<s, i>> \in T
      OBVIOUS
    <3> QED BY <3>2, <3>3
  <2> HIDE DEF T
  <2>4. Cardinality(Used) <= Cardinality(T)
    BY <1>5, <2>2, <2>3, UsedBound
  <2> QED BY <2>2, <2>4
<1>9. PICK n \in Nat : n = ChunkEnd(r) /\ n <= MaxSeq
  BY <1>2, ChunkInContext
<1>10. FrontShort = BlocksShort(s, n)
  BY <1>4, <1>9 DEF FrontShort, r
<1>11. BlocksFor(n) \in Nat /\ BlocksFor(n) <= MaxBlocks /\ MaxBlocks \in Nat
  BY <1>9, MaxBlocksNat
<1>12. BlocksShort(s, n) = 0 \/ BlocksShort(s, n) = BlocksFor(n) - l
  BY <1>5, <1>6, ShortFacts
<1>13. Cardinality(Block) >= MaxBlocks
  BY BatcherAssumption
<1>14. /\ FreeBlocks = Cardinality(Block) - Cardinality(Used)
       /\ Cardinality(Block) \in Nat /\ Cardinality(Used) \in Nat /\ FreeBlocks \in Nat
  BY <1>5, FreeIsUnused
<1> QED BY <1>8, <1>10, <1>11, <1>12, <1>13, <1>14

\* advance_prefill never takes its "can't fit yet; wait" return: once it has evicted
\* every other request, the front's next chunk fits, in a pool of any size that
\* new_paged accepts.  This is what keeps an overcommitted pool from standing still.
THEOREM FrontProgresses == BatcherSpec => []FrontAlwaysProgresses
<1>1. BatcherInv => FrontAlwaysProgresses
  <2> SUFFICES ASSUME BatcherInv, phase = "prefill", prefilling # <<>>,
                      FrontShort > FreeBlocks, active = <<>>, ~(Len(prefilling) >= 2)
               PROVE  FALSE
    BY DEF FrontAlwaysProgresses
  <2>1. FrontShort <= FreeBlocks
    BY LastOneFits
  <2>2. FreeBlocks \in Nat
    BY FreeIsUnused DEF BatcherInv
  <2>3. FrontShort \in Nat
    <3> DEFINE r == Head(prefilling)
    <3>1. prefilling \in Seq(Req)
      BY DEF BatcherInv, SchedulerInv, SchedulerTypeOK
    <3>2. r \in Prefills
      BY <3>1, QueueMembers DEF Prefills
    <3>3. slotOf[r] \in Slot
      BY <3>2 DEF BatcherInv, SchedulerInv, SlotsOK, SlotHolders
    <3>4. ChunkEnd(r) \in Nat
      BY <3>2, ChunkInContext
    <3> QED BY <3>3, <3>4, ShortFacts DEF BatcherInv, FrontShort
  <2> QED BY <2>1, <2>2, <2>3
<1> QED BY <1>1, BatcherInvariant, PTL

-----------------------------------------------------------------------------
(* Texts that stay within the context *)

\* Every prompt fits the context, and so does the text when max_tokens are produced.
\* The last token is not fed, hence one more without drafting; step_pld may feed a
\* whole draft of what max_tokens leaves.
FitsContext ==
  \A r \in Req : /\ Len(Prompt[r]) <= MaxSeq
                 /\ Len(Prompt[r]) + MaxTokens[r] <= MaxSeq + (IF Pld THEN 0 ELSE 1)

\* No slot holds more blocks than a full sequence needs.
BlocksInContext == \A s \in Slot : Len(slotBlocks[s]) <= MaxBlocks

\* A request that is not over has a text within the context; once it has produced
\* a token, what is left of max_tokens still fits behind it.
LEMMA TextInContext ==
  ASSUME SchedulerTypeOK, FitsContext, NEW r \in Req, TextOK(r), status[r] = "in"
  PROVE  /\ Len(tokens[r]) \in Nat /\ Len(tokens[r]) <= MaxSeq
         /\ GenIndex(r) = Len(emitted[r]) /\ Len(emitted[r]) \in Nat
         /\ emitted[r] # <<>> => GenIndex(r) < MaxTokens[r]
<1>1. PICK p \in Nat : p = Len(Prompt[r])
  BY PromptFacts
<1>2. PICK e \in Nat : e = Len(emitted[r])
  BY TokensFacts
<1>3. PICK m \in Nat : m = MaxTokens[r]
  BY PromptFacts
<1>4. Len(tokens[r]) = p + e
  BY <1>1, <1>2, TokensFacts
<1>5. p <= MaxSeq /\ p + m <= MaxSeq + (IF Pld THEN 0 ELSE 1) /\ MaxSeq \in Nat
  BY <1>1, <1>3, PagedKVAssumption DEF FitsContext
<1>6. e = 0 \/ e < m
  <2> SUFFICES ASSUME e # 0 PROVE e < m
    OBVIOUS
  <2>1. e \in 1..Len(emitted[r])
    BY <1>2
  <2>2. EndsAt(r, e) => status[r] = "done"
    BY <2>1 DEF TextOK
  <2>3. ~(e >= m)
    BY <1>3, <2>2 DEF EndsAt
  <2> QED BY <2>3
<1>7. emitted[r] # <<>> => e # 0
  BY <1>2, TokensFacts, EmptySeq
<1>8. GenIndex(r) = e
  BY <1>1, <1>4 DEF GenIndex
<1> QED BY <1>2, <1>3, <1>4, <1>5, <1>6, <1>7, <1>8

\* A decoding request between two decodes has max_tokens left.
LEMMA DecodingInContext ==
  ASSUME BatcherInv, FitsContext, phase # "retire", NEW r \in Decoding
  PROVE  /\ r \in Req /\ slotOf[r] \in Slot
         /\ Len(tokens[r]) \in Nat /\ Len(tokens[r]) <= MaxSeq
         /\ GenIndex(r) \in Nat /\ GenIndex(r) < MaxTokens[r]
<1>1. r \in Req /\ TextOK(r) /\ DecodingOK(r) /\ r \in DOMAIN slotOf
  BY DecodingFacts DEF BatcherInv
<1>2. status[r] = "in" /\ emitted[r] # <<>>
  BY <1>1 DEF BatcherInv, SchedulerInv, PhaseOK, DecodingOK
<1>3. slotOf[r] \in Slot
  BY <1>1 DEF BatcherInv, SchedulerInv, SlotsOK
<1> QED BY <1>1, <1>2, <1>3, TextInContext DEF BatcherInv, SchedulerInv

\* So has the request that is being loaded.
LEMMA LoadingInContext ==
  ASSUME BatcherInv, FitsContext, NEW r \in loading,
         phase \in {"load", "register", "join"}
  PROVE  /\ r \in Req /\ slotOf[r] \in Slot
         /\ Len(tokens[r]) \in Nat /\ Len(tokens[r]) <= MaxSeq
<1>1. r \in Req /\ TextOK(r) /\ RestoredOK(r) /\ r \in DOMAIN slotOf
  BY LoadingFacts DEF BatcherInv
<1>2. slotOf[r] \in Slot
  BY <1>1 DEF BatcherInv, SchedulerInv, SlotsOK
<1> QED BY <1>1, <1>2, TextInContext DEF BatcherInv, SchedulerInv, RestoredOK

\* And the one that waits to be resumed.
LEMMA EvictedInContext ==
  ASSUME BatcherInv, FitsContext, NEW r \in Evicted
  PROVE  /\ r \in Req /\ tokens[r] \in Seq(Token) /\ tokens[r] # <<>>
         /\ Len(tokens[r]) \in Nat /\ Len(tokens[r]) <= MaxSeq
<1>1. r \in Req
  BY QueueMembers DEF BatcherInv, SchedulerInv, SchedulerTypeOK, Evicted
<1>2. TextOK(r) /\ RestoredOK(r)
  BY <1>1 DEF BatcherInv, SchedulerInv, RequestOK
<1> QED BY <1>1, <1>2, TextInContext, TokensFacts DEF BatcherInv, SchedulerInv, RestoredOK

-----------------------------------------------------------------------------
(* No slot outgrows a full sequence *)

LEMMA SameBlocks ==
  ASSUME BlocksInContext, slotBlocks' = slotBlocks
  PROVE  BlocksInContext'
<1>1. MaxBlocks' = MaxBlocks
  BY DEF MaxBlocks, BlocksFor
<1> QED BY <1>1 DEF BlocksInContext

LEMMA VacateFits ==
  ASSUME KVInv, SlotsOK, BlocksInContext, NEW r \in DOMAIN slotOf, Vacate(r)
  PROVE  BlocksInContext'
<1>1. PICK s \in Slot : s = slotOf[r]
  BY DEF SlotsOK
<1>2. slotBlocks' = [slotBlocks EXCEPT ![s] = <<>>]
  BY <1>1 DEF Vacate, FreeSlot
<1>3. slotBlocks \in [Slot -> Seq(Block)]
  BY DEF KVInv, Books, KVTypeOK
<1>4. MaxBlocks \in Nat
  BY MaxBlocksNat
<1>5. \A t \in Slot : slotBlocks'[t] = slotBlocks[t] \/ slotBlocks'[t] = <<>>
  BY <1>2, <1>3
<1>6. Len(<<>>) <= MaxBlocks
  BY <1>4
<1> QED BY <1>5, <1>6 DEF BlocksInContext

LEMMA AllocFits ==
  ASSUME KVInv, BlocksInContext, NEW s \in Slot, AllocInto(s),
         NEW n \in Nat, n <= MaxSeq, BlocksShort(s, n) > 0
  PROVE  BlocksInContext'
<1>1. slotBlocks \in [Slot -> Seq(Block)]
  BY DEF KVInv, Books, KVTypeOK
<1>2. PICK b \in Block : slotBlocks' = [slotBlocks EXCEPT ![s] = Append(@, b)]
  BY DEF AllocInto
<1>3. PICK l \in Nat : l = Len(slotBlocks[s])
  BY <1>1
<1>4. BlocksFor(n) \in Nat /\ BlocksFor(n) <= MaxBlocks /\ MaxBlocks \in Nat
  BY MaxBlocksNat
<1>5. BlocksFor(n) > l
  BY <1>3, ShortFacts
<1>6. slotBlocks'[s] = Append(slotBlocks[s], b) /\ slotBlocks[s] \in Seq(Block)
  BY <1>1, <1>2
<1>7. Len(slotBlocks'[s]) = l + 1
  BY <1>3, <1>6
<1>8. l + 1 <= MaxBlocks
  BY <1>4, <1>5
<1>9. \A t \in Slot : t # s => slotBlocks'[t] = slotBlocks[t]
  BY <1>1, <1>2
<1> QED BY <1>7, <1>8, <1>9 DEF BlocksInContext

LEMMA ReuseFits ==
  ASSUME KVInv, SlotsOK, BlocksInContext, NEW s \in freeSlots,
         NEW text \in Seq(Token), text # <<>>, Len(text) <= MaxSeq, PrefixReuse(s, text)
  PROVE  BlocksInContext'
<1>1. slotBlocks \in [Slot -> Seq(Block)] /\ s \in Slot /\ slotBlocks[s] = <<>>
  BY DEF KVInv, Books, KVTypeOK, SlotsOK
<1>2. Reused(text) \in Seq(Block) /\ Len(Reused(text)) = CachedBlocks(text)
  BY ReusedFacts DEF KVInv
<1>3. slotBlocks' = [slotBlocks EXCEPT ![s] = slotBlocks[s] \o Reused(text)]
  BY DEF PrefixReuse
<1>4. slotBlocks'[s] = Reused(text)
  <2>1. slotBlocks'[s] = <<>> \o Reused(text)
    BY <1>1, <1>3
  <2> QED BY <1>2, <2>1, ConcatEmptySeq
<1>5. CachedBlocks(text) <= MaxBlocks
  <2>1. PICK c \in Nat : c = CachedBlocks(text) /\ c * BlockSize < Len(text)
    BY CachedBlocksFacts
  <2>2. MaxBlocks \in Nat /\ MaxSeq \in Nat /\ Len(text) \in Nat
    BY MaxBlocksNat, PagedKVAssumption
  <2>3. MaxSeq <= MaxBlocks * BlockSize
    BY <2>2, BlocksForBound DEF MaxBlocks
  <2>4. c * BlockSize \in Nat /\ MaxBlocks * BlockSize \in Nat
    BY <2>2, Product
  <2>5. c * BlockSize < MaxBlocks * BlockSize
    BY <2>1, <2>2, <2>3, <2>4
  <2>6. c <= MaxBlocks
    BY <2>2, <2>4, <2>5, BlockSizeNat, Z3
  <2> QED BY <2>1, <2>6
<1>6. \A t \in Slot : t # s => slotBlocks'[t] = slotBlocks[t]
  BY <1>1, <1>3
<1>7. Len(slotBlocks'[s]) <= MaxBlocks
  BY <1>2, <1>4, <1>5
<1> QED BY <1>6, <1>7 DEF BlocksInContext

LEMMA NothingFreed ==
  ASSUME BlocksInContext, UNCHANGED kvVars
  PROVE  BlocksInContext'
<1>1. slotBlocks' = slotBlocks
  BY DEF kvVars
<1> QED BY <1>1, SameBlocks

LEMMA PreemptFits ==
  ASSUME BatcherInv, BlocksInContext, active # <<>>, PreemptLastActive
  PROVE  BlocksInContext'
<1> DEFINE r == Last(active)
<1>1. r \in DOMAIN slotOf
  BY EndsOfQueue DEF BatcherInv, SchedulerInv, SchedulerTypeOK, QueuesApart, SlotHolders, Decoding
<1>2. Vacate(r)
  BY DEF PreemptLastActive
<1> QED BY <1>1, <1>2, VacateFits DEF BatcherInv, SchedulerInv

\* Paging the batch: a row lies within the context when it is paged.
LEMMA PageFits ==
  ASSUME BatcherInv, BlocksInContext, Page
  PROVE  BlocksInContext'
<1>1. CASE UNCHANGED kvVars
  BY <1>1, NothingFreed
<1>2. CASE Short # {} /\ ~PoolExhausted
  <2> DEFINE i == CHOOSE i \in Short : \A j \in Short : i <= j
  <2>1. i \in Short
    <3>1. Short \in SUBSET (1..Len(active)) /\ Len(active) \in Nat
      BY DEF Short, BatcherInv, SchedulerInv, SchedulerTypeOK
    <3>2. \E x \in Short : \A y \in Short : x <= y
      BY <1>2, <3>1, SmallestExists
    <3> QED BY <3>2
  <2>2. AllocInto(slotOf[active[i]])
    BY <1>2 DEF Page
  <2> HIDE DEF i
  <2>3. i \in 1..Len(active) /\ BlocksShort(slotOf[active[i]], Rows(active[i])) > 0
    BY <2>1 DEF Short
  <2>4. PICK r \in Decoding : r = active[i]
    BY <2>3, QueueMembers DEF BatcherInv, SchedulerInv, SchedulerTypeOK, Decoding
  <2>5. r \in DOMAIN slotOf /\ r \in Req
    BY DecodingFacts DEF BatcherInv
  <2>6. PICK s \in Slot : s = slotOf[r]
    BY <2>5 DEF BatcherInv, SchedulerInv, SlotsOK
  <2>7. PICK n \in Nat : n = Rows(r)
    BY <2>5, TextTypes DEF Rows, BatcherInv, SchedulerInv
  <2>8. n <= MaxSeq
    BY <2>7 DEF Page, BatcherInv, SchedulerInv, PhaseOK
  <2>9. AllocInto(s) /\ BlocksShort(s, n) > 0
    BY <2>2, <2>3, <2>4, <2>6, <2>7
  <2> QED BY <2>8, <2>9, AllocFits DEF BatcherInv
<1> QED BY <1>1, <1>2 DEF Page

\* Paging the next chunk of the front of the prefill queue.
LEMMA PrefillPageFits ==
  ASSUME BatcherInv, BlocksInContext, PrefillPage
  PROVE  BlocksInContext'
<1> DEFINE r == Head(prefilling)
<1>1. prefilling \in Seq(Req) /\ prefilling # <<>>
  BY DEF BatcherInv, SchedulerInv, SchedulerTypeOK, PrefillPage
<1>2. r \in Prefills
  BY <1>1, QueueMembers DEF Prefills
<1>3. AllocInto(slotOf[r]) /\ BlocksShort(slotOf[r], ChunkEnd(r)) > 0
  <2>1. 0 < BlocksShort(slotOf[r], ChunkEnd(r)) /\ AllocInto(slotOf[r])
    BY DEF PrefillPage, FrontShort
  <2> QED BY <2>1
<1> HIDE DEF r
<1>4. PICK s \in Slot : s = slotOf[r]
  BY <1>2 DEF BatcherInv, SchedulerInv, SlotsOK, SlotHolders
<1>5. PICK n \in Nat : n = ChunkEnd(r) /\ n <= MaxSeq
  BY <1>2, ChunkInContext
<1>6. AllocInto(s) /\ BlocksShort(s, n) > 0
  BY <1>3, <1>4, <1>5
<1> QED BY <1>5, <1>6, AllocFits DEF BatcherInv

\* Paging a text that is prefilled at once, restored or recomputed.
LEMMA LoadPageFits ==
  ASSUME BatcherInv, BlocksInContext, LoadPage
  PROVE  BlocksInContext'
<1>1. CASE UNCHANGED kvVars
  BY <1>1, NothingFreed
<1>2. ASSUME NEW r \in loading, ~(Len(tokens[r]) > MaxSeq),
             BlocksShort(slotOf[r], Len(tokens[r])) > 0, AllocInto(slotOf[r])
      PROVE  BlocksInContext'
  <2>1. r \in Req /\ r \in DOMAIN slotOf
    BY LoadingFacts DEF LoadPage, BatcherInv
  <2>2. PICK s \in Slot : s = slotOf[r]
    BY <2>1 DEF BatcherInv, SchedulerInv, SlotsOK
  <2>3. PICK n \in Nat : n = Len(tokens[r])
    BY <2>1, TextTypes DEF BatcherInv, SchedulerInv
  <2>4. n <= MaxSeq
    BY <1>2, <2>3, PagedKVAssumption
  <2>5. AllocInto(s) /\ BlocksShort(s, n) > 0
    BY <1>2, <2>2, <2>3
  <2> QED BY <2>4, <2>5, AllocFits DEF BatcherInv
<1> QED BY <1>1, <1>2 DEF LoadPage

\* The blocks a slot gets from the prefix cache are fewer than its text needs.
LEMMA AdmitFits ==
  ASSUME BatcherInv, FitsContext, BlocksInContext, NEW r \in Req, Enqueue(r) \/ Admit(r)
  PROVE  BlocksInContext'
<1>1. PICK s \in freeSlots : PrefixReuse(s, Prompt[r])
  BY DEF Enqueue, Admit
<1>2. Prompt[r] \in Seq(Token) /\ Prompt[r] # <<>> /\ Len(Prompt[r]) <= MaxSeq
  BY PromptFacts DEF FitsContext
<1> QED BY <1>1, <1>2, ReuseFits DEF BatcherInv, SchedulerInv

LEMMA ResumeFits ==
  ASSUME BatcherInv, FitsContext, BlocksInContext, Resume
  PROVE  BlocksInContext'
<1> DEFINE r == Head(preempted)
<1>1. r \in Evicted
  BY QueueMembers DEF BatcherInv, SchedulerInv, SchedulerTypeOK, Evicted, Resume, CanResume
<1>2. tokens[r] \in Seq(Token) /\ tokens[r] # <<>> /\ Len(tokens[r]) <= MaxSeq
  BY <1>1, EvictedInContext
<1>3. PICK s \in freeSlots : PrefixReuse(s, tokens[r]) \/ UNCHANGED kvVars
  BY DEF Resume
<1> QED BY <1>2, <1>3, ReuseFits, NothingFreed DEF BatcherInv, SchedulerInv

\* No step lets a slot outgrow a full sequence.
LEMMA StepFits ==
  ASSUME BatcherInv, FitsContext, BlocksInContext, [BatcherNext]_vars
  PROVE  BlocksInContext'
<1>1. CASE UNCHANGED kvVars
  BY <1>1, NothingFreed
<1>2. CASE StepBegin \/ LayRows \/ SkipPrefill \/ StepEnd
  BY <1>2, NothingFreed DEF StepBegin, LayRows, SkipPrefill, StepEnd
<1>3. CASE MakeRoom \/ EvictActive
  <2>1. active # <<>> /\ PreemptLastActive
    BY <1>3 DEF MakeRoom, EvictActive
  <2> QED BY <2>1, PreemptFits
<1>4. CASE EvictPrefill
  <2>1. Last(prefilling) \in DOMAIN slotOf /\ Vacate(Last(prefilling))
    BY <1>4, EndsOfQueue DEF EvictPrefill, BatcherInv, SchedulerInv, SchedulerTypeOK,
       QueuesApart, SlotHolders, Prefills
  <2> QED BY <2>1, VacateFits DEF BatcherInv, SchedulerInv
<1>5. CASE Decode \/ PrefillChunk \/ Load
  <2>1. slotBlocks' = slotBlocks
    BY <1>5 DEF Decode, PrefillChunk, Load, WriteKV
  <2> QED BY <2>1, SameBlocks
<1>6. CASE RegisterPrefix
  <2>1. slotBlocks' = slotBlocks
    BY <1>6 DEF RegisterPrefix, Register
  <2> QED BY <2>1, SameBlocks
<1>7. CASE Retire
  <2> DEFINE over == {i \in 1..Len(active) : DoneWith(active[i], tokens[active[i]])}
             i == CHOOSE i \in over : \A j \in over : i <= j
  <2>1. UNCHANGED kvVars \/ (over # {} /\ Vacate(active[i]))
    BY <1>7 DEF Retire
  <2>2. over # {} => i \in 1..Len(active)
    <3>1. over \in SUBSET (1..Len(active)) /\ Len(active) \in Nat
      BY DEF BatcherInv, SchedulerInv, SchedulerTypeOK
    <3> HIDE DEF over
    <3>2. over # {} => \E x \in over : \A y \in over : x <= y
      BY <3>1, SmallestExists
    <3> QED BY <3>1, <3>2
  <2> HIDE DEF i, over
  <2>3. over # {} => active[i] \in DOMAIN slotOf
    BY <2>2, QueueMembers DEF BatcherInv, SchedulerInv, SchedulerTypeOK, SlotHolders, Decoding
  <2> QED BY <2>1, <2>3, NothingFreed, VacateFits DEF BatcherInv, SchedulerInv
<1>8. CASE Join
  <2>1. PICK r \in loading : Vacate(r) \/ UNCHANGED kvVars
    BY <1>8 DEF Join
  <2>2. r \in DOMAIN slotOf
    BY DEF BatcherInv, SchedulerInv, SlotHolders
  <2> QED BY <2>1, <2>2, NothingFreed, VacateFits DEF BatcherInv, SchedulerInv
<1>9. ASSUME NEW r \in Req, Cancel(r) PROVE BlocksInContext'
  <2>1. UNCHANGED kvVars \/ (r \in DOMAIN slotOf /\ Vacate(r))
    BY <1>9 DEF Cancel
  <2> QED BY <2>1, NothingFreed, VacateFits DEF BatcherInv, SchedulerInv
<1>10. CASE UNCHANGED vars
  BY <1>10, NothingFreed DEF vars
<1> QED BY <1>2, <1>3, <1>4, <1>5, <1>6, <1>7, <1>8, <1>9, <1>10, PageFits, PrefillPageFits,
           LoadPageFits, AdmitFits, ResumeFits DEF BatcherNext, StepNext

-----------------------------------------------------------------------------
(* Which steps lead where *)

\* The drafting batch is entered by the serving loop only, and an assertion fails
\* only where it is evaluated.
LEMMA WhoAsserts ==
  ASSUME BatcherInv, [BatcherNext]_vars, phase' # phase
  PROVE  /\ phase' = "roomPld" => StepBegin /\ Pld
         /\ phase' = "rowsAssert" => LayRows
         /\ phase' = "positionAssert" => LayRows \/ LoadPage
         /\ phase' = "poolAssert" => Page \/ LoadPage
<1> DEFINE Odd == Failed \cup {"roomPld"}
<1>1. CASE StepBegin
  <2>1. phase' \in {"prefill", "room", "roomPld"} /\ (phase' = "roomPld" => Pld)
    BY <1>1 DEF StepBegin
  <2> QED BY <1>1, <2>1
<1>2. CASE LayRows
  <2>1. phase' \in {"rowsAssert", "positionAssert", "page"}
    BY <1>2 DEF LayRows
  <2> QED BY <1>2, <2>1
<1>3. CASE Page
  <2>1. phase' \in {"decode", "poolAssert"}
    BY <1>3 DEF Page
  <2> QED BY <1>3, <2>1
<1>4. CASE LoadPage
  <2>1. phase' \in {"positionAssert", "poolAssert"}
    BY <1>4 DEF LoadPage
  <2> QED BY <1>4, <2>1
<1>5. CASE MakeRoom \/ EvictActive \/ EvictPrefill \/ PrefillPage \/ UNCHANGED vars
  BY <1>5 DEF MakeRoom, EvictActive, EvictPrefill, PrefillPage, vars, seqVars
<1>6. CASE Decode \/ Retire \/ SkipPrefill \/ PrefillChunk \/ RegisterPrefix \/ Join
           \/ Resume \/ Load \/ StepEnd
  <2>1. after \in {"idle", "resched"}
    BY DEF BatcherInv, SchedulerInv, SchedulerTypeOK
  <2>2. phase' \in {"retire", "prefill", "resched", "register", "join", "load", "idle"}
    <3>1. CASE Decode
      BY <3>1 DEF Decode
    <3>2. CASE Retire
      BY <3>2 DEF Retire
    <3>3. CASE SkipPrefill \/ StepEnd \/ RegisterPrefix \/ Join
      BY <2>1, <3>3 DEF SkipPrefill, StepEnd, RegisterPrefix, Join
    <3>4. CASE PrefillChunk
      BY <3>4 DEF PrefillChunk
    <3>5. CASE Resume
      BY <3>5 DEF Resume
    <3>6. CASE Load
      BY <3>6 DEF Load
    <3> QED BY <1>6, <3>1, <3>2, <3>3, <3>4, <3>5, <3>6
  <2> QED BY <2>2
<1>7. ASSUME NEW r \in Req, Enqueue(r) \/ Admit(r) \/ Cancel(r)
      PROVE  phase' \in {"load", phase}
  BY <1>7 DEF Enqueue, Admit, Cancel
<1> QED BY <1>1, <1>2, <1>3, <1>4, <1>5, <1>6, <1>7 DEF BatcherNext, StepNext

-----------------------------------------------------------------------------
(* Positions *)

\* lookup_draft proposes at most k tokens.
LEMMA LookupLength ==
  ASSUME NEW text \in Seq(Token), NEW n \in Nat, NEW k \in Nat
  PROVE  Len(LookupDraft(text, text, n, k)) <= k
<1> DEFINE key == SubSeq(text, Len(text) - n + 1, Len(text))
           starts == {i \in 0..(Len(text) - n - 1) : SubSeq(text, i + 1, i + n) = key}
           start == CHOOSE i \in starts : \A j \in starts : j <= i
           from == start + n
           rest == Len(text) - from
           upto == from + (IF k < rest THEN k ELSE rest)
<1>0. Len(text) \in Nat
  OBVIOUS
<1>3. LookupDraft(text, text, n, k) =
        IF Len(text) < n \/ Len(text) < n + 1 \/ k = 0 THEN <<>>
        ELSE IF starts = {} THEN <<>> ELSE SubSeq(text, from + 1, upto)
  BY DEF LookupDraft
<1>1. CASE Len(text) < n \/ Len(text) < n + 1 \/ k = 0 \/ starts = {}
  <2> HIDE DEF starts, from, upto
  <2>1. LookupDraft(text, text, n, k) = <<>>
    BY <1>1, <1>3
  <2> QED BY <2>1
<1>2. CASE ~(Len(text) < n \/ Len(text) < n + 1 \/ k = 0 \/ starts = {})
  <2>1. start \in 0..(Len(text) - n - 1)
    <3> DEFINE m == Len(text) - n - 1
    <3>0. PICK l \in Nat : l = Len(text)
      BY <1>0
    <3>1. m \in Nat
      <4>1. ~(l < n + 1)
        BY <1>2, <3>0
      <4>2. m = l - n - 1
        BY <3>0
      <4> QED BY <4>1, <4>2
    <3>3. starts \in SUBSET (0..m) /\ starts # {}
      BY <1>2
    <3> HIDE DEF m, starts
    <3>2. \E x \in starts : \A y \in starts : y <= x
      BY <3>1, <3>3, LargestExists
    <3> QED BY <3>1, <3>2, <3>3 DEF m
  <2>2. LookupDraft(text, text, n, k) = SubSeq(text, from + 1, upto)
    <3> HIDE DEF starts, from, upto
    <3> QED BY <1>2, <1>3
  <2> HIDE DEF start, starts
  <2>3. from \in Nat /\ upto \in Int /\ upto <= Len(text) /\ upto <= from + k
    <3>1. \A l, s \in Nat : \A j \in Nat :
            s + n <= l => /\ s + n \in Nat
                          /\ (s + n) + (IF j < l - (s + n) THEN j ELSE l - (s + n)) \in Int
                          /\ (s + n) + (IF j < l - (s + n) THEN j ELSE l - (s + n)) <= l
                          /\ (s + n) + (IF j < l - (s + n) THEN j ELSE l - (s + n)) <= (s + n) + j
      OBVIOUS
    <3>2. start \in Nat /\ start + n <= Len(text)
      BY <1>0, <2>1
    <3> QED BY <1>0, <3>1, <3>2
  <2> HIDE DEF from, upto
  <2>4. \A i \in (from + 1)..upto : text[i] \in Token
    BY <1>0, <2>3
  <2>5. Len(SubSeq(text, from + 1, upto)) = IF from + 1 <= upto THEN upto - (from + 1) + 1 ELSE 0
    <3>1. from + 1 \in Int
      BY <2>3
    <3> QED BY <2>3, <2>4, <3>1, SubSeqProperties
  <2>6. Len(SubSeq(text, from + 1, upto)) <= k
    BY <2>3, <2>5
  <2> QED BY <2>2, <2>6
<1> QED BY <1>1, <1>2

\* step_pld's draft of a request never exceeds what max_tokens leaves it.
LEMMA DraftLength ==
  ASSUME SchedulerTypeOK, NEW r \in Req, GenIndex(r) \in Nat, GenIndex(r) < MaxTokens[r]
  PROVE  /\ Len(DraftOf(r)) \in Nat
         /\ Len(DraftOf(r)) <= MaxTokens[r] - GenIndex(r)
         /\ phase # "roomPld" => DraftOf(r) = <<>>
<1> DEFINE left == MaxTokens[r] - GenIndex(r)
           k == IF DraftK < left THEN DraftK ELSE left
           text == tokens[r]
           top == IF LookupLen > 2 THEN LookupLen ELSE 2
           lens == {n \in 2..top : LookupDraft(text, text, n, k) # <<>>}
           c == CHOOSE n \in lens : \A m \in lens : m <= n
<1>1. left \in Nat /\ k \in Nat /\ k <= left
  <2>1. left \in Nat
    BY PromptFacts
  <2> HIDE DEF left
  <2> QED BY <2>1, BatcherAssumption
<1>2. text \in Seq(Token) /\ top \in Nat
  BY BatcherAssumption DEF SchedulerTypeOK
<1>3. Len(DraftOf(r)) \in Nat
  BY DraftType
<1>4. phase # "roomPld" => DraftOf(r) = <<>>
  BY DEF DraftOf
<1>5. phase = "roomPld" => DraftOf(r) = LookupDraftBest(text, text, LookupLen, k)
  BY DEF DraftOf
<1> HIDE DEF k, text, left
<1>6. lens # {} => c \in Nat
  <2>1. lens \in SUBSET (0..top) /\ \A n \in lens : n \in Nat
    BY <1>2
  <2> HIDE DEF lens, top
  <2>2. lens # {} => \E x \in lens : \A y \in lens : y <= x
    BY <1>2, <2>1, LargestExists
  <2> QED BY <2>1, <2>2
<1>7. LookupDraftBest(text, text, LookupLen, k) =
        IF lens = {} THEN <<>> ELSE LookupDraft(text, text, c, k)
  BY DEF LookupDraftBest
<1> HIDE DEF lens, c
<1>8. lens # {} => Len(LookupDraft(text, text, c, k)) <= k
  BY <1>1, <1>2, <1>6, LookupLength
<1>9. phase = "roomPld" => Len(DraftOf(r)) <= k
  <2>1. Len(<<>>) <= k
    BY <1>1
  <2> QED BY <1>5, <1>7, <1>8, <2>1
<1>10. Len(DraftOf(r)) <= left
  <2>1. phase # "roomPld" => Len(DraftOf(r)) = 0
    BY <1>4
  <2> QED BY <1>1, <1>3, <1>9, <2>1
<1> QED BY <1>3, <1>4, <1>10 DEF left

PositionsInv == /\ BlocksInContext
                /\ phase # "positionAssert"
                /\ phase = "roomPld" => Pld

\* The rows that are laid out lie within the context.
LEMMA RowsLaidInContext ==
  ASSUME BatcherInv, FitsContext, PositionsInv, phase \in {"room", "roomPld"},
         NEW r \in Decoding
  PROVE  ~(Len(tokens[r]) + Len(DraftOf(r)) > MaxSeq)
<1>1. /\ r \in Req /\ Len(tokens[r]) \in Nat /\ Len(tokens[r]) <= MaxSeq
      /\ GenIndex(r) \in Nat /\ GenIndex(r) < MaxTokens[r]
  BY DecodingInContext
<1>2. PICK t \in Nat : t = Len(tokens[r])
  BY <1>1
<1>3. PICK p \in Nat : p = Len(Prompt[r])
  BY <1>1, PromptFacts
<1>4. PICK m \in Nat : m = MaxTokens[r]
  BY <1>1, PromptFacts
<1>5. GenIndex(r) = t - p
  BY <1>2, <1>3 DEF GenIndex
<1>6. PICK d \in Nat : d = Len(DraftOf(r)) /\ d <= m - (t - p)
  BY <1>1, <1>4, <1>5, DraftLength DEF BatcherInv, SchedulerInv
<1>7. MaxSeq \in Nat /\ t <= MaxSeq
  BY <1>1, <1>2, PagedKVAssumption
<1>8. CASE phase = "roomPld"
  <2>1. p + m <= MaxSeq + 0
    BY <1>1, <1>3, <1>4, <1>8 DEF FitsContext, PositionsInv
  <2>2. ~(t + d > MaxSeq)
    BY <1>6, <1>7, <2>1
  <2> QED BY <1>2, <1>6, <2>2
<1>9. CASE phase # "roomPld"
  <2>1. DraftOf(r) = <<>>
    BY <1>9 DEF DraftOf
  <2>2. d = 0
    BY <1>6, <2>1
  <2>3. ~(t + d > MaxSeq)
    BY <1>7, <2>2
  <2> QED BY <1>2, <1>6, <2>3
<1> QED BY <1>8, <1>9

LEMMA PositionsStep ==
  ASSUME BatcherInv, FitsContext, PositionsInv, [BatcherNext]_vars
  PROVE  PositionsInv'
<1>1. BlocksInContext'
  BY StepFits DEF PositionsInv
<1>2. phase' = "roomPld" => Pld
  BY WhoAsserts DEF PositionsInv
<1>3. phase' # "positionAssert"
  <2> SUFFICES ASSUME phase' = "positionAssert" PROVE FALSE
    OBVIOUS
  <2>1. LayRows \/ LoadPage
    BY WhoAsserts DEF PositionsInv
  <2>2. CASE LayRows
    <3>1. \E r \in Decoding : Len(tokens[r]) + Len(DraftOf(r)) > MaxSeq
      BY <2>2 DEF LayRows, Decoding
    <3>2. phase \in {"room", "roomPld"}
      BY <2>2 DEF LayRows
    <3> QED BY <3>1, <3>2, RowsLaidInContext
  <2>3. CASE LoadPage
    <3>1. phase = "load"
      BY <2>3 DEF LoadPage
    <3>2. PICK r \in loading : Len(tokens[r]) > MaxSeq
      BY <2>3 DEF LoadPage
    <3>3. Len(tokens[r]) \in Nat /\ Len(tokens[r]) <= MaxSeq
      BY <3>1, LoadingInContext
    <3> QED BY <3>2, <3>3, PagedKVAssumption
  <2> QED BY <2>1, <2>2, <2>3
<1> QED BY <1>1, <1>2, <1>3 DEF PositionsInv

LEMMA PositionsInit ==
  ASSUME BatcherInit
  PROVE  PositionsInv
<1>1. \A s \in Slot : Len(slotBlocks[s]) = 0
  BY DEF BatcherInit, KVInit
<1> QED BY <1>1, MaxBlocksNat DEF PositionsInv, BlocksInContext, BatcherInit

LEMMA PositionsInvariant ==
  ASSUME FitsContext
  PROVE  BatcherSpec => []PositionsInv
<1>1. BatcherInit => PositionsInv
  BY PositionsInit
<1>2. BatcherInv /\ PositionsInv /\ [BatcherNext]_vars => PositionsInv'
  BY PositionsStep
<1> QED BY <1>1, <1>2, BatcherInvariant, PTL DEF BatcherSpec

\* write_inputs' position assertion holds when the texts fit the context: a draft is
\* cut at what max_tokens leaves, and a preempted text is reloaded at its own length.
\* Nothing in the batcher keeps max_tokens within the context; a run shows the failure.
THEOREM PositionsFit ==
  ASSUME FitsContext
  PROVE  BatcherSpec => []PositionsFitContext
<1>1. PositionsInv => PositionsFitContext
  BY DEF PositionsInv, PositionsFitContext
<1> QED BY <1>1, PositionsInvariant, PTL

-----------------------------------------------------------------------------
(* Rows *)

\* Without drafting a batch has one row per request, hence at most one per slot.
LEMMA RowsLaidFit ==
  ASSUME BatcherInv, phase = "room"
  PROVE  ~(Cardinality(UNION {{r} \X (0..Len(DraftOf(r))) : r \in ToSet(active)})
             > Cardinality(Slot))
<1> DEFINE U == UNION {{r} \X (0..Len(DraftOf(r))) : r \in ToSet(active)}
           f == [w \in U |-> slotOf[w[1]]]
<1>1. \A r \in Req : Len(DraftOf(r)) = 0
  <2>1. \A r \in Req : DraftOf(r) = <<>>
    BY DEF DraftOf
  <2> QED BY <2>1
<1>2. ToSet(active) \subseteq Req
  BY QueueMembers DEF BatcherInv, SchedulerInv, SchedulerTypeOK
<1>3. \A w \in U : w = <<w[1], 0>> /\ w[1] \in Decoding
  <2> SUFFICES ASSUME NEW r \in ToSet(active), NEW w \in {r} \X (0..Len(DraftOf(r)))
               PROVE  w = <<w[1], 0>> /\ w[1] \in Decoding
    OBVIOUS
  <2>1. w \in {r} \X (0..0)
    BY <1>1, <1>2
  <2> QED BY <2>1 DEF Decoding
<1> HIDE DEF U
<1>4. \A r \in Decoding : r \in DOMAIN slotOf /\ slotOf[r] \in Slot
  BY DEF BatcherInv, SchedulerInv, SlotsOK, SlotHolders
<1>5. \A v, w \in U : slotOf[v[1]] = slotOf[w[1]] => v = w
  <2> SUFFICES ASSUME NEW v \in U, NEW w \in U, slotOf[v[1]] = slotOf[w[1]] PROVE v = w
    OBVIOUS
  <2>1. v[1] = w[1]
    BY <1>3, <1>4 DEF BatcherInv, SchedulerInv, SlotsOK
  <2> QED BY <1>3, <2>1
<1>6. f \in Injection(U, Slot)
  BY <1>3, <1>4, <1>5 DEF Injection, IsInjective
<1>7. IsFiniteSet(U) /\ Cardinality(U) <= Cardinality(Slot)
  BY <1>6, FS_Injection, PagedKVAssumption
<1>8. Cardinality(U) \in Nat /\ Cardinality(Slot) \in Nat
  BY <1>7, FS_CardinalityType, PagedKVAssumption
<1>9. ~(Cardinality(U) > Cardinality(Slot))
  BY <1>7, <1>8
<1> QED BY <1>9 DEF U

RowsInv == phase \notin {"roomPld", "rowsAssert"}

LEMMA RowsStep ==
  ASSUME BatcherInv, RowsInv, Pld = FALSE, [BatcherNext]_vars
  PROVE  RowsInv'
<1>1. phase' # "roomPld"
  BY WhoAsserts DEF RowsInv
<1>2. phase' # "rowsAssert"
  <2> SUFFICES ASSUME phase' = "rowsAssert" PROVE FALSE
    OBVIOUS
  <2>1. LayRows
    BY WhoAsserts DEF RowsInv
  <2>2. phase = "room"
    BY <2>1 DEF LayRows, RowsInv
  <2>3. Cardinality(UNION {{r} \X (0..Len(DraftOf(r))) : r \in ToSet(active)})
          > Cardinality(Slot)
    BY <2>1 DEF LayRows
  <2> QED BY <2>2, <2>3, RowsLaidFit
<1> QED BY <1>1, <1>2 DEF RowsInv

\* step_core's row bound holds without prompt lookup; step_pld's rows may exceed it,
\* as a run shows.
THEOREM RowsFit ==
  ASSUME Pld = FALSE
  PROVE  BatcherSpec => []RowsFitBatch
<1>1. BatcherInit => RowsInv
  BY DEF BatcherInit, RowsInv
<1>2. BatcherInv /\ RowsInv /\ [BatcherNext]_vars => RowsInv'
  BY RowsStep
<1>3. RowsInv => RowsFitBatch
  BY DEF RowsInv, RowsFitBatch
<1> QED BY <1>1, <1>2, <1>3, BatcherInvariant, PTL DEF BatcherSpec

-----------------------------------------------------------------------------
(* A pool of MaxBlocks blocks per slot *)

FullPool == Cardinality(Block) >= Cardinality(Slot) * MaxBlocks

\* The places of the block tables that are still empty.
Spare == {w \in Slot \X (1..MaxBlocks) : w[2] > Len(slotBlocks[w[1]])}

\* There is a block for every empty place.
LEMMA RoomLeft ==
  ASSUME KVInv, BlocksInContext, FullPool
  PROVE  IsFiniteSet(Spare) /\ Cardinality(Spare) <= FreeBlocks
<1> DEFINE W == Slot \X (1..MaxBlocks)
           Filled == W \ Spare
<1>1. IsFiniteSet(1..MaxBlocks) /\ Cardinality(1..MaxBlocks) = MaxBlocks
  BY MaxBlocksNat, CountTo
<1>2. IsFiniteSet(W) /\ Cardinality(W) = Cardinality(Slot) * MaxBlocks
  BY <1>1, FS_Product, PagedKVAssumption
<1>3. Spare \subseteq W
  BY DEF Spare
<1>4. IsFiniteSet(Spare)
  BY <1>2, <1>3, FS_Subset
<1>5. IsFiniteSet(Filled) /\ Cardinality(Filled) = Cardinality(W) - Cardinality(Spare)
  <2>1. W \cap Spare = Spare
    BY <1>3
  <2> HIDE DEF W
  <2>2. IsFiniteSet(W \ Spare) /\ Cardinality(W \ Spare) = Cardinality(W) - Cardinality(W \cap Spare)
    BY <1>2, FS_Difference
  <2> QED BY <2>1, <2>2
<1>6. \A b \in Used : \E w \in Filled : slotBlocks[w[1]][w[2]] = b
  <2> SUFFICES ASSUME NEW b \in Used PROVE \E w \in Filled : slotBlocks[w[1]][w[2]] = b
    OBVIOUS
  <2>1. PICK s \in Slot : b \in Blocks(s)
    BY DEF Used
  <2>2. PICK i \in 1..Len(slotBlocks[s]) : slotBlocks[s][i] = b
    BY <2>1 DEF Blocks
  <2>3. Len(slotBlocks[s]) \in Nat /\ Len(slotBlocks[s]) <= MaxBlocks /\ MaxBlocks \in Nat
    BY SlotTypes, MaxBlocksNat DEF KVInv, Books, BlocksInContext
  <2>4. i \in 1..MaxBlocks /\ ~(i > Len(slotBlocks[s]))
    BY <2>2, <2>3
  <2>5. <<s, i>> \in W /\ <<s, i>> \notin Spare
    BY <2>4 DEF Spare
  <2> QED BY <2>2, <2>5
<1> HIDE DEF W, Filled
<1>7. Cardinality(Used) <= Cardinality(Filled)
  BY <1>5, <1>6, UsedBound
<1>8. /\ Cardinality(W) \in Nat /\ Cardinality(Spare) \in Nat /\ Cardinality(Filled) \in Nat
  BY <1>2, <1>4, <1>5, FS_CardinalityType
<1>9. Cardinality(Block) >= Cardinality(W)
  BY <1>2 DEF FullPool
<1>10. /\ FreeBlocks = Cardinality(Block) - Cardinality(Used)
       /\ Cardinality(Block) \in Nat /\ Cardinality(Used) \in Nat
  BY FreeIsUnused
<1> QED BY <1>4, <1>5, <1>7, <1>8, <1>9, <1>10

\* What can be placed in the empty places fits the pool.
LEMMA PlacedFits ==
  ASSUME KVInv, BlocksInContext, FullPool, NEW D, NEW f \in Injection(D, Spare)
  PROVE  IsFiniteSet(D) /\ Cardinality(D) <= FreeBlocks /\ Cardinality(D) \in Nat
<1>1. IsFiniteSet(Spare) /\ Cardinality(Spare) <= FreeBlocks
  BY RoomLeft
<1>2. IsFiniteSet(D) /\ Cardinality(D) <= Cardinality(Spare)
  BY <1>1, FS_Injection
<1>3. Cardinality(D) \in Nat /\ Cardinality(Spare) \in Nat /\ FreeBlocks \in Nat
  BY <1>1, <1>2, FS_CardinalityType, FreeIsUnused
<1> QED BY <1>1, <1>2, <1>3

\* One slot can always grow to a full sequence.
LEMMA SlotHasRoom ==
  ASSUME KVInv, BlocksInContext, FullPool, NEW s \in Slot, NEW n \in Nat, n <= MaxSeq
  PROVE  BlocksShort(s, n) \in Nat /\ BlocksShort(s, n) <= FreeBlocks
<1>1. PICK k \in Nat : k = BlocksShort(s, n)
  BY ShortFacts
<1>2. PICK l \in Nat : l = Len(slotBlocks[s])
  BY SlotTypes DEF KVInv, Books
<1>3. k > 0 => l + k <= MaxBlocks
  <2>1. k > 0 => k = BlocksFor(n) - l
    BY <1>1, <1>2, ShortFacts
  <2>2. BlocksFor(n) \in Nat /\ BlocksFor(n) <= MaxBlocks /\ MaxBlocks \in Nat
    BY MaxBlocksNat
  <2> QED BY <1>1, <1>2, <2>1, <2>2
<1> DEFINE f == [i \in 1..k |-> <<s, l + i>>]
<1>4. f \in Injection(1..k, Spare)
  <2>1. \A i \in 1..k : l + i \in 1..MaxBlocks /\ l + i > l
    BY <1>1, <1>2, <1>3, MaxBlocksNat
  <2>2. \A i \in 1..k : f[i] \in Spare
    BY <1>2, <2>1 DEF Spare
  <2>3. \A i, j \in 1..k : f[i] = f[j] => i = j
    <3>1. \A i, j \in 1..k : l + i = l + j => i = j
      BY <1>1, <1>2
    <3> QED BY <3>1
  <2> QED BY <2>2, <2>3 DEF Injection, IsInjective
<1> HIDE DEF f
<1>5. Cardinality(1..k) <= FreeBlocks
  BY <1>4, PlacedFits
<1>6. Cardinality(1..k) = k
  BY <1>1, CountTo
<1> QED BY <1>1, <1>5, <1>6

\* A slot that is short of blocks finds one.
LEMMA SlotFindsBlock ==
  ASSUME KVInv, BlocksInContext, FullPool, NEW s \in Slot, NEW n \in Nat, n <= MaxSeq,
         BlocksShort(s, n) > 0
  PROVE  ~PoolExhausted
<1>1. BlocksShort(s, n) \in Nat /\ BlocksShort(s, n) <= FreeBlocks
  BY SlotHasRoom
<1>2. PoolExhausted => FreeBlocks = 0
  BY FreeIsUnused
<1> QED BY <1>1, <1>2

\* The whole batch can always grow by what its next rows need.
LEMMA BatchHasRoom ==
  ASSUME BatcherInv, FitsContext, BlocksInContext, FullPool, phase \in {"room", "roomPld"}
  PROVE  ~(FreeBlocks < Needed)
<1> DEFINE U == UNION {{r} \X (1..BlocksShort(slotOf[r], Len(tokens[r]))) : r \in ToSet(active)}
           f == [w \in U |-> <<slotOf[w[1]], Len(slotBlocks[slotOf[w[1]]]) + w[2]>>]
<1>1. ASSUME NEW w \in U
      PROVE  /\ w = <<w[1], w[2]>> /\ w[1] \in Decoding /\ w[2] \in Nat
             /\ slotOf[w[1]] \in Slot /\ Len(slotBlocks[slotOf[w[1]]]) \in Nat
             /\ f[w] \in Spare
  <2>1. PICK r \in ToSet(active) : w \in {r} \X (1..BlocksShort(slotOf[r], Len(tokens[r])))
    OBVIOUS
  <2>2. r \in Decoding
    BY DEF Decoding
  <2>3. slotOf[r] \in Slot /\ Len(tokens[r]) \in Nat /\ Len(tokens[r]) <= MaxSeq
    BY <2>2, DecodingInContext
  <2>4. PICK s \in Slot : s = slotOf[r]
    BY <2>3
  <2>5. PICK n \in Nat : n = Len(tokens[r]) /\ n <= MaxSeq
    BY <2>3
  <2>6. PICK i \in 1..BlocksShort(s, n) : w = <<r, i>>
    BY <2>1, <2>4, <2>5
  <2>7. PICK l \in Nat : l = Len(slotBlocks[s])
    BY SlotTypes DEF BatcherInv, KVInv, Books
  <2>8. i \in Nat /\ l + i \in 1..MaxBlocks /\ l + i > l
    <3>1. PICK k \in Nat : k = BlocksShort(s, n)
      BY ShortFacts DEF BatcherInv
    <3>2. k > 0 => k = BlocksFor(n) - l
      BY <2>7, <3>1, ShortFacts DEF BatcherInv
    <3>3. BlocksFor(n) \in Nat /\ BlocksFor(n) <= MaxBlocks /\ MaxBlocks \in Nat
      BY <2>5, MaxBlocksNat
    <3>4. i \in 1..k
      BY <3>1
    <3> QED BY <3>2, <3>3, <3>4
  <2>9. f[w] = <<s, l + i>>
    BY <2>4, <2>6, <2>7
  <2>10. <<s, l + i>> \in Spare
    BY <2>7, <2>8 DEF Spare
  <2> QED BY <2>2, <2>4, <2>6, <2>7, <2>8, <2>9, <2>10
<1>2. f \in [U -> Spare]
  BY <1>1
<1>3. ASSUME NEW v \in U, NEW w \in U, f[v] = f[w] PROVE v = w
  <2>1. f[v] = <<slotOf[v[1]], Len(slotBlocks[slotOf[v[1]]]) + v[2]>>
        /\ f[w] = <<slotOf[w[1]], Len(slotBlocks[slotOf[w[1]]]) + w[2]>>
    OBVIOUS
  <2>2. \A a, b, c, d : <<a, b>> = <<c, d>> => a = c /\ b = d
    OBVIOUS
  <2> HIDE DEF U, f
  <2>3. <<slotOf[v[1]], Len(slotBlocks[slotOf[v[1]]]) + v[2]>>
          = <<slotOf[w[1]], Len(slotBlocks[slotOf[w[1]]]) + w[2]>>
    BY <1>3, <2>1, Zenon
  <2>4. /\ slotOf[v[1]] = slotOf[w[1]]
        /\ Len(slotBlocks[slotOf[v[1]]]) + v[2] = Len(slotBlocks[slotOf[w[1]]]) + w[2]
    BY <2>2, <2>3, Zenon
  <2>5. v[1] = w[1]
    BY <1>1, <2>4 DEF BatcherInv, SchedulerInv, SlotsOK, SlotHolders
  <2>6. v[2] = w[2]
    <3>1. PICK l \in Nat : l = Len(slotBlocks[slotOf[v[1]]])
      BY <1>1
    <3>2. l + v[2] = l + w[2]
      BY <2>4, <2>5, <3>1
    <3>3. v[2] \in Nat /\ w[2] \in Nat
      BY <1>1
    <3> QED BY <3>2, <3>3
  <2> QED BY <1>1, <2>5, <2>6
<1> HIDE DEF U, f
<1>4. f \in Injection(U, Spare)
  BY <1>2, <1>3 DEF Injection, IsInjective
<1>5. Cardinality(U) <= FreeBlocks /\ Cardinality(U) \in Nat /\ FreeBlocks \in Nat
  BY <1>4, PlacedFits, FreeIsUnused DEF BatcherInv
<1>6. Needed = Cardinality(U)
  BY DEF Needed, U
<1> QED BY <1>5, <1>6

\* So has the front of the prefill queue.
LEMMA FrontHasRoom ==
  ASSUME BatcherInv, BlocksInContext, FullPool, prefilling # <<>>
  PROVE  ~(FrontShort > FreeBlocks)
<1> DEFINE r == Head(prefilling)
<1>1. r \in Prefills
  BY QueueMembers DEF BatcherInv, SchedulerInv, SchedulerTypeOK, Prefills
<1>2. FrontShort = BlocksShort(slotOf[r], ChunkEnd(r))
  BY DEF FrontShort
<1> HIDE DEF r
<1>3. PICK s \in Slot : s = slotOf[r]
  BY <1>1 DEF BatcherInv, SchedulerInv, SlotsOK, SlotHolders
<1>4. PICK n \in Nat : n = ChunkEnd(r) /\ n <= MaxSeq
  BY <1>1, ChunkInContext
<1>5. BlocksShort(s, n) \in Nat /\ BlocksShort(s, n) <= FreeBlocks /\ FreeBlocks \in Nat
  BY <1>4, SlotHasRoom, FreeIsUnused DEF BatcherInv
<1> QED BY <1>2, <1>3, <1>4, <1>5

\* A request is evicted only where the pool is found short.
LEMMA WhoPreempts ==
  ASSUME preempted = <<>>, [BatcherNext]_vars
  PROVE  preempted' = <<>> \/ MakeRoom \/ EvictActive \/ EvictPrefill
<1>1. CASE StepBegin \/ LayRows \/ Page \/ Decode \/ Retire \/ SkipPrefill \/ PrefillPage
           \/ PrefillChunk \/ RegisterPrefix \/ Join \/ LoadPage \/ Load \/ StepEnd
           \/ UNCHANGED vars
  <2>1. preempted' = preempted
    <3>1. CASE StepBegin \/ LayRows \/ Page \/ Decode \/ Retire \/ SkipPrefill \/ PrefillPage
      BY <3>1 DEF StepBegin, LayRows, Page, Decode, Retire, SkipPrefill, PrefillPage,
                  queueVars, seqVars
    <3>2. CASE PrefillChunk \/ RegisterPrefix \/ Join \/ LoadPage \/ Load \/ StepEnd
      BY <3>2 DEF PrefillChunk, RegisterPrefix, Join, LoadPage, Load, StepEnd, queueVars
    <3>3. CASE UNCHANGED vars
      BY <3>3 DEF vars, seqVars, queueVars
    <3> QED BY <1>1, <3>1, <3>2, <3>3
  <2> QED BY <2>1
<1>2. ~Resume
  BY DEF Resume, CanResume
<1>3. ASSUME NEW r \in Req, Enqueue(r) \/ Admit(r) \/ Cancel(r) PROVE preempted' = <<>>
  <2>1. CASE Enqueue(r) \/ Admit(r)
    BY <2>1 DEF Enqueue, Admit
  <2>2. CASE Cancel(r)
    <3>1. preempted' = Without(preempted, r)
      BY <2>2 DEF Cancel, Dequeue
    <3>2. r \notin ToSet(preempted)
      BY DEF ToSet
    <3> QED BY <3>1, <3>2 DEF Without
  <2> QED BY <1>3, <2>1, <2>2
<1> QED BY <1>1, <1>2, <1>3 DEF BatcherNext, StepNext

RoomyInv == preempted = <<>> /\ phase # "poolAssert"

LEMMA RoomyStep ==
  ASSUME BatcherInv, FitsContext, BlocksInContext, FullPool, RoomyInv, [BatcherNext]_vars
  PROVE  RoomyInv'
<1>1. preempted' = <<>>
  <2>1. ~MakeRoom
    BY BatchHasRoom DEF MakeRoom
  <2>2. ~EvictActive /\ ~EvictPrefill
    BY FrontHasRoom DEF EvictActive, EvictPrefill
  <2> QED BY <2>1, <2>2, WhoPreempts DEF RoomyInv
<1>2. phase' # "poolAssert"
  <2> SUFFICES ASSUME phase' = "poolAssert" PROVE FALSE
    OBVIOUS
  <2>1. Page \/ LoadPage
    BY WhoAsserts DEF RoomyInv
  <2>2. CASE Page
    <3>1. Short # {} /\ PoolExhausted
      BY <2>2 DEF Page
    <3>2. PICK i \in 1..Len(active) : BlocksShort(slotOf[active[i]], Rows(active[i])) > 0
      BY <3>1 DEF Short
    <3>3. PICK r \in Decoding : r = active[i]
      BY <3>2, QueueMembers DEF BatcherInv, SchedulerInv, SchedulerTypeOK, Decoding
    <3>4. r \in DOMAIN slotOf /\ r \in Req
      BY DecodingFacts DEF BatcherInv
    <3>5. PICK s \in Slot : s = slotOf[r]
      BY <3>4 DEF BatcherInv, SchedulerInv, SlotsOK
    <3>6. PICK n \in Nat : n = Rows(r)
      BY <3>4, TextTypes DEF Rows, BatcherInv, SchedulerInv
    <3>7. n <= MaxSeq
      BY <2>2, <3>6 DEF Page, BatcherInv, SchedulerInv, PhaseOK
    <3>8. BlocksShort(s, n) > 0
      BY <3>2, <3>3, <3>5, <3>6
    <3> QED BY <3>1, <3>7, <3>8, SlotFindsBlock DEF BatcherInv
  <2>3. CASE LoadPage
    <3>1. PICK r \in loading : \/ Len(tokens[r]) > MaxSeq /\ phase' = "positionAssert"
                               \/ BlocksShort(slotOf[r], Len(tokens[r])) > 0 /\ PoolExhausted
      BY <2>3 DEF LoadPage, RoomyInv
    <3>2. slotOf[r] \in Slot /\ Len(tokens[r]) \in Nat /\ Len(tokens[r]) <= MaxSeq
      BY <2>3, LoadingInContext DEF LoadPage
    <3>3. PICK s \in Slot : s = slotOf[r]
      BY <3>2
    <3>4. PICK n \in Nat : n = Len(tokens[r]) /\ n <= MaxSeq
      BY <3>2
    <3>5. BlocksShort(s, n) > 0 /\ PoolExhausted
      BY <3>1, <3>3, <3>4
    <3> QED BY <3>4, <3>5, SlotFindsBlock DEF BatcherInv
  <2> QED BY <2>1, <2>2, <2>3
<1> QED BY <1>1, <1>2 DEF RoomyInv

LEMMA RoomyInvariant ==
  ASSUME FitsContext, FullPool
  PROVE  BatcherSpec => []RoomyInv
<1>1. BatcherInit => RoomyInv
  BY DEF BatcherInit, RoomyInv
<1>2. BatcherInv /\ PositionsInv /\ RoomyInv /\ [BatcherNext]_vars => RoomyInv'
  BY RoomyStep DEF PositionsInv
<1> QED BY <1>1, <1>2, BatcherInvariant, PositionsInvariant, PTL DEF BatcherSpec

LEMMA RoomyNeverStarves ==
  ASSUME BatcherInv, PositionsInv, FullPool, RoomyInv
  PROVE  FullPoolNeverStarves
<1>1. ASSUME NEW s \in freeSlots PROVE CanFit(MaxSeq)
  <2>1. s \in Slot /\ slotBlocks[s] = <<>>
    BY DEF BatcherInv, SchedulerInv, SlotsOK
  <2>2. MaxSeq \in Nat /\ MaxSeq <= MaxSeq
    BY PagedKVAssumption
  <2>3. BlocksShort(s, MaxSeq) \in Nat /\ BlocksShort(s, MaxSeq) <= FreeBlocks
    BY <2>1, <2>2, SlotHasRoom DEF BatcherInv, PositionsInv
  <2>4. PICK m \in Nat : m = BlocksFor(MaxSeq)
    BY <2>2, BlocksForBound
  <2>5. BlocksShort(s, MaxSeq) = m
    <3>1. Len(slotBlocks[s]) = 0
      BY <2>1
    <3> QED BY <2>4, <3>1 DEF BlocksShort
  <2>6. FreeBlocks \in Nat
    BY FreeIsUnused DEF BatcherInv
  <2> QED BY <2>3, <2>4, <2>5, <2>6 DEF CanFit
<1> QED BY <1>1 DEF FullPoolNeverStarves, RoomyInv

\* With MaxBlocks blocks per slot (BatchedDecoder::new) admission never starves: no
\* request is ever preempted, and a free slot means that a full sequence fits, even
\* with the pool full of cached blocks and every other slot grown to the context.
THEOREM FullPoolSuffices ==
  ASSUME FitsContext
  PROVE  BatcherSpec => []FullPoolNeverStarves
<1>1. CASE FullPool
  <2>1. BatcherInv /\ PositionsInv /\ RoomyInv => FullPoolNeverStarves
    BY <1>1, RoomyNeverStarves
  <2> QED BY <1>1, <2>1, BatcherInvariant, PositionsInvariant, RoomyInvariant, PTL
<1>2. CASE ~FullPool
  <2>1. FullPoolNeverStarves
    BY <1>2 DEF FullPoolNeverStarves, FullPool
  <2> QED BY <2>1, PTL
<1> QED BY <1>1, <1>2

\* prepare_paging's assertion that the pool is not exhausted holds with a full pool,
\* with or without prompt lookup; with less it may fail, as a run shows.
THEOREM PoolAssertionHolds ==
  ASSUME FitsContext, FullPool
  PROVE  BatcherSpec => []PoolSuffices
<1>1. RoomyInv => PoolSuffices
  BY DEF RoomyInv, PoolSuffices
<1> QED BY <1>1, RoomyInvariant, PTL

\* Without prompt lookup, with texts that fit the context and MaxBlocks blocks per
\* slot, no assertion of the decoder ever fails: the serving thread never unwinds.
\* Each hypothesis is needed: a run that lacks it shows the assertion that fails.
THEOREM NoAssertionEverFails ==
  ASSUME FitsContext, FullPool, Pld = FALSE
  PROVE  BatcherSpec => []NoAssertionFails
<1>1. PositionsFitContext /\ RowsFitBatch /\ PoolSuffices => NoAssertionFails
  BY DEF PositionsFitContext, RowsFitBatch, PoolSuffices, NoAssertionFails, Failed
<1> QED BY <1>1, PositionsFit, RowsFit, PoolAssertionHolds, PTL

=============================================================================
