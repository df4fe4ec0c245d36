---------------------------- MODULE BatcherProofs ----------------------------
(***************************************************************************)
(* Proofs about the continuous-batching scheduler, for every number of     *)
(* requests, slots and blocks, every prompt, sampler and chunk size, with  *)
(* and without prompt lookup and swap-to-host.                             *)
(*                                                                         *)
(* The inductive invariant BatcherInv says where every request is          *)
(* (QueuesApart), who has which slot (SlotsOK), what is known of a request *)
(* in each place (RequestOK), and what the phases inside step() add while  *)
(* they last (PhaseOK).  The pool keeps its own invariant KVInv below it:  *)
(* each call the scheduler makes meets the precondition of the pool's      *)
(* lemma about that call.                                                  *)
(***************************************************************************)
EXTENDS ContinuousBatcher, PagedKVProofs

-----------------------------------------------------------------------------
(* The inductive invariant *)

Decoding == ToSet(active)
Prefills == ToSet(prefilling)
Evicted  == ToSet(preempted)

Phases == {"idle", "room", "roomPld", "page", "decode", "retire", "prefill",
           "register", "join", "resched", "load"} \cup Failed

\* Types of the scheduler's state (ContinuousBatcher and CbSeq, batch.rs).
SchedulerTypeOK ==
  /\ phase \in Phases /\ after \in {"idle", "resched"}
  /\ active \in Seq(Req) /\ prefilling \in Seq(Req) /\ preempted \in Seq(Req)
  /\ loading \subseteq Req
  /\ tokens \in [Req -> Seq(Token)] /\ emitted \in [Req -> Seq(Token)]
  /\ draft \in [Req -> Seq(Token)]
  /\ prefillPos \in [Req -> Nat] /\ cachedBlocks \in [Req -> Nat]
  /\ hostKv \in [Req -> Seq(Seq(Token))]
  /\ finished \in [Req -> Nat]
  /\ status \in [Req -> {"new", "in", "done", "cancelled"}]

\* A request is in one queue at most, and once.
QueuesApart ==
  /\ NoRepeat(active) /\ NoRepeat(prefilling) /\ NoRepeat(preempted)
  /\ Decoding \cap Prefills = {} /\ Decoding \cap Evicted = {}
  /\ Prefills \cap Evicted = {}
  /\ loading \cap (Decoding \cup Prefills \cup Evicted) = {}

\* A slot is free, and then owns no block, or belongs to one request.
SlotsOK ==
  /\ DOMAIN slotOf \subseteq Req /\ slotOf \in [DOMAIN slotOf -> Slot]
  /\ \A q, r \in DOMAIN slotOf : slotOf[q] = slotOf[r] => q = r
  /\ freeSlots = Slot \ {slotOf[r] : r \in DOMAIN slotOf}
  /\ \A s \in freeSlots : slotBlocks[s] = <<>>

SlotHolders == DOMAIN slotOf = Decoding \cup Prefills \cup loading

\* The n-th token of r ends it.
EndsAt(r, n) == emitted[r][n] = Eos \/ n >= MaxTokens[r]

\* The KV that swap_out saves of a text: that of all its tokens but the last.
Saved(text) == [p \in 1..(Len(text) - 1) |-> SubSeq(text, 1, p)]

TextOK(r) ==
  /\ tokens[r] = Prompt[r] \o emitted[r]
  /\ finished[r] = IF status[r] = "done" THEN 1 ELSE 0
  /\ \A n \in 1..Len(emitted[r]) :
       EndsAt(r, n) <=> n = Len(emitted[r]) /\ status[r] = "done"

DecodingOK(r) ==
  /\ emitted[r] # <<>> /\ hostKv[r] = <<>> /\ status[r] \in {"in", "done"}
  /\ held[slotOf[r]] = Front(tokens[r])

PrefillsOK(r) ==
  /\ emitted[r] = <<>> /\ hostKv[r] = <<>> /\ status[r] = "in"
  /\ prefillPos[r] < Len(Prompt[r]) /\ Len(Prompt[r]) <= MaxSeq
  /\ held[slotOf[r]] = SubSeq(Prompt[r], 1, prefillPos[r])

\* A request that waits for its slot, or that just got one.
RestoredOK(r) == hostKv[r] \in {<<>>, Saved(tokens[r])} /\ status[r] = "in"

OutsideOK(r) ==
  /\ hostKv[r] = <<>> /\ status[r] # "in"
  /\ status[r] = "new" => emitted[r] = <<>>

RequestOK(r) ==
  /\ TextOK(r)
  /\ r \in Decoding => DecodingOK(r)
  /\ r \in Prefills => PrefillsOK(r)
  /\ r \in Evicted \cup loading => RestoredOK(r)
  /\ r \notin InFlight => OutsideOK(r)

\* What a restore or a prefill has to start from.
LoadableOK(r) ==
  IF hostKv[r] = <<>>
  THEN /\ Len(held[slotOf[r]]) < Len(tokens[r])
       /\ held[slotOf[r]] = SubSeq(tokens[r], 1, Len(held[slotOf[r]]))
  ELSE held[slotOf[r]] = <<>>

\* What holds inside step() only: who is being loaded, and what the checks made so
\* far have established about the rows.
PhaseOK ==
  /\ phase # "retire" => \A r \in Decoding : status[r] = "in"
  /\ phase \in {"load", "register", "join"} => \E r \in Req : loading = {r}
  /\ phase \notin {"load", "register", "join"} \cup Failed => loading = {}
  /\ phase = "load" => \A r \in loading : LoadableOK(r)
  /\ phase = "register" => \A r \in loading : hostKv[r] = <<>>
  /\ phase \in {"register", "join"} => \A r \in loading : held[slotOf[r]] = tokens[r]
  /\ phase \in {"page", "decode"} => \A r \in Decoding : Rows(r) <= MaxSeq
  /\ phase = "decode" => \A r \in Decoding : BlocksShort(slotOf[r], Rows(r)) = 0

SchedulerInv ==
  /\ SchedulerTypeOK /\ QueuesApart /\ SlotsOK /\ SlotHolders
  /\ \A r \in Req : RequestOK(r)
  /\ PhaseOK

BatcherInv == KVInv /\ SchedulerInv

-----------------------------------------------------------------------------
(* Queues *)

\* A queue without its i-th entry (VecDeque::remove, retain).
LEMMA RemoveAtQueue ==
  ASSUME NEW q \in Seq(Req), NoRepeat(q), NEW i \in 1..Len(q)
  PROVE  /\ RemoveAt(q, i) \in Seq(Req) /\ NoRepeat(RemoveAt(q, i))
         /\ ToSet(RemoveAt(q, i)) = ToSet(q) \ {q[i]}
<1> DEFINE p == RemoveAt(q, i)
<1>1. /\ p \in Seq(Req) /\ Len(p) = Len(q) - 1
      /\ \A j \in 1..Len(p) : p[j] = IF j < i THEN q[j] ELSE q[j + 1]
  <2> DEFINE a == SubSeq(q, 1, i - 1)
             d == SubSeq(q, i + 1, Len(q))
  <2>1. /\ a \in Seq(Req) /\ Len(a) = i - 1
        /\ \A j \in 1..(i - 1) : a[j] = q[j]
    <3>1. \A j \in 1..(i - 1) : q[j] \in Req
      OBVIOUS
    <3> QED BY <3>1, SubSeqProperties
  <2>2. /\ d \in Seq(Req) /\ Len(d) = Len(q) - i
        /\ \A j \in 1..(Len(q) - i) : d[j] = q[i + j]
    <3>1. \A j \in (i + 1)..Len(q) : q[j] \in Req
      OBVIOUS
    <3> QED BY <3>1, SubSeqProperties
  <2>3. p = a \o d
    BY DEF RemoveAt
  <2> HIDE DEF a, d, p
  <2>4. /\ p \in Seq(Req) /\ Len(p) = Len(a) + Len(d)
        /\ \A j \in 1..(Len(a) + Len(d)) :
             p[j] = IF j <= Len(a) THEN a[j] ELSE d[j - Len(a)]
    BY <2>1, <2>2, <2>3, ConcatProperties
  <2>5. i \in Nat \ {0} /\ Len(q) \in Nat /\ i <= Len(q)
    OBVIOUS
  <2>6. Len(p) = Len(q) - 1
    BY <2>1, <2>2, <2>4, <2>5
  <2>7. ASSUME NEW j \in 1..Len(p), j < i PROVE p[j] = q[j]
    <3>1. j \in 1..(i - 1) /\ j \in 1..(Len(a) + Len(d)) /\ j <= Len(a)
      BY <2>1, <2>2, <2>5, <2>6, <2>7
    <3> QED BY <2>1, <2>4, <3>1
  <2>8. ASSUME NEW j \in 1..Len(p), ~(j < i) PROVE p[j] = q[j + 1]
    <3>1. /\ j - (i - 1) \in 1..(Len(q) - i) /\ j \in 1..(Len(a) + Len(d)) /\ ~(j <= Len(a))
          /\ i + (j - (i - 1)) = j + 1
      BY <2>1, <2>2, <2>5, <2>6, <2>8
    <3>2. p[j] = d[j - (i - 1)]
      BY <2>1, <2>4, <3>1
    <3>3. d[j - (i - 1)] = q[i + (j - (i - 1))]
      BY <2>2, <3>1
    <3> QED BY <3>1, <3>2, <3>3
  <2> QED BY <2>4, <2>6, <2>7, <2>8
<1>2. NoRepeat(p)
  BY <1>1 DEF NoRepeat
<1>3. \A x : x \in ToSet(p) => x \in ToSet(q) \ {q[i]}
  <2> SUFFICES ASSUME NEW j \in 1..Len(p) PROVE p[j] \in ToSet(q) \ {q[i]}
    BY <1>1 DEF ToSet
  <2>1. PICK k \in 1..Len(q) : k # i /\ p[j] = q[k]
    BY <1>1
  <2> QED BY <2>1 DEF ToSet, NoRepeat
<1>4. \A x \in ToSet(q) \ {q[i]} : x \in ToSet(p)
  <2> SUFFICES ASSUME NEW k \in 1..Len(q), q[k] # q[i] PROVE q[k] \in ToSet(p)
    BY DEF ToSet
  <2>1. PICK j \in 1..Len(p) : p[j] = q[k]
    <3>1. CASE k < i
      BY <1>1, <3>1
    <3>2. CASE k > i
      <4>1. k - 1 \in 1..Len(p) /\ p[k - 1] = q[k]
        BY <1>1, <3>2
      <4> QED BY <4>1
    <3> QED BY <3>1, <3>2
  <2> QED BY <1>1, <2>1 DEF ToSet
<1> QED BY <1>1, <1>2, <1>3, <1>4

\* push_back of a request that is not in the queue yet.
LEMMA AppendQueue ==
  ASSUME NEW q \in Seq(Req), NoRepeat(q), NEW r \in Req, r \notin ToSet(q)
  PROVE  /\ Append(q, r) \in Seq(Req) /\ NoRepeat(Append(q, r))
         /\ ToSet(Append(q, r)) = ToSet(q) \cup {r}
<1> DEFINE p == Append(q, r)
<1>1. /\ p \in Seq(Req) /\ Len(p) = Len(q) + 1 /\ p[Len(p)] = r
      /\ \A j \in 1..Len(q) : p[j] = q[j]
  OBVIOUS
<1>2. \A j \in 1..Len(q) : p[j] # r
  BY <1>1 DEF ToSet
<1>3. NoRepeat(p)
  BY <1>1, <1>2 DEF NoRepeat
<1>4. ToSet(p) = ToSet(q) \cup {r}
  <2>1. \A x \in ToSet(p) : x \in ToSet(q) \cup {r}
    BY <1>1 DEF ToSet
  <2>2. \A x \in ToSet(q) : x \in ToSet(p)
    BY <1>1 DEF ToSet
  <2>3. r \in ToSet(p)
    BY <1>1 DEF ToSet
  <2> QED BY <2>1, <2>2, <2>3
<1> QED BY <1>1, <1>3, <1>4

\* The two ends of a queue (pop_front, pop).
LEMMA EndsOfQueue ==
  ASSUME NEW q \in Seq(Req), NoRepeat(q), q # <<>>
  PROVE  /\ Head(q) \in ToSet(q) /\ Tail(q) \in Seq(Req) /\ NoRepeat(Tail(q))
         /\ ToSet(Tail(q)) = ToSet(q) \ {Head(q)}
         /\ Last(q) \in ToSet(q) /\ Front(q) \in Seq(Req) /\ NoRepeat(Front(q))
         /\ ToSet(Front(q)) = ToSet(q) \ {Last(q)}
<1>1. Len(q) \in Nat \ {0}
  OBVIOUS
<1>2. RemoveAt(q, 1) = Tail(q) /\ q[1] = Head(q)
  <2>1. SubSeq(q, 1, 0) = <<>>
    BY SubSeqEmpty
  <2>2. SubSeq(q, 2, Len(q)) = Tail(q) /\ Tail(q) \in Seq(Req)
    BY TailIsSubSeq
  <2>3. RemoveAt(q, 1) = <<>> \o Tail(q)
    BY <2>1, <2>2 DEF RemoveAt
  <2> QED BY <2>2, <2>3, ConcatEmptySeq
<1>3. RemoveAt(q, Len(q)) = Front(q) /\ q[Len(q)] = Last(q)
  <2>1. SubSeq(q, Len(q) + 1, Len(q)) = <<>> /\ SubSeq(q, 1, Len(q) - 1) \in Seq(Req)
    BY <1>1, SubSeqProperties
  <2> QED BY <2>1, ConcatEmptySeq DEF RemoveAt, Front, Last
<1>4. q[1] \in ToSet(q) /\ q[Len(q)] \in ToSet(q)
  BY <1>1 DEF ToSet
<1>5. /\ Tail(q) \in Seq(Req) /\ NoRepeat(Tail(q))
      /\ ToSet(Tail(q)) = ToSet(q) \ {Head(q)}
  <2>1. 1 \in 1..Len(q)
    BY <1>1
  <2> QED BY <2>1, <1>2, RemoveAtQueue
<1>6. /\ Front(q) \in Seq(Req) /\ NoRepeat(Front(q))
      /\ ToSet(Front(q)) = ToSet(q) \ {Last(q)}
  <2>1. Len(q) \in 1..Len(q)
    BY <1>1
  <2> QED BY <2>1, <1>3, RemoveAtQueue
<1> QED BY <1>2, <1>3, <1>4, <1>5, <1>6

\* cancel's position() and remove().
LEMMA WithoutQueue ==
  ASSUME NEW q \in Seq(Req), NoRepeat(q), NEW r \in Req
  PROVE  /\ Without(q, r) \in Seq(Req) /\ NoRepeat(Without(q, r))
         /\ ToSet(Without(q, r)) = ToSet(q) \ {r}
<1>1. CASE r \in ToSet(q)
  <2> DEFINE i == CHOOSE i \in DOMAIN q : q[i] = r
  <2>1. i \in 1..Len(q) /\ q[i] = r
    BY <1>1 DEF ToSet
  <2> HIDE DEF i
  <2>2. Without(q, r) = RemoveAt(q, i)
    BY <1>1 DEF Without, i
  <2> QED BY <2>1, <2>2, RemoveAtQueue
<1>2. CASE r \notin ToSet(q)
  BY <1>2 DEF Without
<1> QED BY <1>1, <1>2

\* The members of a queue are requests; an empty queue has none.
LEMMA QueueMembers ==
  ASSUME NEW q \in Seq(Req)
  PROVE  /\ ToSet(q) \subseteq Req /\ IsFiniteSet(ToSet(q))
         /\ q = <<>> <=> ToSet(q) = {}
         /\ \A i \in 1..Len(q) : q[i] \in ToSet(q)
         /\ \A r \in ToSet(q) : \E i \in 1..Len(q) : q[i] = r
<1>1. /\ ToSet(q) \subseteq Req
      /\ \A i \in 1..Len(q) : q[i] \in ToSet(q)
      /\ \A r \in ToSet(q) : \E i \in 1..Len(q) : q[i] = r
  BY DEF ToSet
<1>3. q = <<>> <=> ToSet(q) = {}
  <2>1. q # <<>> => q[1] \in ToSet(q)
    BY <1>1
  <2>2. q = <<>> => ToSet(q) = {}
    BY <1>1
  <2> QED BY <2>1, <2>2
<1>2. IsFiniteSet(ToSet(q))
  <2>1. IsFiniteSet(1..Len(q))
    BY FS_Interval
  <2>2. q \in Surjection(1..Len(q), ToSet(q))
    BY DEF Surjection, ToSet
  <2> QED BY <2>1, <2>2, FS_Surjection, Zenon
<1> QED BY <1>1, <1>2, <1>3

-----------------------------------------------------------------------------
(* Calls of the scheduler on the pool *)

\* free_slot, and the slot back on the free list.
LEMMA VacateCall ==
  ASSUME KVInv, SlotsOK, NEW r \in DOMAIN slotOf, Vacate(r)
  PROVE  /\ KVInv' /\ SlotsOK'
         /\ DOMAIN slotOf' = DOMAIN slotOf \ {r}
         /\ \A x \in DOMAIN slotOf \ {r} :
              slotOf'[x] = slotOf[x] /\ held'[slotOf[x]] = held[slotOf[x]]
<1> DEFINE s == slotOf[r]
<1>1. s \in Slot /\ FreeSlot(s)
  BY DEF SlotsOK, Vacate
<1>2. KVInv'
  BY <1>1, FreeSlotBooks, FreeSlotContents DEF KVInv
<1>3. /\ freeSlots' = freeSlots \cup {s}
      /\ slotOf' = [x \in DOMAIN slotOf \ {r} |-> slotOf[x]]
  BY DEF Vacate
<1>4. /\ slotBlocks \in [Slot -> Seq(Block)] /\ held \in [Slot -> Seq(Token)]
      /\ slotBlocks' = [slotBlocks EXCEPT ![s] = <<>>]
      /\ held' = [held EXCEPT ![s] = <<>>]
  BY <1>1 DEF FreeSlot, KVInv, Books, KVTypeOK
<1> HIDE DEF s
<1>5. \A x \in DOMAIN slotOf \ {r} : slotOf[x] # s /\ slotOf[x] \in Slot
  BY DEF SlotsOK, s
<1>6. SlotsOK'
  <2>1. DOMAIN slotOf' \subseteq Req /\ slotOf' \in [DOMAIN slotOf' -> Slot]
    BY <1>3 DEF SlotsOK
  <2>2. \A q, x \in DOMAIN slotOf' : slotOf'[q] = slotOf'[x] => q = x
    BY <1>3 DEF SlotsOK
  <2>3. freeSlots' = Slot \ {slotOf'[x] : x \in DOMAIN slotOf'}
    <3>1. {slotOf'[x] : x \in DOMAIN slotOf'} = {slotOf[x] : x \in DOMAIN slotOf} \ {s}
      BY <1>3, <1>5 DEF s
    <3> QED BY <1>1, <1>3, <3>1 DEF SlotsOK
  <2>4. \A x \in freeSlots' : slotBlocks'[x] = <<>>
    BY <1>1, <1>3, <1>4 DEF SlotsOK
  <2> QED BY <2>1, <2>2, <2>3, <2>4 DEF SlotsOK
<1> QED BY <1>2, <1>3, <1>4, <1>5, <1>6

\* A free slot is given to a request, with or without a cached prefix.
LEMMA AssignCall ==
  ASSUME KVInv, SlotsOK, NEW r \in Req, r \notin DOMAIN slotOf,
         NEW s \in freeSlots, Assign(r, s),
         NEW text \in Seq(Token), text # <<>>,
         PrefixReuse(s, text) \/ UNCHANGED kvVars
  PROVE  /\ KVInv' /\ SlotsOK'
         /\ DOMAIN slotOf' = DOMAIN slotOf \cup {r} /\ slotOf'[r] = s
         /\ \A x \in DOMAIN slotOf :
              slotOf'[x] = slotOf[x] /\ held'[slotOf[x]] = held[slotOf[x]]
         /\ PrefixReuse(s, text) => held'[s] = CachedText(text)
         /\ UNCHANGED kvVars => held'[s] = <<>>
<1>1. s \in Slot /\ slotBlocks[s] = <<>> /\ \A x \in DOMAIN slotOf : slotOf[x] # s
  BY DEF SlotsOK
<1>2. /\ freeSlots' = freeSlots \ {s}
      /\ slotOf' = [x \in DOMAIN slotOf \cup {r} |-> IF x = r THEN s ELSE slotOf[x]]
  BY DEF Assign
<1>3. slotBlocks \in [Slot -> Seq(Block)] /\ held \in [Slot -> Seq(Token)] /\ held[s] = <<>>
  <2>1. slotBlocks \in [Slot -> Seq(Block)] /\ held \in [Slot -> Seq(Token)]
    BY DEF KVInv, Books, KVTypeOK
  <2>2. Len(held[s]) <= 0
    BY <1>1, BlockSizeNat DEF KVInv, Books, HeldFits
  <2> QED BY <1>1, <2>1, <2>2
<1>4. /\ KVInv'
      /\ \A x \in Slot : x # s => slotBlocks'[x] = slotBlocks[x] /\ held'[x] = held[x]
      /\ PrefixReuse(s, text) => held'[s] = CachedText(text)
      /\ UNCHANGED kvVars => held'[s] = <<>>
  <2>1. CASE PrefixReuse(s, text)
    <3>1. KVInv'
      BY <1>1, <2>1, PrefixReuseBooks, PrefixReuseContents DEF KVInv
    <3>2. /\ slotBlocks' = [slotBlocks EXCEPT ![s] = slotBlocks[s] \o Reused(text)]
          /\ held' = [held EXCEPT ![s] = CachedText(text)]
      BY <2>1 DEF PrefixReuse
    <3>3. UNCHANGED kvVars => held'[s] = <<>>
      BY <1>3 DEF kvVars
    <3> QED BY <1>1, <1>3, <3>1, <3>2, <3>3
  <2>2. CASE UNCHANGED kvVars
    <3>1. KVInv'
      BY <2>2, KVStep
    <3>2. slotBlocks' = slotBlocks /\ held' = held
      BY <2>2 DEF kvVars
    <3>3. PrefixReuse(s, text) => held'[s] = CachedText(text)
      BY <1>1, <1>3 DEF PrefixReuse
    <3> QED BY <1>3, <3>1, <3>2, <3>3
  <2> QED BY <2>1, <2>2
<1>5. SlotsOK'
  <2>1. DOMAIN slotOf' \subseteq Req /\ slotOf' \in [DOMAIN slotOf' -> Slot]
    BY <1>1, <1>2 DEF SlotsOK
  <2>2. \A q, x \in DOMAIN slotOf' : slotOf'[q] = slotOf'[x] => q = x
    BY <1>1, <1>2 DEF SlotsOK
  <2>3. freeSlots' = Slot \ {slotOf'[x] : x \in DOMAIN slotOf'}
    <3>1. {slotOf'[x] : x \in DOMAIN slotOf'} = {slotOf[x] : x \in DOMAIN slotOf} \cup {s}
      <4>1. \A x \in DOMAIN slotOf : slotOf'[x] = slotOf[x] /\ x \in DOMAIN slotOf'
        BY <1>2
      <4>2. slotOf'[r] = s /\ DOMAIN slotOf' = DOMAIN slotOf \cup {r}
        BY <1>2
      <4> QED BY <4>1, <4>2
    <3> QED BY <1>1, <1>2, <3>1 DEF SlotsOK
  <2>4. \A x \in freeSlots' : slotBlocks'[x] = <<>>
    BY <1>2, <1>4 DEF SlotsOK
  <2> QED BY <2>1, <2>2, <2>3, <2>4 DEF SlotsOK
<1>6. \A x \in DOMAIN slotOf : slotOf[x] \in Slot /\ x # r
  BY DEF SlotsOK
<1> QED BY <1>1, <1>2, <1>4, <1>5, <1>6

\* Slots stay accounted for when no slot changes hands and the free ones stay empty.
LEMMA SlotsKeep ==
  ASSUME SlotsOK, UNCHANGED slotVars, \A s \in freeSlots : slotBlocks'[s] = slotBlocks[s]
  PROVE  SlotsOK'
  BY DEF SlotsOK, slotVars

\* One iteration of ensure_blocks for the slot of a request.
LEMMA PageCall ==
  ASSUME KVInv, SlotsOK, NEW r \in DOMAIN slotOf, AllocInto(slotOf[r]), UNCHANGED slotVars
  PROVE  KVInv' /\ SlotsOK' /\ held' = held
<1>1. slotOf[r] \in Slot /\ slotOf[r] \notin freeSlots /\ freeSlots \subseteq Slot
  BY DEF SlotsOK
<1>2. KVInv'
  BY <1>1, AllocIntoBooks, AllocIntoContents DEF KVInv
<1>3. held' = held /\ \A s \in freeSlots : slotBlocks'[s] = slotBlocks[s]
  <2>1. slotBlocks \in [Slot -> Seq(Block)]
    BY DEF KVInv, Books, KVTypeOK
  <2> QED BY <1>1, <2>1 DEF AllocInto
<1> QED BY <1>2, <1>3, SlotsKeep

\* A text within the context has no more rows than the batch of positions allows.
LEMMA RowsInContext ==
  ASSUME NEW m \in Nat, NEW n \in Nat, m <= MaxSeq
  PROVE  m - n <= MaxSeq + BlockSize
<1>1. MaxSeq \in Nat /\ BlockSize \in Nat
  BY PagedKVAssumption
<1> QED BY <1>1

\* The rows of a text whose blocks the slot has extend what the slot was fed.
LEMMA TextExtends ==
  ASSUME Books, NEW s \in Slot,
         NEW text \in Seq(Token), Len(text) <= MaxSeq,
         Len(held[s]) <= Len(text), held[s] = SubSeq(text, 1, Len(held[s])),
         BlocksShort(s, Len(text)) = 0
  PROVE  Extends([x \in Slot |-> IF x = s THEN KVOf(text, Len(held[s])) ELSE <<>>],
                 [held EXCEPT ![s] = text], [held EXCEPT ![s] = text])
<1>2. /\ Len(held[s]) \in Nat /\ Len(slotBlocks[s]) \in Nat /\ Len(text) \in Nat
  BY SlotTypes DEF Books
<1>3. Len(text) <= Len(slotBlocks[s]) * BlockSize
  BY <1>2, BlocksForBound DEF BlocksShort
<1>4. Len(text) - Len(held[s]) <= MaxSeq + BlockSize
  BY <1>2, RowsInContext
<1>5. text = SubSeq(text, 1, Len(text))
  BY SubSeqFull
<1> QED BY <1>2, <1>3, <1>4, <1>5, OneSlotExtends

\* The forward pass over the rest of a text, in blocks the slot has.
LEMMA ForwardCall ==
  ASSUME KVInv, SlotsOK, NEW r \in DOMAIN slotOf, UNCHANGED slotVars,
         NEW text \in Seq(Token), Len(text) <= MaxSeq,
         Len(held[slotOf[r]]) <= Len(text),
         held[slotOf[r]] = SubSeq(text, 1, Len(held[slotOf[r]])),
         BlocksShort(slotOf[r], Len(text)) = 0,
         NEW entries, NEW kept,
         entries = [x \in Slot |-> IF x = slotOf[r] THEN KVOf(text, Len(held[slotOf[r]]))
                                   ELSE <<>>],
         kept = [held EXCEPT ![slotOf[r]] = text],
         WriteKV(entries, kept)
  PROVE  /\ KVInv' /\ SlotsOK'
         /\ held'[slotOf[r]] = text
         /\ \A x \in DOMAIN slotOf \ {r} : held'[slotOf[x]] = held[slotOf[x]]
<1> DEFINE s == slotOf[r]
<1>1. s \in Slot
  BY DEF SlotsOK
<1>2. Books /\ held \in [Slot -> Seq(Token)]
  BY DEF KVInv, Books, KVTypeOK
<1>3. Extends(entries, kept, kept)
  BY <1>1, <1>2, TextExtends
<1>4. KVInv'
  BY <1>3, WriteKVBooks, WriteKVContents DEF KVInv
<1>5. held' = kept /\ slotBlocks' = slotBlocks
  BY DEF WriteKV
<1>6. SlotsOK'
  BY <1>5, SlotsKeep
<1>7. \A x \in DOMAIN slotOf \ {r} : slotOf[x] \in Slot /\ slotOf[x] # slotOf[r]
  BY DEF SlotsOK
<1> QED BY <1>1, <1>2, <1>4, <1>5, <1>6, <1>7

\* prefill_register for the text a slot holds.
LEMMA PublishCallOf ==
  ASSUME KVInv, SlotsOK, NEW r \in DOMAIN slotOf, UNCHANGED slotVars,
         NEW text, held[slotOf[r]] = text, NEW n \in Nat, Register(slotOf[r], text, n)
  PROVE  KVInv' /\ SlotsOK' /\ held' = held
<1>1. slotOf[r] \in Slot
  BY DEF SlotsOK
<1>2. KVInv'
  BY <1>1, RegisterBooks, RegisterContents DEF KVInv
<1>3. held' = held /\ slotBlocks' = slotBlocks
  BY DEF Register
<1> QED BY <1>2, <1>3, SlotsKeep

-----------------------------------------------------------------------------
(* Texts *)

\* A prompt is never empty (enqueue_params refuses an empty one).
LEMMA PromptFacts ==
  ASSUME NEW r \in Req
  PROVE  /\ Prompt[r] \in Seq(Token) /\ Prompt[r] # <<>>
         /\ Len(Prompt[r]) \in Nat \ {0} /\ MaxTokens[r] \in Nat
  BY BatcherAssumption

\* The types of the texts, by themselves.
LEMMA TextTypes ==
  ASSUME SchedulerTypeOK
  PROVE  /\ Prompt \in [Req -> Seq(Token)] /\ MaxTokens \in [Req -> Nat]
         /\ tokens \in [Req -> Seq(Token)] /\ emitted \in [Req -> Seq(Token)]
         /\ draft \in [Req -> Seq(Token)]
  BY BatcherAssumption DEF SchedulerTypeOK

\* A text is its prompt and what was produced for it.
LEMMA TokensFacts ==
  ASSUME SchedulerTypeOK, NEW r \in Req, TextOK(r)
  PROVE  /\ tokens[r] \in Seq(Token) /\ tokens[r] # <<>>
         /\ emitted[r] \in Seq(Token) /\ Len(emitted[r]) \in Nat
         /\ Len(tokens[r]) \in Nat \ {0}
         /\ Len(tokens[r]) = Len(Prompt[r]) + Len(emitted[r])
         /\ emitted[r] = <<>> => tokens[r] = Prompt[r]
         /\ \A n \in 1..Len(emitted[r]) : tokens[r][Len(Prompt[r]) + n] = emitted[r][n]
<1>1. /\ tokens[r] \in Seq(Token) /\ emitted[r] \in Seq(Token)
      /\ Len(tokens[r]) \in Nat /\ Len(emitted[r]) \in Nat
  BY DEF SchedulerTypeOK
<1>2. tokens[r] = Prompt[r] \o emitted[r]
  BY DEF TextOK
<1>3. /\ Len(tokens[r]) = Len(Prompt[r]) + Len(emitted[r])
      /\ \A i \in 1..(Len(Prompt[r]) + Len(emitted[r])) :
           tokens[r][i] = IF i <= Len(Prompt[r]) THEN Prompt[r][i]
                          ELSE emitted[r][i - Len(Prompt[r])]
  BY <1>1, <1>2, PromptFacts, TextTypes, ConcatProperties
<1>4. \A m, k, n \in Nat : n \in 1..k =>
        m + n \in 1..(m + k) /\ ~(m + n <= m) /\ (m + n) - m = n
  OBVIOUS
<1>5. \A n \in 1..Len(emitted[r]) : tokens[r][Len(Prompt[r]) + n] = emitted[r][n]
  <2> SUFFICES ASSUME NEW n \in 1..Len(emitted[r])
      PROVE  tokens[r][Len(Prompt[r]) + n] = emitted[r][n]
    OBVIOUS
  <2>1. /\ Len(Prompt[r]) + n \in 1..(Len(Prompt[r]) + Len(emitted[r]))
        /\ ~(Len(Prompt[r]) + n <= Len(Prompt[r])) /\ (Len(Prompt[r]) + n) - Len(Prompt[r]) = n
    BY <1>1, <1>4, TextTypes, PromptFacts
  <2> QED BY <1>3, <2>1
<1>6. emitted[r] = <<>> => tokens[r] = Prompt[r]
  BY <1>2, PromptFacts, ConcatEmptySeq
<1>7. Len(tokens[r]) # 0
  <2>1. Len(tokens[r]) = Len(Prompt[r]) + Len(emitted[r])
    BY <1>3
  <2> QED BY <1>1, <2>1, TextTypes, PromptFacts
<1>8. tokens[r] # <<>>
  BY <1>7
<1> QED BY <1>1, <1>3, <1>5, <1>6, <1>7, <1>8

\* A pushed token goes to the end of the concatenation.
LEMMA ConcatAppend ==
  \A p, q \in Seq(Token) : \A x \in Token : Append(p \o q, x) = p \o Append(q, x)
<1> SUFFICES ASSUME NEW p \in Seq(Token), NEW q \in Seq(Token), NEW x \in Token
    PROVE  Append(p \o q, x) = p \o Append(q, x)
  OBVIOUS
<1>1. <<x>> \in Seq(Token)
  OBVIOUS
<1>2. Append(p \o q, x) = (p \o q) \o <<x>> /\ Append(q, x) = q \o <<x>>
  BY ConcatProperties, AppendIsConcat
<1> QED BY <1>1, <1>2, ConcatAssociative

\* seq_done looks at the last token and at the count, that is, at the end of what
\* was produced.
LEMMA DoneAtLast ==
  ASSUME SchedulerTypeOK, NEW r \in Req, TextOK(r), emitted[r] # <<>>
  PROVE  DoneWith(r, tokens[r]) <=> status[r] = "done"
<1>1. Len(emitted[r]) \in 1..Len(emitted[r])
  BY TokensFacts
<1>2. tokens[r][Len(tokens[r])] = emitted[r][Len(emitted[r])]
  BY <1>1, TokensFacts, PromptFacts, ZenonT(60)
<1>3. Len(tokens[r]) - Len(Prompt[r]) = Len(emitted[r])
  <2>1. /\ Len(tokens[r]) = Len(Prompt[r]) + Len(emitted[r])
        /\ Len(Prompt[r]) \in Nat /\ Len(emitted[r]) \in Nat
    BY TokensFacts, PromptFacts
  <2> QED BY <2>1, TextTypes
<1>4. DoneWith(r, tokens[r]) <=> EndsAt(r, Len(emitted[r]))
  BY <1>2, <1>3 DEF DoneWith, EndsAt
<1> QED BY <1>1, <1>4 DEF TextOK

\* One more token: the text stays well formed when the request is over exactly if
\* that token ends it.
LEMMA EmitOne ==
  ASSUME SchedulerTypeOK, NEW r \in Req, TextOK(r), status[r] = "in", NEW g \in Token,
         Emit(r, g),
         NEW over \in BOOLEAN, over <=> DoneWith(r, Append(tokens[r], g)),
         status'[r] = IF over THEN "done" ELSE "in",
         finished'[r] = IF over THEN finished[r] + 1 ELSE finished[r]
  PROVE  TextOK(r)' /\ emitted'[r] # <<>> /\ Front(tokens'[r]) = tokens[r]
<1> DEFINE k == Len(emitted[r])
<1>1. /\ tokens'[r] = Append(tokens[r], g) /\ emitted'[r] = Append(emitted[r], g)
      /\ tokens[r] \in Seq(Token) /\ emitted[r] \in Seq(Token) /\ k \in Nat
      /\ Len(tokens[r]) \in Nat /\ Len(Prompt[r]) \in Nat /\ MaxTokens[r] \in Nat
      /\ Len(tokens[r]) = Len(Prompt[r]) + k
  BY TokensFacts, PromptFacts DEF Emit, SchedulerTypeOK
<1> HIDE DEF k
<1>2. /\ Len(emitted'[r]) = k + 1 /\ emitted'[r][k + 1] = g
      /\ \A n \in 1..k : emitted'[r][n] = emitted[r][n]
  BY <1>1 DEF k
<1>3. DoneWith(r, Append(tokens[r], g)) <=> g = Eos \/ k + 1 >= MaxTokens[r]
  <2>1. /\ Append(tokens[r], g)[Len(Append(tokens[r], g))] = g
        /\ Len(Append(tokens[r], g)) = Len(tokens[r]) + 1
    BY <1>1, AppendProperties
  <2>2. (Len(tokens[r]) + 1) - Len(Prompt[r]) = k + 1
    BY <1>1, TextTypes
  <2> QED BY <2>1, <2>2 DEF DoneWith
<1>4. tokens'[r] = Prompt[r] \o emitted'[r]
  <2>1. tokens[r] = Prompt[r] \o emitted[r]
    BY DEF TextOK
  <2>2. Prompt[r] \in Seq(Token)
    BY PromptFacts
  <2>3. Append(Prompt[r] \o emitted[r], g) = Prompt[r] \o Append(emitted[r], g)
    BY <1>1, <2>2, ConcatAppend
  <2> QED BY <1>1, <2>1, <2>3
<1>5. \A n \in 1..k : ~(emitted[r][n] = Eos \/ n >= MaxTokens[r])
  BY DEF TextOK, EndsAt, k
<1>6. \A n \in 1..(k + 1) :
        (emitted'[r][n] = Eos \/ n >= MaxTokens[r]) <=> n = k + 1 /\ status'[r] = "done"
  <2> SUFFICES ASSUME NEW n \in 1..(k + 1)
      PROVE  (emitted'[r][n] = Eos \/ n >= MaxTokens[r]) <=> n = k + 1 /\ status'[r] = "done"
    OBVIOUS
  <2>1. CASE n \in 1..k
    <3>1. n # k + 1
      BY <1>1, <2>1
    <3> QED BY <1>2, <1>5, <2>1, <3>1
  <2>2. CASE n = k + 1
    BY <1>2, <1>3, <2>2
  <2>3. k \in Nat
    BY <1>1
  <2> QED BY <2>1, <2>2, <2>3
<1>7. finished'[r] = IF status'[r] = "done" THEN 1 ELSE 0
  BY DEF TextOK
<1>8. TextOK(r)'
  BY <1>2, <1>4, <1>6, <1>7 DEF TextOK, EndsAt
<1>9. emitted'[r] # <<>>
  BY <1>1, <1>2
<1>10. Front(tokens'[r]) = tokens[r]
  <2>1. Len(Append(tokens[r], g)) - 1 = Len(tokens[r])
    BY <1>1
  <2>2. SubSeq(Append(tokens[r], g), 1, Len(tokens[r])) = tokens[r]
    BY <1>1
  <2> QED BY <1>1, <2>1, <2>2 DEF Front
<1> QED BY <1>8, <1>9, <1>10

\* What swap_out copies to the host is the KV of the request's own text.
LEMMA SwappedIsSaved ==
  ASSUME KVInv, SchedulerTypeOK, SlotsOK, NEW r \in Req, r \in DOMAIN slotOf, TextOK(r),
         held[slotOf[r]] = Front(tokens[r])
  PROVE  SwappedOut(r) = Saved(tokens[r])
<1> DEFINE s == slotOf[r]
           m == Len(tokens[r]) - 1
<1>1. s \in Slot /\ tokens[r] \in Seq(Token) /\ m \in Nat /\ m <= Len(tokens[r])
  <2>1. tokens[r] \in Seq(Token) /\ Len(tokens[r]) \in Nat \ {0}
    BY TokensFacts
  <2> QED BY <2>1, TextTypes DEF SlotsOK
<1>2. held[s] = SubSeq(tokens[r], 1, m) /\ Len(held[s]) = m
  BY <1>1, PrefixFacts DEF Front
<1>3. \A p \in 1..m : kv[BlockAt(s, p)][OffsetAt(p)] = SubSeq(tokens[r], 1, p)
  <2> SUFFICES ASSUME NEW p \in 1..m PROVE kv[BlockAt(s, p)][OffsetAt(p)] = SubSeq(tokens[r], 1, p)
    OBVIOUS
  <2>1. kv[BlockAt(s, p)][OffsetAt(p)] = SubSeq(held[s], 1, p)
    BY <1>1, <1>2 DEF KVInv, Contents, AttendsOwnTokens
  <2>2. SubSeq(SubSeq(tokens[r], 1, m), 1, p) = SubSeq(tokens[r], 1, p)
    <3>1. m \in 0..Len(tokens[r]) /\ p \in 0..m
      BY <1>1
    <3> HIDE DEF m
    <3> QED BY <1>1, <3>1, PrefixOfPrefix
  <2> QED BY <1>2, <2>1, <2>2
<1> QED BY <1>3 DEF SwappedOut, Saved

\* What swap_out saves has one entry fewer than the text.
LEMMA SavedType ==
  ASSUME NEW text \in Seq(Token), text # <<>>
  PROVE  Saved(text) \in Seq(Seq(Token)) /\ Len(Saved(text)) = Len(text) - 1
<1>1. Len(text) - 1 \in Nat
  OBVIOUS
<1>2. \A p \in 1..(Len(text) - 1) : SubSeq(text, 1, p) \in Seq(Token)
  <2> SUFFICES ASSUME NEW p \in 1..(Len(text) - 1) PROVE SubSeq(text, 1, p) \in Seq(Token)
    OBVIOUS
  <2>1. p \in 0..Len(text)
    BY <1>1
  <2> QED BY <2>1, PrefixFacts
<1> QED BY <1>1, <1>2 DEF Saved

-----------------------------------------------------------------------------
(* What a step leaves alone *)

SameText(x) == /\ tokens'[x] = tokens[x] /\ emitted'[x] = emitted[x]
               /\ finished'[x] = finished[x] /\ status'[x] = status[x]

SameRequest(x) == /\ SameText(x)
                  /\ hostKv'[x] = hostKv[x] /\ prefillPos'[x] = prefillPos[x]

SamePlace(x) == /\ x \in Decoding' <=> x \in Decoding
                /\ x \in Prefills' <=> x \in Prefills
                /\ x \in Evicted' <=> x \in Evicted
                /\ x \in loading' <=> x \in loading

SameSlot(x) == x \in DOMAIN slotOf =>
                 slotOf'[x] = slotOf[x] /\ held'[slotOf[x]] = held[slotOf[x]]

\* The step concerns request r only.
OnlyConcerns(r) == \A x \in Req \ {r} : SameRequest(x) /\ SamePlace(x) /\ SameSlot(x)

\* A step that leaves the text of a request alone keeps TextOK of it.
LEMMA TextKept ==
  ASSUME NEW x \in Req, TextOK(x), SameText(x)
  PROVE  TextOK(x)'
  BY DEF TextOK, SameText, EndsAt

\* So it is with all that is known of a request whose place and slot stay.
LEMMA RequestKept ==
  ASSUME NEW x \in Req, RequestOK(x), SlotHolders, SameRequest(x), SamePlace(x), SameSlot(x)
  PROVE  RequestOK(x)'
<1>1. TextOK(x)'
  BY TextKept DEF RequestOK, SameRequest
<1>2. x \in Decoding' => DecodingOK(x)'
  BY DEF RequestOK, DecodingOK, SlotHolders, SameRequest, SameText, SamePlace, SameSlot
<1>3. x \in Prefills' => PrefillsOK(x)'
  BY DEF RequestOK, PrefillsOK, SlotHolders, SameRequest, SameText, SamePlace, SameSlot
<1>4. x \in (Evicted \cup loading)' => RestoredOK(x)'
  BY DEF RequestOK, RestoredOK, SameRequest, SameText, SamePlace, Saved
<1>5. x \notin InFlight' => OutsideOK(x)'
  BY DEF RequestOK, OutsideOK, SameRequest, SameText, SamePlace, InFlight,
         Decoding, Prefills, Evicted
<1> QED BY <1>1, <1>2, <1>3, <1>4, <1>5 DEF RequestOK

\* A step about one request has to be checked for that request only.
LEMMA RequestsKept ==
  ASSUME SchedulerInv, NEW r \in Req, OnlyConcerns(r), RequestOK(r)'
  PROVE  \A x \in Req : RequestOK(x)'
  BY RequestKept DEF SchedulerInv, OnlyConcerns

-----------------------------------------------------------------------------
(* Steps that move no request: the phases, the drafts, the paging calls *)

\* A nonempty set of positions has a first one (position, retain).
LEMMA SmallestExists ==
  ASSUME NEW m \in Nat, NEW T \in SUBSET (1..m), T # {}
  PROVE  \E x \in T : \A y \in T : x <= y
<1> DEFINE D == {d \in 0..m : (m - d) \in T}
<1>1. PICK x \in T : TRUE
  OBVIOUS
<1>2. (m - x) \in D
  <2>1. m - x \in 0..m /\ m - (m - x) = x
    OBVIOUS
  <2> QED BY <2>1
<1>3. PICK d \in D : \A e \in D : e <= d
  <2>1. D \in SUBSET (0..m) /\ D # {}
    BY <1>2
  <2> HIDE DEF D
  <2> QED BY <2>1, LargestExists
<1>4. \A y \in T : m - d <= y
  <2> SUFFICES ASSUME NEW y \in T PROVE m - d <= y
    OBVIOUS
  <2>1. m - y \in 0..m /\ m - (m - y) = y
    OBVIOUS
  <2>2. m - y <= d
    BY <1>3, <2>1
  <2> QED BY <1>3, <2>1, <2>2
<1> QED BY <1>3, <1>4

\* A step without a call on the pool keeps the pool's invariant.
LEMMA PoolKept ==
  ASSUME KVInv, UNCHANGED kvVars
  PROVE  KVInv' /\ held' = held /\ slotBlocks' = slotBlocks
<1>1. KVInv'
  BY KVStep
<1> QED BY <1>1 DEF kvVars

\* A step that moves no request and feeds no slot keeps everything but PhaseOK.
LEMMA NothingMoves ==
  ASSUME SchedulerInv, SlotsOK', held' = held,
         UNCHANGED <<after, queueVars, slotVars, textVars, prefillPos, hostKv>>,
         phase' \in Phases, draft' \in [Req -> Seq(Token)], cachedBlocks' \in [Req -> Nat]
  PROVE  /\ SchedulerTypeOK' /\ QueuesApart' /\ SlotHolders'
         /\ \A x \in Req : RequestOK(x)'
         /\ PhaseOK' => SchedulerInv'
<1>1. SchedulerTypeOK'
  BY DEF SchedulerInv, SchedulerTypeOK, queueVars, textVars
<1>2. QueuesApart' /\ SlotHolders'
  BY DEF SchedulerInv, QueuesApart, SlotHolders, queueVars, slotVars, Decoding, Prefills, Evicted
<1>3. ASSUME NEW x \in Req PROVE RequestOK(x)'
  <2>1. SameRequest(x) /\ SamePlace(x) /\ SameSlot(x)
    BY DEF SameRequest, SameText, SamePlace, SameSlot, queueVars, slotVars, textVars,
           Decoding, Prefills, Evicted
  <2> QED BY <2>1, RequestKept DEF SchedulerInv
<1> QED BY <1>1, <1>2, <1>3 DEF SchedulerInv

\* The step begins, or goes on, with nothing but the phase changed.
LEMMA PhaseOnly ==
  ASSUME BatcherInv, UNCHANGED <<after, kvVars, slotVars, queueVars, textVars, loadVars>>,
         phase' \in Phases, PhaseOK'
  PROVE  BatcherInv'
<1>1. KVInv' /\ held' = held /\ slotBlocks' = slotBlocks
  BY PoolKept DEF BatcherInv
<1>2. SlotsOK'
  BY <1>1, SlotsKeep DEF BatcherInv, SchedulerInv
<1>3. UNCHANGED <<prefillPos, hostKv, draft, cachedBlocks>>
  BY DEF loadVars
<1>4. draft' \in [Req -> Seq(Token)] /\ cachedBlocks' \in [Req -> Nat]
  BY <1>3 DEF BatcherInv, SchedulerInv, SchedulerTypeOK
<1> QED BY <1>1, <1>2, <1>3, <1>4, NothingMoves DEF BatcherInv

\* PhaseOK for a phase in which nothing is being loaded and no row is checked yet.
LEMMA CalmPhase ==
  ASSUME phase' \in {"idle", "room", "roomPld", "retire", "prefill", "resched"},
         loading' = {}, phase' # "retire" => \A r \in Decoding' : status'[r] = "in"
  PROVE  PhaseOK'
  BY DEF PhaseOK

\* step() begins with everything as the last call left it.
LEMMA StepBeginInv ==
  ASSUME BatcherInv, StepBegin
  PROVE  BatcherInv'
<1>1. phase' \in {"prefill", "room", "roomPld"}
  BY DEF StepBegin
<1>2. loading' = {} /\ \A r \in Decoding' : status'[r] = "in"
  BY DEF StepBegin, BatcherInv, SchedulerInv, PhaseOK, queueVars, textVars, Decoding, Failed
<1>3. PhaseOK'
  BY <1>1, <1>2, CalmPhase
<1> QED BY <1>1, <1>3, PhaseOnly DEF StepBegin, Phases

\* advance_prefill's early return changes nothing but the phase.
LEMMA SkipPrefillInv ==
  ASSUME BatcherInv, SkipPrefill
  PROVE  BatcherInv'
<1>1. loading' = {} /\ \A r \in Decoding' : status'[r] = "in"
  BY DEF SkipPrefill, BatcherInv, SchedulerInv, PhaseOK, queueVars, textVars, Decoding, Failed
<1>2. PhaseOK'
  BY <1>1, CalmPhase DEF SkipPrefill
<1> QED BY <1>2, PhaseOnly DEF SkipPrefill, Phases

\* reschedule ends when nothing more can resume.
LEMMA StepEndInv ==
  ASSUME BatcherInv, StepEnd
  PROVE  BatcherInv'
<1>1. loading' = {} /\ \A r \in Decoding' : status'[r] = "in"
  BY DEF StepEnd, BatcherInv, SchedulerInv, PhaseOK, queueVars, textVars, Decoding, Failed
<1>2. PhaseOK'
  BY <1>1, CalmPhase DEF StepEnd
<1> QED BY <1>2, PhaseOnly DEF StepEnd, Phases

\* A draft is a piece of the text it was looked up in.
LEMMA LookupType ==
  ASSUME NEW text \in Seq(Token), NEW n \in Nat, NEW k \in Int
  PROVE  LookupDraft(text, text, n, k) \in Seq(Token)
<1> DEFINE key == SubSeq(text, Len(text) - n + 1, Len(text))
           starts == {i \in 0..(Len(text) - n - 1) : SubSeq(text, i + 1, i + n) = key}
           start == CHOOSE i \in starts : \A j \in starts : j <= i
           from == start + n
           rest == Len(text) - from
           upto == from + (IF k < rest THEN k ELSE rest)
<1>0. Len(text) \in Nat
  OBVIOUS
<1>3. LookupDraft(text, text, n, k) =
        IF Len(text) < n \/ Len(text) < n + 1 \/ k = 0 THEN <<>>
        ELSE IF starts = {} THEN <<>> ELSE SubSeq(text, from + 1, upto)
  BY DEF LookupDraft
<1>1. CASE Len(text) < n \/ Len(text) < n + 1 \/ k = 0 \/ starts = {}
  <2> HIDE DEF starts, from, upto
  <2>1. LookupDraft(text, text, n, k) = <<>>
    BY <1>1, <1>3
  <2> QED BY <2>1
<1>2. CASE ~(Len(text) < n \/ Len(text) < n + 1 \/ k = 0 \/ starts = {})
  <2>1. start \in 0..(Len(text) - n - 1)
    <3> DEFINE m == Len(text) - n - 1
    <3>0. PICK l \in Nat : l = Len(text)
      BY <1>0
    <3>1. m \in Nat
      <4>1. ~(l < n + 1)
        BY <1>2, <3>0
      <4>2. m = l - n - 1
        BY <3>0
      <4> QED BY <4>1, <4>2
    <3>3. starts \in SUBSET (0..m) /\ starts # {}
      BY <1>2
    <3> HIDE DEF m, starts
    <3>2. \E x \in starts : \A y \in starts : y <= x
      BY <3>1, <3>3, LargestExists
    <3> QED BY <3>1, <3>2, <3>3 DEF m
  <2>2. LookupDraft(text, text, n, k) = SubSeq(text, from + 1, upto)
    <3> HIDE DEF starts, from, upto
    <3> QED BY <1>2, <1>3
  <2> HIDE DEF start, starts
  <2>3. from \in Nat /\ rest \in Nat /\ upto \in Int /\ upto <= Len(text)
    <3>1. \A l, s \in Nat : \A j \in Int :
            s + n <= l => /\ s + n \in Nat /\ l - (s + n) \in Nat
                          /\ (s + n) + (IF j < l - (s + n) THEN j ELSE l - (s + n)) \in Int
                          /\ (s + n) + (IF j < l - (s + n) THEN j ELSE l - (s + n)) <= l
      OBVIOUS
    <3>2. start \in Nat /\ start + n <= Len(text)
      BY <1>0, <2>1
    <3> QED BY <1>0, <3>1, <3>2
  <2> HIDE DEF from, upto
  <2>4. \A i \in (from + 1)..upto : text[i] \in Token
    BY <1>0, <2>3
  <2>5. SubSeq(text, from + 1, upto) \in Seq(Token)
    <3>1. from + 1 \in Int
      BY <2>3
    <3> QED BY <2>3, <2>4, <3>1, SubSeqProperties
  <2> QED BY <2>2, <2>5
<1> QED BY <1>1, <1>2

\* step_pld drafts tokens.
LEMMA DraftType ==
  ASSUME SchedulerTypeOK, NEW r \in Req
  PROVE  DraftOf(r) \in Seq(Token)
<1> DEFINE left == MaxTokens[r] - GenIndex(r)
           k == IF DraftK < left THEN DraftK ELSE left
           text == tokens[r]
           top == IF LookupLen > 2 THEN LookupLen ELSE 2
           lens == {n \in 2..top : LookupDraft(text, text, n, k) # <<>>}
<1>1. text \in Seq(Token) /\ k \in Int /\ top \in Nat
  <2>1. tokens[r] \in Seq(Token) /\ Len(tokens[r]) \in Nat
    BY DEF SchedulerTypeOK
  <2>2. left \in Int
    BY <2>1, PromptFacts, TextTypes DEF GenIndex
  <2> HIDE DEF left
  <2> QED BY <2>1, <2>2, BatcherAssumption
<1> HIDE DEF k, text
<1>2. lens # {} => (CHOOSE n \in lens : \A m \in lens : m <= n) \in Nat
  <2> SUFFICES ASSUME lens # {} PROVE (CHOOSE n \in lens : \A m \in lens : m <= n) \in Nat
    OBVIOUS
  <2>1. lens \in SUBSET (0..top)
    BY <1>1
  <2>2. \A n \in lens : n \in Nat
    OBVIOUS
  <2> HIDE DEF lens, top
  <2>3. \E x \in lens : \A y \in lens : y <= x
    BY <1>1, <2>1, LargestExists
  <2> QED BY <2>2, <2>3
<1>3. LookupDraftBest(text, text, LookupLen, k) \in Seq(Token)
  <2>1. LookupDraftBest(text, text, LookupLen, k) =
          IF lens = {} THEN <<>>
          ELSE LookupDraft(text, text, CHOOSE n \in lens : \A m \in lens : m <= n, k)
    BY DEF LookupDraftBest
  <2> DEFINE c == CHOOSE n \in lens : \A m \in lens : m <= n
  <2>2. lens # {} => c \in Nat
    BY <1>2
  <2>3. LookupDraftBest(text, text, LookupLen, k) =
          IF lens = {} THEN <<>> ELSE LookupDraft(text, text, c, k)
    BY <2>1
  <2> HIDE DEF lens, c
  <2>4. lens # {} => LookupDraft(text, text, c, k) \in Seq(Token)
    BY <1>1, <2>2, LookupType
  <2> QED BY <2>3, <2>4
<1> QED BY <1>3 DEF DraftOf, k, text

\* The row and position checks establish what decode relies on.
LEMMA LayRowsInv ==
  ASSUME BatcherInv, LayRows
  PROVE  BatcherInv'
<1>1. draft' \in [Req -> Seq(Token)]
  <2>1. draft' = [r \in Req |-> IF r \in ToSet(active) THEN DraftOf(r) ELSE <<>>]
    BY DEF LayRows
  <2> QED BY <2>1, DraftType DEF BatcherInv, SchedulerInv
<1>2. phase' \in {"rowsAssert", "positionAssert", "page"}
  BY DEF LayRows
<1>3. KVInv' /\ held' = held /\ slotBlocks' = slotBlocks
  BY PoolKept DEF BatcherInv, LayRows
<1>4. SlotsOK'
  BY <1>3, SlotsKeep DEF BatcherInv, SchedulerInv, LayRows
<1>5. loading' = {} /\ \A r \in Decoding' : status'[r] = "in"
  BY DEF LayRows, BatcherInv, SchedulerInv, PhaseOK, queueVars, textVars, Decoding, Failed
<1>6. phase' = "page" => \A r \in Decoding' : Rows(r)' <= MaxSeq
  <2> SUFFICES ASSUME phase' = "page", NEW r \in Decoding PROVE Rows(r)' <= MaxSeq
    BY DEF LayRows, Decoding, queueVars
  <2>1. Len(tokens[r]) + Len(DraftOf(r)) <= MaxSeq
    <3>1. ~(Len(tokens[r]) + Len(DraftOf(r)) > MaxSeq)
      BY DEF LayRows, Decoding
    <3>2. Len(tokens[r]) \in Nat /\ Len(DraftOf(r)) \in Nat
      <4>1. r \in Req /\ tokens[r] \in Seq(Token)
        BY QueueMembers DEF BatcherInv, SchedulerInv, SchedulerTypeOK, Decoding
      <4>2. DraftOf(r) \in Seq(Token)
        BY <4>1, DraftType DEF BatcherInv, SchedulerInv
      <4> QED BY <4>1, <4>2
    <3> DEFINE m == Len(tokens[r])
               n == Len(DraftOf(r))
    <3> HIDE DEF m, n
    <3>3. m + n <= MaxSeq
      <4>1. ~(m + n > MaxSeq) /\ m \in Nat /\ n \in Nat
        BY <3>1, <3>2 DEF m, n
      <4> QED BY <4>1, PagedKVAssumption
    <3> QED BY <3>3 DEF m, n
  <2>2. draft'[r] = DraftOf(r) /\ tokens'[r] = tokens[r]
    BY QueueMembers DEF LayRows, textVars, Decoding, BatcherInv, SchedulerInv, SchedulerTypeOK
  <2> QED BY <2>1, <2>2 DEF Rows
<1>7. PhaseOK'
  BY <1>2, <1>5, <1>6 DEF PhaseOK, Failed
<1>8. cachedBlocks' \in [Req -> Nat] /\ phase' \in Phases
  BY <1>2 DEF LayRows, BatcherInv, SchedulerInv, SchedulerTypeOK, Phases, Failed
<1>9. UNCHANGED <<after, queueVars, slotVars, textVars, prefillPos, hostKv>>
  BY DEF LayRows
<1> QED BY <1>1, <1>3, <1>4, <1>7, <1>8, <1>9, NothingMoves DEF BatcherInv

\* One block for one slot, and nothing else but the phase.
LEMMA PagingStep ==
  ASSUME BatcherInv, NEW r \in DOMAIN slotOf, AllocInto(slotOf[r]),
         UNCHANGED <<after, slotVars, queueVars, textVars, loadVars>>, phase' = phase,
         phase # "decode"
  PROVE  BatcherInv'
<1>1. KVInv' /\ SlotsOK' /\ held' = held
  BY PageCall DEF BatcherInv, SchedulerInv
<1>2. UNCHANGED <<prefillPos, hostKv, draft, cachedBlocks>>
  BY DEF loadVars
<1>3. PhaseOK'
  <2>1. UNCHANGED <<phase, loading, status, tokens, draft, hostKv, slotOf>> /\ Decoding' = Decoding
    BY <1>2 DEF queueVars, slotVars, textVars, Decoding
  <2> QED BY <1>1, <2>1 DEF BatcherInv, SchedulerInv, PhaseOK, LoadableOK, Rows
<1>4. draft' \in [Req -> Seq(Token)] /\ cachedBlocks' \in [Req -> Nat] /\ phase' \in Phases
  BY <1>2 DEF BatcherInv, SchedulerInv, SchedulerTypeOK
<1> QED BY <1>1, <1>2, <1>3, <1>4, NothingMoves DEF BatcherInv

\* prepare_paging grows the slots of the batch, one block a turn.
LEMMA PageInv ==
  ASSUME BatcherInv, Page
  PROVE  BatcherInv'
<1>1. SchedulerTypeOK /\ SlotHolders /\ PhaseOK
  BY DEF BatcherInv, SchedulerInv
<1>2. CASE Short = {}
  <2>1. phase' = "decode" /\ UNCHANGED <<after, kvVars, slotVars, queueVars, textVars, loadVars>>
    BY <1>2 DEF Page
  <2>2. UNCHANGED <<loading, status, tokens, draft, slotOf, slotBlocks>> /\ Decoding' = Decoding
    BY <2>1 DEF queueVars, slotVars, textVars, loadVars, kvVars, Decoding
  <2>3. loading = {} /\ (\A r \in Decoding : status[r] = "in" /\ Rows(r) <= MaxSeq)
    BY <1>1 DEF Page, PhaseOK, Failed
  <2>4. \A r \in Decoding : BlocksShort(slotOf[r], Rows(r)) = 0
    <3> SUFFICES ASSUME NEW r \in Decoding PROVE BlocksShort(slotOf[r], Rows(r)) = 0
      OBVIOUS
    <3>1. PICK i \in 1..Len(active) : active[i] = r
      BY <1>1, QueueMembers DEF Decoding, SchedulerTypeOK
    <3>2. ~(BlocksShort(slotOf[r], Rows(r)) > 0)
      BY <1>2, <3>1 DEF Short
    <3>3. BlocksShort(slotOf[r], Rows(r)) \in Nat
      <4>1. slotOf[r] \in Slot
        BY <1>1 DEF BatcherInv, SchedulerInv, SlotsOK, SlotHolders
      <4>2. Len(slotBlocks[slotOf[r]]) \in Nat
        BY <4>1, SlotTypes DEF BatcherInv, KVInv, Books
      <4>3. Rows(r) \in Nat
        BY <1>1, QueueMembers, TextTypes DEF Rows, Decoding, SchedulerTypeOK
      <4>4. BlocksFor(Rows(r)) \in Nat
        BY <4>3, BlocksForBound
      <4> DEFINE m == BlocksFor(Rows(r))
                 l == Len(slotBlocks[slotOf[r]])
      <4>5. BlocksShort(slotOf[r], Rows(r)) = IF m > l THEN m - l ELSE 0
        BY DEF BlocksShort
      <4>6. m \in Nat /\ l \in Nat
        BY <4>2, <4>4
      <4> HIDE DEF m, l
      <4> QED BY <4>5, <4>6
    <3> QED BY <3>2, <3>3
  <2>5. PhaseOK'
    <3>1. \A r \in Decoding' : /\ status'[r] = "in" /\ Rows(r)' <= MaxSeq
                               /\ BlocksShort(slotOf[r], Rows(r))' = 0
      BY <2>2, <2>3, <2>4 DEF Rows, BlocksShort
    <3> QED BY <2>1, <2>2, <2>3, <3>1 DEF PhaseOK, Failed
  <2> QED BY <2>1, <2>5, PhaseOnly DEF Phases
<1>3. CASE Short # {} /\ PoolExhausted
  <2>1. phase' = "poolAssert" /\ UNCHANGED <<after, kvVars, slotVars, queueVars, textVars, loadVars>>
    BY <1>3 DEF Page
  <2>2. PhaseOK'
    BY <1>1, <2>1 DEF Page, PhaseOK, Failed, queueVars, textVars, Decoding
  <2> QED BY <2>1, <2>2, PhaseOnly DEF Phases, Failed
<1>4. CASE Short # {} /\ ~PoolExhausted
  <2> DEFINE i == CHOOSE i \in Short : \A j \in Short : i <= j
  <2>1. i \in 1..Len(active)
    <3>1. Short \in SUBSET (1..Len(active)) /\ Len(active) \in Nat
      BY <1>1 DEF Short, SchedulerTypeOK
    <3>2. \E x \in Short : \A y \in Short : x <= y
      BY <1>4, <3>1, SmallestExists
    <3> QED BY <3>1, <3>2
  <2> HIDE DEF i
  <2>2. active[i] \in DOMAIN slotOf
    BY <1>1, <2>1, QueueMembers DEF SchedulerTypeOK, SlotHolders, Decoding
  <2>3. AllocInto(slotOf[active[i]])
    BY <1>4 DEF Page, i
  <2>4. /\ UNCHANGED <<after, slotVars, queueVars, textVars, loadVars>>
        /\ phase' = phase /\ phase # "decode"
    BY <1>4 DEF Page
  <2> QED BY <2>2, <2>3, <2>4, PagingStep
<1> QED BY <1>2, <1>3, <1>4

\* prefill_chunk's paging grows the slot of the front request.
LEMMA PrefillPageInv ==
  ASSUME BatcherInv, PrefillPage
  PROVE  BatcherInv'
<1>1. Head(prefilling) \in DOMAIN slotOf
  BY EndsOfQueue DEF BatcherInv, SchedulerInv, SchedulerTypeOK, QueuesApart, SlotHolders,
     Prefills, PrefillPage
<1>2. /\ UNCHANGED <<after, slotVars, queueVars, textVars, loadVars>>
      /\ phase' = phase /\ phase # "decode"
  BY DEF PrefillPage, seqVars
<1> QED BY <1>1, <1>2, PagingStep DEF PrefillPage

\* prefill_register publishes blocks that hold the request's own text.
LEMMA RegisterPrefixInv ==
  ASSUME BatcherInv, RegisterPrefix
  PROVE  BatcherInv'
<1>1. SchedulerTypeOK /\ SlotHolders /\ SlotsOK /\ PhaseOK /\ KVInv
  BY DEF BatcherInv, SchedulerInv
<1>2. PICK r \in loading : Register(slotOf[r], tokens[r], cachedBlocks[r])
  BY DEF RegisterPrefix
<1>3. /\ r \in DOMAIN slotOf /\ r \in Req /\ cachedBlocks[r] \in Nat
      /\ held[slotOf[r]] = tokens[r]
  BY <1>1 DEF SlotHolders, SchedulerTypeOK, PhaseOK, RegisterPrefix
<1>4. UNCHANGED <<after, slotVars, queueVars, textVars, loadVars>> /\ phase' = "join"
  BY DEF RegisterPrefix
<1>5. KVInv' /\ SlotsOK' /\ held' = held
  <2> DEFINE n == cachedBlocks[r]
  <2>1. n \in Nat /\ Register(slotOf[r], tokens[r], n)
    BY <1>2, <1>3
  <2> HIDE DEF n
  <2>2. UNCHANGED slotVars
    BY <1>4
  <2> QED BY <1>1, <1>3, <2>1, <2>2, PublishCallOf
<1>6. UNCHANGED <<prefillPos, hostKv, draft, cachedBlocks>>
  BY <1>4 DEF loadVars
<1>7. PhaseOK'
  <2>1. UNCHANGED <<loading, status, tokens, slotOf>> /\ Decoding' = Decoding
    BY <1>4 DEF queueVars, slotVars, textVars, Decoding
  <2> QED BY <1>1, <1>4, <1>5, <2>1 DEF PhaseOK, RegisterPrefix
<1>8. draft' \in [Req -> Seq(Token)] /\ cachedBlocks' \in [Req -> Nat] /\ phase' \in Phases
  BY <1>1, <1>4, <1>6 DEF SchedulerTypeOK, Phases
<1> QED BY <1>4, <1>5, <1>6, <1>7, <1>8, NothingMoves DEF BatcherInv

\* The paging of a restore grows the slot being loaded.
LEMMA LoadPageInv ==
  ASSUME BatcherInv, LoadPage
  PROVE  BatcherInv'
<1>1. SchedulerTypeOK /\ SlotHolders /\ PhaseOK
  BY DEF BatcherInv, SchedulerInv
<1>2. UNCHANGED <<after, slotVars, queueVars, textVars, loadVars>>
  BY DEF LoadPage
<1>3. CASE phase' \in {"positionAssert", "poolAssert"} /\ UNCHANGED kvVars
  <2>1. PhaseOK'
    BY <1>1, <1>2, <1>3 DEF LoadPage, PhaseOK, Failed, queueVars, textVars, Decoding
  <2> QED BY <1>2, <1>3, <2>1, PhaseOnly DEF Phases, Failed
<1>4. CASE phase' = phase /\ \E r \in loading : AllocInto(slotOf[r])
  <2>1. PICK r \in loading : AllocInto(slotOf[r])
    BY <1>4
  <2>2. r \in DOMAIN slotOf /\ phase # "decode"
    BY <1>1 DEF SlotHolders, LoadPage
  <2> QED BY <1>2, <1>4, <2>1, <2>2, PagingStep
<1> QED BY <1>3, <1>4 DEF LoadPage

-----------------------------------------------------------------------------
(* Steps that take a slot from a request *)

\* The scheduler's invariant after a step about one request.
LEMMA OneMoves ==
  ASSUME SchedulerInv, NEW r \in Req, OnlyConcerns(r), RequestOK(r)',
         SchedulerTypeOK', QueuesApart', SlotsOK', SlotHolders', PhaseOK'
  PROVE  SchedulerInv'
<1>1. \A x \in Req : RequestOK(x)'
  BY RequestsKept
<1> QED BY <1>1 DEF SchedulerInv

\* The facts about a decoding request outside the retire phase.
LEMMA DecodingFacts ==
  ASSUME SchedulerInv, NEW r \in Decoding
  PROVE  /\ r \in Req /\ r \in DOMAIN slotOf /\ TextOK(r) /\ DecodingOK(r)
         /\ r \notin Prefills /\ r \notin Evicted /\ r \notin loading
         /\ tokens[r] \in Seq(Token) /\ tokens[r] # <<>> /\ Prompt[r] # <<>>
<1>1. r \in Req
  BY QueueMembers DEF SchedulerInv, SchedulerTypeOK, Decoding
<1>2. TextOK(r) /\ DecodingOK(r)
  BY <1>1 DEF SchedulerInv, RequestOK
<1>3. tokens[r] \in Seq(Token) /\ tokens[r] # <<>> /\ Prompt[r] # <<>>
  BY <1>1, <1>2, TokensFacts, PromptFacts DEF SchedulerInv
<1>4. r \in DOMAIN slotOf /\ r \notin Prefills /\ r \notin Evicted /\ r \notin loading
  BY DEF SchedulerInv, SlotHolders, QueuesApart
<1> QED BY <1>1, <1>2, <1>3, <1>4

\* The facts about a prefilling request.
LEMMA PrefillsFacts ==
  ASSUME SchedulerInv, NEW r \in Prefills
  PROVE  /\ r \in Req /\ r \in DOMAIN slotOf /\ TextOK(r) /\ PrefillsOK(r)
         /\ r \notin Decoding /\ r \notin Evicted /\ r \notin loading
         /\ tokens[r] = Prompt[r]
<1>1. r \in Req
  BY QueueMembers DEF SchedulerInv, SchedulerTypeOK, Prefills
<1>2. TextOK(r) /\ PrefillsOK(r)
  BY <1>1 DEF SchedulerInv, RequestOK
<1>3. tokens[r] = Prompt[r]
  BY <1>1, <1>2, TokensFacts DEF SchedulerInv, PrefillsOK
<1>4. r \in DOMAIN slotOf /\ r \notin Decoding /\ r \notin Evicted /\ r \notin loading
  BY DEF SchedulerInv, SlotHolders, QueuesApart
<1> QED BY <1>1, <1>2, <1>3, <1>4

\* preempt_last_active: swapped to the host or to be recomputed.
LEMMA PreemptInv ==
  ASSUME BatcherInv, active # <<>>, phase \in {"room", "roomPld", "prefill"},
         PreemptLastActive,
         UNCHANGED <<phase, after, prefilling, loading, textVars, prefillPos, cachedBlocks, draft>>
  PROVE  BatcherInv'
<1>0. SchedulerInv /\ SchedulerTypeOK /\ QueuesApart /\ SlotsOK /\ SlotHolders /\ PhaseOK /\ KVInv
  BY DEF BatcherInv, SchedulerInv
<1>r. PICK r \in Req : r = Last(active)
  BY <1>0, EndsOfQueue, QueueMembers DEF SchedulerTypeOK, QueuesApart
<1>1. /\ r \in Decoding /\ Front(active) \in Seq(Req) /\ NoRepeat(Front(active))
      /\ ToSet(Front(active)) = Decoding \ {r}
  BY <1>0, <1>r, EndsOfQueue DEF SchedulerTypeOK, QueuesApart, Decoding
<1>2. /\ Vacate(r) /\ active' = Front(active) /\ preempted' = Append(preempted, r)
      /\ hostKv' = [hostKv EXCEPT ![r] = IF swapMode THEN SwappedOut(r) ELSE <<>>]
  BY <1>r DEF PreemptLastActive
<1>3. /\ r \in Req /\ r \in DOMAIN slotOf /\ TextOK(r) /\ DecodingOK(r)
      /\ r \notin Prefills /\ r \notin Evicted /\ r \notin loading
      /\ tokens[r] \in Seq(Token) /\ tokens[r] # <<>>
  BY <1>0, <1>1, DecodingFacts
<1>4. /\ KVInv' /\ SlotsOK' /\ DOMAIN slotOf' = DOMAIN slotOf \ {r}
      /\ \A x \in DOMAIN slotOf \ {r} :
           slotOf'[x] = slotOf[x] /\ held'[slotOf[x]] = held[slotOf[x]]
  BY <1>0, <1>2, <1>3, VacateCall
<1>5. Append(preempted, r) \in Seq(Req) /\ NoRepeat(Append(preempted, r))
      /\ ToSet(Append(preempted, r)) = Evicted \cup {r}
  BY <1>0, <1>3, AppendQueue DEF SchedulerTypeOK, QueuesApart, Evicted
<1>6. /\ Decoding' = Decoding \ {r} /\ Prefills' = Prefills /\ Evicted' = Evicted \cup {r}
      /\ loading' = loading
  BY <1>1, <1>2, <1>5 DEF Decoding, Prefills, Evicted
<1>7. QueuesApart'
  BY <1>0, <1>1, <1>2, <1>3, <1>5, <1>6 DEF QueuesApart
<1>8. SlotHolders'
  BY <1>0, <1>3, <1>4, <1>6 DEF SlotHolders
<1>9. hostKv'[r] \in {<<>>, Saved(tokens[r])} /\ hostKv'[r] \in Seq(Seq(Token))
  <2>1. SwappedOut(r) = Saved(tokens[r])
    BY <1>0, <1>3, SwappedIsSaved DEF DecodingOK
  <2>2. Saved(tokens[r]) \in Seq(Seq(Token)) /\ <<>> \in Seq(Seq(Token))
    BY <1>3, SavedType
  <2>3. hostKv'[r] = IF swapMode THEN SwappedOut(r) ELSE <<>>
    BY <1>0, <1>2, <1>3 DEF SchedulerTypeOK
  <2> QED BY <2>1, <2>2, <2>3
<1>10. SchedulerTypeOK'
  <2>1. hostKv' \in [Req -> Seq(Seq(Token))]
    BY <1>0, <1>2, <1>9 DEF SchedulerTypeOK
  <2> QED BY <1>0, <1>1, <1>2, <1>5, <2>1 DEF SchedulerTypeOK, textVars
<1>11. OnlyConcerns(r)
  BY <1>0, <1>2, <1>4, <1>6
     DEF OnlyConcerns, SameRequest, SameText, SamePlace, SameSlot, SchedulerTypeOK, textVars
<1>12. status[r] = "in"
  BY <1>0, <1>1 DEF PhaseOK
<1>13. RequestOK(r)'
  <2>1. TextOK(r)'
    BY <1>3, TextKept DEF SameText, textVars
  <2>2. RestoredOK(r)'
    BY <1>9, <1>12 DEF RestoredOK, textVars, Saved
  <2> QED BY <1>3, <1>6, <2>1, <2>2 DEF RequestOK, InFlight, Decoding, Prefills, Evicted
<1>14. PhaseOK'
  BY <1>0, <1>6, CalmPhase DEF PhaseOK, textVars, Failed
<1> QED BY <1>0, <1>3, <1>4, <1>7, <1>8, <1>10, <1>11, <1>13, <1>14, OneMoves DEF BatcherInv

\* make_room preempts the youngest decoding request.
LEMMA MakeRoomInv ==
  ASSUME BatcherInv, MakeRoom
  PROVE  BatcherInv'
<1>1. active # <<>>
  BY DEF MakeRoom
<1> QED BY <1>1, PreemptInv DEF MakeRoom

\* advance_prefill preempts a decoding request to make its chunk fit.
LEMMA EvictActiveInv ==
  ASSUME BatcherInv, EvictActive
  PROVE  BatcherInv'
  BY PreemptInv DEF EvictActive

\* preempt_last_prefill restarts the youngest prefilling request later.
LEMMA EvictPrefillInv ==
  ASSUME BatcherInv, EvictPrefill
  PROVE  BatcherInv'
<1>0. SchedulerInv /\ SchedulerTypeOK /\ QueuesApart /\ SlotsOK /\ SlotHolders /\ PhaseOK /\ KVInv
  BY DEF BatcherInv, SchedulerInv
<1>r. PICK r \in Req : r = Last(prefilling)
  BY <1>0, EndsOfQueue, QueueMembers DEF SchedulerTypeOK, QueuesApart, EvictPrefill
<1>1. /\ r \in Prefills /\ Front(prefilling) \in Seq(Req) /\ NoRepeat(Front(prefilling))
      /\ ToSet(Front(prefilling)) = Prefills \ {r}
  BY <1>0, <1>r, EndsOfQueue DEF SchedulerTypeOK, QueuesApart, Prefills, EvictPrefill
<1>2. /\ Vacate(r) /\ prefilling' = Front(prefilling) /\ preempted' = Append(preempted, r)
      /\ hostKv' = [hostKv EXCEPT ![r] = <<>>]
      /\ UNCHANGED <<phase, after, active, loading, textVars, prefillPos, cachedBlocks, draft>>
      /\ phase = "prefill"
  BY <1>r DEF EvictPrefill
<1>3. /\ r \in Req /\ r \in DOMAIN slotOf /\ TextOK(r) /\ PrefillsOK(r)
      /\ r \notin Decoding /\ r \notin Evicted /\ r \notin loading
  BY <1>0, <1>1, PrefillsFacts
<1>4. /\ KVInv' /\ SlotsOK' /\ DOMAIN slotOf' = DOMAIN slotOf \ {r}
      /\ \A x \in DOMAIN slotOf \ {r} :
           slotOf'[x] = slotOf[x] /\ held'[slotOf[x]] = held[slotOf[x]]
  BY <1>0, <1>2, <1>3, VacateCall
<1>5. Append(preempted, r) \in Seq(Req) /\ NoRepeat(Append(preempted, r))
      /\ ToSet(Append(preempted, r)) = Evicted \cup {r}
  BY <1>0, <1>3, AppendQueue DEF SchedulerTypeOK, QueuesApart, Evicted
<1>6. /\ Decoding' = Decoding /\ Prefills' = Prefills \ {r} /\ Evicted' = Evicted \cup {r}
      /\ loading' = loading
  BY <1>1, <1>2, <1>5 DEF Decoding, Prefills, Evicted
<1>7. QueuesApart'
  BY <1>0, <1>1, <1>2, <1>3, <1>5, <1>6 DEF QueuesApart
<1>8. SlotHolders'
  BY <1>0, <1>3, <1>4, <1>6 DEF SlotHolders
<1>10. SchedulerTypeOK'
  BY <1>0, <1>1, <1>2, <1>5, SMTT(30) DEF SchedulerTypeOK, textVars
<1>11. OnlyConcerns(r)
  BY <1>0, <1>2, <1>4, <1>6
     DEF OnlyConcerns, SameRequest, SameText, SamePlace, SameSlot, SchedulerTypeOK, textVars
<1>13. RequestOK(r)'
  <2>1. TextOK(r)'
    BY <1>2, <1>3, TextKept DEF SameText, textVars
  <2>2. RestoredOK(r)'
    BY <1>0, <1>2, <1>3 DEF RestoredOK, PrefillsOK, textVars, SchedulerTypeOK
  <2> QED BY <1>3, <1>6, <2>1, <2>2 DEF RequestOK, InFlight, Decoding, Prefills, Evicted
<1>14. PhaseOK'
  BY <1>0, <1>2, <1>6, CalmPhase DEF PhaseOK, textVars, Failed
<1> QED BY <1>0, <1>3, <1>4, <1>7, <1>8, <1>10, <1>11, <1>13, <1>14, OneMoves DEF BatcherInv

\* A finished request leaves the batch and gives its slot back.
LEMMA RetireInv ==
  ASSUME BatcherInv, Retire
  PROVE  BatcherInv'
<1> DEFINE over == {i \in 1..Len(active) : DoneWith(active[i], tokens[active[i]])}
           first == CHOOSE i \in over : \A j \in over : i <= j
<1>0. SchedulerInv /\ SchedulerTypeOK /\ QueuesApart /\ SlotsOK /\ SlotHolders /\ PhaseOK /\ KVInv
  BY DEF BatcherInv, SchedulerInv
<1>a. \A x \in Decoding : DoneWith(x, tokens[x]) <=> status[x] = "done"
  BY <1>0, DecodingFacts, DoneAtLast DEF DecodingOK
<1>b. UNCHANGED <<after, prefilling, preempted, loading, textVars, loadVars>> /\ loading = {}
  BY <1>0 DEF Retire, PhaseOK, Failed
<1>c. CASE over = {}
  <2>1. phase' = "prefill" /\ UNCHANGED <<kvVars, active, slotVars>>
    BY <1>c DEF Retire
  <2>2. \A x \in Decoding : status[x] = "in"
    <3> SUFFICES ASSUME NEW x \in Decoding PROVE status[x] = "in"
      OBVIOUS
    <3>1. PICK k \in 1..Len(active) : active[k] = x
      BY <1>0, QueueMembers DEF Decoding, SchedulerTypeOK
    <3>2. ~DoneWith(x, tokens[x])
      BY <1>c, <3>1
    <3> QED BY <1>0, <1>a, <3>2, DecodingFacts DEF DecodingOK
  <2>3. PhaseOK'
    BY <1>b, <2>1, <2>2, CalmPhase DEF Decoding, textVars
  <2> QED BY <1>b, <2>1, <2>3, PhaseOnly DEF Phases, queueVars
<1>d. CASE over # {}
  <2>2. first \in over
    <3>1. over \in SUBSET (1..Len(active)) /\ Len(active) \in Nat
      BY <1>0 DEF SchedulerTypeOK
    <3> HIDE DEF over
    <3>2. \E x \in over : \A y \in over : x <= y
      BY <1>d, <3>1, SmallestExists
    <3> QED BY <3>2
  <2>3. PICK i \in 1..Len(active) : i = first /\ DoneWith(active[i], tokens[active[i]])
    BY <2>2
  <2>r. PICK r \in Req : r = active[i]
    BY <1>0, <2>3, QueueMembers DEF SchedulerTypeOK
  <2>1. /\ Vacate(r) /\ active' = RemoveAt(active, i) /\ phase' = phase /\ phase = "retire"
    BY <1>d, <2>3, <2>r DEF Retire
  <2> HIDE DEF first, over
  <2>4. r \in Decoding
    BY <1>0, <2>3, <2>r, QueueMembers DEF SchedulerTypeOK, Decoding
  <2>5. /\ RemoveAt(active, i) \in Seq(Req) /\ NoRepeat(RemoveAt(active, i))
        /\ ToSet(RemoveAt(active, i)) = Decoding \ {r}
    BY <1>0, <2>3, <2>r, RemoveAtQueue DEF SchedulerTypeOK, QueuesApart, Decoding
  <2>6. /\ r \in Req /\ r \in DOMAIN slotOf /\ TextOK(r) /\ DecodingOK(r)
        /\ r \notin Prefills /\ r \notin Evicted /\ r \notin loading
    BY <1>0, <2>4, DecodingFacts
  <2>7. /\ KVInv' /\ SlotsOK' /\ DOMAIN slotOf' = DOMAIN slotOf \ {r}
        /\ \A x \in DOMAIN slotOf \ {r} :
             slotOf'[x] = slotOf[x] /\ held'[slotOf[x]] = held[slotOf[x]]
    BY <1>0, <2>1, <2>6, VacateCall
  <2>8. /\ Decoding' = Decoding \ {r} /\ Prefills' = Prefills /\ Evicted' = Evicted
        /\ loading' = loading
    BY <1>b, <2>1, <2>5 DEF Decoding, Prefills, Evicted
  <2>9. QueuesApart'
    BY <1>0, <1>b, <2>1, <2>5, <2>8 DEF QueuesApart
  <2>10. SlotHolders'
    BY <1>0, <2>6, <2>7, <2>8 DEF SlotHolders
  <2>11. SchedulerTypeOK'
    BY <1>0, <1>b, <2>1, <2>5 DEF SchedulerTypeOK, textVars, loadVars
  <2>12. OnlyConcerns(r)
    BY <1>b, <2>7, <2>8
       DEF OnlyConcerns, SameRequest, SameText, SamePlace, SameSlot, textVars, loadVars
  <2>13. status[r] = "done"
    BY <1>a, <2>3, <2>r, <2>4
  <2>14. RequestOK(r)'
    <3>1. TextOK(r)'
      BY <1>b, <2>6, TextKept DEF SameText, textVars
    <3>2. OutsideOK(r)'
      BY <1>b, <2>6, <2>13 DEF OutsideOK, DecodingOK, textVars, loadVars
    <3> QED BY <2>6, <2>8, <3>1, <3>2 DEF RequestOK, InFlight, Decoding, Prefills, Evicted
  <2>15. PhaseOK'
    BY <1>b, <2>1, CalmPhase
  <2> QED BY <1>0, <2>6, <2>7, <2>9, <2>10, <2>11, <2>12, <2>14, <2>15, OneMoves DEF BatcherInv
<1> QED BY <1>c, <1>d

\* cancel removes a request from whichever queue has it, and frees its slot if any.
LEMMA CancelInv ==
  ASSUME BatcherInv, NEW r \in Req, Cancel(r)
  PROVE  BatcherInv'
<1>0. SchedulerInv /\ SchedulerTypeOK /\ QueuesApart /\ SlotsOK /\ SlotHolders /\ PhaseOK /\ KVInv
  BY DEF BatcherInv, SchedulerInv
<1>1. /\ phase = "idle" /\ phase' = phase /\ status[r] = "in" /\ loading' = loading /\ loading = {}
      /\ status' = [status EXCEPT ![r] = "cancelled"] /\ hostKv' = [hostKv EXCEPT ![r] = <<>>]
      /\ UNCHANGED <<after, tokens, prefillPos, cachedBlocks, draft, emitted, finished>>
  BY <1>0 DEF Cancel, PhaseOK, Failed
<1>2. /\ active' = Without(active, r) /\ prefilling' = Without(prefilling, r)
      /\ preempted' = Without(preempted, r)
  BY DEF Cancel, Dequeue
<1>3. /\ active' \in Seq(Req) /\ NoRepeat(active') /\ Decoding' = Decoding \ {r}
      /\ prefilling' \in Seq(Req) /\ NoRepeat(prefilling') /\ Prefills' = Prefills \ {r}
      /\ preempted' \in Seq(Req) /\ NoRepeat(preempted') /\ Evicted' = Evicted \ {r}
  BY <1>0, <1>2, WithoutQueue
     DEF SchedulerTypeOK, QueuesApart, Decoding, Prefills, Evicted
<1>4. /\ KVInv' /\ SlotsOK' /\ DOMAIN slotOf' = DOMAIN slotOf \ {r}
      /\ \A x \in DOMAIN slotOf \ {r} :
           slotOf'[x] = slotOf[x] /\ held'[slotOf[x]] = held[slotOf[x]]
  <2>1. CASE r \in DOMAIN slotOf
    <3>1. Vacate(r)
      BY <2>1 DEF Cancel
    <3> QED BY <1>0, <2>1, <3>1, VacateCall
  <2>2. CASE r \notin DOMAIN slotOf
    <3>1. UNCHANGED kvVars /\ UNCHANGED slotVars
      BY <2>2 DEF Cancel
    <3>2. KVInv' /\ held' = held /\ slotBlocks' = slotBlocks
      BY <1>0, <3>1, PoolKept
    <3>3. SlotsOK'
      BY <1>0, <3>1, <3>2, SlotsKeep
    <3> QED BY <2>2, <3>1, <3>2, <3>3 DEF slotVars
  <2> QED BY <2>1, <2>2
<1>5. QueuesApart'
  BY <1>0, <1>1, <1>3 DEF QueuesApart
<1>6. SlotHolders'
  BY <1>0, <1>1, <1>3, <1>4 DEF SlotHolders
<1>7. SchedulerTypeOK'
  BY <1>0, <1>1, <1>3, SMTT(30) DEF SchedulerTypeOK
<1>8. OnlyConcerns(r)
  BY <1>0, <1>1, <1>3, <1>4
     DEF OnlyConcerns, SameRequest, SameText, SamePlace, SameSlot, SchedulerTypeOK
<1>9. RequestOK(r)'
  <2>1. TextOK(r)'
    <3>1. TextOK(r) /\ status'[r] = "cancelled"
      BY <1>0, <1>1 DEF SchedulerInv, RequestOK, SchedulerTypeOK
    <3> QED BY <1>1, <3>1 DEF TextOK, EndsAt
  <2>2. OutsideOK(r)'
    BY <1>0, <1>1 DEF OutsideOK, SchedulerTypeOK
  <2>3. r \notin Decoding' /\ r \notin Prefills' /\ r \notin Evicted' /\ r \notin loading'
    BY <1>1, <1>3
  <2> QED BY <2>1, <2>2, <2>3 DEF RequestOK
<1>10. PhaseOK'
  BY <1>0, <1>1, <1>3, CalmPhase DEF PhaseOK, SchedulerTypeOK
<1> QED BY <1>0, <1>4, <1>5, <1>6, <1>7, <1>8, <1>9, <1>10, OneMoves DEF BatcherInv

-----------------------------------------------------------------------------
(* Steps that give a slot to a request *)

\* The cached prefix of a text is a proper prefix: its last position is recomputed.
LEMMA CachedFacts ==
  ASSUME KVInv, NEW text \in Seq(Token), text # <<>>
  PROVE  /\ CachedBlocks(text) \in Nat /\ CachedLen(text) \in Nat
         /\ CachedLen(text) < Len(text)
         /\ CachedText(text) = SubSeq(text, 1, CachedLen(text))
         /\ Len(CachedText(text)) = CachedLen(text)
<1>1. CachedBlocks(text) \in Nat /\ CachedLen(text) < Len(text)
  BY CachedBlocksFacts DEF CachedLen
<1>2. CachedLen(text) \in Nat
  BY <1>1, Product DEF CachedLen
<1>3. CachedText(text) = SubSeq(text, 1, CachedLen(text))
  BY DEF CachedText, PrefixHash, CachedLen
<1>4. CachedLen(text) \in 0..Len(text)
  BY <1>1, <1>2
<1>5. Len(CachedText(text)) = CachedLen(text)
  BY <1>3, <1>4, PrefixFacts
<1> QED BY <1>1, <1>2, <1>3, <1>5

\* A new request is nowhere and has produced nothing.
LEMMA NewFacts ==
  ASSUME SchedulerInv, NEW r \in Req, status[r] = "new"
  PROVE  /\ r \notin Decoding /\ r \notin Prefills /\ r \notin Evicted /\ r \notin loading
         /\ r \notin DOMAIN slotOf /\ TextOK(r) /\ emitted[r] = <<>> /\ hostKv[r] = <<>>
         /\ tokens[r] = Prompt[r]
<1>1. RequestOK(r)
  BY DEF SchedulerInv
<1>2. r \notin Decoding /\ r \notin Prefills /\ r \notin Evicted /\ r \notin loading
  BY <1>1 DEF RequestOK, DecodingOK, PrefillsOK, RestoredOK
<1>3. r \notin DOMAIN slotOf
  BY <1>2 DEF SchedulerInv, SlotHolders
<1>4. TextOK(r) /\ emitted[r] = <<>> /\ hostKv[r] = <<>>
  BY <1>1, <1>2 DEF RequestOK, OutsideOK, InFlight, Decoding, Prefills, Evicted
<1>5. tokens[r] = Prompt[r]
  BY <1>4, TokensFacts DEF SchedulerInv
<1> QED BY <1>2, <1>3, <1>4, <1>5

\* enqueue_params gives a new request a slot with the cached prefix of its prompt.
LEMMA EnqueueInv ==
  ASSUME BatcherInv, NEW r \in Req, Enqueue(r)
  PROVE  BatcherInv'
<1>0. SchedulerInv /\ SchedulerTypeOK /\ QueuesApart /\ SlotsOK /\ SlotHolders /\ PhaseOK /\ KVInv
  BY DEF BatcherInv, SchedulerInv
<1>1. /\ phase = "idle" /\ phase' = phase /\ status[r] = "new" /\ Len(Prompt[r]) <= MaxSeq
      /\ loading' = loading /\ loading = {}
      /\ prefilling' = Append(prefilling, r)
      /\ cachedBlocks' = [cachedBlocks EXCEPT ![r] = CachedBlocks(Prompt[r])]
      /\ prefillPos' = [prefillPos EXCEPT ![r] = CachedLen(Prompt[r])]
      /\ status' = [status EXCEPT ![r] = "in"]
      /\ UNCHANGED <<after, active, preempted, tokens, hostKv, draft, emitted, finished>>
  BY <1>0 DEF Enqueue, PhaseOK, Failed
<1>2. /\ r \notin Decoding /\ r \notin Prefills /\ r \notin Evicted /\ r \notin loading
      /\ r \notin DOMAIN slotOf /\ TextOK(r) /\ emitted[r] = <<>> /\ hostKv[r] = <<>>
  BY <1>0, <1>1, NewFacts
<1>3. PICK s \in freeSlots : Assign(r, s) /\ PrefixReuse(s, Prompt[r])
  BY DEF Enqueue
<1>4. Prompt[r] \in Seq(Token) /\ Prompt[r] # <<>>
  BY PromptFacts
<1>5. /\ KVInv' /\ SlotsOK' /\ DOMAIN slotOf' = DOMAIN slotOf \cup {r} /\ slotOf'[r] = s
      /\ \A x \in DOMAIN slotOf :
           slotOf'[x] = slotOf[x] /\ held'[slotOf[x]] = held[slotOf[x]]
      /\ held'[s] = CachedText(Prompt[r])
  BY <1>0, <1>2, <1>3, <1>4, AssignCall
<1>6. /\ CachedBlocks(Prompt[r]) \in Nat /\ CachedLen(Prompt[r]) \in Nat
      /\ CachedLen(Prompt[r]) < Len(Prompt[r])
      /\ CachedText(Prompt[r]) = SubSeq(Prompt[r], 1, CachedLen(Prompt[r]))
  BY <1>0, <1>4, CachedFacts
<1>7. /\ prefilling' \in Seq(Req) /\ NoRepeat(prefilling') /\ Decoding' = Decoding
      /\ Prefills' = Prefills \cup {r} /\ Evicted' = Evicted
  BY <1>0, <1>1, <1>2, AppendQueue DEF SchedulerTypeOK, QueuesApart, Decoding, Prefills, Evicted
<1>8. QueuesApart'
  BY <1>0, <1>1, <1>2, <1>7 DEF QueuesApart
<1>9. SlotHolders'
  BY <1>0, <1>1, <1>5, <1>7 DEF SlotHolders
<1>10. SchedulerTypeOK'
  BY <1>0, <1>1, <1>6, <1>7 DEF SchedulerTypeOK
<1>11. OnlyConcerns(r)
  BY <1>0, <1>1, <1>5, <1>7
     DEF OnlyConcerns, SameRequest, SameText, SamePlace, SameSlot, SchedulerTypeOK
<1>12. RequestOK(r)'
  <2>1. status'[r] = "in" /\ prefillPos'[r] = CachedLen(Prompt[r])
    BY <1>0, <1>1 DEF SchedulerTypeOK
  <2>2. TextOK(r)'
    BY <1>1, <1>2, <2>1 DEF TextOK, EndsAt
  <2>3. PrefillsOK(r)'
    BY <1>1, <1>2, <1>5, <1>6, <2>1 DEF PrefillsOK
  <2>4. r \notin Decoding' /\ r \in Prefills' /\ r \notin Evicted' /\ r \notin loading'
    BY <1>1, <1>2, <1>7
  <2> QED BY <2>2, <2>3, <2>4 DEF RequestOK, InFlight, Prefills
<1>13. PhaseOK'
  BY <1>0, <1>1, <1>2, <1>7, CalmPhase DEF PhaseOK, SchedulerTypeOK
<1> QED BY <1>0, <1>5, <1>8, <1>9, <1>10, <1>11, <1>12, <1>13, OneMoves DEF BatcherInv

\* admit_params does the same and goes on to prefill the whole prompt.
LEMMA AdmitInv ==
  ASSUME BatcherInv, NEW r \in Req, Admit(r)
  PROVE  BatcherInv'
<1>0. SchedulerInv /\ SchedulerTypeOK /\ QueuesApart /\ SlotsOK /\ SlotHolders /\ PhaseOK /\ KVInv
  BY DEF BatcherInv, SchedulerInv
<1>1. /\ phase = "idle" /\ phase' = "load" /\ after' = "idle" /\ status[r] = "new"
      /\ loading' = {r} /\ loading = {}
      /\ cachedBlocks' = [cachedBlocks EXCEPT ![r] = CachedBlocks(Prompt[r])]
      /\ status' = [status EXCEPT ![r] = "in"]
      /\ UNCHANGED <<active, prefilling, preempted, tokens, prefillPos, hostKv, draft,
                     emitted, finished>>
  BY <1>0 DEF Admit, PhaseOK, Failed
<1>2. /\ r \notin Decoding /\ r \notin Prefills /\ r \notin Evicted /\ r \notin loading
      /\ r \notin DOMAIN slotOf /\ TextOK(r) /\ emitted[r] = <<>> /\ hostKv[r] = <<>>
      /\ tokens[r] = Prompt[r]
  BY <1>0, <1>1, NewFacts
<1>3. PICK s \in freeSlots : Assign(r, s) /\ PrefixReuse(s, Prompt[r])
  BY DEF Admit
<1>4. Prompt[r] \in Seq(Token) /\ Prompt[r] # <<>>
  BY PromptFacts
<1>5. /\ KVInv' /\ SlotsOK' /\ DOMAIN slotOf' = DOMAIN slotOf \cup {r} /\ slotOf'[r] = s
      /\ \A x \in DOMAIN slotOf :
           slotOf'[x] = slotOf[x] /\ held'[slotOf[x]] = held[slotOf[x]]
      /\ held'[s] = CachedText(Prompt[r])
  BY <1>0, <1>2, <1>3, <1>4, AssignCall
<1>6. /\ CachedBlocks(Prompt[r]) \in Nat
      /\ CachedLen(Prompt[r]) < Len(Prompt[r]) /\ Len(CachedText(Prompt[r])) = CachedLen(Prompt[r])
      /\ CachedText(Prompt[r]) = SubSeq(Prompt[r], 1, CachedLen(Prompt[r]))
  BY <1>0, <1>4, CachedFacts
<1>7. Decoding' = Decoding /\ Prefills' = Prefills /\ Evicted' = Evicted
  BY <1>1 DEF Decoding, Prefills, Evicted
<1>8. QueuesApart'
  BY <1>0, <1>1, <1>2, <1>7 DEF QueuesApart
<1>9. SlotHolders'
  BY <1>0, <1>1, <1>5, <1>7 DEF SlotHolders
<1>10. SchedulerTypeOK'
  BY <1>0, <1>1, <1>6 DEF SchedulerTypeOK, Phases
<1>11. OnlyConcerns(r)
  BY <1>0, <1>1, <1>5, <1>7
     DEF OnlyConcerns, SameRequest, SameText, SamePlace, SameSlot, SchedulerTypeOK
<1>12. status'[r] = "in"
  BY <1>0, <1>1 DEF SchedulerTypeOK
<1>13. RequestOK(r)'
  <2>1. TextOK(r)'
    BY <1>1, <1>2, <1>12 DEF TextOK, EndsAt
  <2>2. RestoredOK(r)'
    BY <1>1, <1>2, <1>12 DEF RestoredOK
  <2>3. r \notin Decoding' /\ r \notin Prefills' /\ r \in loading'
    BY <1>1, <1>2, <1>7
  <2> QED BY <2>1, <2>2, <2>3 DEF RequestOK, InFlight
<1>14. PhaseOK'
  <2>1. LoadableOK(r)'
    BY <1>1, <1>2, <1>5, <1>6 DEF LoadableOK
  <2>2. \A x \in Decoding' : status'[x] = "in"
    BY <1>0, <1>1, <1>2, <1>7 DEF PhaseOK, SchedulerTypeOK
  <2> QED BY <1>1, <2>1, <2>2 DEF PhaseOK, Failed
<1> QED BY <1>0, <1>5, <1>8, <1>9, <1>10, <1>11, <1>13, <1>14, OneMoves DEF BatcherInv

\* reschedule gives the oldest preempted request a slot.
LEMMA ResumeInv ==
  ASSUME BatcherInv, Resume
  PROVE  BatcherInv'
<1>0. SchedulerInv /\ SchedulerTypeOK /\ QueuesApart /\ SlotsOK /\ SlotHolders /\ PhaseOK /\ KVInv
  BY DEF BatcherInv, SchedulerInv
<1>1. preempted # <<>>
  BY DEF Resume, CanResume
<1>2. PICK r \in Req : r = Head(preempted)
  BY <1>0, <1>1, EndsOfQueue, QueueMembers DEF SchedulerTypeOK, QueuesApart
<1>3. /\ phase = "resched" /\ phase' = "load" /\ after' = "resched"
      /\ loading' = {r} /\ loading = {} /\ preempted' = Tail(preempted)
      /\ cachedBlocks' = [cachedBlocks EXCEPT ![r] =
                            IF hostKv[r] = <<>> THEN CachedBlocks(tokens[r]) ELSE 0]
      /\ UNCHANGED <<active, prefilling, textVars, prefillPos, hostKv, draft>>
  BY <1>0, <1>2 DEF Resume, PhaseOK, Failed
<1>4. PICK s \in freeSlots :
        /\ Assign(r, s)
        /\ IF hostKv[r] = <<>> THEN PrefixReuse(s, tokens[r]) ELSE UNCHANGED kvVars
  BY <1>2 DEF Resume
<1>5. /\ r \in Evicted /\ preempted' \in Seq(Req) /\ NoRepeat(preempted')
      /\ Decoding' = Decoding /\ Prefills' = Prefills /\ Evicted' = Evicted \ {r}
  BY <1>0, <1>1, <1>2, <1>3, EndsOfQueue
     DEF SchedulerTypeOK, QueuesApart, Decoding, Prefills, Evicted
<1>6. /\ r \notin Decoding /\ r \notin Prefills /\ r \notin loading /\ r \notin DOMAIN slotOf
  BY <1>0, <1>5 DEF QueuesApart, SlotHolders
<1>7. TextOK(r) /\ RestoredOK(r)
  BY <1>0, <1>5 DEF SchedulerInv, RequestOK
<1>8. tokens[r] \in Seq(Token) /\ tokens[r] # <<>>
  BY <1>0, <1>7, TokensFacts
<1>9. /\ KVInv' /\ SlotsOK' /\ DOMAIN slotOf' = DOMAIN slotOf \cup {r} /\ slotOf'[r] = s
      /\ \A x \in DOMAIN slotOf :
           slotOf'[x] = slotOf[x] /\ held'[slotOf[x]] = held[slotOf[x]]
      /\ hostKv[r] = <<>> => held'[s] = CachedText(tokens[r])
      /\ hostKv[r] # <<>> => held'[s] = <<>>
  <2> DEFINE text == tokens[r]
  <2>1. PrefixReuse(s, text) \/ UNCHANGED kvVars
    BY <1>4
  <2>2. text \in Seq(Token) /\ text # <<>> /\ Assign(r, s)
    BY <1>4, <1>8
  <2>3. hostKv[r] = <<>> => PrefixReuse(s, text)
    BY <1>4
  <2>4. hostKv[r] # <<>> => UNCHANGED kvVars
    BY <1>4
  <2> HIDE DEF text
  <2>5. /\ KVInv' /\ SlotsOK' /\ DOMAIN slotOf' = DOMAIN slotOf \cup {r} /\ slotOf'[r] = s
        /\ \A x \in DOMAIN slotOf :
             slotOf'[x] = slotOf[x] /\ held'[slotOf[x]] = held[slotOf[x]]
        /\ PrefixReuse(s, text) => held'[s] = CachedText(text)
        /\ UNCHANGED kvVars => held'[s] = <<>>
    BY <1>0, <1>6, <2>1, <2>2, AssignCall
  <2> QED BY <2>3, <2>4, <2>5 DEF text
<1>10. /\ CachedBlocks(tokens[r]) \in Nat
       /\ CachedLen(tokens[r]) < Len(tokens[r]) /\ Len(CachedText(tokens[r])) = CachedLen(tokens[r])
       /\ CachedText(tokens[r]) = SubSeq(tokens[r], 1, CachedLen(tokens[r]))
  BY <1>0, <1>8, CachedFacts
<1>11. QueuesApart'
  BY <1>0, <1>3, <1>5, <1>6 DEF QueuesApart
<1>12. SlotHolders'
  BY <1>0, <1>3, <1>5, <1>9 DEF SlotHolders
<1>13. SchedulerTypeOK'
  BY <1>0, <1>3, <1>5, <1>10 DEF SchedulerTypeOK, Phases, textVars
<1>14. OnlyConcerns(r)
  BY <1>3, <1>5, <1>9 DEF OnlyConcerns, SameRequest, SameText, SamePlace, SameSlot, textVars
<1>15. RequestOK(r)'
  <2>1. TextOK(r)'
    BY <1>3, <1>7, TextKept DEF SameText, textVars
  <2>2. RestoredOK(r)'
    BY <1>3, <1>7 DEF RestoredOK, textVars, Saved
  <2>3. r \notin Decoding' /\ r \notin Prefills' /\ r \in loading'
    BY <1>3, <1>5, <1>6
  <2> QED BY <2>1, <2>2, <2>3 DEF RequestOK, InFlight
<1>16. PhaseOK'
  <2>1. LoadableOK(r)'
    BY <1>3, <1>9, <1>10 DEF LoadableOK, textVars
  <2>2. \A x \in Decoding' : status'[x] = "in"
    BY <1>0, <1>3, <1>5 DEF PhaseOK, textVars
  <2> QED BY <1>3, <2>1, <2>2 DEF PhaseOK, Failed
<1> QED BY <1>0, <1>9, <1>11, <1>12, <1>13, <1>14, <1>15, <1>16, OneMoves DEF BatcherInv

-----------------------------------------------------------------------------
(* Forward passes *)

\* The only request being loaded, in the phases of a load.
LEMMA LoadingFacts ==
  ASSUME SchedulerInv, phase \in {"load", "register", "join"}
  PROVE  \E r \in Req :
           /\ loading = {r} /\ r \in DOMAIN slotOf /\ TextOK(r) /\ RestoredOK(r)
           /\ r \notin Decoding /\ r \notin Prefills /\ r \notin Evicted
           /\ tokens[r] \in Seq(Token) /\ tokens[r] # <<>>
<1>1. PICK r \in Req : loading = {r}
  BY DEF SchedulerInv, PhaseOK
<1>2. TextOK(r) /\ RestoredOK(r)
  BY <1>1 DEF SchedulerInv, RequestOK
<1>3. r \in DOMAIN slotOf /\ r \notin Decoding /\ r \notin Prefills /\ r \notin Evicted
  BY <1>1 DEF SchedulerInv, SlotHolders, QueuesApart
<1>4. tokens[r] \in Seq(Token) /\ tokens[r] # <<>>
  BY <1>2, TokensFacts DEF SchedulerInv
<1> QED BY <1>1, <1>2, <1>3, <1>4

\* prefill_chunk feeds the next chunk; the last chunk completes the prompt.
LEMMA PrefillChunkInv ==
  ASSUME BatcherInv, PrefillChunk
  PROVE  BatcherInv'
<1>0. SchedulerInv /\ SchedulerTypeOK /\ QueuesApart /\ SlotsOK /\ SlotHolders /\ PhaseOK /\ KVInv
  BY DEF BatcherInv, SchedulerInv
<1>1. prefilling # <<>> /\ phase = "prefill" /\ loading = {} /\ FrontShort = 0
  BY <1>0 DEF PrefillChunk, PhaseOK, Failed
<1>2. PICK r \in Req : r = Head(prefilling)
  BY <1>0, <1>1, EndsOfQueue, QueueMembers DEF SchedulerTypeOK, QueuesApart
<1>3. /\ r \in Prefills /\ Tail(prefilling) \in Seq(Req) /\ NoRepeat(Tail(prefilling))
      /\ ToSet(Tail(prefilling)) = Prefills \ {r}
  BY <1>0, <1>1, <1>2, EndsOfQueue DEF SchedulerTypeOK, QueuesApart, Prefills
<1>4. /\ r \in DOMAIN slotOf /\ TextOK(r) /\ PrefillsOK(r)
      /\ r \notin Decoding /\ r \notin Evicted /\ r \notin loading /\ tokens[r] = Prompt[r]
  BY <1>0, <1>3, PrefillsFacts
<1>5. PICK e \in Nat : e = ChunkEnd(r) /\ prefillPos[r] <= e /\ e <= Len(Prompt[r])
  <2>1. /\ prefillPos[r] \in Nat /\ Len(Prompt[r]) \in Nat /\ Chunk \in Nat
        /\ prefillPos[r] < Len(Prompt[r])
    BY <1>0, <1>4, PromptFacts, BatcherAssumption DEF SchedulerTypeOK, PrefillsOK
  <2> DEFINE m == prefillPos[r]
             n == Len(Prompt[r])
  <2>2. ChunkEnd(r) = IF m + Chunk < n THEN m + Chunk ELSE n
    BY DEF ChunkEnd
  <2>3. m \in Nat /\ n \in Nat /\ Chunk \in Nat /\ m < n
    BY <2>1
  <2> HIDE DEF m, n
  <2>4. ChunkEnd(r) \in Nat /\ m <= ChunkEnd(r) /\ ChunkEnd(r) <= n
    BY <2>2, <2>3
  <2> QED BY <2>4 DEF m, n
<1>6. PICK text \in Seq(Token) : text = SubSeq(Prompt[r], 1, e) /\ Len(text) = e
  <2>1. e \in 0..Len(Prompt[r]) /\ Prompt[r] \in Seq(Token)
    BY <1>5, PromptFacts
  <2> QED BY <2>1, PrefixFacts
<1>7. /\ Len(text) <= MaxSeq /\ Len(held[slotOf[r]]) <= Len(text)
      /\ held[slotOf[r]] = SubSeq(text, 1, Len(held[slotOf[r]]))
  <2>1. prefillPos[r] \in 0..Len(Prompt[r]) /\ e \in 0..Len(Prompt[r]) /\ prefillPos[r] \in 0..e
    BY <1>0, <1>5 DEF SchedulerTypeOK
  <2>2. held[slotOf[r]] = SubSeq(Prompt[r], 1, prefillPos[r]) /\ Len(Prompt[r]) <= MaxSeq
    BY <1>4 DEF PrefillsOK
  <2>3. Len(held[slotOf[r]]) = prefillPos[r]
    BY <2>1, <2>2, PromptFacts, PrefixFacts
  <2>4. SubSeq(text, 1, prefillPos[r]) = SubSeq(Prompt[r], 1, prefillPos[r])
    BY <1>6, <2>1, PromptFacts, PrefixOfPrefix
  <2>5. e <= MaxSeq
    <3>1. \A a, b, c \in Int : a <= b /\ b <= c => a <= c
      OBVIOUS
    <3>2. e \in Int /\ Len(Prompt[r]) \in Int /\ MaxSeq \in Int
      BY PromptFacts, PagedKVAssumption
    <3> QED BY <1>5, <2>2, <3>1, <3>2
  <2> QED BY <1>5, <1>6, <2>2, <2>3, <2>4, <2>5
<1>8. BlocksShort(slotOf[r], Len(text)) = 0
  BY <1>1, <1>2, <1>5, <1>6 DEF FrontShort
<1>9. PICK entries, kept :
        /\ entries = [x \in Slot |-> IF x = slotOf[r] THEN KVOf(text, Len(held[slotOf[r]])) ELSE <<>>]
        /\ kept = [held EXCEPT ![slotOf[r]] = text]
        /\ WriteKV(entries, kept)
  BY <1>2, <1>5, <1>6 DEF PrefillChunk
<1>10. /\ prefillPos' = [prefillPos EXCEPT ![r] = e]
       /\ IF e < Len(Prompt[r])
          THEN phase' = "resched" /\ UNCHANGED <<after, prefilling, loading>>
          ELSE /\ prefilling' = Tail(prefilling) /\ loading' = {r}
               /\ phase' = "register" /\ after' = "resched"
       /\ UNCHANGED <<slotVars, active, preempted, textVars, cachedBlocks, hostKv, draft>>
  BY <1>2, <1>5 DEF PrefillChunk
<1>11. /\ KVInv' /\ SlotsOK' /\ held'[slotOf[r]] = text
       /\ \A x \in DOMAIN slotOf \ {r} : held'[slotOf[x]] = held[slotOf[x]]
  BY <1>0, <1>4, <1>7, <1>8, <1>9, <1>10, ForwardCall
<1>12. slotOf' = slotOf /\ Decoding' = Decoding /\ Evicted' = Evicted
  BY <1>10 DEF slotVars, Decoding, Evicted
<1>13. TextOK(r)'
  BY <1>4, <1>10, TextKept DEF SameText, textVars
<1>14. \A x \in Decoding' : status'[x] = "in"
  BY <1>0, <1>1, <1>10, <1>12 DEF PhaseOK, textVars
<1>15. CASE e < Len(Prompt[r])
  <2>1. UNCHANGED <<after, prefilling, loading>> /\ phase' = "resched" /\ Prefills' = Prefills
    BY <1>10, <1>15 DEF Prefills
  <2>2. QueuesApart'
    BY <1>0, <1>10, <1>12, <2>1 DEF QueuesApart
  <2>3. SlotHolders'
    BY <1>0, <1>12, <2>1 DEF SlotHolders
  <2>4. SchedulerTypeOK'
    BY <1>0, <1>10, <2>1 DEF SchedulerTypeOK, Phases, textVars
  <2>5. OnlyConcerns(r)
    BY <1>0, <1>10, <1>11, <1>12, <2>1
       DEF OnlyConcerns, SameRequest, SameText, SamePlace, SameSlot, SchedulerTypeOK, textVars
  <2>6. RequestOK(r)'
    <3>1. prefillPos'[r] = e
      BY <1>0, <1>10 DEF SchedulerTypeOK
    <3>2. PrefillsOK(r)'
      BY <1>4, <1>6, <1>10, <1>11, <1>12, <1>15, <3>1 DEF PrefillsOK, textVars
    <3>3. r \notin Decoding' /\ r \in Prefills' /\ r \notin Evicted' /\ r \notin loading'
      BY <1>3, <1>4, <1>12, <2>1
    <3> QED BY <1>13, <3>2, <3>3 DEF RequestOK, InFlight, Prefills
  <2>7. PhaseOK'
    BY <1>1, <1>14, <2>1, CalmPhase
  <2> QED BY <1>0, <1>11, <2>2, <2>3, <2>4, <2>5, <2>6, <2>7, OneMoves DEF BatcherInv
<1>16. CASE ~(e < Len(Prompt[r]))
  <2>1. /\ prefilling' = Tail(prefilling) /\ loading' = {r} /\ phase' = "register"
        /\ after' = "resched" /\ Prefills' = Prefills \ {r}
    BY <1>3, <1>10, <1>16 DEF Prefills
  <2>2. QueuesApart'
    BY <1>0, <1>3, <1>4, <1>10, <1>12, <2>1 DEF QueuesApart
  <2>3. SlotHolders'
    BY <1>0, <1>1, <1>3, <1>12, <2>1 DEF SlotHolders
  <2>4. SchedulerTypeOK'
    BY <1>0, <1>3, <1>10, <2>1 DEF SchedulerTypeOK, Phases, textVars
  <2>5. OnlyConcerns(r)
    BY <1>0, <1>1, <1>10, <1>11, <1>12, <2>1
       DEF OnlyConcerns, SameRequest, SameText, SamePlace, SameSlot, SchedulerTypeOK, textVars
  <2>6. RequestOK(r)'
    <3>1. RestoredOK(r)'
      BY <1>4, <1>10 DEF RestoredOK, PrefillsOK, textVars
    <3>2. r \notin Decoding' /\ r \notin Prefills' /\ r \in loading'
      BY <1>4, <1>12, <2>1
    <3> QED BY <1>13, <3>1, <3>2 DEF RequestOK, InFlight
  <2>7. text = Prompt[r]
    <3>1. e = Len(Prompt[r])
      <4>1. Len(Prompt[r]) \in Nat
        BY PromptFacts
      <4> QED BY <1>5, <1>16, <4>1, TextTypes, <1>0
    <3> QED BY <1>6, <3>1, PromptFacts, SubSeqFull
  <2>8. PhaseOK'
    <3>1. hostKv'[r] = <<>> /\ held'[slotOf'[r]] = tokens'[r]
      BY <1>4, <1>10, <1>11, <1>12, <2>7 DEF PrefillsOK, textVars
    <3> QED BY <1>14, <2>1, <3>1 DEF PhaseOK, Failed
  <2> QED BY <1>0, <1>11, <2>2, <2>3, <2>4, <2>5, <2>6, <2>8, OneMoves DEF BatcherInv
<1> QED BY <1>15, <1>16

\* The two ways a restored request got its KV: recomputed after the cached prefix, or
\* copied back and completed by the row of its last token.  Both store its own text.
LEMMA LoadedEntries ==
  ASSUME KVInv, SlotsOK, NEW r \in DOMAIN slotOf, NEW text \in Seq(Token), text # <<>>,
         NEW host, host \in {<<>>, Saved(text)}, host # <<>> => held[slotOf[r]] = <<>>
  PROVE  [x \in Slot |-> IF x # slotOf[r] THEN <<>>
                         ELSE IF host # <<>> THEN Append(host, text)
                         ELSE KVOf(text, Len(held[slotOf[r]]))]
         = [x \in Slot |-> IF x = slotOf[r] THEN KVOf(text, Len(held[slotOf[r]])) ELSE <<>>]
<1>1. CASE host = <<>>
  BY <1>1
<1>2. CASE host # <<>>
  <2>1. host = Saved(text) /\ held[slotOf[r]] = <<>>
    BY <1>2
  <2>2. Append(Saved(text), text) = KVOf(text, 0)
    <3> DEFINE n == Len(text)
    <3>1. n \in Nat \ {0} /\ text = SubSeq(text, 1, n)
      BY SubSeqFull
    <3>2. /\ Saved(text) \in Seq(Seq(Token)) /\ Len(Saved(text)) = n - 1
          /\ \A i \in 1..(n - 1) : Saved(text)[i] = SubSeq(text, 1, i)
      BY SavedType DEF Saved
    <3>3. /\ Append(Saved(text), text) \in Seq(Seq(Token))
          /\ Len(Append(Saved(text), text)) = (n - 1) + 1
          /\ \A i \in 1..(n - 1) : Append(Saved(text), text)[i] = Saved(text)[i]
          /\ Append(Saved(text), text)[(n - 1) + 1] = text
      BY <3>2, AppendProperties
    <3>4. KVOf(text, 0) = [i \in 1..n |-> SubSeq(text, 1, i)]
      BY <3>1 DEF KVOf
    <3> DEFINE a == Append(Saved(text), text)
    <3>5. a \in Seq(Seq(Token)) /\ Len(a) = n /\ \A i \in 1..n : a[i] = SubSeq(text, 1, i)
      <4>0. \A m \in Nat \ {0} : (m - 1) + 1 = m /\ \A i \in 1..m : i \in 1..(m - 1) \/ i = m
        OBVIOUS
      <4> HIDE DEF n
      <4>1. (n - 1) + 1 = n /\ \A i \in 1..n : i \in 1..(n - 1) \/ i = n
        BY <3>1, <4>0
      <4> QED BY <3>1, <3>2, <3>3, <4>1
    <3> HIDE DEF a, n
    <3>6. a = [i \in 1..n |-> SubSeq(text, 1, i)]
      BY <3>1, <3>5
    <3> QED BY <3>4, <3>6 DEF a
  <2>3. Len(held[slotOf[r]]) = 0
    BY <2>1
  <2> QED BY <1>2, <2>1, <2>2, <2>3
<1> QED BY <1>1, <1>2

\* A restore, recomputed or swapped in, leaves the slot with the request's text.
LEMMA LoadInv ==
  ASSUME BatcherInv, Load
  PROVE  BatcherInv'
<1>0. SchedulerInv /\ SchedulerTypeOK /\ QueuesApart /\ SlotsOK /\ SlotHolders /\ PhaseOK /\ KVInv
  BY DEF BatcherInv, SchedulerInv
<1>1. phase = "load"
  BY DEF Load
<1>2. PICK r \in Req :
        /\ loading = {r} /\ r \in DOMAIN slotOf /\ TextOK(r) /\ RestoredOK(r)
        /\ r \notin Decoding /\ r \notin Prefills /\ r \notin Evicted
        /\ tokens[r] \in Seq(Token) /\ tokens[r] # <<>>
  BY <1>0, <1>1, LoadingFacts
<1>3. PICK text \in Seq(Token) : text = tokens[r] /\ text # <<>>
  BY <1>2
<1>4. PICK host : host = hostKv[r] /\ host \in {<<>>, Saved(text)}
  BY <1>2, <1>3 DEF RestoredOK
<1>5. /\ Len(text) <= MaxSeq /\ BlocksShort(slotOf[r], Len(text)) = 0
      /\ phase' = IF hostKv[r] = <<>> THEN "register" ELSE "join"
      /\ UNCHANGED <<after, slotVars, queueVars, textVars, loadVars>>
  BY <1>2, <1>3 DEF Load
<1>6. WriteKV([x \in Slot |-> IF x # slotOf[r] THEN <<>>
                              ELSE IF host # <<>> THEN Append(host, text)
                              ELSE KVOf(text, Len(held[slotOf[r]]))],
              [held EXCEPT ![slotOf[r]] = text])
  BY <1>2, <1>3, <1>4 DEF Load
<1>7. LoadableOK(r)
  BY <1>0, <1>1, <1>2 DEF PhaseOK
<1>8. PICK entries, kept :
        /\ entries = [x \in Slot |-> IF x = slotOf[r] THEN KVOf(text, Len(held[slotOf[r]])) ELSE <<>>]
        /\ kept = [held EXCEPT ![slotOf[r]] = text]
        /\ WriteKV(entries, kept)
  <2>1. host # <<>> => held[slotOf[r]] = <<>>
    BY <1>4, <1>7 DEF LoadableOK
  <2>2. SlotsOK /\ KVInv
    BY <1>0
  <2>3. text # <<>>
    BY <1>3
  <2> DEFINE entries == [x \in Slot |-> IF x # slotOf[r] THEN <<>>
                                        ELSE IF host # <<>> THEN Append(host, text)
                                        ELSE KVOf(text, Len(held[slotOf[r]]))]
  <2>4. entries = [x \in Slot |-> IF x = slotOf[r] THEN KVOf(text, Len(held[slotOf[r]])) ELSE <<>>]
    BY <1>2, <1>4, <2>1, <2>2, <2>3, LoadedEntries
  <2>5. WriteKV(entries, [held EXCEPT ![slotOf[r]] = text])
    BY <1>6
  <2> HIDE DEF entries
  <2> QED BY <2>4, <2>5
<1>9. /\ Len(held[slotOf[r]]) <= Len(text)
      /\ held[slotOf[r]] = SubSeq(text, 1, Len(held[slotOf[r]]))
  <2>1. held[slotOf[r]] \in Seq(Token) /\ Len(text) \in Nat
    BY <1>0, <1>2, SlotTypes DEF SlotsOK, KVInv, Books
  <2>2. CASE hostKv[r] = <<>>
    <3>1. /\ Len(held[slotOf[r]]) < Len(text)
          /\ held[slotOf[r]] = SubSeq(text, 1, Len(held[slotOf[r]]))
      BY <1>3, <1>7, <2>2 DEF LoadableOK
    <3> DEFINE n == Len(held[slotOf[r]])
    <3>2. n \in Nat
      BY <2>1
    <3> HIDE DEF n
    <3>3. n < Len(text) => n <= Len(text)
      BY <2>1, <3>2
    <3> QED BY <3>1, <3>3 DEF n
  <2>3. CASE hostKv[r] # <<>>
    <3>1. held[slotOf[r]] = <<>>
      BY <1>7, <2>3 DEF LoadableOK
    <3>2. SubSeq(text, 1, 0) = <<>> /\ Len(<<>>) = 0
      BY SubSeqEmpty
    <3> QED BY <2>1, <3>1, <3>2
  <2> QED BY <2>2, <2>3
<1>10. UNCHANGED slotVars
  BY <1>5
<1>11. /\ KVInv' /\ SlotsOK' /\ held'[slotOf[r]] = text
       /\ \A x \in DOMAIN slotOf \ {r} : held'[slotOf[x]] = held[slotOf[x]]
  BY <1>0, <1>2, <1>5, <1>8, <1>9, <1>10, ForwardCall
<1>12. /\ UNCHANGED <<slotOf, tokens, hostKv, status, loading, after>>
       /\ Decoding' = Decoding /\ Prefills' = Prefills /\ Evicted' = Evicted
  BY <1>5 DEF slotVars, textVars, loadVars, queueVars, Decoding, Prefills, Evicted
<1>13. QueuesApart'
  BY <1>0, <1>5, <1>12 DEF QueuesApart, queueVars
<1>14. SlotHolders'
  BY <1>0, <1>12 DEF SlotHolders
<1>15. SchedulerTypeOK'
  BY <1>0, <1>5 DEF SchedulerTypeOK, Phases, textVars, loadVars, queueVars
<1>16. OnlyConcerns(r)
  BY <1>5, <1>11, <1>12
     DEF OnlyConcerns, SameRequest, SameText, SamePlace, SameSlot, textVars, loadVars
<1>17. RequestOK(r)'
  <2>1. TextOK(r)'
    BY <1>2, <1>5, TextKept DEF SameText, textVars
  <2>2. RestoredOK(r)'
    BY <1>2, <1>12 DEF RestoredOK, Saved
  <2>3. r \notin Decoding' /\ r \notin Prefills' /\ r \in loading'
    BY <1>2, <1>12
  <2> QED BY <2>1, <2>2, <2>3 DEF RequestOK, InFlight
<1>18. PhaseOK'
  <2>1. \A x \in Decoding' : status'[x] = "in"
    BY <1>0, <1>1, <1>12 DEF PhaseOK
  <2>2. held'[slotOf'[r]] = tokens'[r] /\ loading' = {r}
    BY <1>2, <1>3, <1>11, <1>12
  <2>3. phase' = "register" => hostKv'[r] = <<>>
    BY <1>5, <1>12
  <2>4. phase' \in {"register", "join"}
    BY <1>5
  <2> QED BY <2>1, <2>2, <2>3, <2>4 DEF PhaseOK, Failed
<1> QED BY <1>0, <1>2, <1>11, <1>13, <1>14, <1>15, <1>16, <1>17, <1>18, OneMoves DEF BatcherInv

\* The selected token ends the request or lets it join the batch.
LEMMA JoinInv ==
  ASSUME BatcherInv, Join
  PROVE  BatcherInv'
<1>0. SchedulerInv /\ SchedulerTypeOK /\ QueuesApart /\ SlotsOK /\ SlotHolders /\ PhaseOK /\ KVInv
  BY DEF BatcherInv, SchedulerInv
<1>1. phase = "join"
  BY DEF Join
<1>2. PICK r \in Req :
        /\ loading = {r} /\ r \in DOMAIN slotOf /\ TextOK(r) /\ RestoredOK(r)
        /\ r \notin Decoding /\ r \notin Prefills /\ r \notin Evicted
        /\ tokens[r] \in Seq(Token) /\ tokens[r] # <<>>
  BY <1>0, <1>1, LoadingFacts
<1>3. PICK g \in Token :
        /\ Emit(r, g)
        /\ IF DoneWith(r, Append(tokens[r], g))
           THEN /\ Vacate(r) /\ Finish(r) /\ UNCHANGED active
           ELSE /\ active' = Append(active, r)
                /\ UNCHANGED <<kvVars, slotVars, finished, status>>
  BY <1>2 DEF Join
<1>4. /\ loading' = {} /\ phase' = after /\ hostKv' = [hostKv EXCEPT ![r] = <<>>]
      /\ UNCHANGED <<after, prefilling, preempted, prefillPos, cachedBlocks, draft>>
  BY <1>2 DEF Join
<1>5. status[r] = "in" /\ held[slotOf[r]] = tokens[r] /\ after \in {"idle", "resched"}
  BY <1>0, <1>1, <1>2 DEF RestoredOK, PhaseOK, SchedulerTypeOK
<1>6. /\ tokens' \in [Req -> Seq(Token)] /\ emitted' \in [Req -> Seq(Token)]
      /\ \A x \in Req \ {r} : tokens'[x] = tokens[x] /\ emitted'[x] = emitted[x]
  BY <1>0, <1>3, TextTypes, AppendProperties DEF Emit
<1>7. phase' \in {"idle", "resched"} /\ hostKv' \in [Req -> Seq(Seq(Token))]
      /\ hostKv'[r] = <<>> /\ \A x \in Req \ {r} : hostKv'[x] = hostKv[x]
  BY <1>0, <1>4, <1>5 DEF SchedulerTypeOK
<1>8. CASE DoneWith(r, Append(tokens[r], g))
  <2>1. /\ Vacate(r) /\ Finish(r) /\ active' = active
    BY <1>3, <1>8
  <2>2. /\ KVInv' /\ SlotsOK' /\ DOMAIN slotOf' = DOMAIN slotOf \ {r}
        /\ \A x \in DOMAIN slotOf \ {r} :
             slotOf'[x] = slotOf[x] /\ held'[slotOf[x]] = held[slotOf[x]]
    BY <1>0, <1>2, <2>1, VacateCall
  <2>3. Decoding' = Decoding /\ Prefills' = Prefills /\ Evicted' = Evicted
    BY <1>4, <2>1 DEF Decoding, Prefills, Evicted
  <2>4. /\ status' = [status EXCEPT ![r] = "done"] /\ finished' = [finished EXCEPT ![r] = @ + 1]
    BY <2>1 DEF Finish
  <2>5. /\ status' \in [Req -> {"new", "in", "done", "cancelled"}] /\ finished' \in [Req -> Nat]
        /\ status'[r] = "done" /\ finished'[r] = finished[r] + 1
        /\ \A x \in Req \ {r} : status'[x] = status[x] /\ finished'[x] = finished[x]
    BY <1>0, <2>4 DEF SchedulerTypeOK
  <2>6. TextOK(r)' /\ emitted'[r] # <<>>
    BY <1>0, <1>2, <1>3, <1>5, <1>8, <2>5, EmitOne
  <2>7. QueuesApart'
    BY <1>0, <1>4, <2>1, <2>3 DEF QueuesApart
  <2>8. SlotHolders'
    BY <1>0, <1>2, <1>4, <2>2, <2>3 DEF SlotHolders
  <2>9. SchedulerTypeOK'
    BY <1>0, <1>4, <1>6, <1>7, <2>1, <2>5 DEF SchedulerTypeOK, Phases
  <2>10. OnlyConcerns(r)
    BY <1>2, <1>4, <1>6, <1>7, <2>2, <2>3, <2>5
       DEF OnlyConcerns, SameRequest, SameText, SamePlace, SameSlot
  <2>11. RequestOK(r)'
    <3>1. OutsideOK(r)'
      BY <1>7, <2>5 DEF OutsideOK
    <3>2. r \notin Decoding' /\ r \notin Prefills' /\ r \notin Evicted' /\ r \notin loading'
      BY <1>2, <1>4, <2>3
    <3> QED BY <2>6, <3>1, <3>2 DEF RequestOK
  <2>12. PhaseOK'
    <3>1. \A x \in Decoding' : status'[x] = "in"
      <4> SUFFICES ASSUME NEW x \in Decoding PROVE status'[x] = "in"
        BY <2>3
      <4>1. x \in Req /\ x # r /\ status[x] = "in"
        BY <1>0, <1>1, <1>2, DecodingFacts DEF PhaseOK
      <4> QED BY <2>5, <4>1
    <3> QED BY <1>4, <1>7, <3>1, CalmPhase
  <2> QED BY <1>0, <2>2, <2>7, <2>8, <2>9, <2>10, <2>11, <2>12, OneMoves DEF BatcherInv
<1>9. CASE ~DoneWith(r, Append(tokens[r], g))
  <2>1. /\ active' = Append(active, r) /\ UNCHANGED <<kvVars, slotVars, finished, status>>
    BY <1>3, <1>9
  <2>2. KVInv' /\ held' = held /\ slotBlocks' = slotBlocks
    BY <1>0, <2>1, PoolKept
  <2>3. SlotsOK' /\ slotOf' = slotOf
    BY <1>0, <2>1, <2>2, SlotsKeep DEF slotVars
  <2>4. /\ active' \in Seq(Req) /\ NoRepeat(active') /\ Decoding' = Decoding \cup {r}
        /\ Prefills' = Prefills /\ Evicted' = Evicted
    BY <1>0, <1>2, <1>4, <2>1, AppendQueue
       DEF SchedulerTypeOK, QueuesApart, Decoding, Prefills, Evicted
  <2>5. TextOK(r)' /\ emitted'[r] # <<>> /\ Front(tokens'[r]) = tokens[r]
    <3>1. status'[r] = "in" /\ finished'[r] = finished[r]
      BY <1>5, <2>1
    <3> QED BY <1>0, <1>2, <1>3, <1>5, <1>9, <3>1, EmitOne
  <2>7. QueuesApart'
    BY <1>0, <1>2, <1>4, <2>4 DEF QueuesApart
  <2>8. SlotHolders'
    BY <1>0, <1>2, <1>4, <2>3, <2>4 DEF SlotHolders
  <2>9. SchedulerTypeOK'
    BY <1>0, <1>4, <1>6, <1>7, <2>1, <2>4 DEF SchedulerTypeOK, Phases
  <2>10. OnlyConcerns(r)
    BY <1>2, <1>4, <1>6, <1>7, <2>1, <2>2, <2>3, <2>4
       DEF OnlyConcerns, SameRequest, SameText, SamePlace, SameSlot
  <2>11. RequestOK(r)'
    <3>1. DecodingOK(r)'
      BY <1>5, <1>7, <2>1, <2>2, <2>3, <2>5 DEF DecodingOK
    <3>2. r \in Decoding' /\ r \notin Prefills' /\ r \notin Evicted' /\ r \notin loading'
      BY <1>2, <1>4, <2>4
    <3> QED BY <2>5, <3>1, <3>2 DEF RequestOK, InFlight, Decoding
  <2>12. PhaseOK'
    <3>1. \A x \in Decoding' : status'[x] = "in"
      BY <1>0, <1>1, <1>5, <2>1, <2>4 DEF PhaseOK
    <3> QED BY <1>4, <1>7, <3>1, CalmPhase
  <2> QED BY <1>0, <2>2, <2>3, <2>7, <2>8, <2>9, <2>10, <2>11, <2>12, OneMoves DEF BatcherInv
<1> QED BY <1>8, <1>9

-----------------------------------------------------------------------------
(* The decode step *)

\* accepted_len: the rows agree with the draft as far as it is accepted.
LEMMA AcceptedFacts ==
  ASSUME NEW d \in Seq(Token), NEW o \in [1..(Len(d) + 1) -> Token]
  PROVE  /\ Accepted(d, o) \in 0..Len(d)
         /\ \A i \in 1..Accepted(d, o) : o[i] = d[i]
<1> DEFINE m == Len(d)
           Agrees(n) == \A i \in 1..n : o[i] = d[i]
           T == {n \in 0..m : Agrees(n)}
<1>1. m \in Nat
  OBVIOUS
<1>2. \E n \in 0..m : Agrees(n) /\ (n < m => o[n + 1] # d[n + 1])
  <2>1. 0 \in T
    BY <1>1
  <2>2. PICK x \in T : \A y \in T : y <= x
    <3>1. T \in SUBSET (0..m) /\ T # {}
      BY <2>1
    <3> HIDE DEF T
    <3> QED BY <1>1, <3>1, LargestExists
  <2>3. ASSUME x < m, o[x + 1] = d[x + 1] PROVE FALSE
    <3> HIDE DEF m
    <3>1. x + 1 \in 0..m /\ \A i \in 1..(x + 1) : i \in 1..x \/ i = x + 1
      BY <1>1, <2>3
    <3>2. Agrees(x + 1)
      BY <2>3, <3>1
    <3>3. x + 1 \in T
      BY <3>1, <3>2
    <3> QED BY <1>1, <2>2, <3>3
  <2> QED BY <2>2, <2>3
<1>3. Accepted(d, o) = CHOOSE n \in 0..m : Agrees(n) /\ (n < m => o[n + 1] # d[n + 1])
  BY DEF Accepted
<1> HIDE DEF m, Agrees
<1>4. Accepted(d, o) \in 0..m /\ Agrees(Accepted(d, o))
  BY <1>2, <1>3
<1> QED BY <1>4 DEF m, Agrees

\* What step_pld commits: outputs that agree with the draft but for the last, and
\* only the last may end the request.
LEMMA CommittedFacts ==
  ASSUME NEW r \in Req, NEW d \in Seq(Token), d = draft[r],
         NEW o \in [1..(Len(d) + 1) -> Token]
  PROVE  \E n \in 1..(Len(d) + 1) :
           /\ Committed(r, o) = SubSeq(o, 1, n)
           /\ \A i \in 1..(n - 1) :
                o[i] = d[i] /\ ~DoneWith(r, tokens[r] \o SubSeq(o, 1, i))
<1> DEFINE a == Accepted(d, o)
           c == SubSeq(o, 1, a + 1)
           Over(i) == DoneWith(r, tokens[r] \o SubSeq(c, 1, i))
           ends == {i \in 1..Len(c) : Over(i)}
<1>1. a \in 0..Len(d) /\ \A i \in 1..a : o[i] = d[i]
  BY AcceptedFacts
<1> HIDE DEF a
<1>2. a + 1 \in 1..(Len(d) + 1) /\ a + 1 \in Nat /\ Len(d) \in Nat
  BY <1>1
<1>3. o \in Seq(Token) /\ Len(o) = Len(d) + 1
  BY <1>2
<1>4. c \in Seq(Token) /\ Len(c) = a + 1
  <2>1. a + 1 \in 0..Len(o)
    BY <1>2, <1>3
  <2> QED BY <1>3, <2>1, PrefixFacts
<1>5. \A i \in 0..(a + 1) : SubSeq(c, 1, i) = SubSeq(o, 1, i)
  <2>1. a + 1 \in 0..Len(o)
    BY <1>2, <1>3
  <2> QED BY <1>3, <2>1, PrefixOfPrefix
<1>6. Committed(r, o) = IF ends = {} THEN c
                        ELSE SubSeq(c, 1, CHOOSE i \in ends : \A j \in ends : i <= j)
  BY DEF Committed, a
<1> HIDE DEF c
<1>7. CASE ends = {}
  <2>1. Committed(r, o) = SubSeq(o, 1, a + 1)
    BY <1>6, <1>7 DEF c
  <2>2. ASSUME NEW i \in 1..((a + 1) - 1) PROVE o[i] = d[i] /\ ~DoneWith(r, tokens[r] \o SubSeq(o, 1, i))
    <3>0. a \in Nat
      BY <1>1
    <3>1. i \in 1..a /\ i \in 1..Len(c) /\ i \in 0..(a + 1)
      BY <1>4, <3>0
    <3>2. ~Over(i)
      BY <1>7, <3>1
    <3> QED BY <1>1, <1>5, <3>1, <3>2
  <2> QED BY <1>2, <2>1, <2>2
<1>8. CASE ends # {}
  <2> DEFINE n == CHOOSE i \in ends : \A j \in ends : i <= j
  <2>1. n \in ends /\ \A j \in ends : n <= j
    <3>1. ends \in SUBSET (1..(a + 1))
      BY <1>4
    <3>2. \E i \in ends : \A j \in ends : i <= j
      <4> HIDE DEF ends
      <4> QED BY <1>2, <1>8, <3>1, SmallestExists
    <3> HIDE DEF ends
    <3> QED BY <3>2
  <2> HIDE DEF n
  <2>2. n \in 1..(a + 1)
    BY <1>4, <2>1
  <2>3. n \in 1..(Len(d) + 1) /\ n \in 0..(a + 1) /\ n - 1 <= a
    BY <1>1, <1>2, <2>2
  <2>4. Committed(r, o) = SubSeq(o, 1, n)
    BY <1>5, <1>6, <1>8, <2>3 DEF n
  <2>5. ASSUME NEW i \in 1..(n - 1) PROVE o[i] = d[i] /\ ~DoneWith(r, tokens[r] \o SubSeq(o, 1, i))
    <3>1. i \in 1..a /\ i \in 1..Len(c) /\ i \in 0..(a + 1) /\ ~(n <= i)
      BY <1>1, <1>2, <1>4, <2>2
    <3>2. ~Over(i)
      BY <2>1, <3>1
    <3> QED BY <1>1, <1>5, <3>1, <3>2
  <2> QED BY <2>3, <2>4, <2>5
<1> QED BY <1>7, <1>8

\* seq_done after a row: it looks at the row's token and at how many there are now.
LEMMA DoneAfter ==
  ASSUME SchedulerTypeOK, NEW r \in Req, TextOK(r), NEW c \in Seq(Token), c # <<>>
  PROVE  DoneWith(r, tokens[r] \o c) <=>
           c[Len(c)] = Eos \/ Len(emitted[r]) + Len(c) >= MaxTokens[r]
<1>1. /\ tokens[r] \in Seq(Token) /\ Len(tokens[r]) \in Nat /\ Len(Prompt[r]) \in Nat
      /\ Len(emitted[r]) \in Nat /\ Len(tokens[r]) = Len(Prompt[r]) + Len(emitted[r])
  BY TokensFacts, PromptFacts
<1>2. Len(c) \in Nat \ {0}
  OBVIOUS
<1>3. /\ Len(tokens[r] \o c) = Len(tokens[r]) + Len(c)
      /\ \A i \in 1..(Len(tokens[r]) + Len(c)) :
           (tokens[r] \o c)[i] = IF i <= Len(tokens[r]) THEN tokens[r][i] ELSE c[i - Len(tokens[r])]
  BY <1>1, ConcatProperties, ZenonT(60)
<1>4. \A p, e, k \in Nat : \A t \in Nat : t = p + e /\ k # 0 =>
        t + k \in 1..(t + k) /\ ~(t + k <= t) /\ (t + k) - t = k /\ (t + k) - p = e + k
  OBVIOUS
<1>5. /\ (tokens[r] \o c)[Len(tokens[r] \o c)] = c[Len(c)]
      /\ Len(tokens[r] \o c) - Len(Prompt[r]) = Len(emitted[r]) + Len(c)
  BY <1>1, <1>2, <1>3, <1>4, TextTypes
<1> QED BY <1>5 DEF DoneWith

\* The committed tokens extend the text, and only the last of them may end it.
LEMMA CommitKeepsText ==
  ASSUME SchedulerTypeOK, NEW r \in Req, TextOK(r), status[r] = "in",
         NEW c \in Seq(Token), c # <<>>,
         \A i \in 1..(Len(c) - 1) : ~DoneWith(r, tokens[r] \o SubSeq(c, 1, i)),
         tokens'[r] = tokens[r] \o c, emitted'[r] = emitted[r] \o c,
         status'[r] = IF DoneWith(r, tokens'[r]) THEN "done" ELSE status[r],
         finished'[r] = IF DoneWith(r, tokens'[r]) THEN finished[r] + 1 ELSE finished[r]
  PROVE  TextOK(r)' /\ emitted'[r] # <<>> /\ status'[r] \in {"in", "done"}
<1> DEFINE k == Len(emitted[r])
           m == Len(c)
<1>1. /\ emitted[r] \in Seq(Token) /\ k \in Nat /\ m \in Nat \ {0} /\ MaxTokens[r] \in Nat
  <2>1. m \in Nat \ {0}
    OBVIOUS
  <2> QED BY <2>1, TokensFacts, PromptFacts
<1>2. /\ Len(emitted'[r]) = k + m
      /\ \A i \in 1..(k + m) : emitted'[r][i] = IF i <= k THEN emitted[r][i] ELSE c[i - k]
  BY <1>1, ConcatProperties
<1> HIDE DEF k
<1>3. \A i \in 1..k : emitted'[r][i] = emitted[r][i] /\ ~EndsAt(r, i)
  <2> SUFFICES ASSUME NEW i \in 1..k PROVE emitted'[r][i] = emitted[r][i] /\ ~EndsAt(r, i)
    OBVIOUS
  <2>1. i \in 1..(k + m) /\ i <= k
    BY <1>1
  <2>2. EndsAt(r, i) <=> i = Len(emitted[r]) /\ status[r] = "done"
    BY DEF TextOK, k
  <2> QED BY <1>2, <2>1, <2>2
<1>4. \A i \in 1..m : DoneWith(r, tokens[r] \o SubSeq(c, 1, i)) <=>
                        c[i] = Eos \/ k + i >= MaxTokens[r]
  <2> SUFFICES ASSUME NEW i \in 1..m
      PROVE  DoneWith(r, tokens[r] \o SubSeq(c, 1, i)) <=> c[i] = Eos \/ k + i >= MaxTokens[r]
    OBVIOUS
  <2>1. i \in 0..Len(c) /\ i \in 1..i
    OBVIOUS
  <2>2. /\ SubSeq(c, 1, i) \in Seq(Token) /\ Len(SubSeq(c, 1, i)) = i
        /\ SubSeq(c, 1, i)[i] = c[i]
    BY <2>1, PrefixFacts
  <2> DEFINE s == SubSeq(c, 1, i)
  <2>3. s \in Seq(Token) /\ Len(s) = i /\ s[i] = c[i] /\ s # <<>>
    BY <2>2
  <2> HIDE DEF s
  <2>4. DoneWith(r, tokens[r] \o s) <=> s[Len(s)] = Eos \/ Len(emitted[r]) + Len(s) >= MaxTokens[r]
    BY <2>3, DoneAfter
  <2> QED BY <2>3, <2>4 DEF s, k
<1>5. c = SubSeq(c, 1, m)
  BY SubSeqFull
<1>6. status'[r] = "done" <=> c[m] = Eos \/ k + m >= MaxTokens[r]
  <2>1. m \in 1..m
    BY <1>1
  <2>2. DoneWith(r, tokens'[r]) <=> c[m] = Eos \/ k + m >= MaxTokens[r]
    BY <1>4, <1>5, <2>1
  <2> QED BY <2>2
<1>7. \A i \in 1..(k + m) :
        (emitted'[r][i] = Eos \/ i >= MaxTokens[r]) <=> i = k + m /\ status'[r] = "done"
  <2> SUFFICES ASSUME NEW i \in 1..(k + m)
      PROVE  (emitted'[r][i] = Eos \/ i >= MaxTokens[r]) <=> i = k + m /\ status'[r] = "done"
    OBVIOUS
  <2> HIDE DEF m
  <2>1. CASE i \in 1..k
    <3>1. i # k + m
      BY <1>1, <2>1
    <3> QED BY <1>3, <2>1, <3>1 DEF EndsAt
  <2>2. CASE i - k \in 1..(m - 1)
    <3>1. i - k \in 1..m /\ i # k + m /\ k + (i - k) = i /\ ~(i <= k)
      BY <1>1, <2>2
    <3>2. ~(c[i - k] = Eos \/ k + (i - k) >= MaxTokens[r])
      BY <1>4, <2>2, <3>1 DEF m
    <3> QED BY <1>2, <3>1, <3>2
  <2>3. CASE i = k + m
    <3>1. i - k = m /\ ~(i <= k)
      BY <1>1, <2>3
    <3> QED BY <1>2, <1>6, <2>3, <3>1
  <2>4. i \in 1..k \/ i - k \in 1..(m - 1) \/ i = k + m
    BY <1>1
  <2> QED BY <2>1, <2>2, <2>3, <2>4
<1>8. tokens'[r] = Prompt[r] \o emitted'[r]
  <2>1. tokens[r] = Prompt[r] \o emitted[r]
    BY DEF TextOK
  <2>2. \A p, q \in Seq(Token) : (p \o q) \o c = p \o (q \o c)
    BY ConcatAssociative
  <2>3. (Prompt[r] \o emitted[r]) \o c = Prompt[r] \o (emitted[r] \o c)
    BY <1>1, <2>2, PromptFacts
  <2> QED BY <2>1, <2>3
<1>9. finished'[r] = IF status'[r] = "done" THEN 1 ELSE 0
  BY DEF TextOK
<1>10. emitted'[r] # <<>>
  <2>1. k + m # 0
    BY <1>1
  <2> QED BY <1>2, <2>1
<1>11. TextOK(r)'
  BY <1>2, <1>7, <1>8, <1>9 DEF TextOK, EndsAt
<1> QED BY <1>10, <1>11

\* The positions that stay fed are those of the text that was run.
LEMMA FrontOfLonger ==
  ASSUME NEW t \in Seq(Token), NEW d \in Seq(Token), NEW c \in Seq(Token), c # <<>>,
         Len(c) <= Len(d) + 1, \A i \in 1..(Len(c) - 1) : c[i] = d[i]
  PROVE  /\ Front(t \o c) \in Seq(Token) /\ Len(Front(t \o c)) = Len(t) + Len(c) - 1
         /\ Front(t \o c) = SubSeq(t \o d, 1, Len(t) + Len(c) - 1)
<1> DEFINE m == Len(t) + Len(c) - 1
<1>1. Len(t) \in Nat /\ Len(c) \in Nat \ {0} /\ Len(d) \in Nat
  OBVIOUS
<1>2. /\ t \o c \in Seq(Token) /\ Len(t \o c) = Len(t) + Len(c)
      /\ \A i \in 1..(Len(t) + Len(c)) : (t \o c)[i] = IF i <= Len(t) THEN t[i] ELSE c[i - Len(t)]
  BY ConcatProperties
<1>3. /\ t \o d \in Seq(Token) /\ Len(t \o d) = Len(t) + Len(d)
      /\ \A i \in 1..(Len(t) + Len(d)) : (t \o d)[i] = IF i <= Len(t) THEN t[i] ELSE d[i - Len(t)]
  BY ConcatProperties
<1>4. m \in 0..(Len(t) + Len(c)) /\ m \in 0..(Len(t) + Len(d))
  BY <1>1
<1>5. \A i \in 1..m : /\ i \in 1..(Len(t) + Len(c)) /\ i \in 1..(Len(t) + Len(d))
                      /\ ~(i <= Len(t)) => i - Len(t) \in 1..(Len(c) - 1)
  BY <1>1
<1> HIDE DEF m
<1>6. \A i \in 1..m : (t \o c)[i] = (t \o d)[i]
  BY <1>2, <1>3, <1>5
<1> DEFINE u == t \o c
           v == t \o d
<1>7. /\ u \in Seq(Token) /\ v \in Seq(Token) /\ m \in 0..Len(u) /\ m \in 0..Len(v)
      /\ \A i \in 1..m : u[i] = v[i]
  BY <1>2, <1>3, <1>4, <1>6
<1>8. Front(u) = SubSeq(u, 1, m)
  BY <1>2 DEF Front, m
<1> HIDE DEF u, v
<1>9. /\ SubSeq(u, 1, m) \in Seq(Token) /\ Len(SubSeq(u, 1, m)) = m
      /\ SubSeq(v, 1, m) \in Seq(Token) /\ Len(SubSeq(v, 1, m)) = m
      /\ \A i \in 1..m : SubSeq(u, 1, m)[i] = u[i] /\ SubSeq(v, 1, m)[i] = v[i]
  BY <1>7, PrefixFacts
<1>10. SubSeq(u, 1, m) = SubSeq(v, 1, m)
  BY <1>7, <1>9
<1> QED BY <1>8, <1>9, <1>10 DEF u, v, m

\* The same in terms of the committed tokens themselves.
LEMMA CommittedShape ==
  ASSUME SchedulerTypeOK, NEW r \in Req, NEW o \in [1..(Len(draft[r]) + 1) -> Token]
  PROVE  \E c \in Seq(Token) :
           /\ c = Committed(r, o) /\ c # <<>> /\ Len(c) <= Len(draft[r]) + 1
           /\ \A i \in 1..(Len(c) - 1) :
                c[i] = draft[r][i] /\ ~DoneWith(r, tokens[r] \o SubSeq(c, 1, i))
<1>1. PICK d \in Seq(Token) : d = draft[r]
  BY DEF SchedulerTypeOK
<1>2. Len(d) \in Nat /\ o \in [1..(Len(d) + 1) -> Token]
  BY <1>1
<1>3. PICK n \in 1..(Len(d) + 1) :
        /\ Committed(r, o) = SubSeq(o, 1, n)
        /\ \A i \in 1..(n - 1) : o[i] = d[i] /\ ~DoneWith(r, tokens[r] \o SubSeq(o, 1, i))
  BY <1>1, <1>2, CommittedFacts
<1>4. o \in Seq(Token) /\ Len(o) = Len(d) + 1 /\ n \in 0..Len(o) /\ n # 0
  BY <1>2
<1>5. PICK c : c = SubSeq(o, 1, n)
  OBVIOUS
<1>6. c \in Seq(Token) /\ Len(c) = n /\ \A i \in 1..n : c[i] = o[i]
  BY <1>4, <1>5, PrefixFacts
<1>7. \A i \in 1..(n - 1) : SubSeq(c, 1, i) = SubSeq(o, 1, i) /\ i \in 1..n
  <2> SUFFICES ASSUME NEW i \in 1..(n - 1) PROVE SubSeq(c, 1, i) = SubSeq(o, 1, i) /\ i \in 1..n
    OBVIOUS
  <2>1. i \in 0..n /\ i \in 1..n
    BY <1>4
  <2> QED BY <1>4, <1>5, <2>1, PrefixOfPrefix
<1>8. c # <<>> /\ Len(c) <= Len(d) + 1
  BY <1>2, <1>4, <1>6
<1>9. /\ c = Committed(r, o) /\ c # <<>> /\ Len(c) <= Len(draft[r]) + 1
      /\ \A i \in 1..(Len(c) - 1) :
           c[i] = draft[r][i] /\ ~DoneWith(r, tokens[r] \o SubSeq(c, 1, i))
  <2> SUFFICES ASSUME NEW i \in 1..(n - 1)
      PROVE  c[i] = draft[r][i] /\ ~DoneWith(r, tokens[r] \o SubSeq(c, 1, i))
    BY <1>1, <1>3, <1>5, <1>6, <1>8
  <2> QED BY <1>1, <1>3, <1>6, <1>7
<1> QED BY <1>6, <1>9

\* What a pass over one slot has to satisfy (Extends, slot by slot).
SlotExtends(s, entry, text, kept) ==
  /\ Len(held[s]) <= Len(kept) /\ Len(kept) <= Len(text)
  /\ held[s] = SubSeq(text, 1, Len(held[s]))
  /\ kept = SubSeq(text, 1, Len(kept))
  /\ Len(text) <= Len(slotBlocks[s]) * BlockSize
  /\ Len(text) - Len(held[s]) <= MaxSeq + BlockSize
  /\ Len(entry) = Len(text) - Len(held[s])
  /\ \A i \in 1..Len(entry) : entry[i] = SubSeq(text, 1, Len(held[s]) + i)

\* A slot whose request decodes runs its last token and its draft.
LEMMA DecodingSlotExtends ==
  ASSUME KVInv, SchedulerInv, NEW r \in Decoding,
         Rows(r) <= MaxSeq, BlocksShort(slotOf[r], Rows(r)) = 0,
         NEW c \in Seq(Token), c # <<>>, Len(c) <= Len(draft[r]) + 1,
         \A i \in 1..(Len(c) - 1) : c[i] = draft[r][i],
         NEW text, text = tokens[r] \o draft[r]
  PROVE  /\ text \in Seq(Token) /\ Front(tokens[r] \o c) \in Seq(Token)
         /\ SlotExtends(slotOf[r], KVOf(text, Len(held[slotOf[r]])), text,
                        Front(tokens[r] \o c))
<1> DEFINE h == held[slotOf[r]]
           kept == Front(tokens[r] \o c)
<1>1. PICK d \in Seq(Token) : d = draft[r]
  BY DecodingFacts DEF SchedulerInv, SchedulerTypeOK
<1>2. PICK t \in Seq(Token) : t = tokens[r] /\ t # <<>>
  BY DecodingFacts
<1>3. Len(t) \in Nat \ {0} /\ Len(d) \in Nat /\ Len(c) \in Nat \ {0}
  BY <1>2
<1>4. text \in Seq(Token) /\ Len(text) = Len(t) + Len(d) /\ Len(text) \in Nat
  <2>1. text = t \o d
    BY <1>1, <1>2
  <2>2. text \in Seq(Token) /\ Len(text) = Len(t) + Len(d)
    BY <2>1, ConcatProperties
  <2> QED BY <2>2
<1>5. /\ kept \in Seq(Token) /\ Len(kept) = Len(t) + Len(c) - 1
      /\ kept = SubSeq(text, 1, Len(kept))
  <2>1. /\ Front(t \o c) \in Seq(Token) /\ Len(Front(t \o c)) = Len(t) + Len(c) - 1
        /\ Front(t \o c) = SubSeq(t \o d, 1, Len(t) + Len(c) - 1)
    BY <1>1, FrontOfLonger
  <2> QED BY <1>1, <1>2, <2>1
<1>6. h = SubSeq(text, 1, Len(h)) /\ Len(h) = Len(t) - 1
  <2>1. h = Front(t)
    BY <1>2, DecodingFacts DEF DecodingOK
  <2>2. h = SubSeq(t, 1, Len(t) - 1) /\ Len(t) - 1 \in 0..Len(t)
    BY <1>3, <2>1 DEF Front
  <2>3. Len(h) = Len(t) - 1
    <3> HIDE DEF h
    <3> QED BY <2>2, PrefixFacts
  <2>4. SubSeq(t \o d, 1, Len(t)) = t /\ Len(t \o d) = Len(t) + Len(d) /\ t \o d \in Seq(Token)
    <3>1. t \o d \in Seq(Token) /\ Len(t \o d) = Len(t) + Len(d)
          /\ \A i \in 1..(Len(t) + Len(d)) : (t \o d)[i] = IF i <= Len(t) THEN t[i] ELSE d[i - Len(t)]
      BY ConcatProperties
    <3>2. Len(t) \in 0..Len(t \o d) /\ \A i \in 1..Len(t) : i \in 1..(Len(t) + Len(d)) /\ i <= Len(t)
      BY <1>3, <3>1
    <3> DEFINE p == SubSeq(t \o d, 1, Len(t))
    <3>3. p \in Seq(Token) /\ Len(p) = Len(t) /\ \A i \in 1..Len(t) : p[i] = (t \o d)[i]
      BY <3>1, <3>2, PrefixFacts
    <3> HIDE DEF p
    <3>4. p = t
      BY <3>1, <3>2, <3>3
    <3> QED BY <3>1, <3>4 DEF p
  <2>5. SubSeq(SubSeq(text, 1, Len(t)), 1, Len(t) - 1) = SubSeq(text, 1, Len(t) - 1)
    <3>1. Len(t) \in 0..Len(text) /\ Len(t) - 1 \in 0..Len(t)
      BY <1>3, <1>4
    <3> QED BY <1>4, <3>1, PrefixOfPrefix
  <2> QED BY <1>1, <1>2, <2>2, <2>3, <2>4, <2>5
<1>7. Rows(r) = Len(text)
  BY <1>1, <1>2, <1>4 DEF Rows
<1>8. slotOf[r] \in Slot /\ Len(slotBlocks[slotOf[r]]) \in Nat
  BY DecodingFacts, SlotTypes DEF SchedulerInv, SlotsOK, KVInv, Books
<1>9. Len(text) <= Len(slotBlocks[slotOf[r]]) * BlockSize
  <2>1. PICK s \in Slot : s = slotOf[r]
    BY <1>8
  <2>2. BlocksShort(s, Len(text)) = 0 /\ Len(slotBlocks[s]) \in Nat
    BY <1>7, <1>8, <2>1
  <2>3. PICK k \in Nat : k = Len(slotBlocks[s])
    BY <2>2
  <2>4. PICK n \in Nat : n = Len(text)
    BY <1>4
  <2>5. BlocksFor(n) \in Nat /\ (BlocksFor(n) <= k => n <= k * BlockSize)
    BY BlocksForBound
  <2>6. (IF BlocksFor(n) > k THEN BlocksFor(n) - k ELSE 0) = 0
    BY <2>2, <2>3, <2>4 DEF BlocksShort
  <2>7. BlocksFor(n) <= k
    BY <2>5, <2>6
  <2> QED BY <2>1, <2>3, <2>4, <2>5, <2>7
<1>10. Len(text) - Len(h) <= MaxSeq + BlockSize
  <2>1. Len(h) \in Nat
    BY <1>3, <1>6
  <2> QED BY <1>4, <1>7, <2>1, RowsInContext
<1>11. Len(h) <= Len(kept) /\ Len(kept) <= Len(text)
  <2>1. Len(c) <= Len(d) + 1
    BY <1>1
  <2>2. \A a, b, e \in Nat : b # 0 /\ b <= e + 1 => a - 1 <= a + b - 1 /\ a + b - 1 <= a + e
    OBVIOUS
  <2> QED BY <1>3, <1>4, <1>5, <1>6, <2>1, <2>2
<1>12. /\ Len(KVOf(text, Len(h))) = Len(text) - Len(h)
       /\ \A i \in 1..(Len(text) - Len(h)) : KVOf(text, Len(h))[i] = SubSeq(text, 1, Len(h) + i)
  <2>1. Len(text) - Len(h) \in Nat
    <3>1. Len(h) \in Nat /\ Len(h) <= Len(text)
      BY <1>3, <1>4, <1>6
    <3> HIDE DEF h
    <3> QED BY <1>4, <3>1
  <2> HIDE DEF h
  <2>2. \A n \in Nat : Len(text) - n \in Nat =>
          /\ Len(KVOf(text, n)) = Len(text) - n
          /\ \A i \in 1..(Len(text) - n) : KVOf(text, n)[i] = SubSeq(text, 1, n + i)
    <3> SUFFICES ASSUME NEW n \in Nat, NEW k \in Nat, k = Len(text) - n
        PROVE  /\ Len(KVOf(text, n)) = k
               /\ \A i \in 1..k : KVOf(text, n)[i] = SubSeq(text, 1, n + i)
      OBVIOUS
    <3> DEFINE e == KVOf(text, n)
    <3>1. e = [i \in 1..k |-> SubSeq(text, 1, n + i)]
      BY DEF KVOf
    <3> HIDE DEF e
    <3>2. Len(e) = k
      BY <3>1
    <3> QED BY <3>1, <3>2 DEF e
  <2>3. Len(h) \in Nat
    BY <1>3, <1>6
  <2> QED BY <2>1, <2>2, <2>3
<1> HIDE DEF h, kept
<1>13. SlotExtends(slotOf[r], KVOf(text, Len(h)), text, kept)
  BY <1>5, <1>6, <1>9, <1>10, <1>11, <1>12 DEF SlotExtends, h
<1> QED BY <1>4, <1>5, <1>13 DEF h, kept

\* A pass that extends every slot of a decoding request and leaves the others.
DecodeEntries ==
  [s \in Slot |-> IF \E r \in Decoding : slotOf[r] = s
                  THEN LET r == CHOOSE r \in Decoding : slotOf[r] = s
                       IN  KVOf(tokens[r] \o draft[r], Len(held[s]))
                  ELSE <<>>]
DecodeKept(fed) ==
  [s \in Slot |-> IF \E r \in Decoding : slotOf[r] = s
                  THEN LET r == CHOOSE r \in Decoding : slotOf[r] = s IN Front(fed[r])
                  ELSE held[s]]

\* The pass of step_core: afterwards a decoding slot keeps what its request
\* committed but the last token, and a slot of nobody in the batch is untouched.
LEMMA DecodeCall ==
  ASSUME KVInv, SchedulerInv, UNCHANGED slotVars,
         \A r \in Decoding : Rows(r) <= MaxSeq /\ BlocksShort(slotOf[r], Rows(r)) = 0,
         NEW com,
         \A r \in Decoding :
           /\ com[r] \in Seq(Token) /\ com[r] # <<>> /\ Len(com[r]) <= Len(draft[r]) + 1
           /\ \A i \in 1..(Len(com[r]) - 1) : com[r][i] = draft[r][i],
         NEW fed, \A r \in Decoding : fed[r] = tokens[r] \o com[r],
         WriteKV(DecodeEntries, DecodeKept(fed))
  PROVE  /\ KVInv' /\ SlotsOK'
         /\ \A r \in Decoding : held'[slotOf[r]] = Front(fed[r])
         /\ \A r \in DOMAIN slotOf \ Decoding : held'[slotOf[r]] = held[slotOf[r]]
<1> DEFINE entries == DecodeEntries
           kept == DecodeKept(fed)
           texts == [s \in Slot |-> IF \E r \in Decoding : slotOf[r] = s
                                    THEN LET r == CHOOSE r \in Decoding : slotOf[r] = s
                                         IN  tokens[r] \o draft[r]
                                    ELSE held[s]]
<1>1. SlotsOK /\ Decoding \subseteq DOMAIN slotOf
  BY DecodingFacts DEF SchedulerInv
<1>2. \A s \in Slot : held[s] \in Seq(Token) /\ Len(held[s]) \in Nat
  BY SlotTypes DEF KVInv, Books
<1>3. \A r \in Decoding : slotOf[r] \in Slot /\ (CHOOSE x \in Decoding : slotOf[x] = slotOf[r]) = r
  BY <1>1 DEF SlotsOK
<1>4. \A r \in Decoding :
        /\ entries[slotOf[r]] = KVOf(tokens[r] \o draft[r], Len(held[slotOf[r]]))
        /\ kept[slotOf[r]] = Front(fed[r])
        /\ texts[slotOf[r]] = tokens[r] \o draft[r]
  <2> SUFFICES ASSUME NEW r \in Decoding
      PROVE  /\ entries[slotOf[r]] = KVOf(tokens[r] \o draft[r], Len(held[slotOf[r]]))
             /\ kept[slotOf[r]] = Front(fed[r])
             /\ texts[slotOf[r]] = tokens[r] \o draft[r]
    OBVIOUS
  <2>1. PICK s \in Slot : s = slotOf[r] /\ (CHOOSE x \in Decoding : slotOf[x] = s) = r
    BY <1>3
  <2> QED BY <2>1 DEF DecodeEntries, DecodeKept
<1>5. \A s \in Slot : (\A r \in Decoding : slotOf[r] # s) =>
        entries[s] = <<>> /\ kept[s] = held[s] /\ texts[s] = held[s]
  BY DEF DecodeEntries, DecodeKept
<1>6. \A s \in Slot : texts[s] \in Seq(Token) /\ kept[s] \in Seq(Token)
                      /\ SlotExtends(s, entries[s], texts[s], kept[s])
  <2> SUFFICES ASSUME NEW s \in Slot
      PROVE  texts[s] \in Seq(Token) /\ kept[s] \in Seq(Token)
             /\ SlotExtends(s, entries[s], texts[s], kept[s])
    OBVIOUS
  <2> HIDE DEF entries, kept, texts
  <2>1. CASE \E r \in Decoding : slotOf[r] = s
    <3>1. PICK r \in Decoding : slotOf[r] = s
      BY <2>1
    <3>2. PICK c \in Seq(Token) : c = com[r]
      OBVIOUS
    <3>3. PICK text : text = tokens[r] \o draft[r]
      OBVIOUS
    <3>4. /\ text \in Seq(Token) /\ Front(tokens[r] \o c) \in Seq(Token)
          /\ SlotExtends(slotOf[r], KVOf(text, Len(held[slotOf[r]])), text,
                         Front(tokens[r] \o c))
      BY <3>2, <3>3, DecodingSlotExtends
    <3> QED BY <1>4, <3>1, <3>2, <3>3, <3>4
  <2>2. CASE \A r \in Decoding : slotOf[r] # s
    <3>1. kept[s] = held[s] /\ texts[s] = held[s] /\ entries[s] = <<>>
      BY <1>5, <2>2
    <3>2. held[s] \in Seq(Token) /\ Len(held[s]) \in Nat
      BY <1>2
    <3>3. SubSeq(held[s], 1, Len(held[s])) = held[s]
      BY <3>2, SubSeqFull
    <3>4. Len(held[s]) - Len(held[s]) = 0 /\ 0 <= MaxSeq + BlockSize /\ Len(held[s]) <= Len(held[s])
      BY <3>2, PagedKVAssumption
    <3>5. Len(entries[s]) = 0 /\ 1..0 = {}
      BY <3>1, EmptySeq
    <3>6. Len(held[s]) <= Len(slotBlocks[s]) * BlockSize
      BY DEF KVInv, Books, HeldFits
    <3> QED BY <3>1, <3>2, <3>3, <3>4, <3>5, <3>6 DEF SlotExtends
  <2> QED BY <2>1, <2>2
<1>7. Extends(entries, texts, kept)
  <2>1. texts = [s \in Slot |-> texts[s]] /\ kept = [s \in Slot |-> kept[s]]
    BY DEF DecodeKept
  <2> HIDE DEF entries, kept, texts
  <2>2. texts \in [Slot -> Seq(Token)] /\ kept \in [Slot -> Seq(Token)]
    BY <1>6, <2>1
  <2> QED BY <1>6, <2>2 DEF Extends, SlotExtends
<1>8. WriteKV(entries, kept)
  OBVIOUS
<1> HIDE DEF entries, kept, texts
<1>9. KVInv'
  BY <1>7, <1>8, WriteKVBooks, WriteKVContents DEF KVInv
<1>10. held' = kept /\ slotBlocks' = slotBlocks
  BY <1>8 DEF WriteKV
<1>11. SlotsOK'
  BY <1>1, <1>10, SlotsKeep
<1>12. \A r \in DOMAIN slotOf \ Decoding : held'[slotOf[r]] = held[slotOf[r]]
  <2>1. \A r \in DOMAIN slotOf \ Decoding : slotOf[r] \in Slot /\ \A x \in Decoding : slotOf[x] # slotOf[r]
    BY <1>1 DEF SlotsOK
  <2> QED BY <1>5, <1>10, <2>1
<1> QED BY <1>4, <1>9, <1>10, <1>11, <1>12

\* step() and step_pld() keep the invariant: whatever the rows draw, a request's
\* text, its slot's KV and its status move on together.
LEMMA DecodeInv ==
  ASSUME BatcherInv, Decode
  PROVE  BatcherInv'
<1>0. SchedulerInv /\ SchedulerTypeOK /\ QueuesApart /\ SlotsOK /\ SlotHolders /\ PhaseOK /\ KVInv
  BY DEF BatcherInv, SchedulerInv
<1>1. /\ phase = "decode" /\ phase' = "retire" /\ draft' = [r \in Req |-> <<>>]
      /\ UNCHANGED <<after, swapMode, slotVars, queueVars, prefillPos, cachedBlocks, hostKv>>
  BY DEF Decode
<1>2. PICK outs :
        /\ \A r \in Decoding : outs[r] \in [1..(Len(draft[r]) + 1) -> Token]
        /\ tokens' = [r \in Req |-> IF r \in Decoding THEN tokens[r] \o Committed(r, outs[r])
                                    ELSE tokens[r]]
        /\ emitted' = [r \in Req |-> IF r \in Decoding THEN emitted[r] \o Committed(r, outs[r])
                                     ELSE emitted[r]]
        /\ WriteKV(DecodeEntries, DecodeKept(tokens'))
        /\ finished' = [r \in Req |-> IF r \in Decoding /\ DoneWith(r, tokens'[r])
                                      THEN finished[r] + 1 ELSE finished[r]]
        /\ status' = [r \in Req |-> IF r \in Decoding /\ DoneWith(r, tokens'[r])
                                    THEN "done" ELSE status[r]]
  BY Zenon DEF Decode, DecodeEntries, DecodeKept, Decoding
<1> DEFINE com == [r \in Decoding |-> Committed(r, outs[r])]
<1>3. ASSUME NEW r \in Decoding
      PROVE  /\ com[r] = Committed(r, outs[r])
             /\ com[r] \in Seq(Token) /\ com[r] # <<>> /\ Len(com[r]) <= Len(draft[r]) + 1
             /\ \A i \in 1..(Len(com[r]) - 1) :
                  com[r][i] = draft[r][i] /\ ~DoneWith(r, tokens[r] \o SubSeq(com[r], 1, i))
  <2>1. r \in Req
    BY <1>0, DecodingFacts
  <2>2. PICK c \in Seq(Token) :
          /\ c = Committed(r, outs[r]) /\ c # <<>> /\ Len(c) <= Len(draft[r]) + 1
          /\ \A i \in 1..(Len(c) - 1) :
               c[i] = draft[r][i] /\ ~DoneWith(r, tokens[r] \o SubSeq(c, 1, i))
    BY <1>0, <1>2, <2>1, CommittedShape
  <2> QED BY <2>2
<1> HIDE DEF com
<1>4. \A r \in Decoding :
        /\ r \in Req /\ r \in DOMAIN slotOf /\ TextOK(r) /\ DecodingOK(r) /\ status[r] = "in"
        /\ tokens'[r] = tokens[r] \o com[r] /\ emitted'[r] = emitted[r] \o com[r]
        /\ status'[r] = IF DoneWith(r, tokens'[r]) THEN "done" ELSE status[r]
        /\ finished'[r] = IF DoneWith(r, tokens'[r]) THEN finished[r] + 1 ELSE finished[r]
  BY <1>0, <1>1, <1>2, <1>3, DecodingFacts DEF PhaseOK
<1>5. \A x \in Req \ Decoding :
        /\ tokens'[x] = tokens[x] /\ emitted'[x] = emitted[x]
        /\ status'[x] = status[x] /\ finished'[x] = finished[x]
  BY <1>2
<1>6. /\ KVInv' /\ SlotsOK'
      /\ \A r \in Decoding : held'[slotOf[r]] = Front(tokens'[r])
      /\ \A r \in DOMAIN slotOf \ Decoding : held'[slotOf[r]] = held[slotOf[r]]
  <2>1. \A r \in Decoding : Rows(r) <= MaxSeq /\ BlocksShort(slotOf[r], Rows(r)) = 0
    BY <1>0, <1>1 DEF PhaseOK
  <2>2. \A r \in Decoding :
           /\ com[r] \in Seq(Token) /\ com[r] # <<>> /\ Len(com[r]) <= Len(draft[r]) + 1
           /\ \A i \in 1..(Len(com[r]) - 1) : com[r][i] = draft[r][i]
    BY <1>3
  <2>3. PICK fed : fed = tokens'
    OBVIOUS
  <2>4. \A r \in Decoding : fed[r] = tokens[r] \o com[r]
    BY <1>4, <2>3
  <2>5. WriteKV(DecodeEntries, DecodeKept(fed))
    BY <1>2, <2>3
  <2>6. UNCHANGED slotVars
    BY <1>1
  <2> QED BY <1>0, <2>1, <2>2, <2>3, <2>4, <2>5, <2>6, DecodeCall, ZenonT(60)
<1>7. \A r \in Decoding : TextOK(r)' /\ emitted'[r] # <<>> /\ status'[r] \in {"in", "done"}
  <2> SUFFICES ASSUME NEW r \in Decoding
      PROVE  TextOK(r)' /\ emitted'[r] # <<>> /\ status'[r] \in {"in", "done"}
    OBVIOUS
  <2>1. PICK c \in Seq(Token) : c = com[r]
    BY <1>3
  <2>2. /\ r \in Req /\ TextOK(r) /\ status[r] = "in" /\ c # <<>>
        /\ tokens'[r] = tokens[r] \o c /\ emitted'[r] = emitted[r] \o c
        /\ status'[r] = IF DoneWith(r, tokens'[r]) THEN "done" ELSE status[r]
        /\ finished'[r] = IF DoneWith(r, tokens'[r]) THEN finished[r] + 1 ELSE finished[r]
    BY <1>3, <1>4, <2>1
  <2>3. \A i \in 1..(Len(c) - 1) : ~DoneWith(r, tokens[r] \o SubSeq(c, 1, i))
    BY <1>3, <2>1
  <2> QED BY <1>0, <2>2, <2>3, CommitKeepsText
<1>8. /\ Decoding' = Decoding /\ Prefills' = Prefills /\ Evicted' = Evicted
      /\ InFlight' = InFlight /\ loading' = loading /\ slotOf' = slotOf /\ hostKv' = hostKv
      /\ prefillPos' = prefillPos
  BY <1>1 DEF queueVars, slotVars, Decoding, Prefills, Evicted, InFlight
<1>9. SchedulerTypeOK'
  <2>1. tokens' \in [Req -> Seq(Token)] /\ emitted' \in [Req -> Seq(Token)]
    <3>1. \A r \in Decoding : tokens[r] \o com[r] \in Seq(Token) /\ emitted[r] \o com[r] \in Seq(Token)
      <4> SUFFICES ASSUME NEW r \in Decoding
          PROVE  tokens[r] \o com[r] \in Seq(Token) /\ emitted[r] \o com[r] \in Seq(Token)
        OBVIOUS
      <4>1. tokens[r] \in Seq(Token) /\ emitted[r] \in Seq(Token) /\ com[r] \in Seq(Token)
        BY <1>0, <1>3, <1>4, TokensFacts
      <4> QED BY <4>1, ConcatProperties
    <3>2. \A r \in Req : tokens'[r] \in Seq(Token) /\ emitted'[r] \in Seq(Token)
      <4>1. \A r \in Req \ Decoding : tokens'[r] \in Seq(Token) /\ emitted'[r] \in Seq(Token)
        BY <1>0, <1>5 DEF SchedulerTypeOK
      <4>2. \A r \in Decoding : tokens'[r] \in Seq(Token) /\ emitted'[r] \in Seq(Token)
        BY <1>4, <3>1
      <4> QED BY <4>1, <4>2
    <3> QED BY <1>2, <3>2
  <2>2. /\ finished' \in [Req -> Nat]
        /\ status' \in [Req -> {"new", "in", "done", "cancelled"}]
    <3>1. \A r \in Req : finished'[r] \in Nat /\ status'[r] \in {"new", "in", "done", "cancelled"}
      <4>0. /\ finished \in [Req -> Nat] /\ \A n \in Nat : n + 1 \in Nat
            /\ status \in [Req -> {"new", "in", "done", "cancelled"}]
        BY <1>0 DEF SchedulerTypeOK
      <4>1. \A r \in Req \ Decoding :
              finished'[r] \in Nat /\ status'[r] \in {"new", "in", "done", "cancelled"}
        BY <1>5, <4>0
      <4>2. \A r \in Decoding :
              finished'[r] \in Nat /\ status'[r] \in {"new", "in", "done", "cancelled"}
        BY <1>4, <4>0
      <4> QED BY <4>1, <4>2
    <3> QED BY <1>2, <3>1
  <2>3. draft' \in [Req -> Seq(Token)]
    BY <1>1
  <2>4. /\ after' \in {"idle", "resched"}
        /\ active' \in Seq(Req) /\ prefilling' \in Seq(Req) /\ preempted' \in Seq(Req)
        /\ loading' \subseteq Req
        /\ prefillPos' \in [Req -> Nat] /\ cachedBlocks' \in [Req -> Nat]
        /\ hostKv' \in [Req -> Seq(Seq(Token))]
    BY <1>0, <1>1 DEF SchedulerTypeOK, queueVars
  <2> QED BY <1>1, <2>1, <2>2, <2>3, <2>4 DEF SchedulerTypeOK, Phases
<1>10. QueuesApart' /\ SlotHolders'
  BY <1>0, <1>1, <1>8 DEF QueuesApart, SlotHolders, queueVars
<1>11. \A x \in Req : RequestOK(x)'
  <2> SUFFICES ASSUME NEW x \in Req PROVE RequestOK(x)'
    OBVIOUS
  <2>1. CASE x \in Decoding
    <3>1. x \notin Prefills /\ x \notin Evicted /\ x \notin loading /\ x \in InFlight
      BY <1>0, <2>1, DecodingFacts DEF InFlight, Decoding
    <3>2. DecodingOK(x)'
      BY <1>4, <1>6, <1>7, <1>8, <2>1 DEF DecodingOK
    <3> QED BY <1>7, <1>8, <2>1, <3>1, <3>2 DEF RequestOK
  <2>2. CASE x \notin Decoding
    <3>1. RequestOK(x) /\ SlotHolders
      BY <1>0 DEF SchedulerInv
    <3>2. SameRequest(x)
      BY <1>5, <1>8, <2>2 DEF SameRequest, SameText
    <3>3. SamePlace(x)
      BY <1>8 DEF SamePlace
    <3>4. SameSlot(x)
      BY <1>6, <1>8, <2>2 DEF SameSlot
    <3> QED BY <3>1, <3>2, <3>3, <3>4, RequestKept
  <2> QED BY <2>1, <2>2
<1>12. PhaseOK'
  <2>1. loading' = {}
    BY <1>0, <1>1, <1>8 DEF PhaseOK, Failed
  <2> QED BY <1>1, <2>1, CalmPhase
<1> QED BY <1>6, <1>9, <1>10, <1>11, <1>12 DEF BatcherInv, SchedulerInv

-----------------------------------------------------------------------------
(* The invariant *)

\* ContinuousBatcher::new: every slot free, every request still to come.
LEMMA InitInv ==
  ASSUME BatcherInit
  PROVE  BatcherInv
<1>1. KVInv
  BY BooksInit, ContentsInit DEF BatcherInit, KVInv
<1>2. /\ Decoding = {} /\ Prefills = {} /\ Evicted = {} /\ loading = {}
      /\ active = <<>> /\ prefilling = <<>> /\ preempted = <<>>
  BY QueueMembers DEF BatcherInit, Decoding, Prefills, Evicted, ToSet
<1>3. DOMAIN slotOf = {} /\ freeSlots = Slot /\ \A s \in Slot : slotBlocks[s] = <<>>
  BY DEF BatcherInit, KVInit
<1>4. SchedulerTypeOK
  <2>1. <<>> \in Seq(Req) /\ <<>> \in Seq(Token) /\ <<>> \in Seq(Seq(Token))
    OBVIOUS
  <2>2. Prompt \in [Req -> Seq(Token)]
    BY BatcherAssumption
  <2> QED BY <2>1, <2>2 DEF BatcherInit, SchedulerTypeOK, Phases
<1>5. QueuesApart /\ SlotHolders
  <2>1. NoRepeat(<<>>)
    BY DEF NoRepeat
  <2> QED BY <1>2, <1>3, <2>1 DEF QueuesApart, SlotHolders
<1>6. SlotsOK
  BY <1>3 DEF SlotsOK, BatcherInit
<1>7. \A r \in Req : RequestOK(r)
  <2> SUFFICES ASSUME NEW r \in Req PROVE RequestOK(r)
    OBVIOUS
  <2>1. /\ tokens[r] = Prompt[r] /\ emitted[r] = <<>> /\ status[r] = "new"
        /\ finished[r] = 0 /\ hostKv[r] = <<>>
    BY DEF BatcherInit
  <2>2. Prompt[r] \o <<>> = Prompt[r] /\ Len(<<>>) = 0 /\ 1..0 = {}
    BY PromptFacts, ConcatEmptySeq
  <2>3. TextOK(r)
    BY <2>1, <2>2 DEF TextOK
  <2> QED BY <1>2, <2>1, <2>3 DEF RequestOK, OutsideOK
<1>8. PhaseOK
  BY <1>2 DEF PhaseOK, BatcherInit
<1> QED BY <1>1, <1>4, <1>5, <1>6, <1>7, <1>8 DEF BatcherInv, SchedulerInv

\* A step of somebody else leaves the scheduler as it is.
LEMMA StutterInv ==
  ASSUME BatcherInv, UNCHANGED vars
  PROVE  BatcherInv'
<1>1. KVInv' /\ held' = held /\ slotBlocks' = slotBlocks
  BY PoolKept DEF BatcherInv, vars
<1>2. /\ UNCHANGED <<phase, after, queueVars, slotVars, textVars, loadVars>>
      /\ UNCHANGED <<prefillPos, hostKv, draft, cachedBlocks>>
  BY DEF vars, seqVars, loadVars
<1>3. SlotsOK'
  BY <1>1, <1>2, SlotsKeep DEF BatcherInv, SchedulerInv
<1>4. draft' \in [Req -> Seq(Token)] /\ cachedBlocks' \in [Req -> Nat] /\ phase' \in Phases
  BY <1>2 DEF BatcherInv, SchedulerInv, SchedulerTypeOK
<1>5. PhaseOK'
  <2>1. /\ phase' = phase /\ loading' = loading /\ slotOf' = slotOf /\ status' = status
        /\ hostKv' = hostKv /\ tokens' = tokens /\ draft' = draft /\ Decoding' = Decoding
    BY <1>2 DEF queueVars, slotVars, textVars, Decoding
  <2> QED BY <1>1, <2>1
          DEF BatcherInv, SchedulerInv, PhaseOK, LoadableOK, Rows, BlocksShort
<1> QED BY <1>1, <1>2, <1>3, <1>4, <1>5, NothingMoves DEF BatcherInv

\* Every call and every turn of step() keeps the invariant.
LEMMA BatcherStep ==
  ASSUME BatcherInv, [BatcherNext]_vars
  PROVE  BatcherInv'
<1>1. ASSUME StepNext PROVE BatcherInv'
  BY <1>1, StepBeginInv, MakeRoomInv, LayRowsInv, PageInv, DecodeInv, RetireInv,
     SkipPrefillInv, EvictActiveInv, EvictPrefillInv, PrefillPageInv, PrefillChunkInv,
     RegisterPrefixInv, JoinInv, ResumeInv, LoadPageInv, LoadInv, StepEndInv DEF StepNext
<1>2. ASSUME NEW r \in Req, Enqueue(r) \/ Admit(r) \/ Cancel(r) PROVE BatcherInv'
  BY <1>2, EnqueueInv, AdmitInv, CancelInv
<1>3. ASSUME UNCHANGED vars PROVE BatcherInv'
  BY <1>3, StutterInv
<1> QED BY <1>1, <1>2, <1>3 DEF BatcherNext

\* The scheduler's invariant holds in every state: whatever is enqueued, cancelled,
\* preempted, resumed and drawn, every request stays in its place with its own KV.
THEOREM BatcherInvariant == BatcherSpec => []BatcherInv
<1>1. BatcherInit => BatcherInv
  BY InitInv
<1>2. BatcherInv /\ [BatcherNext]_vars => BatcherInv'
  BY BatcherStep
<1> QED BY <1>1, <1>2, PTL DEF BatcherSpec

-----------------------------------------------------------------------------
(* The theorems *)

\* The pool's invariant survives every order in which the scheduler calls the pool:
\* counts, free list and cache stay exact, and no slot writes what another reads.
THEOREM PoolUnderScheduler ==
  BatcherSpec => [](RefcountExact /\ FreeExact /\ CacheInverse /\ NextWriteExclusive)
<1>1. BatcherInv => RefcountExact /\ FreeExact /\ CacheInverse /\ NextWriteExclusive
  BY BooksExclusive DEF BatcherInv, KVInv, Books, NextWriteExclusive
<1> QED BY <1>1, BatcherInvariant, PTL

\* Under the scheduler every slot attends its own tokens, and a cached block holds
\* the KV of the prefix it is found by.
THEOREM SchedulerAttendsOwnTokens ==
  BatcherSpec => [](AttendsOwnTokens /\ CacheHoldsItsPrefix)
<1>1. BatcherInv => AttendsOwnTokens /\ CacheHoldsItsPrefix
  BY DEF BatcherInv, KVInv, Contents
<1> QED BY <1>1, BatcherInvariant, PTL

\* Two queues with no request in common are one queue without repetition.
LEMMA JoinQueues ==
  ASSUME NEW p \in Seq(Req), NEW q \in Seq(Req), NoRepeat(p), NoRepeat(q),
         ToSet(p) \cap ToSet(q) = {}
  PROVE  /\ p \o q \in Seq(Req) /\ NoRepeat(p \o q)
         /\ ToSet(p \o q) = ToSet(p) \cup ToSet(q)
<1> DEFINE u == p \o q
<1>1. /\ u \in Seq(Req) /\ Len(u) = Len(p) + Len(q)
      /\ \A i \in 1..(Len(p) + Len(q)) : u[i] = IF i <= Len(p) THEN p[i] ELSE q[i - Len(p)]
  BY ConcatProperties
<1>2. Len(p) \in Nat /\ Len(q) \in Nat
  OBVIOUS
<1> HIDE DEF u
<1>3. \A i \in 1..(Len(p) + Len(q)) :
        \/ i \in 1..Len(p) /\ u[i] = p[i]
        \/ i - Len(p) \in 1..Len(q) /\ u[i] = q[i - Len(p)] /\ ~(i \in 1..Len(p))
  BY <1>1, <1>2
<1>4. NoRepeat(u)
  <2> SUFFICES ASSUME NEW i \in 1..Len(u), NEW j \in 1..Len(u), u[i] = u[j] PROVE i = j
    BY DEF NoRepeat
  <2>1. \A a \in 1..Len(p), b \in 1..Len(q) : p[a] # q[b]
    BY QueueMembers
  <2>2. \A a \in 1..Len(p), b \in 1..Len(p) : p[a] = p[b] => a = b
    BY DEF NoRepeat
  <2>3. \A a \in 1..Len(q), b \in 1..Len(q) : q[a] = q[b] => a = b
    BY DEF NoRepeat
  <2>4. i \in 1..(Len(p) + Len(q)) /\ j \in 1..(Len(p) + Len(q))
    BY <1>1
  <2>5. i - Len(p) = j - Len(p) => i = j
    BY <1>2, <2>4
  <2>6. CASE i \in 1..Len(p)
    <3>1. u[i] = p[i] /\ j \in 1..Len(p) /\ u[j] = p[j]
      BY <1>3, <2>1, <2>4, <2>6
    <3> QED BY <2>2, <2>6, <3>1
  <2>7. CASE i \notin 1..Len(p)
    <3>1. i - Len(p) \in 1..Len(q) /\ u[i] = q[i - Len(p)]
      BY <1>3, <2>4, <2>7
    <3>2. j - Len(p) \in 1..Len(q) /\ u[j] = q[j - Len(p)]
      BY <1>3, <2>1, <2>4, <3>1
    <3> QED BY <2>3, <2>5, <3>1, <3>2
  <2> QED BY <2>6, <2>7
<1>5. \A x \in ToSet(u) : x \in ToSet(p) \cup ToSet(q)
  <2> SUFFICES ASSUME NEW i \in 1..Len(u) PROVE u[i] \in ToSet(p) \cup ToSet(q)
    BY DEF ToSet
  <2>1. \/ i \in 1..Len(p) /\ u[i] = p[i]
        \/ i - Len(p) \in 1..Len(q) /\ u[i] = q[i - Len(p)]
    BY <1>1, <1>3
  <2> QED BY <2>1, QueueMembers
<1>6. \A x \in ToSet(p) : x \in ToSet(u)
  <2> SUFFICES ASSUME NEW i \in 1..Len(p) PROVE p[i] \in ToSet(u)
    BY DEF ToSet
  <2>1. i \in 1..(Len(p) + Len(q)) /\ i <= Len(p)
    BY <1>2
  <2> QED BY <1>1, <2>1 DEF ToSet
<1>7. \A x \in ToSet(q) : x \in ToSet(u)
  <2> SUFFICES ASSUME NEW i \in 1..Len(q) PROVE q[i] \in ToSet(u)
    BY DEF ToSet
  <2>1. /\ Len(p) + i \in 1..(Len(p) + Len(q)) /\ ~(Len(p) + i <= Len(p))
        /\ (Len(p) + i) - Len(p) = i
    BY <1>2
  <2> QED BY <1>1, <2>1 DEF ToSet
<1> QED BY <1>1, <1>4, <1>5, <1>6, <1>7 DEF u

LEMMA AccountsFromInv ==
  ASSUME BatcherInv
  PROVE  SlotsAccounted
<1>0. SchedulerTypeOK /\ QueuesApart /\ SlotsOK /\ SlotHolders /\ \A r \in Req : RequestOK(r)
  BY DEF BatcherInv, SchedulerInv
<1>1. active \in Seq(Req) /\ prefilling \in Seq(Req) /\ preempted \in Seq(Req)
  BY <1>0 DEF SchedulerTypeOK
<1> DEFINE ap == active \o prefilling
<1>2. ap \in Seq(Req) /\ NoRepeat(ap) /\ ToSet(ap) = Decoding \cup Prefills
  BY <1>0, <1>1, JoinQueues DEF QueuesApart, Decoding, Prefills
<1> HIDE DEF ap
<1>3. NoRepeat(ap \o preempted) /\ ToSet(ap \o preempted) = Decoding \cup Prefills \cup Evicted
  <2>1. ToSet(ap) \cap ToSet(preempted) = {}
    BY <1>0, <1>2 DEF QueuesApart, Evicted
  <2> QED BY <1>0, <1>1, <1>2, <2>1, JoinQueues DEF QueuesApart, Evicted
<1>4. DOMAIN slotOf = InFlight \ ToSet(preempted)
  BY <1>0 DEF SlotHolders, QueuesApart, InFlight, Decoding, Prefills, Evicted
<1>5. \A r \in Req : status[r] = "in" => r \in InFlight
  BY <1>0 DEF RequestOK, OutsideOK
<1>6. /\ NoRepeat(active \o prefilling \o preempted)
      /\ ToSet(active \o prefilling \o preempted) \cap loading = {}
  BY <1>0, <1>3 DEF QueuesApart, ap
<1> QED BY <1>0, <1>4, <1>5, <1>6 DEF SlotsAccounted, SlotsOK

\* Cancel, retire, preemption and resume neither leak a slot nor give it back twice,
\* and no admitted request is forgotten.
THEOREM SlotsAreAccounted == BatcherSpec => []SlotsAccounted
<1>1. BatcherInv => SlotsAccounted
  BY AccountsFromInv
<1> QED BY <1>1, BatcherInvariant, PTL

\* The write position that step_core derives from the token count is right: the KV
\* of a decoding request is that of its history but the last token, and a prefill
\* has fed exactly the prompt up to prefill_pos.
THEOREM KVIsHistory == BatcherSpec => []FedHistory
<1>1. BatcherInv => FedHistory
  <2> SUFFICES ASSUME BatcherInv PROVE FedHistory
    OBVIOUS
  <2>1. \A r \in Decoding \cup Prefills : r \in Req /\ RequestOK(r)
    BY QueueMembers DEF BatcherInv, SchedulerInv, SchedulerTypeOK, Decoding, Prefills
  <2> QED BY <2>1 DEF FedHistory, RequestOK, DecodingOK, PrefillsOK, Decoding, Prefills
<1> QED BY <1>1, BatcherInvariant, PTL

LEMMA StreamsFromInv ==
  ASSUME BatcherInv
  PROVE  StreamWellFormed
  BY DEF BatcherInv, SchedulerInv, RequestOK, TextOK, EndsAt, StreamWellFormed

\* A stream ends at the first EOS or at max_tokens, not before and not after, and
\* done is returned once, however often the request was preempted on the way.
THEOREM StreamsWellFormed == BatcherSpec => []StreamWellFormed
<1>1. BatcherInv => StreamWellFormed
  BY StreamsFromInv
<1> QED BY <1>1, BatcherInvariant, PTL

-----------------------------------------------------------------------------
(* Nothing after the end, and the same tokens as alone *)

\* A step that touches a request's stream finds it neither done nor cancelled.
LEMMA QuietAfterEnd ==
  ASSUME BatcherInv, [BatcherNext]_vars, NEW r \in Req, status[r] \in {"done", "cancelled"}
  PROVE  emitted'[r] = emitted[r] /\ status'[r] = status[r]
<1>0. SchedulerInv /\ SchedulerTypeOK /\ PhaseOK
  BY DEF BatcherInv, SchedulerInv
<1>1. CASE UNCHANGED textVars
  BY <1>1 DEF textVars
<1>2. ASSUME NEW x \in Req, Enqueue(x) \/ Admit(x)
      PROVE  emitted'[r] = emitted[r] /\ status'[r] = status[r]
  <2>1. status[x] = "new" /\ status' = [status EXCEPT ![x] = "in"] /\ emitted' = emitted
    BY <1>2 DEF Enqueue, Admit
  <2> QED BY <1>0, <2>1 DEF SchedulerTypeOK
<1>3. ASSUME NEW x \in Req, Cancel(x)
      PROVE  emitted'[r] = emitted[r] /\ status'[r] = status[r]
  <2>1. status[x] = "in" /\ status' = [status EXCEPT ![x] = "cancelled"] /\ emitted' = emitted
    BY <1>3 DEF Cancel
  <2> QED BY <1>0, <2>1 DEF SchedulerTypeOK
<1>4. CASE Decode
  <2>1. r \notin ToSet(active)
    BY <1>0, <1>4 DEF Decode, PhaseOK, Decoding
  <2>2. emitted'[r] = emitted[r] /\ status'[r] = status[r]
    BY <1>4, <2>1 DEF Decode
  <2> QED BY <2>2
<1>5. CASE Join
  <2>1. PICK x \in Req : loading = {x} /\ RestoredOK(x)
    BY <1>0, <1>5, LoadingFacts DEF Join
  <2>2. x # r
    BY <2>1 DEF RestoredOK
  <2>3. PICK g \in Token : Emit(x, g) /\ (Finish(x) \/ status' = status)
    BY <1>5, <2>1 DEF Join
  <2> QED BY <1>0, <2>2, <2>3 DEF Emit, Finish, SchedulerTypeOK
<1>6. StepNext => UNCHANGED textVars \/ Decode \/ Join
  BY DEF StepNext, StepBegin, MakeRoom, LayRows, Page, Retire, SkipPrefill, EvictActive,
         EvictPrefill, PrefillPage, PrefillChunk, RegisterPrefix, Resume, LoadPage, Load,
         StepEnd, seqVars
<1>7. UNCHANGED vars => UNCHANGED textVars
  BY DEF vars, seqVars
<1> QED BY <1>1, <1>2, <1>3, <1>4, <1>5, <1>6, <1>7 DEF BatcherNext

\* Nothing is produced for a request after done was returned or it was cancelled,
\* even when the cancel falls between two steps that have it queued.
THEOREM NothingAfterTheEnd == BatcherSpec => SilentAfterEnd
<1>1. BatcherInv /\ [BatcherNext]_vars =>
        [\A r \in Req : status[r] \in {"done", "cancelled"} =>
           emitted'[r] = emitted[r] /\ status'[r] = status[r]]_vars
  BY QuietAfterEnd
<1> QED BY <1>1, BatcherInvariant, PTL DEF BatcherSpec, SilentAfterEnd

\* AsIfAlone for one request.
AloneTokens(r) ==
  \A n \in 1..Len(emitted[r]) :
    emitted[r][n] \in Outputs(r, AlonePath(r, n), Prompt[r] \o SubSeq(emitted[r], 1, n - 1))

\* A request whose selection path no other request can change: a greedy one, or one
\* with a temperature where nobody asks for top-k.
OwnPath(r) == Kind[r] = "greedy" \/ \A q \in Req : Kind[q] # "topk"

\* Prefill, a single row and a row of the batch select by the same path for it.
LEMMA PathsAgree ==
  ASSUME NEW r \in Req, OwnPath(r), NEW n
  PROVE  /\ PrefillPath(r) = AlonePath(r, n) /\ OnePath(r) = AlonePath(r, n)
         /\ r \in ToSet(active) /\ ToSet(active) \subseteq Req
              => RowPath(r, BatchPath) = AlonePath(r, n)
<1>1. Kind[r] \in {"greedy", "temp", "topk"}
  BY BatcherAssumption
<1>2. PrefillPath(r) = AlonePath(r, n) /\ OnePath(r) = AlonePath(r, n)
  BY <1>1 DEF PrefillPath, OnePath, AlonePath, RowPath, OwnPath
<1>3. ASSUME r \in ToSet(active), ToSet(active) \subseteq Req
      PROVE  RowPath(r, BatchPath) = OnePath(r)
  <2>1. CASE Kind[r] = "greedy"
    BY <2>1 DEF RowPath, OnePath
  <2>2. CASE Kind[r] = "temp" /\ \A q \in Req : Kind[q] # "topk"
    <3>1. BatchPath = "gumbel"
      BY <1>3, <2>2 DEF BatchPath
    <3> QED BY <2>2, <3>1 DEF RowPath, OnePath
  <2> QED BY <1>1, <2>1, <2>2 DEF OwnPath
<1> QED BY <1>2, <1>3

\* A row of a slot that was fed a part of the row's own text draws from the model's
\* outputs for that text.
LEMMA DrawsOwn ==
  ASSUME KVInv, NEW r, NEW s \in Slot, NEW path, NEW text \in Seq(Token),
         Len(held[s]) <= Len(text), held[s] = SubSeq(text, 1, Len(held[s])),
         NEW g, g \in Drawn(r, s, path, text)
  PROVE  g \in Outputs(r, path, text)
<1> DEFINE n == Len(held[s])
<1>1. n \in Nat /\ Len(text) \in Nat
  BY SlotTypes DEF KVInv, Books
<1>2. n \in 0..Len(text)
  BY <1>1
<1>3. Sees(s, text, n)
  <2> SUFFICES ASSUME NEW p \in 1..n
      PROVE  kv[BlockAt(s, p)][OffsetAt(p)] = SubSeq(text, 1, p)
    BY DEF Sees
  <2>1. kv[BlockAt(s, p)][OffsetAt(p)] = SubSeq(held[s], 1, p)
    BY DEF KVInv, Contents, AttendsOwnTokens
  <2>2. held[s] = SubSeq(text, 1, n)
    OBVIOUS
  <2> HIDE DEF n
  <2>3. p \in 0..n
    BY <1>1
  <2> QED BY <1>2, <2>1, <2>2, <2>3, PrefixOfPrefix
<1>4. (IF Len(held[s]) < Len(text) THEN Len(held[s]) ELSE Len(text)) = n
  <2>1. \A i, j \in Nat : i <= j => (IF i < j THEN i ELSE j) = i
    OBVIOUS
  <2> QED BY <1>1, <2>1
<1> QED BY <1>3, <1>4 DEF Drawn

\* Concatenation of texts is associative.
LEMMA ConcatThrice ==
  \A p, q, s \in Seq(Token) : (p \o q) \o s = p \o (q \o s)
  BY ConcatAssociative

\* More tokens, each drawn as alone after those before it.
LEMMA AloneExtends ==
  ASSUME SchedulerTypeOK, NEW r \in Req, TextOK(r), AloneTokens(r), NEW c \in Seq(Token),
         emitted'[r] = emitted[r] \o c,
         \A i \in 1..Len(c) :
           c[i] \in Outputs(r, AlonePath(r, Len(emitted[r]) + i), tokens[r] \o SubSeq(c, 1, i - 1))
  PROVE  AloneTokens(r)'
<1>1. PICK e \in Seq(Token) : e = emitted[r]
  BY TokensFacts
<1>2. PICK p \in Seq(Token) : p = Prompt[r] /\ tokens[r] = p \o e
  BY <1>1, PromptFacts DEF TextOK
<1>3. PICK u : u = emitted'[r] /\ u = e \o c
  BY <1>1
<1>4. /\ u \in Seq(Token) /\ Len(u) = Len(e) + Len(c)
      /\ \A i \in 1..(Len(e) + Len(c)) : u[i] = IF i <= Len(e) THEN e[i] ELSE c[i - Len(e)]
  BY <1>3, ConcatProperties
<1>5. Len(e) \in Nat /\ Len(c) \in Nat
  OBVIOUS
<1>6. e = SubSeq(u, 1, Len(e))
  BY <1>3, ConcatPrefix
<1> SUFFICES ASSUME NEW n \in 1..Len(u)
    PROVE  u[n] \in Outputs(r, AlonePath(r, n), p \o SubSeq(u, 1, n - 1))
  BY <1>2, <1>3 DEF AloneTokens, AlonePath, PrefillPath, OnePath, RowPath
<1>7. CASE n \in 1..Len(e)
  <2>1. u[n] = e[n]
    BY <1>4, <1>5, <1>7
  <2>2. SubSeq(u, 1, n - 1) = SubSeq(e, 1, n - 1)
    <3>1. Len(e) \in 0..Len(u) /\ n - 1 \in 0..Len(e)
      BY <1>4, <1>5, <1>7
    <3> QED BY <1>4, <1>6, <3>1, PrefixOfPrefix
  <2>3. e[n] \in Outputs(r, AlonePath(r, n), p \o SubSeq(e, 1, n - 1))
    BY <1>1, <1>2, <1>7 DEF AloneTokens
  <2> QED BY <2>1, <2>2, <2>3
<1>8. CASE n \notin 1..Len(e)
  <2>1. PICK i \in 1..Len(c) : i = n - Len(e)
    BY <1>4, <1>5, <1>8
  <2>2. u[n] = c[i] /\ n = Len(e) + i
    BY <1>4, <1>5, <1>8, <2>1
  <2>3. PICK s \in Seq(Token) : s = SubSeq(c, 1, i - 1) /\ Len(s) = i - 1
                                /\ \A j \in 1..(i - 1) : s[j] = c[j]
    <3>1. i - 1 \in 0..Len(c)
      BY <1>5
    <3> QED BY <3>1, PrefixFacts
  <2>4. SubSeq(u, 1, n - 1) = e \o s
    <3>1. /\ e \o s \in Seq(Token) /\ Len(e \o s) = Len(e) + Len(s)
          /\ \A j \in 1..(Len(e) + Len(s)) :
               (e \o s)[j] = IF j <= Len(e) THEN e[j] ELSE s[j - Len(e)]
      BY ConcatProperties
    <3>2. n - 1 \in 0..Len(u) /\ n - 1 = Len(e) + Len(s)
      BY <1>4, <1>5, <2>2, <2>3
    <3>3. /\ SubSeq(u, 1, n - 1) \in Seq(Token) /\ Len(SubSeq(u, 1, n - 1)) = n - 1
          /\ \A j \in 1..(n - 1) : SubSeq(u, 1, n - 1)[j] = u[j]
      BY <1>4, <3>2, PrefixFacts
    <3>4. \A j \in 1..(n - 1) : u[j] = (e \o s)[j]
      <4> SUFFICES ASSUME NEW j \in 1..(n - 1) PROVE u[j] = (e \o s)[j]
        OBVIOUS
      <4>1. j \in 1..(Len(e) + Len(c)) /\ j \in 1..(Len(e) + Len(s))
        BY <1>4, <1>5, <3>2
      <4>2. ~(j <= Len(e)) => j - Len(e) \in 1..(i - 1)
        BY <1>5, <2>2
      <4> QED BY <1>4, <2>3, <3>1, <4>1, <4>2
    <3> DEFINE v == SubSeq(u, 1, n - 1)
               w == e \o s
    <3>5. /\ v \in Seq(Token) /\ w \in Seq(Token) /\ Len(v) = n - 1 /\ Len(w) = n - 1
          /\ \A j \in 1..(n - 1) : v[j] = w[j]
      BY <3>1, <3>2, <3>3, <3>4
    <3> HIDE DEF v, w
    <3>6. v = w
      BY <3>5, SeqEqual
    <3> QED BY <3>6 DEF v, w
  <2>5. p \o (e \o s) = (p \o e) \o s
    BY ConcatThrice
  <2>6. c[i] \in Outputs(r, AlonePath(r, Len(e) + i), tokens[r] \o s)
    BY <1>1, <2>3
  <2> QED BY <1>2, <2>2, <2>4, <2>5, <2>6
<1> QED BY <1>7, <1>8

\* The last token of a prefill or of a restore is drawn as it would be alone: the
\* slot was fed exactly the request's text.
LEMMA JoinAlone ==
  ASSUME BatcherInv, Join, NEW r \in Req, OwnPath(r), AloneTokens(r)
  PROVE  AloneTokens(r)'
<1>0. SchedulerInv /\ SchedulerTypeOK /\ SlotsOK /\ PhaseOK /\ KVInv /\ phase = "join"
  BY DEF BatcherInv, SchedulerInv, Join
<1>1. PICK x \in Req :
        /\ loading = {x} /\ x \in DOMAIN slotOf /\ TextOK(x) /\ RestoredOK(x)
        /\ tokens[x] \in Seq(Token) /\ tokens[x] # <<>>
  BY <1>0, LoadingFacts
<1>2. PICK g \in Token :
        /\ g \in Drawn(x, slotOf[x], IF hostKv[x] = <<>> THEN PrefillPath(x) ELSE OnePath(x),
                       tokens[x])
        /\ Emit(x, g)
  BY <1>1 DEF Join
<1>3. CASE x # r
  <2>1. emitted'[r] = emitted[r]
    BY <1>0, <1>2, <1>3 DEF Emit, SchedulerTypeOK
  <2> QED BY <2>1 DEF AloneTokens, AlonePath, PrefillPath, OnePath, RowPath
<1>4. CASE x = r
  <2>1. PICK text \in Seq(Token) : text = tokens[r]
    BY <1>1, <1>4
  <2>2. PICK s \in Slot : s = slotOf[r] /\ held[s] = text
    BY <1>0, <1>1, <1>4, <2>1 DEF SlotsOK, PhaseOK
  <2>3. Len(held[s]) <= Len(text) /\ held[s] = SubSeq(text, 1, Len(held[s]))
    <3>1. Len(text) \in Nat
      OBVIOUS
    <3> QED BY <2>2, <3>1, SubSeqFull
  <2>4. PICK path : path = AlonePath(r, Len(emitted[r]) + 1) /\ g \in Drawn(r, s, path, text)
    <3>1. /\ PrefillPath(r) = AlonePath(r, Len(emitted[r]) + 1)
          /\ OnePath(r) = AlonePath(r, Len(emitted[r]) + 1)
      BY PathsAgree
    <3> QED BY <1>2, <1>4, <2>1, <2>2, <3>1
  <2>5. g \in Outputs(r, path, text)
    BY <1>0, <2>3, <2>4, DrawsOwn
  <2>6. PICK c \in Seq(Token) : c = <<g>> /\ Len(c) = 1 /\ c[1] = g
    <3>1. <<g>> \in Seq(Token) /\ Len(<<g>>) = 1 /\ <<g>>[1] = g
      OBVIOUS
    <3> QED BY <3>1
  <2>7. emitted'[r] = emitted[r] \o c
    <3>1. emitted'[r] = Append(emitted[r], g) /\ emitted[r] \in Seq(Token)
      BY <1>0, <1>2, <1>4 DEF Emit, SchedulerTypeOK
    <3> QED BY <2>6, <3>1, AppendIsConcat
  <2>8. \A i \in 1..Len(c) :
          c[i] \in Outputs(r, AlonePath(r, Len(emitted[r]) + i), tokens[r] \o SubSeq(c, 1, i - 1))
    <3> SUFFICES ASSUME NEW i \in 1..Len(c)
        PROVE  c[i] \in Outputs(r, AlonePath(r, Len(emitted[r]) + i),
                                tokens[r] \o SubSeq(c, 1, i - 1))
      OBVIOUS
    <3>1. i = 1 /\ SubSeq(c, 1, 0) = <<>>
      BY <2>6, SubSeqEmpty
    <3>2. text \o <<>> = text
      BY ConcatEmptySeq
    <3>3. tokens[r] \o SubSeq(c, 1, i - 1) = text
      BY <2>1, <3>1, <3>2
    <3> QED BY <2>4, <2>5, <2>6, <3>1, <3>3
  <2> QED BY <1>0, <1>1, <1>4, <2>7, <2>8, AloneExtends
<1> QED BY <1>3, <1>4

\* The tokens of a decode step are drawn as they would be alone: a row attends its
\* own history and the drafts before it, and those were verified.
LEMMA DecodeAlone ==
  ASSUME BatcherInv, Decode, NEW r \in Req, OwnPath(r), AloneTokens(r)
  PROVE  AloneTokens(r)'
<1>0. SchedulerInv /\ SchedulerTypeOK /\ SlotsOK /\ PhaseOK /\ KVInv /\ phase = "decode"
  BY DEF BatcherInv, SchedulerInv, Decode
<1>1. PICK outs :
        /\ \A x \in Decoding :
             /\ outs[x] \in [1..(Len(draft[x]) + 1) -> Token]
             /\ \A i \in DOMAIN outs[x] :
                  outs[x][i] \in Drawn(x, slotOf[x], RowPath(x, BatchPath),
                                       tokens[x] \o SubSeq(draft[x], 1, i - 1))
        /\ emitted' = [x \in Req |-> IF x \in Decoding THEN emitted[x] \o Committed(x, outs[x])
                                     ELSE emitted[x]]
  BY Zenon DEF Decode, Decoding
<1>2. CASE r \notin Decoding
  <2>1. emitted'[r] = emitted[r]
    BY <1>1, <1>2
  <2> QED BY <2>1 DEF AloneTokens, AlonePath, PrefillPath, OnePath, RowPath
<1>3. CASE r \in Decoding
  <2>1. r \in DOMAIN slotOf /\ TextOK(r) /\ DecodingOK(r)
    BY <1>0, <1>3, DecodingFacts
  <2>2. PICK d \in Seq(Token) : d = draft[r]
    BY <1>0 DEF SchedulerTypeOK
  <2>3. PICK t \in Seq(Token) : t = tokens[r] /\ t # <<>>
    BY <1>0, <1>3, DecodingFacts
  <2>4. PICK s \in Slot : s = slotOf[r] /\ held[s] = Front(t)
    BY <1>0, <2>1, <2>3 DEF SlotsOK, DecodingOK
  <2>5. PICK o \in [1..(Len(d) + 1) -> Token] : o = outs[r]
    BY <1>1, <1>3, <2>2
  <2>6. PICK c \in Seq(Token) :
          /\ c = Committed(r, o) /\ c # <<>> /\ Len(c) <= Len(d) + 1
          /\ \A i \in 1..(Len(c) - 1) : c[i] = d[i]
          /\ \A i \in 1..Len(c) : c[i] = o[i]
    <3>1. Len(d) \in Nat
      OBVIOUS
    <3>2. PICK n \in 1..(Len(d) + 1) :
            /\ Committed(r, o) = SubSeq(o, 1, n)
            /\ \A i \in 1..(n - 1) :
                 o[i] = d[i] /\ ~DoneWith(r, tokens[r] \o SubSeq(o, 1, i))
      BY <2>2, CommittedFacts
    <3>3. o \in Seq(Token) /\ Len(o) = Len(d) + 1 /\ n \in 0..Len(o) /\ n # 0
      BY <3>1
    <3>4. PICK c : c = SubSeq(o, 1, n)
      OBVIOUS
    <3>5. c \in Seq(Token) /\ Len(c) = n /\ \A i \in 1..n : c[i] = o[i]
      BY <3>3, <3>4, PrefixFacts
    <3>6. c # <<>> /\ Len(c) <= Len(d) + 1 /\ \A i \in 1..(n - 1) : i \in 1..n
      BY <3>1, <3>3, <3>5
    <3> QED BY <3>2, <3>4, <3>5, <3>6
  <2>7. emitted'[r] = emitted[r] \o c
    BY <1>1, <1>3, <2>5, <2>6
  <2>8. \A i \in 1..Len(c) :
          c[i] \in Outputs(r, AlonePath(r, Len(emitted[r]) + i), tokens[r] \o SubSeq(c, 1, i - 1))
    <3> SUFFICES ASSUME NEW i \in 1..Len(c)
        PROVE  c[i] \in Outputs(r, AlonePath(r, Len(emitted[r]) + i),
                                tokens[r] \o SubSeq(c, 1, i - 1))
      OBVIOUS
    <3>1. Len(c) \in Nat /\ Len(d) \in Nat /\ Len(t) \in Nat \ {0}
      BY <2>3
    <3>2. i - 1 \in 0..Len(c) /\ i - 1 \in 0..Len(d) /\ i \in 1..(Len(d) + 1)
          /\ \A j \in 1..(i - 1) : j \in 1..(Len(c) - 1)
      BY <2>6, <3>1
    <3>3. SubSeq(c, 1, i - 1) = SubSeq(d, 1, i - 1)
      <4> DEFINE v == SubSeq(c, 1, i - 1)
                 w == SubSeq(d, 1, i - 1)
      <4>1. /\ v \in Seq(Token) /\ Len(v) = i - 1 /\ \A j \in 1..(i - 1) : v[j] = c[j]
            /\ w \in Seq(Token) /\ Len(w) = i - 1 /\ \A j \in 1..(i - 1) : w[j] = d[j]
        BY <3>2, PrefixFacts
      <4> HIDE DEF v, w
      <4>2. \A j \in 1..(i - 1) : v[j] = w[j]
        BY <2>6, <3>2, <4>1
      <4>3. v = w
        BY <4>1, <4>2, SeqEqual
      <4> QED BY <4>3 DEF v, w
    <3>4. PICK u \in Seq(Token) : u = SubSeq(d, 1, i - 1)
      BY <3>2, PrefixFacts
    <3>5. PICK text \in Seq(Token) : text = t \o u /\ Len(text) = Len(t) + Len(u)
                                     /\ t = SubSeq(text, 1, Len(t))
      BY ConcatPrefix
    <3>6. Len(held[s]) <= Len(text) /\ held[s] = SubSeq(text, 1, Len(held[s]))
      <4>1. Len(u) \in Nat /\ Len(t) - 1 \in 0..Len(t) /\ Len(t) \in 0..Len(text)
        BY <3>1, <3>5
      <4>2. held[s] = SubSeq(t, 1, Len(t) - 1)
        BY <2>4 DEF Front
      <4>3. Len(SubSeq(t, 1, Len(t) - 1)) = Len(t) - 1
        BY <4>1, PrefixFacts
      <4>4. SubSeq(SubSeq(text, 1, Len(t)), 1, Len(t) - 1) = SubSeq(text, 1, Len(t) - 1)
        BY <4>1, PrefixOfPrefix
      <4>5. Len(t) - 1 <= Len(text)
        BY <3>1, <3>5, <4>1
      <4> QED BY <3>5, <4>2, <4>3, <4>4, <4>5
    <3>7. PICK path : path = AlonePath(r, Len(emitted[r]) + i) /\ path = RowPath(r, BatchPath)
      <4>1. r \in ToSet(active) /\ ToSet(active) \subseteq Req
        BY <1>0, <1>3, QueueMembers DEF SchedulerTypeOK, Decoding
      <4> QED BY <4>1, PathsAgree
    <3>8. o[i] \in Drawn(r, s, path, text)
      BY <1>1, <1>3, <2>2, <2>3, <2>4, <2>5, <3>2, <3>4, <3>5, <3>7
    <3>9. o[i] \in Outputs(r, path, text)
      BY <1>0, <3>6, <3>8, DrawsOwn
    <3> QED BY <2>3, <2>6, <3>3, <3>4, <3>5, <3>7, <3>9
  <2> QED BY <1>0, <2>1, <2>7, <2>8, AloneExtends
<1> QED BY <1>2, <1>3

\* No step draws a token that the request would not have drawn alone.
LEMMA AloneStep ==
  ASSUME BatcherInv, [BatcherNext]_vars, NEW r \in Req, OwnPath(r), AloneTokens(r)
  PROVE  AloneTokens(r)'
<1>1. CASE UNCHANGED emitted
  BY <1>1 DEF AloneTokens, AlonePath, PrefillPath, OnePath, RowPath
<1>2. StepNext => UNCHANGED emitted \/ Decode \/ Join
  BY DEF StepNext, StepBegin, MakeRoom, LayRows, Page, Retire, SkipPrefill, EvictActive,
         EvictPrefill, PrefillPage, PrefillChunk, RegisterPrefix, Resume, LoadPage, Load,
         StepEnd, seqVars, textVars
<1>3. \A x \in Req : Enqueue(x) \/ Admit(x) \/ Cancel(x) => UNCHANGED emitted
  BY DEF Enqueue, Admit, Cancel
<1>4. UNCHANGED vars => UNCHANGED emitted
  BY DEF vars, seqVars, textVars
<1> QED BY <1>1, <1>2, <1>3, <1>4, DecodeAlone, JoinAlone DEF BatcherNext

\* Requests with a path of their own get the tokens they would get alone.
OwnPathsAlone == \A r \in Req : OwnPath(r) => AloneTokens(r)

\* By induction over the steps, from the scheduler's invariant.
LEMMA OwnPathsInvariant == BatcherSpec => []OwnPathsAlone
<1>1. BatcherInit => OwnPathsAlone
  <2> SUFFICES ASSUME BatcherInit, NEW r \in Req PROVE AloneTokens(r)
    BY DEF OwnPathsAlone
  <2>1. emitted[r] = <<>>
    BY DEF BatcherInit
  <2> QED BY <2>1 DEF AloneTokens
<1>2. BatcherInv /\ OwnPathsAlone /\ [BatcherNext]_vars => OwnPathsAlone'
  <2> SUFFICES ASSUME BatcherInv, OwnPathsAlone, [BatcherNext]_vars, NEW r \in Req, OwnPath(r)
      PROVE  AloneTokens(r)'
    BY DEF OwnPathsAlone, OwnPath
  <2> QED BY AloneStep DEF OwnPathsAlone
<1> QED BY <1>1, <1>2, BatcherInvariant, PTL DEF BatcherSpec

\* A greedy request gets the tokens it would get alone, whatever is batched with it,
\* however often it is preempted and resumed, by swap or by recompute, and whatever
\* was drafted for it.
GreedyAsIfAlone == \A r \in Req : Kind[r] = "greedy" => AloneTokens(r)

\* For greedy requests batching, preemption, resumption and drafting are invisible,
\* also next to requests with top-k.
THEOREM GreedyIsDeterministic == BatcherSpec => []GreedyAsIfAlone
<1>1. OwnPathsAlone => GreedyAsIfAlone
  BY DEF OwnPathsAlone, GreedyAsIfAlone, OwnPath
<1> QED BY <1>1, OwnPathsInvariant, PTL

\* Where no request asks for top-k, so does every request: batching, preemption and
\* drafting are invisible in the tokens.  (With top-k it is false: see the runs.)
THEOREM BatchingIsInvisible ==
  ASSUME \A r \in Req : Kind[r] # "topk"
  PROVE  BatcherSpec => []AsIfAlone
<1>1. OwnPathsAlone => AsIfAlone
  BY DEF OwnPathsAlone, OwnPath, AloneTokens, AsIfAlone
<1> QED BY <1>1, OwnPathsInvariant, PTL

=============================================================================
