-------------------------- MODULE ContinuousBatcher --------------------------
(***************************************************************************)
(* The continuous-batching scheduler, ContinuousBatcher of                 *)
(* src/src/backend/gpu/batch.rs, over the paged pool of module PagedKV.    *)
(*                                                                         *)
(* The scheduler is sequential: it belongs to one thread.  A call to       *)
(* step() makes many state changes in a fixed order, which phase walks     *)
(* through: one action is one call on the pool or one turn of a loop, and  *)
(* nothing else can happen before phase is back to "idle".                 *)
(*                                                                         *)
(*   idle -> room (or roomPld) -> page -> decode -> retire -> prefill      *)
(*        prefill -> (register -> join ->) resched -> idle                 *)
(*        resched -> load -> (register ->) join -> resched                 *)
(*                                                                         *)
(* The three phases of Failed are failed assertions: they unwind the       *)
(* serving thread, and the batcher does nothing more.                      *)
(*                                                                         *)
(* The model's weights and the sampler are the constant Outputs: the       *)
(* tokens that may follow a text when drawn by one of the three selection  *)
(* paths.  A row that attends anything but its own tokens may draw any.    *)
(***************************************************************************)
EXTENDS PagedKV, SpecDecode, SequencesExt

CONSTANTS
  Req,            \* request ids
  Prompt,         \* prompt of a request
  MaxTokens,      \* max_tokens of a request
  Kind,           \* its SamplingParams: "greedy", "temp" or "topk" (needs_topk)
  Eos,            \* end-of-sequence token
  Chunk,          \* prompt tokens per prefill pass (row_cap)
  SwapModes,      \* the values ZLLM_SWAP may give to swap_mode
  Pld,            \* ZLLM_CB_PLD: step_pld for an all-greedy batch
  LookupLen, DraftK,
  Outputs(_, _, _)

ASSUME BatcherAssumption ==
  /\ Eos \in Token
  /\ Prompt \in [Req -> Seq(Token) \ {<<>>}]
  /\ MaxTokens \in [Req -> Nat]
  /\ Kind \in [Req -> {"greedy", "temp", "topk"}]
  /\ Chunk \in Nat \ {0}
  /\ SwapModes \subseteq BOOLEAN /\ Pld \in BOOLEAN
  /\ LookupLen \in Nat /\ DraftK \in Nat
  \* new_paged's assert: the pool holds one full sequence
  /\ Cardinality(Block) >= MaxBlocks

VARIABLES
  phase,         \* where the scheduler is in step()
  after,         \* where admission and rescheduling continue after a load
  swapMode,      \* swap_mode: preempt by swap-to-host instead of recompute
  freeSlots,     \* ContinuousBatcher.free
  active,        \* decoding requests, in admission order
  prefilling,    \* requests mid-prefill, oldest first
  preempted,     \* evicted requests, oldest first
  loading,       \* the request (if any) whose prefill or restore just ran
  slotOf,        \* slot of every request that has one
  tokens,        \* prompt plus produced tokens
  prefillPos,    \* next prompt position to prefill
  cachedBlocks,  \* prompt blocks served by the prefix cache
  hostKv,        \* KV swapped out to the host, <<>> for recompute
  draft,         \* this step's prompt-lookup draft of an active request
  emitted,       \* tokens returned by admit and step so far
  finished,      \* how many times done was returned
  status         \* "new", "in", "done" or "cancelled"

queueVars == <<active, prefilling, preempted, loading>>
slotVars == <<freeSlots, slotOf>>
textVars == <<tokens, emitted, finished, status>>
loadVars == <<prefillPos, cachedBlocks, hostKv, draft>>
seqVars == <<phase, after, swapMode, queueVars, slotVars, textVars, loadVars>>
vars == <<kvVars, seqVars>>

-----------------------------------------------------------------------------
Failed == {"rowsAssert", "positionAssert", "poolAssert"}

GenIndex(r) == Len(tokens[r]) - Len(Prompt[r])
\* Mutant of DoneWith: max_tokens is overrun by one.
DoneWithLate(r, toks) ==
  toks[Len(toks)] = Eos \/ Len(toks) - Len(Prompt[r]) > MaxTokens[r]

DoneWith(r, toks) ==
  toks[Len(toks)] = Eos \/ Len(toks) - Len(Prompt[r]) >= MaxTokens[r]

\* Positions 1..n of slot s hold the KV of text, so a row attending them sees it.
Sees(s, text, n) ==
  \A p \in 1..n : kv[BlockAt(s, p)][OffsetAt(p)] = SubSeq(text, 1, p)

\* What a row may draw whose last input is the end of text.
Drawn(r, s, path, text) ==
  IF Sees(s, text, IF Len(held[s]) < Len(text) THEN Len(held[s]) ELSE Len(text))
  THEN Outputs(r, path, text) ELSE Token

\* The selection path of step(): top-k if any stream needs it, else Gumbel if
\* any has a temperature.  A greedy row takes its argmax on each of them.
BatchPath == IF \E r \in ToSet(active) : Kind[r] = "topk" THEN "topk"
             ELSE IF \E r \in ToSet(active) : Kind[r] = "temp" THEN "gumbel"
             ELSE "argmax"
RowPath(r, path) == IF Kind[r] = "greedy" THEN "argmax" ELSE path
\* Prefill draws by temperature only; decode_one by the request's own params.
PrefillPath(r) == RowPath(r, "gumbel")
OnePath(r) == RowPath(r, IF Kind[r] = "topk" THEN "topk" ELSE "gumbel")

-----------------------------------------------------------------------------
Assign(r, s) ==
  /\ freeSlots' = freeSlots \ {s}
  /\ slotOf' = [x \in DOMAIN slotOf \cup {r} |-> IF x = r THEN s ELSE slotOf[x]]

\* Mutant of Vacate: free_slot is not called, the blocks stay with the slot.
VacateKeepsBlocks(r) ==
  /\ freeSlots' = freeSlots \cup {slotOf[r]}
  /\ slotOf' = [x \in DOMAIN slotOf \ {r} |-> slotOf[x]]
  /\ UNCHANGED kvVars

\* free_slot, then the slot goes back to the free list.
Vacate(r) ==
  /\ FreeSlot(slotOf[r])
  /\ freeSlots' = freeSlots \cup {slotOf[r]}
  /\ slotOf' = [x \in DOMAIN slotOf \ {r} |-> slotOf[x]]

Emit(r, g) ==
  /\ tokens' = [tokens EXCEPT ![r] = Append(@, g)]
  /\ emitted' = [emitted EXCEPT ![r] = Append(@, g)]

Finish(r) ==
  /\ finished' = [finished EXCEPT ![r] = @ + 1]
  /\ status' = [status EXCEPT ![r] = "done"]

BatcherInit ==
  /\ KVInit
  /\ phase = "idle" /\ after = "idle"
  /\ swapMode \in SwapModes
  /\ freeSlots = Slot
  /\ active = <<>> /\ prefilling = <<>> /\ preempted = <<>> /\ loading = {}
  /\ slotOf = [r \in {} |-> {}]
  /\ tokens = Prompt
  /\ prefillPos = [r \in Req |-> 0]
  /\ cachedBlocks = [r \in Req |-> 0]
  /\ hostKv = [r \in Req |-> <<>>]
  /\ draft = [r \in Req |-> <<>>]
  /\ emitted = [r \in Req |-> <<>>]
  /\ finished = [r \in Req |-> 0]
  /\ status = [r \in Req |-> "new"]

-----------------------------------------------------------------------------
(* Calls between steps *)

\* Mutant of CachedLen: the cached prefix is ignored.
CachedLenZero(prompt) == 0

\* The position after the reused prefix, where prefill starts.
CachedLen(prompt) == CachedBlocks(prompt) * BlockSize

\* enqueue_params, when it accepts: the prompt fits the context and the pool,
\* and a slot is free.  When it refuses, nothing changes.
Enqueue(r) ==
  /\ phase = "idle" /\ status[r] = "new"
  /\ Len(Prompt[r]) <= MaxSeq
  /\ CanFit(Len(Prompt[r]))
  /\ \E s \in freeSlots :
       /\ Assign(r, s)
       /\ PrefixReuse(s, Prompt[r])
  /\ prefilling' = Append(prefilling, r)
  /\ cachedBlocks' = [cachedBlocks EXCEPT ![r] = CachedBlocks(Prompt[r])]
  /\ prefillPos' = [prefillPos EXCEPT ![r] = CachedLen(Prompt[r])]
  /\ status' = [status EXCEPT ![r] = "in"]
  /\ UNCHANGED <<phase, after, swapMode, active, preempted, loading, tokens,
                 hostKv, draft, emitted, finished>>

\* admit_params: the same, but the whole prompt is prefilled at once.
Admit(r) ==
  /\ phase = "idle" /\ status[r] = "new"
  /\ CanFit(Len(Prompt[r]))
  /\ \E s \in freeSlots :
       /\ Assign(r, s)
       /\ PrefixReuse(s, Prompt[r])
  /\ loading' = {r}
  /\ cachedBlocks' = [cachedBlocks EXCEPT ![r] = CachedBlocks(Prompt[r])]
  /\ status' = [status EXCEPT ![r] = "in"]
  /\ phase' = "load" /\ after' = "idle"
  /\ UNCHANGED <<swapMode, active, prefilling, preempted, tokens, prefillPos,
                 hostKv, draft, emitted, finished>>

\* position, then remove: queue q without r.
Without(q, r) ==
  IF r \in ToSet(q) THEN RemoveAt(q, CHOOSE i \in DOMAIN q : q[i] = r) ELSE q

\* Mutant of Dequeue: a preempted request is forgotten.
DequeueSlotted(r) ==
  /\ active' = Without(active, r)
  /\ prefilling' = Without(prefilling, r)
  /\ UNCHANGED preempted

Dequeue(r) ==
  /\ active' = Without(active, r)
  /\ prefilling' = Without(prefilling, r)
  /\ preempted' = Without(preempted, r)

\* cancel: a decoding, prefilling or preempted request disappears at once.
Cancel(r) ==
  /\ phase = "idle" /\ status[r] = "in"
  /\ Dequeue(r)
  /\ status' = [status EXCEPT ![r] = "cancelled"]
  /\ IF r \in DOMAIN slotOf THEN Vacate(r)
     ELSE UNCHANGED <<kvVars, slotVars>>
  /\ hostKv' = [hostKv EXCEPT ![r] = <<>>]
  /\ UNCHANGED <<phase, after, swapMode, loading, tokens, prefillPos,
                 cachedBlocks, draft, emitted, finished>>

\* The serving loop calls step_pld instead of step when the batch is all greedy.
AllGreedy == \A r \in ToSet(active) : Kind[r] = "greedy"

StepBegin ==
  /\ phase = "idle"
  /\ active # <<>> \/ prefilling # <<>> \/ preempted # <<>>
  /\ phase' = IF active = <<>> THEN "prefill"
              ELSE IF Pld /\ AllGreedy THEN "roomPld" ELSE "room"
  /\ UNCHANGED <<after, swapMode, kvVars, slotVars, queueVars, textVars,
                 loadVars>>

-----------------------------------------------------------------------------
(* Decode the active batch *)

\* swap_out: the KV of every token but the last, which is not fed yet.
SwappedOut(r) ==
  [p \in 1..(Len(tokens[r]) - 1) |-> kv[BlockAt(slotOf[r], p)][OffsetAt(p)]]

\* preempt_last_active: the youngest active request gives up its slot.
PreemptLastActive ==
  LET r == Last(active) IN
  /\ Vacate(r)
  /\ active' = Front(active)
  /\ preempted' = Append(preempted, r)
  /\ hostKv' = [hostKv EXCEPT ![r] = IF swapMode THEN SwappedOut(r) ELSE <<>>]

\* make_room's demand: the blocks the active requests need for one more token.
Needed == Cardinality(UNION {{r} \X (1..BlocksShort(slotOf[r], Len(tokens[r]))) :
                               r \in ToSet(active)})

MakeRoom ==
  /\ phase \in {"room", "roomPld"}
  /\ Len(active) > 1 /\ FreeBlocks < Needed
  /\ PreemptLastActive
  /\ UNCHANGED <<phase, after, swapMode, prefilling, loading, textVars,
                 prefillPos, cachedBlocks, draft>>

\* step_pld drafts at most what max_tokens leaves; step() drafts nothing.
DraftOf(r) ==
  LET left == MaxTokens[r] - GenIndex(r)
  IN  IF phase = "roomPld"
      THEN LookupDraftBest(tokens[r], tokens[r], LookupLen,
                           IF DraftK < left THEN DraftK ELSE left)
      ELSE <<>>

\* The rows are laid out and the two assertions before paging are evaluated:
\* step_core's row bound and write_inputs' position bound.
LayRows ==
  /\ phase \in {"room", "roomPld"}
  /\ ~(Len(active) > 1 /\ FreeBlocks < Needed)
  /\ draft' = [r \in Req |-> IF r \in ToSet(active) THEN DraftOf(r) ELSE <<>>]
  /\ LET rows == Cardinality(UNION {{r} \X (0..Len(DraftOf(r))) : r \in ToSet(active)})
     IN  phase' = IF rows > Cardinality(Slot) THEN "rowsAssert"
                  ELSE IF \E r \in ToSet(active) :
                            Len(tokens[r]) + Len(DraftOf(r)) > MaxSeq
                  THEN "positionAssert" ELSE "page"
  /\ UNCHANGED <<after, swapMode, kvVars, slotVars, queueVars, textVars,
                 prefillPos, cachedBlocks, hostKv>>

\* prepare_paging: row by row, ensure the blocks of its position.
Rows(r) == Len(tokens[r]) + Len(draft[r])
Short == {i \in 1..Len(active) :
            BlocksShort(slotOf[active[i]], Rows(active[i])) > 0}

Page ==
  /\ phase = "page"
  /\ IF Short = {} THEN phase' = "decode" /\ UNCHANGED kvVars
     ELSE IF PoolExhausted THEN phase' = "poolAssert" /\ UNCHANGED kvVars
     ELSE /\ AllocInto(slotOf[active[CHOOSE i \in Short : \A j \in Short : i <= j]])
          /\ UNCHANGED phase
  /\ UNCHANGED <<after, swapMode, slotVars, queueVars, textVars, loadVars>>

\* The tokens a request commits when its rows return outs: the accepted draft
\* and one more, cut at the first that ends the request.
Committed(r, outs) ==
  LET c    == SubSeq(outs, 1, Accepted(draft[r], outs) + 1)
      ends == {i \in 1..Len(c) : DoneWith(r, tokens[r] \o SubSeq(c, 1, i))}
  IN  IF ends = {} THEN c
      ELSE SubSeq(c, 1, CHOOSE i \in ends : \A j \in ends : i <= j)

\* The batched forward: every row stores its KV and draws a token; the requests
\* commit what they accept and out reports it.
Decode ==
  /\ phase = "decode"
  /\ LET A == ToSet(active)
         path == BatchPath
         RowText(r, i) == tokens[r] \o SubSeq(draft[r], 1, i - 1)
         RowOuts(r) == {o \in [1..(Len(draft[r]) + 1) -> Token] :
                          \A i \in DOMAIN o :
                            o[i] \in Drawn(r, slotOf[r], RowPath(r, path), RowText(r, i))}
     IN  \E outs \in [A -> UNION {RowOuts(r) : r \in A}] :
           /\ \A r \in A : outs[r] \in RowOuts(r)
           /\ tokens' = [r \in Req |-> IF r \in A THEN tokens[r] \o Committed(r, outs[r])
                                       ELSE tokens[r]]
           /\ emitted' = [r \in Req |-> IF r \in A THEN emitted[r] \o Committed(r, outs[r])
                                        ELSE emitted[r]]
           /\ WriteKV([s \in Slot |->
                         IF \E r \in A : slotOf[r] = s
                         THEN LET r == CHOOSE r \in A : slotOf[r] = s
                              IN  KVOf(tokens[r] \o draft[r], Len(held[s]))
                         ELSE <<>>],
                      [s \in Slot |->
                         IF \E r \in A : slotOf[r] = s
                         THEN LET r == CHOOSE r \in A : slotOf[r] = s IN Front(tokens'[r])
                         ELSE held[s]])
           /\ finished' = [r \in Req |-> IF r \in A /\ DoneWith(r, tokens'[r])
                                         THEN finished[r] + 1 ELSE finished[r]]
           /\ status' = [r \in Req |-> IF r \in A /\ DoneWith(r, tokens'[r])
                                       THEN "done" ELSE status[r]]
  /\ phase' = "retire"
  /\ draft' = [r \in Req |-> <<>>]
  /\ UNCHANGED <<after, swapMode, slotVars, queueVars, prefillPos,
                 cachedBlocks, hostKv>>

\* active.retain: finished requests give back their slots, in order.
Retire ==
  /\ phase = "retire"
  /\ LET over == {i \in 1..Len(active) : DoneWith(active[i], tokens[active[i]])}
     IN  IF over = {}
         THEN /\ phase' = "prefill"
              /\ UNCHANGED <<kvVars, active, slotVars>>
         ELSE LET i == CHOOSE i \in over : \A j \in over : i <= j
              IN  /\ Vacate(active[i])
                  /\ active' = RemoveAt(active, i)
                  /\ UNCHANGED phase
  /\ UNCHANGED <<after, swapMode, prefilling, preempted, loading, textVars,
                 loadVars>>

-----------------------------------------------------------------------------
(* Advance the front prefilling request by one chunk *)

\* Mutant of ChunkEnd: the chunk is measured from the start of the prompt.
ChunkEndFromStart(r) == IF Chunk < Len(Prompt[r]) THEN Chunk ELSE Len(Prompt[r])

ChunkEnd(r) == IF prefillPos[r] + Chunk < Len(Prompt[r])
               THEN prefillPos[r] + Chunk ELSE Len(Prompt[r])

FrontShort == LET r == Head(prefilling) IN BlocksShort(slotOf[r], ChunkEnd(r))

\* Nothing to prefill, or the chunk does not fit and nobody is left to evict.
SkipPrefill ==
  /\ phase = "prefill"
  /\ prefilling # <<>> =>
       FrontShort > FreeBlocks /\ active = <<>> /\ Len(prefilling) < 2
  /\ phase' = "resched"
  /\ UNCHANGED <<after, swapMode, kvVars, slotVars, queueVars, textVars,
                 loadVars>>

\* Make the chunk fit: evict the youngest active request, ...
EvictActive ==
  /\ phase = "prefill" /\ prefilling # <<>>
  /\ FrontShort > FreeBlocks
  /\ active # <<>>
  /\ PreemptLastActive
  /\ UNCHANGED <<phase, after, swapMode, prefilling, loading, textVars,
                 prefillPos, cachedBlocks, draft>>

\* ... then (preempt_last_prefill) the youngest prefilling one but the front.
EvictPrefill ==
  /\ phase = "prefill" /\ prefilling # <<>>
  /\ FrontShort > FreeBlocks
  /\ active = <<>> /\ Len(prefilling) >= 2
  /\ LET r == Last(prefilling) IN
       /\ Vacate(r)
       /\ preempted' = Append(preempted, r)
       /\ hostKv' = [hostKv EXCEPT ![r] = <<>>]
  /\ prefilling' = Front(prefilling)
  /\ UNCHANGED <<phase, after, swapMode, active, loading, textVars,
                 prefillPos, cachedBlocks, draft>>

\* prefill_chunk's prepare_paging.
PrefillPage ==
  /\ phase = "prefill" /\ prefilling # <<>>
  /\ 0 < FrontShort /\ FrontShort <= FreeBlocks
  /\ AllocInto(slotOf[Head(prefilling)])
  /\ UNCHANGED seqVars

\* prefill_chunk's forward.  The last chunk completes the prompt.
PrefillChunk ==
  /\ phase = "prefill" /\ prefilling # <<>>
  /\ FrontShort = 0
  /\ LET r == Head(prefilling) s == slotOf[r] text == SubSeq(Prompt[r], 1, ChunkEnd(r)) IN
       /\ WriteKV([x \in Slot |-> IF x = s THEN KVOf(text, Len(held[s])) ELSE <<>>],
                  [held EXCEPT ![s] = text])
       /\ prefillPos' = [prefillPos EXCEPT ![r] = ChunkEnd(r)]
       /\ IF ChunkEnd(r) < Len(Prompt[r])
          THEN phase' = "resched" /\ UNCHANGED <<after, prefilling, loading>>
          ELSE /\ prefilling' = Tail(prefilling)
               /\ loading' = {r}
               /\ phase' = "register" /\ after' = "resched"
  /\ UNCHANGED <<swapMode, slotVars, active, preempted, textVars,
                 cachedBlocks, hostKv, draft>>

\* prefill_register publishes the full blocks of the text just prefilled.
RegisterPrefix ==
  /\ phase = "register"
  /\ \E r \in loading : Register(slotOf[r], tokens[r], cachedBlocks[r])
  /\ phase' = "join"
  /\ UNCHANGED <<after, swapMode, slotVars, queueVars, textVars, loadVars>>

\* The token the prefill (or, after a restore, the one decode row) selected ends
\* the request or lets it join the batch.
Join ==
  /\ phase = "join"
  /\ \E r \in loading :
       /\ \E g \in Token :
            /\ g \in Drawn(r, slotOf[r],
                          IF hostKv[r] = <<>> THEN PrefillPath(r) ELSE OnePath(r),
                          tokens[r])
            /\ Emit(r, g)
            /\ IF DoneWith(r, Append(tokens[r], g))
               THEN /\ Vacate(r) /\ Finish(r) /\ UNCHANGED active
               ELSE /\ active' = Append(active, r)
                    /\ UNCHANGED <<kvVars, slotVars, finished, status>>
       /\ hostKv' = [hostKv EXCEPT ![r] = <<>>]
  /\ loading' = {}
  /\ phase' = after
  /\ UNCHANGED <<after, swapMode, prefilling, preempted, prefillPos,
                 cachedBlocks, draft>>

-----------------------------------------------------------------------------
(* Resume preempted requests *)

CanResume == /\ preempted # <<>> /\ freeSlots # {}
             /\ CanFit(Len(tokens[Head(preempted)]))

\* The oldest preempted request takes a slot.  Recompute reuses what prefix of
\* its text is still cached; swap-to-host starts from fresh blocks.
Resume ==
  /\ phase = "resched" /\ CanResume
  /\ LET r == Head(preempted) IN
       /\ \E s \in freeSlots :
            /\ Assign(r, s)
            /\ IF hostKv[r] = <<>> THEN PrefixReuse(s, tokens[r]) ELSE UNCHANGED kvVars
       /\ cachedBlocks' = [cachedBlocks EXCEPT ![r] =
            IF hostKv[r] = <<>> THEN CachedBlocks(tokens[r]) ELSE 0]
       /\ loading' = {r}
  /\ preempted' = Tail(preempted)
  /\ phase' = "load" /\ after' = "resched"
  /\ UNCHANGED <<swapMode, active, prefilling, textVars, prefillPos, hostKv,
                 draft>>

\* prefill_slot_cached (or swap_in and decode_one): positions are checked, the
\* blocks of the whole text ensured, ...
LoadPage ==
  /\ phase = "load"
  /\ \E r \in loading :
       IF Len(tokens[r]) > MaxSeq THEN phase' = "positionAssert" /\ UNCHANGED kvVars
       ELSE /\ BlocksShort(slotOf[r], Len(tokens[r])) > 0
            /\ IF PoolExhausted THEN phase' = "poolAssert" /\ UNCHANGED kvVars
               ELSE AllocInto(slotOf[r]) /\ UNCHANGED phase
  /\ UNCHANGED <<after, swapMode, slotVars, queueVars, textVars, loadVars>>

\* ... and its KV stored: the saved entries and the row of the last token, or
\* the recomputed positions after the reused prefix.
Load ==
  /\ phase = "load"
  /\ \E r \in loading :
       LET s == slotOf[r] IN
       /\ Len(tokens[r]) <= MaxSeq
       /\ BlocksShort(s, Len(tokens[r])) = 0
       /\ WriteKV([x \in Slot |->
                      IF x # s THEN <<>>
                      ELSE IF hostKv[r] # <<>> THEN Append(hostKv[r], tokens[r])
                      ELSE KVOf(tokens[r], Len(held[s]))],
                  [held EXCEPT ![s] = tokens[r]])
       /\ phase' = IF hostKv[r] = <<>> THEN "register" ELSE "join"
  /\ UNCHANGED <<after, swapMode, slotVars, queueVars, textVars, loadVars>>

StepEnd ==
  /\ phase = "resched" /\ ~CanResume
  /\ phase' = "idle"
  /\ UNCHANGED <<after, swapMode, kvVars, slotVars, queueVars, textVars,
                 loadVars>>

-----------------------------------------------------------------------------
StepNext ==
  \/ StepBegin \/ MakeRoom \/ LayRows \/ Page \/ Decode \/ Retire
  \/ SkipPrefill \/ EvictActive \/ EvictPrefill
  \/ PrefillPage \/ PrefillChunk \/ RegisterPrefix \/ Join
  \/ Resume \/ LoadPage \/ Load \/ StepEnd

BatcherNext == StepNext \/ \E r \in Req : Enqueue(r) \/ Admit(r) \/ Cancel(r)

BatcherSpec == BatcherInit /\ [][BatcherNext]_vars

-----------------------------------------------------------------------------
(* Properties *)

InFlight == ToSet(active) \cup ToSet(prefilling) \cup ToSet(preempted) \cup loading

NoRepeat(q) == \A i, j \in 1..Len(q) : q[i] = q[j] => i = j

\* Every slot is either free, and then owns no block, or belongs to exactly one
\* request; a request is in one queue only, and holds a slot unless preempted.
\* Cancel, retire, preemption and resume neither leak nor double-free a slot.
SlotsAccounted ==
  /\ NoRepeat(active \o prefilling \o preempted)
  /\ ToSet(active \o prefilling \o preempted) \cap loading = {}
  /\ DOMAIN slotOf = InFlight \ ToSet(preempted)
  /\ \A q, r \in DOMAIN slotOf : slotOf[q] = slotOf[r] => q = r
  /\ freeSlots = Slot \ {slotOf[r] : r \in DOMAIN slotOf}
  /\ \A s \in freeSlots : slotBlocks[s] = <<>>
  /\ \A r \in Req : status[r] = "in" => r \in InFlight

\* The derived write position is right: the KV of a decoding request holds its
\* history but the last token (CbSeq's comment), that of a prefilling one its
\* prompt up to prefill_pos.
FedHistory ==
  /\ \A r \in ToSet(active) : held[slotOf[r]] = Front(tokens[r])
  /\ \A r \in ToSet(prefilling) :
       held[slotOf[r]] = SubSeq(Prompt[r], 1, prefillPos[r])

\* No assertion of the decoder fails: the rows fit the batch buffers, the
\* positions the context, the blocks the pool.
NoAssertionFails == phase \notin Failed

\* write_inputs' assertion "position exceeds max_seq" (mod.rs:2454).
PositionsFitContext == phase # "positionAssert"

\* step_core's assertion that a step has at most m_max rows (mod.rs:2196).
RowsFitBatch == phase # "rowsAssert"

\* make_room leaves enough blocks: "A single sequence always fits" (batch.rs:301),
\* so prepare_paging's assertion that the pool is not exhausted holds.
PoolSuffices == phase # "poolAssert"

\* With a pool of MaxBlocks blocks per slot (BatchedDecoder::new) admission never
\* starves: while a slot is free any prompt of MaxSeq tokens fits, and nothing
\* is ever preempted.
FullPoolNeverStarves ==
  Cardinality(Block) >= Cardinality(Slot) * MaxBlocks =>
    preempted = <<>> /\ (freeSlots # {} => CanFit(MaxSeq))

\* advance_prefill "makes room ... so the front always progresses": its "can't fit
\* yet; wait" return is never taken, even in an overcommitted pool.
FrontAlwaysProgresses ==
  phase = "prefill" /\ prefilling # <<>> /\ FrontShort > FreeBlocks
    => active # <<>> \/ Len(prefilling) >= 2

\* A request's stream: its tokens in order, at most max_tokens of them (one if
\* max_tokens is 0), ended by EOS or the limit and by nothing else, done once.
StreamWellFormed ==
  \A r \in Req :
    /\ tokens[r] = Prompt[r] \o emitted[r]
    /\ finished[r] = IF status[r] = "done" THEN 1 ELSE 0
    /\ \A n \in 1..Len(emitted[r]) :
         emitted[r][n] = Eos \/ n >= MaxTokens[r]
           <=> n = Len(emitted[r]) /\ status[r] = "done"

\* Nothing is produced for a request after it was done or cancelled.
SilentAfterEnd ==
  [][\A r \in Req : status[r] \in {"done", "cancelled"} =>
       emitted'[r] = emitted[r] /\ status'[r] = status[r]]_vars

\* How the n-th token of r is drawn when r is alone in the batcher: the first by
\* prefill, every other by a decode row with r's own parameters.
AlonePath(r, n) == IF n = 1 THEN PrefillPath(r) ELSE OnePath(r)

\* A request's tokens do not depend on what else was batched with it, on whether
\* it was preempted and how it was resumed, or on drafting: "bit-identical to
\* never preempting" (batch.rs:30), "bit-identical to step()" (batch.rs:218),
\* "reproducible per request" (batch.rs:134).  Each is one that the model, run on
\* the request alone, may draw there; the token itself where Outputs is a singleton.
AsIfAlone ==
  \A r \in Req : \A n \in 1..Len(emitted[r]) :
    emitted[r][n] \in Outputs(r, AlonePath(r, n), Prompt[r] \o SubSeq(emitted[r], 1, n - 1))

\* Every request that is admitted comes to its end, unless an assertion failed.
EveryRequestEnds ==
  \A r \in Req : status[r] = "in" ~> status[r] # "in" \/ phase \in Failed
=============================================================================
