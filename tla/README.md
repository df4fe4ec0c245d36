# zllm: a TLA+ development

Specifications, model checking and proofs for the inference server in this
repository. Source paths start at the directory that holds the checkout, `src/`, so that
the Rust crate is `src/src/...`. In the text `mod.rs` is `src/src/backend/gpu/mod.rs`,
`batch.rs` is `src/src/backend/gpu/batch.rs`, `vulkan` is
`src/src/backend/vulkan/mod.rs`, `rest.rs` is `src/src/server/rest.rs`, and the fork is
`src/src/backend/candle/quantized_llama_fork.rs`.

## 1. The system

### Components

| component | state it keeps | operations | what makes it correct |
|---|---|---|---|
| **Paged KV pool** (`BlockState`, `BatchedDecoder`, mod.rs) | free stack, block list per slot, reference counts, prefix cache (`cache_map`/`block_hash`), LRU ticks, the KV buffers | `ensure_blocks`/`alloc`, `free_slot`, `prefill_prefix_reuse`, `prefill_register`, the forward's KV stores, `swap_out`, `swap_in` | counts exact; no block leaks, aliases or is handed out in use; sharing invisible; a cached block holds what it is registered for |
| **Continuous batcher** (`ContinuousBatcher`, batch.rs) | free slots; active, prefilling and preempted queues; per-sequence history, prefill cursor, saved KV | `enqueue_params`, `admit_params`, `cancel`, `step`, `step_pld` | slots accounted for; a request's tokens do not depend on the batch, on preemption or on drafting; every request ends |
| **GPU batch server** (`GpuBatchServer`, batch.rs) | message queue, channel per request, the loaded model | `submit`, `swap_model`, disconnect, the `serve` loop | streams complete and end once; abandoned sequences are reclaimed; a swap is answered; a lost thread ends every stream |
| **Handlers** (rest.rs, main.rs) | `active_requests`, one mutex per slot, the resident engine's, the memory's and the tokenizer's locks, the token table, model name, window and template | chat, streamed and text completions, batched completions, embeddings, goal updates, `select_model` | admission is bounded and released; locks are not taken in a circle; a reply comes from one model |
| **Decode lanes** (rest.rs, spec_decode.rs, candle/backend.rs, the fork) | a slot's KV caches with `index_pos`, the last text, a draft model's KV; the resident engines' KV and what they note of it | `generate_blocking`, `chat_stream`, `generate_spec_decode`, `generate_gpu`, `generate_vk` | a reply is that of a cold slot; caches and notes agree |
| **Prompt-lookup drafting** (spec_decode.rs) | none | `lookup_draft`, `lookup_draft_best` | only ever proposes what followed the same n-gram |
| **Vulkan lane** (vulkan) | recorded command buffers with the keys they were recorded for, KV and scratch buffers | `forward_inner`, `prefill_inner`, `verify_inner`, their replay | every command reads what the one before wrote; no stale recording is submitted |
| **GPU shaders** (shaders.rs, dispatched by mod.rs) | shared memory of a workgroup, buffers | products, norms, rotations, attention, top-k, argmax | every output is written once, from the right inputs, in any order of threads and workgroups |
| **CPU kernels** (candle/q4k_repack.rs, q4k_avx512.rs, sdpa_cpu.rs) | none | repacking, quantization, products, attention | each weight meets its own activation and scale, whichever kernel runs and whoever runs it |
| **Goal manager** (goal_manager.rs) | pinned entries of the memory, a file | set, archive, tasks, status, re-encode, save, load | one current goal; nothing lost; a crash leaves an old or a new file |
| **Memory store** (memory_store.rs) | entries, category and tag index, byte accounts | store, remove, expire, evict | accounts exact, pinned entries stay, budgets kept |
| **Constrained decoding** (logit_fsm.rs, json_schema.rs, rest.rs) | automaton, live states, masks | compile, mask, advance | a reply that ends is what was asked for, and none gets stuck |
| Request parsing, SSE, chat UI, templates, tokenizer and GGUF parsing, hooks, samplers and heuristics, metrics, configuration | | | not modelled, see section 6 |

### How they interact

An HTTP handler encodes a prompt, compares it with the window and passes `admit`, whose
guard it holds to the end of the reply. Then it takes a lane: a slot of the candle pool
(its mutex held for the whole reply), the resident GPU or Vulkan engine (likewise), or
the batch server, to which it sends a message with the sending half of a channel. The
one serving thread owns the batcher, the batcher the pool. Each turn of its loop it
blocks for a message when idle, moves waiting requests into free slots, runs one
scheduler step, sends the step's tokens and cancels the sequences whose receiver is
gone. A reply under a grammar masks its tokens with an automaton over the token table,
built once per tokenizer. After a prompt its hidden state may be captured into the
memory, which goals share; a goal update encodes its text on a slot it can get without
waiting. `select_model` takes every slot, reloads them, and then replaces everything
else that belongs to a model, one lock after the other.

### What is hard

* *Long legal histories.* Blocks are shared by count between slots and the prefix
  cache, survive their slots, and are reclaimed least recently used first. KV caches
  outlive a request, are rolled back, extended by drafts, skipped by early exits and
  reused by the longest common prefix. A mistake shows only after a particular sequence,
  and then as a wrong token.
* *Overcommitment.* A pool smaller than all slots' contexts makes the scheduler preempt
  decoding and prefilling sequences, by recomputation or by swapping KV to the host.
* *Interleaving.* Submit, disconnect and swap happen at any point of the serving loop;
  handlers run in parallel with a selection; saves and re-encodings overlap; threads of
  a workgroup, workgroups, device commands and pool threads run in any order that
  barriers allow.
* *Failure.* A failed load in the middle of a selection; a failed assertion that ends
  the serving thread; a kill or an I/O error in the middle of a save; an error in any
  forward.
* *Liveness.* Messages are read only while a slot is free; the front prefill waits for
  blocks; preempted requests wait for both.

The hazards, each at its line with the properties that cover it, are listed in
`PROJECT.json` under `hazards`.

## 2. Modules

    SlotCache            what the pool promises: one private KV cache per slot
      ^ implemented by
    PagedKV              the pool                        <- PagedKVProofs
      ^ EXTENDS                                               ^ EXTENDS
    ContinuousBatcher    the scheduler, + SpecDecode     <- BatcherProofs
                                                              ^ EXTENDS
                                                            BatcherCapacityProofs
      ^ EXTENDS                                               ^ EXTENDS
    BatchServer          the serving thread, its clients <- BatchServerProofs

    RestServer           the handlers, their locks and the selection   <- RestServerProofs
    JsonSchema <- ConstrainedDecode      a reply under a grammar

    CandleKV <- ResidentKV <- ChatDecode, + SpecDecode   the decode lanes   <- ChatDecodeProofs
    MemoryStore, GoalFile <- GoalManager                 <- GoalProofs
                                                              ^ EXTENDS
                                                            GoalFileProofs (of GoalFile)
    VkCommands           the Vulkan lane's command buffers
    Q4KLayout            where a quantized weight lies, and which SIMD lane reads it
      ^ EXTENDS
    CandleKernels, GpuKernels            CPU and GPU kernels

    MCPagedKV, MCBatcher, MCServer, MCLive, MCServices, MCDecode   instances for TLC

The mapping of every definition to its source lines is `map` in `PROJECT.json`. Beside
some definitions stands a variant labelled "Mutant of" or "a plausible slip": a slip in
that code, which makes the property it belongs to fail.

### PagedKV

State variables carry the names of `BlockState`'s fields (`free`, `slotBlocks`,
`refcount`, `cacheMap`, `blockHash`); `older` is the order that the `last_use` ticks
induce; `kv` is the pool's content and `held[s]` the history variable that says what
slot `s` was fed. One operator per method or per turn of a method's loop: `AllocInto`
(one turn of `ensure_blocks`, which either pops a free block or reclaims the least
recently used cached one), `FreeSlot`, `PrefixReuse`, `WriteKV` (the stores of a forward
pass or of `swap_in`), `Register`. `KVSpec` lets any caller make any legal sequence of
those calls; `ContinuousBatcher` conjoins the same operators with its own state instead.

Abstractions. A prefix hash is the prefix itself, so collisions of the 64-bit hash are
outside the model. The order of the free stack is not kept: which free block is popped
is nondeterministic. The KV vectors of a position are a function of the tokens up to
it, so the model stores that token prefix at the position; a stale, foreign or
overwritten entry is a different prefix and is seen by `AttendsOwnTokens`. `table_host`
repeats the block lists and is left out.

`kv` of a block is reset to "nobody may rely on this" when it is allocated or released.
The code leaves the old contents there; the reset loses no behaviour, since an entry is
only ever compared with what a slot or a cache entry is promised, and makes the model
more demanding: reading such an entry is always wrong.

### SpecDecode and ContinuousBatcher

The scheduler is sequential, so its interleaving with clients happens between steps
only; but a step makes many pool calls whose order matters. `phase` walks through a
step: `room -> page -> decode -> retire -> prefill -> (register -> join ->) resched ->
(load -> register -> join -> resched)* -> idle`. Each action is one call on the pool or
one turn of a loop of batch.rs:

| action | code |
|---|---|
| `Enqueue`, `Admit`, `Cancel` | `enqueue_params`, `admit_params`, `cancel` |
| `MakeRoom` | one turn of `make_room`, with `preempt_last_active` (and `swap_out`) |
| `LayRows` | the rows of `step`, or of `step_pld` with their drafts, and the two assertions evaluated on them |
| `Page`, `Decode`, `Retire` | `prepare_paging`, the batched forward with selection and commit, the `retain` that frees finished slots |
| `EvictActive`, `EvictPrefill`, `SkipPrefill`, `PrefillPage`, `PrefillChunk` | `advance_prefill` |
| `RegisterPrefix`, `Join` | `prefill_register`, the first token after a prefill or a restore |
| `Resume`, `LoadPage`, `Load` | `reschedule` with `prefill_slot_cached`, or with `swap_in` and `decode_one` |

The model's weights and the sampler are the constant operator `Outputs(r, path, text)`:
the tokens that may follow a text when request `r` draws by the path "argmax", "gumbel"
or "topk", of which those in the vocabulary are drawn. The distinction matters: which
path a row takes is decided by the other rows of the batch, and prefill draws by
temperature only. A row that attends anything but its own tokens (`Sees` is false) may
draw any token, so a fault of the pool reaches the text. A failed assertion is one of
the phases `Failed`, in which the batcher stops.

`Admit` (`admit_params`) is public but has no caller in the server; it is an action of
the batcher's own specification and not of the server's.

### BatchServer

`serving` is the position in the `serve` loop; `queue` the thread's message queue;
`chans` the sending ends it holds; `stream[r]` what was sent to request `r`; `severed`
the requests whose sending end was dropped without an end marker. Clients (`Submit`,
`Close`, `SwapModel`) may act between any two actions of the thread, also in the middle
of a scheduler step. `Sever` is the loss of sending ends without an end marker (a failed
thread), `DropBatcher` the old batcher's disappearance in a swap, with the KV it had saved
on the host. `Unwind` is a failed assertion inside a step: the thread ends,
dropping the queue and all channels. `LoadModel` either succeeds, with a new batcher,
or fails and ends the thread. The receiver is tokio's, modelled from its use: sends
never block or fail visibly, and `is_closed` is true once the receiver was dropped.

### RestServer

A handler is a place (`pc`) and a request; each action is one statement that takes,
drops or waits for something others can see. Locks held for one statement are part of
its step; the four held longer have an owner (`owner` of each slot, `engineOwner`,
`memoryOwner`, `building` for the tokenizer's read lock). What is generated is left to
the modules below: here a reply is `hands`, the models that had a hand in it (template,
tokenizer, window, token table, weights, name). `Kinds` are the requests that come:

| kind | handler |
|---|---|
| `chat`, `stream` | `chat_completions`, blocking and streamed |
| `text` | `completions` on a slot or an engine: names its model after the reply |
| `batched` | `cb_completions`: neither measured nor admitted |
| `embed` | `embeddings` |
| `goal` | the goal, task and status endpoints with the encoder of main.rs |
| `select` | `select_model` |

`crossed` marks a request that a selection overlapped, `clean` that the last selection
was alone and succeeded; both are history variables that only the property reads.

### CandleKV, ResidentKV and ChatDecode

`CandleKV` is a slot's candle model: per layer the tokens whose keys and values it
holds, and `index_pos` beside them. `ResidentKV` is the KV of a resident engine, indexed
by position, never cleared, only overwritten, with the text it notes as resident
(`noted`). An entry is `Junk` when it is not what a fresh run over the same text
computes: behind a gap, at another position, from a hidden state that was wrong. Logits
are the text they follow from, or `Junk`, from which any token may be drawn.

`ChatDecode` runs one request after another through a slot, since the slot's mutex is
held for a whole request: `BeginCandle`, `CandleStep` (a turn of `generate_blocking`),
`StreamStep` (of `chat_stream`), `PldRound` (prompt lookup in both), `SpecIter` (draft
model), `FinishCandle`, and `BeginFast`/`FastStep`/`StreamFast`/`FinishFast` for the
resident lanes, with early exits, errors in any forward, stop strings, a client that
hangs up, the request's deadline, and model reloads between requests. Switches that
other requests may turn are read as free choices. `tainted` and `overwritten` are
history variables: they say that one of the deviations listed under Findings has
occurred, after which the properties promise nothing for this cache.

Requests are greedy and the model is the constant operator `Greedy`. Hooks are taken to
read only. Loops over tokens are stated by what they come to: a prompt fed in pieces
(`InPieces`) leaves the rows of one forward unless a piece fails, and of accepted draft
tokens a reply takes those up to a stop token, its length or a cut (`Taken`).

### MemoryStore, GoalFile and GoalManager

`MemoryStore` is `store_with_options` and its helpers over a store record: entries, two
indexes, byte accounts per category and in total. Of relevance only this is kept: that
any entry may be the one of the lowest score. Of time, that an entry with a time to live
expires. The evictions before an insert are stated by which sets of entries may have
gone (`Evicted`), each entry in its `Turn`: first what has expired, then the newcomer's
category, then the others, what is pinned never. `GoalFile` is `save`: file objects, the
two names that lead to them, writers that are in the middle, an I/O error at any of its
steps, with or without part of the text in the file (`SaveFails`), and a kill at any
moment. `GoalManager` puts operations of two handlers on both, each split where the code
drops the store's lock. `raced` (what happened while entries were being re-encoded: a
"change", a "snapshot"), `overlapped` and `failed` (the last save to end did not reach
the goals file) are histories of what the code does not exclude. Clearing the current
tag (`Uncurrent`) is stated by its result: a goal put back with its own size fits, and
evicts nobody (lemma `PutBack` of `GoalProofs`).

### JsonSchema and ConstrainedDecode

A text is a sequence of lexemes, a regex its language with at most `MaxRepeat` turns of
a loop. `JsonSchema` has the compiler, clause for clause, and independently what it
means for a document to be an instance (`Accepts`), the bounds of a number included.
`ReadOver` names what the compiler reads over or puts so that it means something else:
`minimum` and `maximum`, a keyword beside `const` or `enum`, a pattern with alternatives.
`ConstrainedDecode` turns a
request's grammar, format, tools and choice into one grammar or a 400, masks tokens whose
text leads the automaton where a match can still be reached with this vocabulary, and
lets any token that is left be drawn. Vocabularies have tokens that span several lexemes
and one that lacks a lexeme.

### VkCommands

What each recorded program dispatches, copies and binds, and where it has barriers:
`forward_inner`, `prefill_inner`, `verify_inner`, `transpose_kv_headmajor`. The device
completes commands in any order the barriers allow; a command that reads a buffer whose
last write in recording order has not become visible to it puts itself into `wrong`. A
program is recorded once and submitted again while its key (`last_rec`, `prefill_rec`)
is unchanged. Abstractions: host visibility is by the fence that is waited for after
each submission; the `VK_*` environment switches for diagnosis are off; a buffer is one
cell, so two dispatches that write different parts of one buffer conflict only where the
recorder says so.

### Q4KLayout and CandleKernels

A value is where it came from: a quant its weight's index, a scale byte the origin of
each of its bits. `Q4KLayout` follows repacking, the scalar, AVX2 and AVX-512 products
through every shuffle and blend, and states that 16-bit sums cannot overflow.
`CandleKernels` has the choice of a kernel, the loops and the tasks of the thread pool,
which finish in any order, the quantizers (integer inputs, exact rationals; the AVX2
search for the maximum reduced to two lanes), and CPU attention over a strided view of a
longer cache. Float rounding is left out.

### GpuKernels

A dispatch is a grid of workgroups that run in any order; the threads of a workgroup
take their steps in any order up to the next barrier (`reached` says how many steps of
the kernel a thread has made, `Steps` which of them end at a barrier). A value is the
set of terms it was computed from, marked `Twice` when one was added twice.
Abstractions: one row per argmax, top-k and norm dispatch; workgroups of one dispatch
share no cells, so they run one after the other in any order; Gumbel noise is arbitrary,
temperature folded into the scores; Q4_K at the granularity of sub-blocks and Q6_K of
shortened blocks, their full blocks checked by the assumptions `Sound4` and `Sound6`;
all matrices of one pass interleave; K and V share one pool. `BSDPA` and `BDSDPA` serve
a contiguous cache that only debugging code still uses; the first is modelled, the
second, whose text repeats it, is not.

## 3. What the runs check

All runs use small instances; "full pool" means `MaxBlocks` blocks for every slot, as
`BatchedDecoder::new` allocates, and "overcommitted" the least that `new_paged`'s
assertion accepts, one full sequence. `decode_goals` and `services` put systems that share
no state side by side: the variable `traffic` says which one a behaviour exercises, the
others stay as they began. `server_live` starts either with the serving thread
("clients") or with a batcher that a caller steps without one ("caller").

| run | instance | question |
|---|---|---|
| `pagedkv` | 2 slots, 3 blocks of 2 positions, context 5, 2 tokens | Are the pool's books and contents right under any legal use, and is paging invisible? |
| `batcher_overcommit` | 3 requests, 3 slots, 4 blocks of 2, both swap modes, deterministic model | Do preemption, resumption, sharing and cancellation leave every text as if alone? |
| `batcher_pld` | 2 requests, 6 slots, blocks of 4, drafts of up to 2 tokens | Does drafting inside the batch commit exactly the greedy text? |
| `server_safety` | 3 clients, 2 slots, full pool, 1 swap | Do channels, slots and streams stay consistent under any client behaviour? |
| `server_live`, "clients" | 3 clients, 1 slot, full pool, 1 swap, one request too long, one that overruns the context | Does every stream end, is the swap answered, is an abandoned request reclaimed, also when the thread dies? |
| ... "caller" | 3 requests, 2 slots, 2 blocks of 2, overcommitted, one text that may end early | Does every admitted request end, preempted or not? |
| `decode_goals`, "chat" | 3 requests on one slot in every lane and build, context 9, engine window 8, drafts of 2, 2 layers | Is a reply that of a cold slot, and do caches and notes agree after it? |
| ... "goals" | 2 goals, a task, a capture and the status, 2 handlers, 4 entries, 5 bytes, 3 changes, 2 file objects | Do accounts, pins, the current goal and the file survive saves, failing saves, re-encodings and kills at any moment? |
| ... "vulkan" | 3 devices, 2 layers, 4 positions, windows of 2 rows | Is any barrier missing, any recording stale? |
| ... "kernels" | rows of 1 and 2 blocks, 1-3 activations, attention with and without shared heads and tails | Does every output get each product once, from the right place? |
| ... "gpu" | workgroups of 4 threads, grids of 2, 5 scores, 2 candidates, products of 1-5 rows | The same, thread by thread |
| `services`, "models", "pairs" | 3 handlers, 2 models, 2 slots, an engine and a batch server, limit 1; 3 chats, embeddings, goals and selections, or 2 requests of any kind | Is admission exact, can handlers wait in a circle, is a reply of one model? |
| ... "grammar" | 24 requests, 2 vocabularies, repetition 1, depth 3 | Is a constrained reply what was asked for, can it get stuck, is what cannot be compiled refused? |

Why the bounds are enough for the questions asked.

* `pagedkv`: two slots can share, and a third holder of a block is the prefix cache;
  three blocks of two positions with a context of five (three blocks) let one slot need
  the whole pool, so that blocks kept by the cache are reclaimed, and the last block is
  partial; two tokens give prompts that share a first block and differ in the second.
* `batcher_overcommit`: with two prompts that share their first block and one that fills
  the pool, decoding and prefilling sequences are preempted and resumed, with and
  without a prefix still cached, and chunks of two positions cut the long prompt in four.
  `batcher_pld` has slots enough for all draft rows (see the findings) and texts of
  which the model follows some drafts and rejects others.
* `server_*`: one slot forces queueing behind a running sequence and behind a swap; two
  let sequences share blocks while one is cancelled. "caller": two requests of two blocks
  each and a short third compete for a pool of two, so that the front prefill evicts the
  decoding one, which resumes when slot and blocks are free again. All three fit the
  context: see the findings for one that does not.
* "chat": a request that fills the cache, one that reuses it and one that meets what the
  second left; the openings repeat themselves (so that drafts are found), hold an
  end-of-turn token or are one token long; the window of the engine is shorter than the
  model's, so that it is reached.
* "goals": two goals that compete for a category that holds one of the wider vectors;
  two handlers give every overlap of a save or re-encoding with a change. Of three
  changes never more than two files exist at a time, so that `Open` always finds an
  object.
* "vulkan": three flag combinations reach every branch of the recorders; two layers give
  every hazard between a layer and the next; four positions cross from one pass to
  partials to super-partials, and two rows distinguish a first row from a last.
* "kernels", "gpu": shapes on both sides of each size test (eight rows, the tile, the
  skinny limit, the grid's width, the vector's width), with a tail; four threads give two
  halving strides; more rows than threads give a second round.
* `services`: one request above the limit, every lock wanted by two others; two slots let
  a selection hold one and wait for the other. Among the schemas are one nested as deep
  as `MAX_DEPTH` and one a level deeper.

Symmetry over blocks and slots is used in the safety runs only (in `pagedkv` over
tokens as well), over goals and handlers in `decode_goals`, over handlers and models in
`services`.

`CHECK_DEADLOCK FALSE` in all runs but `pagedkv`: requests, changes and arrivals are
finitely many, and when all have ended, or an assertion failed, the system rightly
stops. Handlers that wait for one another are the invariant `NoLockCycle`.

The properties:

* `RefcountExact`, `FreeExact`: the pool's books. (`CacheInverse`, that `cache_map` and
  `block_hash` are inverse, is proved and no longer a property of the run.)
* `NextWriteExclusive`, `CachedKVImmutable`: nobody writes what another reads.
* `AttendsOwnTokens`, `CacheHoldsItsPrefix`, `ImplementsSlotCache`: content is right, and
  the pool refines one private cache per slot.
* `SlotsAccounted`, `FedHistory`: queues, slots and blocks agree; the write position
  derived from a request's history is the pool's.
* `AsIfAlone`: "bit-identical to never preempting" (batch.rs:30), "bit-identical to
  step()" (batch.rs:218).
* `FullPoolNeverStarves`, `FrontAlwaysProgresses`, `NoAssertionFails`: resources suffice.
* `StreamFaithful`, `SilentAfterEnd`, `ChannelsMatchBatch`, `NobodyForgotten`: what
  clients see. The last is the safety half of `EveryStreamEnds`: whoever listens to a
  stream that has not ended is in the queue or has a channel, so somebody can still end
  it.
* `EveryRequestEnds`, `EveryStreamEnds`, `SwapAnswered`, `ClosedReclaimed`: liveness.
* `AnswersAsIfCold`, `CacheTrailsKV`, `SpecInStep`, `NotedIsResident`: reuse, drafts,
  roll-backs and early ends never reach the text; `BudgetKept`: nor its length.
* `MemoryAccounts`, `PinnedSurvives`: the store's books, and "Pinned entries are never
  evicted" (memory_store.rs:57).
* `OneCurrentGoal`, `SavedWhenQuiet`, `FileWhole`: "one current, optionally many
  archived", nothing lost, "cheap insurance against a partial-write corruption".
* `AdmissionExact`, `NoLockCycle`, `ServedByOneModel`: the handlers.
* `ReplyFulfilsRequest`: a reply that ends is an instance, none gets stuck, and a schema
  that is too deep or has an unsupported keyword in any part gets a 400. `NeverLaxer`
  states the first without the exception for what is read over, and is violated (below).
* `RunsAsRecorded`: every command of a submission reads what recording order promises.
* `CellsExact`, `QuantsStandForInput`, `GroupsExact`: every output exactly once, from
  the right weights, activations and scales.

**Fairness.** `LiveSpec` of `MCLive` assumes weak fairness of `ServeNext`, and of
`StepNext` where a caller drives the batcher (`CallerSteps`): the serving thread never
waits between two statements except in `rx.recv()`, which is disabled here while the
queue is empty, and it calls `step` as long as anything is in flight, as a caller does
that wants its tokens. Nothing is assumed of clients and admissions. The liveness of a
request says "ends or an assertion failed"; the server turns a failed assertion into the
end of every stream, and "clients" contains that case. The other modules make no liveness
claim: a slot is taken by whoever its mutex lets through, and std's mutexes promise no
order.

### Findings

Five runs expect a violation; each disagrees with a comment or an assertion of the code.

* `violates_rows`: `step_pld` lays out up to `active * (1 + draft)` rows, and
  `step_core` asserts that they are at most `m_max`, the number of slots. Three
  sequences with full drafts exceed 16. Only reached with `ZLLM_CB_PLD`.
* `violates_pool`: `make_room` evicts decoding sequences only. When the blocks are held
  by sequences in mid-prefill, a decoding sequence alone finds none and the assertion
  of `prepare_paging` fails. Only reached with an overcommitted pool.
* `violates_preempt`: resuming by recomputation draws the next token through the prefill
  path, which knows the temperature and not top-k or top-p.
* `violates_position`: the prompt is bounded by the context, `max_tokens` is not; a
  sequence that reaches the end of the context fails `write_inputs`' assertion. In an
  overcommitted pool such a sequence may be preempted first: with one token more than the
  context it no longer fits a pool of one full sequence (batch.rs:366), is never resumed,
  and `step` does nothing for ever. Hence "caller" has only requests that fit.
* `violates_range`: `compile` documents that it rejects what it cannot compile "rather
  than silently producing a laxer grammar" (json_schema.rs:136), and numeric `minimum` and
  `maximum` as rejected with a 400 (26). Neither is among the keywords it refuses (138):
  with `minimum` 1.5 a reply of 1 is let through.

Modelling met these too. The models contain them, and a property that would fail by one
says so in its premise (`tainted`, `overwritten`, `raced`, `overlapped`, `failed`,
`clean`, `ReadOver`).

* *Prompt cache.* It is copied from the whole text when a request ends (rest.rs:2725),
  also when the last token, or with an error, a timeout or `max_tokens` 0 the prompt, was
  never forwarded; the next request reuses one token, or a prompt, that the KV lacks.
* *Prompt lookup.* A dropped bonus token makes the loop forward the last token twice
  (rest.rs:2665-2711). The blocking loop counts turns, so that a reply reaches up to
  `2 * max_tokens - 1` tokens (2519). The streamed bonus token is sent without the stop
  string check (3078).
* *Resident engines.* A streamed request on the Vulkan lane writes over the KV without
  touching the note of what is resident (vulkan:1087). The lanes never compare a position
  with the engine's window of 4096: they panic and leave the mutex poisoned. With
  `max_tokens` 0 they commit one token.
* *Selection.* A failed reload leaves slots of two models and the draft's prefix cache
  uncleared; overlapping selections leave mixed metadata; prompts encoded before a
  selection may be served by the model after it, and `stop_set` is read before the slot.
* *Admission.* Streams on the batch server are not counted while they run, and
  `cb_completions` (rest.rs:1775) is neither counted nor compared with the window. As
  the count is incremented before it is compared, a request may be refused while fewer
  than the limit run.
* *Goals.* Overlapping saves share a temporary file: the older may win, and a kill may
  leave a torn `goals.json`. `reencode_all` races `set_goal` and `update_task`: two
  current goals, a finished task active again. A save whose snapshot is taken in the
  middle of a re-encoding may lack a finished task that was evicted just before, which
  the re-encoding then puts back, so that the file and the store differ until the next
  save. After a selection of a wider model pinned goals that no longer fit their
  category are lost. An I/O error in a save is logged and nothing else
  (goal_manager.rs:200): the endpoint reports success, and the file stays behind the
  store until a later save.
* *Schemas.* Besides `minimum` and `maximum`, a `type` (or any other keyword) beside
  `const` or `enum` is read over. So are the other bounds, `exclusiveMinimum` and
  `-Maximum`, `multipleOf`, `minLength`, `maxLength`, `uniqueItems`, and `required` and
  `additionalProperties`, which the models leave out. A `pattern` with a top-level `|`
  is embedded without a group; object keys are escaped for the regex but not as JSON.
* *Kernels.* On ties `ARGMAX` keeps neither the lowest index nor the lowest thread's
  (shaders.rs:908 says the lowest index), while the top-k path takes the lowest, so that
  greedy ties depend on the path. `ZLLM_CB_SLOTS` above 512 (main.rs:378) would exceed
  the tiled product's accumulators (shaders.rs:387). `quantize_mat_q8_k_4x8` is documented
  as byte-identical on AVX2: with a tie of magnitudes the scalar path scales by
  +127/max and the AVX2 path by -127/max, which stand for the same values. The
  `.min(127.0)` of the scalar path (q4k_repack.rs:377) is redundant, since `as i8`
  saturates; a wrapping cast would need it. The note at quantized_llama_fork.rs:366-371
  is stale: it still speaks of a "subtle bug" of the `vec_dot` kernel that drifts on real
  weights, which lines 186-190 trace to the conversion of f16 subnormals, since fixed
  (float arithmetic, outside the models); the path is off because it is slower.
* *Hooks.* One that writes into the residual stream during a prefill leaves a KV that a
  later request reuses as if it had not.

## 4. What is proved

With TLAPS, for every value of the constants.

**`PagedKVProofs`**, from `PagedKVAssumption` only (finitely many blocks and slots,
positive block size and context length; any vocabulary; LRU or first-fit): all that the
run `pagedkv` checks, and that `cache_map` and `block_hash` are inverse.

* `PoolInvariant`: `KVSpec => []KVInv`, and from it `PoolTypeCorrect`, `RefcountsExact`,
  `FreeListExact`, `PrefixCacheConsistent`, `NoAliasInSlot`, `WritesAreExclusive`,
  `SlotsAttendOwnTokens`, `CacheIsFaithful`;
* `CachedKVIsImmutable`: the action property;
* `PagingIsInvisible`: the pool implements `SlotCache`.

The inductive invariant `KVInv` is `Books` (who holds which block, under which prefix)
and `Contents` (what is in them). To the checked invariants it adds three conjuncts,
without which no step could be shown to preserve them:

* `HeldFits`: a slot's blocks cover what it was fed. Without it a position could have
  no block.
* `SharedRegistered`: a block in two slots is registered. With the next conjunct it
  confines sharing to full blocks.
* `OwnPrefix`: a registered block at logical index `i` of a slot is registered under the
  first `i` blocks of that slot's own text, all of them already fed. Hence a position
  still to be written never lies in a registered block, so by `SharedRegistered` nor in
  a shared one (lemma `BooksExclusive`): writes disturb nobody. Hence, too, two slots
  that share a block agree on the text up to its end, and reuse hands a slot exactly
  the KV it would have computed.

Each pool operation has one lemma for `Books` and one for `Contents` (`AllocInto...`,
`FreeSlot...`, `PrefixReuse...`, `Register...`, `WriteKV...`), stated for any caller
that meets the operation's precondition; `KVStep` puts them together. The lemmas for
`WriteKV` are stated for a batch of rows of many slots (`Extends`), as the scheduler
calls it. The refinement rests on lemma `ReadBackHeld`: under the invariant what a slot
reads back through its block table is what it was fed, so that every pool step is a
step of `SlotCache` or a stutter.

**`BatcherProofs`**, the scheduler on that pool, from `PagedKVAssumption` and
`BatcherAssumption` (prompts that are not empty, a chunk of at least one row, and
`new_paged`'s assertion that the pool holds one full sequence): any number of requests,
any prompts, sampler and chunk size, with and without prompt lookup, LRU and
swap-to-host. `BatcherInvariant` is `BatcherSpec => []BatcherInv`, and from it

* `PoolUnderScheduler`, `SchedulerAttendsOwnTokens`: what `PagedKVProofs` promises any
  legal caller, the scheduler gets, since it is one;
* `SlotsAreAccounted`, `KVIsHistory`, `StreamsWellFormed`, and the action property
  `NothingAfterTheEnd`;
* `BatchingIsInvisible`: where no request asks for top-k, `AsIfAlone`, that every token
  is one the request could have got alone, after any preemption, sharing and drafting;
  `GreedyIsDeterministic`: a greedy request gets the one text of its prompt, whoever
  else is in the batch. With top-k the statement is false (`violates_preempt`), so the
  hypothesis is the code's and not the proof's.

`BatcherInv` is the pool's `KVInv` and `SchedulerInv`: `QueuesApart` (a request is in
one queue, once), `SlotsOK` and `SlotHolders` (who has which slot; a free slot owns no
block), `RequestOK` (what is known of a request in each place, above all that the slot's
text is `Front(tokens)` while decoding and the prompt up to the cursor while prefilling)
and `PhaseOK`. The last is what the properties alone cannot give: the checks one loop of
`step` makes are facts the next loop needs. Between `Page` and `Decode`, for instance,
no decoding slot is short of a block, which is why the batched forward may write without
asking; and from `Load` to `Join` exactly one request is outside all queues. Each call
on the pool cites the pool's lemma for it, whose precondition `SchedulerInv` provides
(`BatcherStep`, one lemma per action). `SlotsAccounted` and `FedHistory` by themselves
are not inductive: neither bounds the cursor or says that saved KV is that of the same
text.

**`BatcherCapacityProofs`**: resources suffice.

* `FrontProgresses`: with nothing else to evict the front prefill finds its blocks, for a
  pool of any size `new_paged` accepts (one full sequence), so an overcommitted scheduler
  cannot stand still;
* `FullPoolSuffices`: with `MaxBlocks` blocks per slot nothing is ever preempted, and
  while a slot is free any prompt finds its blocks, from `FitsContext`;
* `PositionsFit`, `RowsFit`, `PoolAssertionHolds` and, together, `NoAssertionEverFails`.

The argument counts. `FreeBlocks` is the number of blocks no slot lists (`FreeIsUnused`,
by `RefcountExact` and `FreeExact`), and listed blocks are at most the places of the
block tables that list them (`UsedBound`), of which a slot has `MaxBlocks`. The
hypotheses are the code's own preconditions, one per assertion: `FitsContext` (prompt
and `max_tokens` within the context), `FullPool` (`MaxBlocks` blocks per slot) and
`Pld = FALSE`. The code does not guarantee the first (the prompt is bounded, `max_tokens` is
not); the second holds with `BatchedDecoder::new` and not with `new_paged`; the third is
the default. Each of the runs `violates_position`, `violates_pool` and `violates_rows`
drops exactly one of them, and finds the assertion violated; so none is superfluous.

**`BatchServerProofs`**: the serving thread and its clients, for any number of clients
and swaps. Lemma `ServerMoves` shows that whatever the thread and the clients do is, for
the batcher, a call it knows, a turn of `step`, or `DropBatcher` between two steps;
hence `BatcherInv`, the counting and their consequences carry over
(`ServerKeepsBatcher`, `ServerNeverStarves`, `ServerNeverAsserts`). `ServerInv` adds
where a request is: its message is queued once and nothing was sent to it before
(`QueueOK`); the thread holds a channel for what is in flight and, until a step's
results are delivered, for what it finished (`ChannelsOK`); a stream is the first tokens
produced, and all of them unless it was cut off (`StreamOK`). From it
`ChannelsAreMatched`, `StreamsAreFaithful`, `NobodyIsForgotten`, and
`OnlyLoadEndsThread`: under the capacity hypotheses only a failed load ends the thread.

**`GoalFileProofs`**: `GoalsFileIsWhole`, that `goals.json` is absent or a whole
snapshot whatever the moment the process dies at or an I/O error ends a save, for any
set of savers and snapshots, as long as no two saves ever overlapped. Two more facts
make that inductive: `NamesApart`, that the two names never lead to one file, so that
truncating the temporary one leaves the goals alone, and `SaverAlone`, that without an
overlap whoever renames has just finished writing the file he renames. It is stated of
`GoalFile`'s own specification, in which a saver may save any snapshot;
`GoalsSaveTheFile` in `GoalProofs` shows that the goals use it as specified.

**`GoalProofs`**: the memory store and the goals, from `MemoryAssumption`,
`GoalFileAssumption` and `GoalAssumption` (keys and tags of different kinds have different
prefixes, widths are natural numbers): any goals, tasks, captures, budgets, widths and
handlers. `GoalInvariant` is `GoalSpec => []GoalInv`, and from it

* `BooksAreExact` (`MemoryAccounts`): bytes in total and per category, both indexes and
  the budgets, after any replacing, expiring, evicting, forgetting and restoring;
* `PinnedStays` (`PinnedSurvives`): the action property;
* `OneGoalIsCurrent` (`OneCurrentGoal`), `FileHasWhatIsThere` (`SavedWhenQuiet`), which
  says nothing while the last save has `failed`;
* `GoalsSaveTheFile`: `GoalSpec => FileSpec`, every step is a step of a saver or leaves
  the file alone, so that `GoalsFileIsWhole` holds of the goals file as well.

None of the properties is inductive. `GoalInv` adds:

* `StoreOK`: the books with their types. The bytes of a set of entries are the cardinality
  of a set of pairs, so that a sum splits where its set does (lemma `BytesSplit`) without
  an induction; from it `RemovedOK`, `InsertedOK` and, for any eviction, `StoredOK`.
* `EntriesShaped`: what lies under a key of each kind; above all that only goals and
  unfinished tasks are pinned and only a status expires. Hence nothing pinned is
  `Evictable`, which `PinnedStays` needs since what has expired goes even when pinned.
* `FreshUnknown`: an id not yet given out is unknown to the store, to every snapshot and
  to the file, so that a new goal replaces nothing.
* `OneCurrentInv`: one goal is current among those in the store *and* those a re-encoding
  or a restart has yet to put back.
* `SavedInv`: unless a save is due, the last snapshot taken has what is in the store and
  what is yet to be restored (`Records`). The second half is what makes a restart, and a
  re-encoding that evicts, keep it; it is also what fails when a snapshot is taken during
  a re-encoding, hence the premise `raced = {}` (see Findings).

`QuietStepInv`, `ChangeInv` and `RestoredInv` are the three patterns of a step: the store
shrinks or stays, a handler changes it and owes a save, an entry is put back. Each
action has its lemma, and `GoalStep` puts them together.

**`RestServerProofs`**, from `RestAssumption` (finitely many handlers, at least one slot):
`AdmissionIsExact`, that `RestSpec => []AdmissionExact`. The count alone is not
inductive: that a guard dropped once is dropped by the right handler needs to know where
a handler of which kind holds one. `AdmissionInv` says so: `guards` is the set of
handlers for which `GuardedAt(pc[h], req[h].kind)` holds, from the `fetch_add` to the
answer, except while the batch server streams; and `FitsAt` says which kinds come to a
place, so that, for example, whoever generates without a guard is an embedding. Three
lemmas (`MoveInv`, `EndInv`, `EndGuardedInv`) carry all steps but `FetchAdd`, where the
limit is decided: a request that is past it is counted among the guards, which are then
no more than the limit.

`NoCircularWait`, that `RestSpec => []NoLockCycle`, from a second invariant, `LockInv`:
where a handler may hold a slot, the engine, the memory and the tokenizer, and that a
selection which collects the slots holds exactly those before the one it is at
(`SlotsHeld`). Locks are taken in the order slots (or the engine), memory, tokenizer,
except that a goal borrows a slot under the memory; it only tries, so it waits for nobody.
Lemma `LockOrder` goes up that order: in a set that waits in a circle nobody is at the
tokenizer, since its readers wait for nothing; hence nobody is at the memory or at the
engine; hence only selections are waited for, and two that wait for each other's slots
would both hold slot 1. `OwnLocks` reduces a step to what its own handler then holds.

`OneModelServesARequest`, that `RestSpec => []ServedByOneModel`, from a third invariant,
`OneModelInv`, beside the other two. While no selection replaces and the last one was
clean, everything the server knows of a model is of the one it names (`AllOf(served)`),
so what any handler reads, at whatever moment, is of that model. A selection that
replaces while the history is clean is the only one, and has replaced what lies before
its place (`Replaced`); requests in service then are marked. So at its last step,
`SwapMeta`, everything is of the new model. A table stored late does no harm: it is
built under the tokenizer's lock, and is dropped after the tokenizer was replaced
(`TableOnly`).

**`ChatDecodeProofs`**, from `DecodeAssumption` and the assumptions of the two caches
(positive layers, chunks and windows, a draft of at least one token; any model, any draft
model, any prompts, stop strings and builds): the decode lanes, for conversations of any
length. `DecodeInvariant` is `DecodeSpec => []DecodeInv`, and from it

* `RepliesAreCold` (`AnswersAsIfCold`): after any history of reuse, drafting,
  roll-backs, early exits, hang-ups, deadlines and reloads a reply is the one a fresh
  slot gives;
* `PrefixCacheTrails` (`CacheTrailsKV`), `BothCachesInStep` (`SpecInStep`),
  `NotedStaysResident` (`NotedIsResident`): what is noted of a cache is in it;
* `RepliesWithinBudget` (`BudgetKept`).

The properties speak of the tops of turns and of the time between requests. `DecodeInv`
says what the caches hold wherever a turn may stop: `SlotOK` relates the target's and
the draft's cache to the text they trail or are ahead of (`Trail`, `Ahead`), `CandleOK`
and `SpecOK` a request in progress to those caches, with the position its next token is
fed at, `FastOK` and `NotedOK` the resident engine to its text. The premises `tainted`
and `overwritten` are carried through: of a cache that one of the findings has spoiled
nothing is claimed, until a reload or a fresh prompt. Each action has a lemma
(`...Inv`), which rests on what a forward does to a cache that trails its text, stated
once for each kind of forward; `DecodeStepInv` puts them together.

**Only model-checked**, and why:

* `EveryRequestEnds`, `EveryStreamEnds`, `SwapAnswered`, `ClosedReclaimed`: liveness under
  fairness and `ENABLED` are out of the provers' reach. What they rest on is proved:
  that the front always gets its blocks (`FrontProgresses`), that no assertion stops the
  loop (`NoAssertionEverFails`), that whoever waits can still be answered
  (`NobodyIsForgotten`).
* `ReplyFulfilsRequest`: the schema's language is a recursion over the schema, and the
  provers have neither `RECURSIVE` operators nor induction over data.
* `RunsAsRecorded`: a recorded program is a sequence joined from its layers
  (`FlattenSeq`), about which only an induction over the layers says anything.
* `CellsExact`, `QuantsStandForInput`, `GroupsExact`: which cell an index means is
  `\div` and `%` by products of the dimensions, nonlinear arithmetic that the SMT backend
  does not decide; the block shapes the code fixes (256, 32, 8) are checked as they are.

## 5. Bounds named in the models

`MaxRequests`, `MaxChanges`, `MaxArrivals` and `MaxSwaps` bound how many requests,
operations and swaps a behaviour has; `MaxRepeat` the turns of a loop of a regex,
`MaxReply` the tokens of a constrained reply. Everything else that is bounded is bounded
in the code.

## 6. Not modelled

Float arithmetic (its place is taken by which number meets which); GGUF, tokenizer and
template parsing; HTTP parsing and formatting, the chat UI; samplers, penalties and the
confidence, hallucination, difficulty and budget heuristics, which score one token or
request at a time; hooks; metrics, configuration and architecture tables; device
discovery, allocation and pipelines. Hash collisions in the prefix cache.

`decode_ctrl.rs` is the state of one request (penalties and the stop-string window, of
which the window is in `ChatDecode`). `runner.rs` walks the layers of a backend
sequentially and has no caller outside its tests; so have the draft trees of
`spec_decode.rs`. Memory retrieval and traces only read.

## 7. What could come next

1. `RunsAsRecorded` for any number of layers.
2. A composition of `RestServer` with `BatchServer`, in which a prompt carries the model
   it was encoded for.
