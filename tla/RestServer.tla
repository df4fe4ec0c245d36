----------------------------- MODULE RestServer -----------------------------
(***************************************************************************)
(* The handlers of src/src/server/rest.rs that share a lock or a counter:  *)
(* chat and text completions on their three engines, embeddings, goal      *)
(* updates (whose encoder, of main.rs, borrows a slot) and the selection of*)
(* a model, which replaces the weights under every slot, then one by one   *)
(* everything else the server knows of a model.                            *)
(*                                                                         *)
(* What is generated is ChatDecode's and ContinuousBatcher's; here a reply *)
(* is the set of models that had a hand in it.  A lock held for one        *)
(* statement is part of that step.  A lock held longer has an owner:       *)
(*   slots, engine   for a whole request                                   *)
(*   tokenizer       (read) while the grammar table is built from it       *)
(*   memory          (write) while a goal is encoded                       *)
(***************************************************************************)
EXTENDS Integers, FiniteSets

CONSTANTS
  Handler,         \* requests in service at once
  PoolSize,        \* backend_pool_size
  MaxConcurrent,   \* server.max_concurrent
  Model,
  NoModel,
  Nobody,
  Kinds,           \* the requests that come
  HasEngine,       \* a resident GPU or Vulkan engine is set up
  HasBatch,        \* the batch server is
  MaxArrivals      \* bound on requests

ASSUME RestAssumption ==
  /\ IsFiniteSet(Handler) /\ Nobody \notin Handler
  /\ PoolSize \in Nat \ {0} /\ MaxConcurrent \in Nat
  /\ NoModel \notin Model
  /\ Kinds \subseteq {"chat", "stream", "text", "batched", "embed", "goal", "select"}

VARIABLES
  active,     \* active_requests
  guards,     \* the handlers that hold an ActiveGuard
  owner,      \* of every slot's mutex
  engineOwner, memoryOwner,
  building,   \* the handlers that hold the tokenizer's read lock
  turn,       \* POOL_FALLBACK_RR
  loaded,     \* the model in every slot
  engine,     \* in the resident engine
  batch,      \* in the batch server
  window,     \* model_ctx
  tokenizer, table, served, meta,   \* token_table, current_model, chat_meta
  pc, req,    \* every handler's place and request
  clean,      \* history: the last selection ran alone and succeeded
  arrivals

lockVars == <<owner, engineOwner, memoryOwner, building, turn>>
modelVars == <<loaded, engine, batch, window, tokenizer, table, served, meta>>
restVars == <<active, guards, lockVars, modelVars, pc, req, clean, arrivals>>

Slots == 1..PoolSize
NoReq ==
  [kind |-> "none", grammar |-> FALSE, at |-> 1, target |-> NoModel,
   hands |-> {}, crossed |-> FALSE]

RestInit ==
  /\ active = 0 /\ guards = {}
  /\ owner = [i \in Slots |-> Nobody] /\ engineOwner = Nobody /\ memoryOwner = Nobody
  /\ building = {} /\ turn = 0
  /\ \E m \in Model :
       /\ loaded = [i \in Slots |-> m] /\ window = m /\ tokenizer = m
       /\ engine = (IF HasEngine THEN m ELSE NoModel)
       /\ batch = (IF HasBatch THEN m ELSE NoModel)
       /\ table = NoModel /\ served = m /\ meta = m
  /\ pc = [h \in Handler |-> "idle"] /\ req = [h \in Handler |-> NoReq]
  /\ clean = TRUE /\ arrivals = 0

-----------------------------------------------------------------------------
At(h, place) == pc[h] = place
Goes(h, place) == pc' = [pc EXCEPT ![h] = place]
\* A model has a hand in h's reply.
Hand(h, m) == req' = [req EXCEPT ![h].hands = @ \cup {m}]
Keeps == req' = req

\* The tokenizer's lock lets no reader past a writer that waits.
TokenizerWaits == {h \in Handler : At(h, "swapTokenizer") /\ building # {}}
Reads(h) == TokenizerWaits = {}

\* A selection is under way, from the first reload to the last replacement.
Swapping ==
  {h \in Handler : pc[h] \in {"reload", "context", "swapEngine", "swapBatch",
                              "swapTokenizer", "swapName", "dropTable", "swapMeta"}}

Done(h) ==
  /\ Goes(h, "idle") /\ req' = [req EXCEPT ![h] = NoReq]
GuardDropped(h) == guards' = guards \ {h} /\ active' = active - 1
NoGuard == UNCHANGED <<active, guards>>
NoLock == UNCHANGED lockVars
NoSwap == UNCHANGED <<modelVars, clean, arrivals>>

Generation == {"chat", "stream", "text"}
FirstPlace(kind) ==
  CASE kind \in Generation \cup {"batched"} -> "encode"
    [] kind = "embed" -> "probe"
    [] kind = "goal" -> "remember"
    [] kind = "select" -> "collect"

\* A request comes; a chat prompt is rendered with the model's template.
Arrive(h) ==
  /\ At(h, "idle") /\ arrivals < MaxArrivals /\ arrivals' = arrivals + 1
  /\ \E kind \in Kinds, grammar \in BOOLEAN, m \in Model :
       /\ grammar => kind \in Generation
       /\ kind # "select" => m = meta
       /\ req' = [req EXCEPT ![h] =
            [NoReq EXCEPT !.kind = kind, !.grammar = grammar, !.crossed = Swapping # {},
                          !.target = IF kind = "select" THEN m ELSE NoModel,
                          !.hands = IF kind \in {"chat", "stream"} THEN {m} ELSE {}]]
       /\ Goes(h, FirstPlace(kind))
  /\ NoGuard /\ NoLock /\ UNCHANGED <<modelVars, clean>>

Encode(h) ==
  /\ At(h, "encode") /\ Reads(h)
  /\ Hand(h, tokenizer) /\ Goes(h, IF req[h].kind = "batched" THEN "submit" ELSE "measure")
  /\ NoGuard /\ NoLock /\ NoSwap

\* The prompt is compared with the window; too long a one is refused.
Measure(h) ==
  /\ At(h, "measure")
  /\ (Hand(h, window) /\ Goes(h, "admit")) \/ Done(h)
  /\ NoGuard /\ NoLock /\ NoSwap

\* Mutant of CountedIn: the count is compared before this request is in it.
CountedInLate(now) == now - 1 <= MaxConcurrent
CountedIn(now) == now <= MaxConcurrent
\* admit: one fetch_add decides, the guard is there either way ...
FetchAdd(h) ==
  /\ At(h, "admit")
  /\ active' = active + 1 /\ guards' = guards \cup {h}
  /\ Goes(h, IF CountedIn(active + 1) THEN "validate" ELSE "refused")
  /\ Keeps /\ NoLock /\ NoSwap

\* ... and is dropped with a refusal.
Refuse(h) ==
  /\ At(h, "refused") /\ GuardDropped(h) /\ Done(h)
  /\ NoLock /\ NoSwap

\* The reply's model name is read (a text completion's at the end), the other
\* parameters are looked at, and a bad one is refused.
Validate(h) ==
  /\ At(h, "validate")
  /\ \/ /\ IF req[h].kind = "text" THEN Keeps ELSE Hand(h, served)
        /\ Goes(h, IF req[h].grammar THEN "table" ELSE "lane")
        /\ NoGuard
     \/ GuardDropped(h) /\ Done(h)
  /\ NoLock /\ NoSwap

\* fsm_from_grammar: the cached table, or one built from the tokenizer, whose read
\* lock is held until the table is stored.
ReadTable(h) ==
  /\ At(h, "table")
  /\ IF table = NoModel THEN Goes(h, "build") /\ Keeps
     ELSE Goes(h, "lane") /\ Hand(h, table)
  /\ NoGuard /\ NoLock /\ NoSwap
Build(h) ==
  /\ At(h, "build") /\ Reads(h)
  /\ building' = building \cup {h}
  /\ Hand(h, tokenizer) /\ Goes(h, "store")
  /\ NoGuard /\ NoSwap /\ UNCHANGED <<owner, engineOwner, memoryOwner, turn>>
StoreTable(h) ==
  /\ At(h, "store")
  /\ table' = tokenizer /\ building' = building \ {h}
  /\ Goes(h, "lane") /\ Keeps /\ NoGuard
  /\ UNCHANGED <<owner, engineOwner, memoryOwner, turn, loaded, engine, batch, window,
                 tokenizer, served, meta, clean, arrivals>>

\* Which engine serves depends on the features, the switches and the parameters.  A
\* chat the batch server takes leaves its guard behind when it streams: the handler
\* has returned.  One whose thread is gone is refused.
TakeLane(h) ==
  /\ At(h, "lane")
  /\ \/ Goes(h, "probe") /\ Keeps /\ NoGuard
     \/ HasEngine /\ ~req[h].grammar /\ Goes(h, "engine") /\ Keeps /\ NoGuard
     \/ /\ HasBatch /\ ~req[h].grammar /\ req[h].kind # "text"
        /\ IF batch = NoModel THEN GuardDropped(h) /\ Done(h)
           ELSE /\ Goes(h, "batch") /\ Hand(h, batch)
                /\ IF req[h].kind = "stream" THEN GuardDropped(h) ELSE NoGuard
  /\ NoLock /\ NoSwap

\* The batch server's reply ends.
BatchEnd(h) ==
  /\ At(h, "batch") /\ Done(h)
  /\ IF h \in guards THEN GuardDropped(h) ELSE NoGuard
  /\ NoLock /\ NoSwap

\* cb_completions: the prompt goes to the batch server, neither measured nor counted.
SubmitBatched(h) ==
  /\ At(h, "submit")
  /\ IF batch = NoModel THEN Done(h) ELSE Hand(h, batch) /\ Goes(h, "name")
  /\ NoGuard /\ NoLock /\ NoSwap

\* It reads the model's name before its reply comes, a text completion after its own.
NameReply(h) ==
  /\ At(h, "name") /\ Hand(h, served)
  /\ Goes(h, IF req[h].kind = "batched" THEN "batch" ELSE "respond")
  /\ NoGuard /\ NoLock /\ NoSwap
RespondText(h) ==
  /\ At(h, "respond") /\ GuardDropped(h) /\ Done(h)
  /\ NoLock /\ NoSwap

\* The resident engine, when it holds a model, is locked for the whole reply.
TakeEngine(h) ==
  /\ At(h, "engine") /\ engineOwner = Nobody
  /\ IF engine = NoModel THEN Goes(h, "probe") /\ Keeps /\ UNCHANGED engineOwner
     ELSE Goes(h, "generate") /\ Hand(h, engine) /\ engineOwner' = h
  /\ NoGuard /\ NoSwap /\ UNCHANGED <<owner, memoryOwner, building, turn>>

-----------------------------------------------------------------------------
\* acquire_slot: every slot is tried in order ...
Probe(h) ==
  /\ At(h, "probe")
  /\ LET i == req[h].at IN
     IF owner[i] = Nobody
     THEN /\ owner' = [owner EXCEPT ![i] = h]
          /\ Goes(h, "generate") /\ Hand(h, loaded[i]) /\ UNCHANGED turn
     ELSE IF i < PoolSize
     THEN /\ req' = [req EXCEPT ![h].at = i + 1]
          /\ UNCHANGED <<owner, turn, pc>>
     ELSE /\ req' = [req EXCEPT ![h].at = (turn % PoolSize) + 1]
          /\ turn' = (turn + 1) % PoolSize
          /\ Goes(h, "park") /\ UNCHANGED owner
  /\ NoGuard /\ NoSwap /\ UNCHANGED <<engineOwner, memoryOwner, building>>

\* ... and when all are busy the next one in turn is waited for.
Park(h) ==
  /\ At(h, "park") /\ owner[req[h].at] = Nobody
  /\ owner' = [owner EXCEPT ![req[h].at] = h]
  /\ Goes(h, "generate") /\ Hand(h, loaded[req[h].at])
  /\ NoGuard /\ NoSwap /\ UNCHANGED <<engineOwner, memoryOwner, building, turn>>

\* The reply (or the embedding): the tokenizer is read under the slot or the engine.
Generate(h) ==
  /\ At(h, "generate") /\ Reads(h)
  /\ IF req[h].kind = "embed" THEN Hand(h, tokenizer) ELSE Keeps
  /\ Goes(h, IF req[h].kind = "embed" \/ engineOwner = h THEN "answer" ELSE "capture")
  /\ NoGuard /\ NoLock /\ NoSwap

\* capture_prefill_to_memory, still under the slot.
CaptureHidden(h) ==
  /\ At(h, "capture") /\ memoryOwner = Nobody
  /\ Goes(h, "answer") /\ Keeps
  /\ NoGuard /\ NoLock /\ NoSwap

Released(h) ==
  /\ owner' = [i \in Slots |-> IF owner[i] = h THEN Nobody ELSE owner[i]]
  /\ engineOwner' = (IF engineOwner = h THEN Nobody ELSE engineOwner)
  /\ memoryOwner' = (IF memoryOwner = h THEN Nobody ELSE memoryOwner)
  /\ UNCHANGED <<building, turn>>
Answer(h) ==
  /\ At(h, "answer") /\ Released(h)
  /\ IF req[h].kind = "text" THEN Goes(h, "name") /\ Keeps /\ NoGuard
     ELSE Done(h) /\ IF h \in guards THEN GuardDropped(h) ELSE NoGuard
  /\ NoSwap

-----------------------------------------------------------------------------
\* A goal, task or status is stored: the memory is locked, and its text encoded with
\* whichever slot is free, or as zeros when none is.
Remember(h) ==
  /\ At(h, "remember") /\ memoryOwner = Nobody
  /\ memoryOwner' = h
  /\ Goes(h, "tokenize") /\ Keeps
  /\ NoGuard /\ NoSwap /\ UNCHANGED <<owner, engineOwner, building, turn>>
Tokenize(h) ==
  /\ At(h, "tokenize") /\ Reads(h)
  /\ Goes(h, "borrow") /\ Keeps /\ NoGuard /\ NoLock /\ NoSwap
Borrow(h) ==
  /\ At(h, "borrow")
  /\ \/ \E i \in Slots : owner[i] = Nobody /\ owner' = [owner EXCEPT ![i] = h]
     \/ (\A i \in Slots : owner[i] # Nobody) /\ UNCHANGED owner
  /\ Goes(h, "answer") /\ Keeps /\ NoGuard /\ NoSwap
  /\ UNCHANGED <<engineOwner, memoryOwner, building, turn>>

-----------------------------------------------------------------------------
\* select_model: every slot is locked, in order.
Collect(h) ==
  /\ At(h, "collect") /\ owner[req[h].at] = Nobody
  /\ owner' = [owner EXCEPT ![req[h].at] = h]
  /\ IF req[h].at < PoolSize
     THEN /\ req' = [req EXCEPT ![h].at = @ + 1]
          /\ UNCHANGED <<pc, clean>>
     ELSE /\ req' = [g \in Handler |->
               IF g = h THEN [req[g] EXCEPT !.at = 1]
               ELSE [req[g] EXCEPT !.crossed = @ \/ pc[g] # "idle"]]
          /\ Goes(h, "reload") /\ clean' = (Swapping = {})
  /\ NoGuard /\ UNCHANGED <<engineOwner, memoryOwner, building, turn, modelVars, arrivals>>

\* Slot after slot is reloaded.  One that fails ends the selection: the slots before
\* it hold the new model, it holds none, the others and all else are the old model's.
Reload(h) ==
  /\ At(h, "reload")
  /\ LET i == req[h].at IN
     \/ /\ loaded' = [loaded EXCEPT ![i] = req[h].target]
        /\ IF i < PoolSize THEN req' = [req EXCEPT ![h].at = @ + 1] /\ UNCHANGED <<lockVars, pc>>
           ELSE Keeps /\ Released(h) /\ Goes(h, "context")
        /\ UNCHANGED clean
     \/ /\ loaded' = [loaded EXCEPT ![i] = NoModel]
        /\ Done(h) /\ Released(h) /\ clean' = FALSE
  /\ NoGuard /\ UNCHANGED <<engine, batch, window, tokenizer, table, served, meta, arrivals>>

\* Then everything else, one lock at a time; the window is asked of the first slot.
Context(h) ==
  /\ At(h, "context") /\ owner[1] = Nobody
  /\ window' = loaded[1] /\ Goes(h, "swapEngine") /\ Keeps /\ NoGuard /\ NoLock
  /\ UNCHANGED <<loaded, engine, batch, tokenizer, table, served, meta, clean, arrivals>>
SwapEngine(h) ==
  /\ At(h, "swapEngine") /\ (HasEngine => engineOwner = Nobody)
  /\ engine' \in (IF HasEngine THEN {req[h].target, NoModel} ELSE {NoModel})
  /\ Goes(h, "swapBatch") /\ Keeps /\ NoGuard /\ NoLock
  /\ UNCHANGED <<loaded, batch, window, tokenizer, table, served, meta, clean, arrivals>>
\* A load that fails ends the batch server's thread.
SwapBatch(h) ==
  /\ At(h, "swapBatch")
  /\ batch' \in (IF batch = NoModel THEN {NoModel} ELSE {req[h].target, NoModel})
  /\ Goes(h, "swapTokenizer") /\ Keeps /\ NoGuard /\ NoLock
  /\ UNCHANGED <<loaded, engine, window, tokenizer, table, served, meta, clean, arrivals>>
SwapTokenizer(h) ==
  /\ At(h, "swapTokenizer") /\ building = {}
  /\ tokenizer' = req[h].target /\ Goes(h, "swapName") /\ Keeps /\ NoGuard /\ NoLock
  /\ UNCHANGED <<loaded, engine, batch, window, table, served, meta, clean, arrivals>>
SwapName(h) ==
  /\ At(h, "swapName")
  /\ served' = req[h].target /\ Goes(h, "dropTable") /\ Keeps /\ NoGuard /\ NoLock
  /\ UNCHANGED <<loaded, engine, batch, window, tokenizer, table, meta, clean, arrivals>>
DropTable(h) ==
  /\ At(h, "dropTable")
  /\ table' = NoModel /\ Goes(h, "swapMeta") /\ Keeps /\ NoGuard /\ NoLock
  /\ UNCHANGED <<loaded, engine, batch, window, tokenizer, served, meta, clean, arrivals>>
\* Mutant of SwapMeta: the chat template stays.
SwapMetaNot(h) ==
  /\ At(h, "swapMeta") /\ Goes(h, "forget") /\ Keeps /\ NoGuard /\ NoLock /\ NoSwap
SwapMeta(h) ==
  /\ At(h, "swapMeta")
  /\ meta' = req[h].target /\ Goes(h, "forget") /\ Keeps /\ NoGuard /\ NoLock
  /\ UNCHANGED <<loaded, engine, batch, window, tokenizer, table, served, clean, arrivals>>
\* Mutant of ForgetContext: the memory stays locked while the goals are encoded again.
ForgetContextHolding(h) ==
  /\ At(h, "forget") /\ memoryOwner = Nobody
  /\ \/ Goes(h, "remember") /\ memoryOwner' = h
     \/ Goes(h, "answer") /\ UNCHANGED memoryOwner
  /\ Keeps /\ NoGuard /\ NoSwap /\ UNCHANGED <<owner, engineOwner, building, turn>>
\* Context entries are removed, then each goal is encoded again, as it is stored.
ForgetContext(h) ==
  /\ At(h, "forget") /\ memoryOwner = Nobody
  /\ Goes(h, "remember") \/ Goes(h, "answer")
  /\ Keeps /\ NoGuard /\ NoLock /\ NoSwap

RestNext ==
  \E h \in Handler :
    \/ Arrive(h) \/ Encode(h) \/ Measure(h) \/ FetchAdd(h) \/ Refuse(h) \/ Validate(h)
    \/ ReadTable(h) \/ Build(h) \/ StoreTable(h)
    \/ TakeLane(h) \/ BatchEnd(h) \/ TakeEngine(h)
    \/ SubmitBatched(h) \/ NameReply(h) \/ RespondText(h)
    \/ Probe(h) \/ Park(h) \/ Generate(h) \/ CaptureHidden(h) \/ Answer(h)
    \/ Remember(h) \/ Tokenize(h) \/ Borrow(h)
    \/ Collect(h) \/ Reload(h) \/ Context(h) \/ SwapEngine(h) \/ SwapBatch(h)
    \/ SwapTokenizer(h) \/ SwapName(h) \/ DropTable(h) \/ SwapMeta(h) \/ ForgetContext(h)

RestSpec == RestInit /\ [][RestNext]_restVars

-----------------------------------------------------------------------------
\* However requests are admitted, refused, rejected later, served and streamed, the
\* counter is the number of guards, no more than max_concurrent requests are past
\* admission, and none decodes on a slot or the resident engine without its guard.
Admitted == {h \in guards : pc[h] # "refused"}
AdmissionExact ==
  /\ active = Cardinality(guards)
  /\ Cardinality(Admitted) <= MaxConcurrent
  /\ \A h \in Handler :
       (pc[h] \in {"generate", "capture"} /\ req[h].kind # "embed") => h \in guards

\* Whom a handler waits for; the encoder's try_lock waits for nobody.
Holder(o) == {o} \ {Nobody}
WaitsFor(h) ==
  CASE pc[h] \in {"park", "collect"} -> Holder(owner[req[h].at])
    [] At(h, "context") -> Holder(owner[1])
    [] At(h, "engine") \/ (At(h, "swapEngine") /\ HasEngine) -> Holder(engineOwner)
    [] pc[h] \in {"capture", "remember", "forget"} -> Holder(memoryOwner)
    [] At(h, "swapTokenizer") -> building
    [] pc[h] \in {"encode", "build", "generate", "tokenize"} -> TokenizerWaits
    [] OTHER -> {}

\* Whatever they hold, no handlers wait for one another in a circle.
NoLockCycle ==
  \A S \in (SUBSET Handler) \ {{}} : \E h \in S : WaitsFor(h) \cap S = {}

\* A request no selection overlaps is served by one model: its template, tokenizer,
\* window, name, grammar table and weights belong together, unless a selection failed
\* or overlapped another and no clean one has followed.
ServedByOneModel ==
  \A h \in Handler :
    (pc[h] \in {"batch", "capture", "answer", "respond"} /\ clean /\ ~req[h].crossed)
      => Cardinality(req[h].hands) <= 1
=============================================================================
