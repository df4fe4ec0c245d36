------------------------------ MODULE ChatDecode ------------------------------
(***************************************************************************)
(* One request after another through a model slot: generate_blocking,      *)
(* chat_stream, generate_spec_decode, generate_gpu and generate_vk of      *)
(* src/src/server/rest.rs, with spec_iter of src/src/engine/spec_decode.rs *)
(* and the slot's prefix caches.                                           *)
(*                                                                         *)
(* A slot (and the resident engine) is locked for a whole request, so one  *)
(* slot and one request at a time lose nothing.  Requests are greedy; which*)
(* lane one takes depends on switches other requests may turn at any time, *)
(* so every read of a switch is a free choice.                             *)
(*                                                                         *)
(*   idle -> top <-> pld           the candle loop                         *)
(*   idle -> spec                  draft-model speculative decoding        *)
(*   idle -> fast                  the resident GPU or Vulkan engine       *)
(*   ... -> end -> idle                                                    *)
(***************************************************************************)
EXTENDS ResidentKV, SpecDecode

CONSTANTS
  Eos,               \* the stop tokens (stop_set)
  Prompts,           \* prompts a conversation may begin with
  FollowUps,         \* what a follow-up turn appends to the last text
  MaxTokenChoices,   \* max_tokens of a request
  StopStrings,       \* stop strings, as the tokens that spell them
  LookupLen, DraftK, \* prompt-lookup drafting: 2 and 5
  SpecK,             \* SPEC_K
  LanePrefill,       \* MAX_PREFILL_M
  ShortSuffix,       \* a Vulkan suffix of at most 32 tokens is fed one by one
  Builds,            \* cargo features: "cpu", "gpu", "vulkan"
  DraftModel,        \* whether a draft model may be configured
  MaxRequests,       \* bound on the requests of a behaviour
  Greedy(_),         \* the main model's argmax after a text
  DraftGreedy(_)     \* the draft model's

\* Rendered prompts are not empty; a prompt a lane prefills fits its cache.
ASSUME DecodeAssumption ==
  /\ Junk \notin Seq(Token)
  /\ Eos \in Token
  /\ Prompts \subseteq Seq(Token) \ {<<>>} /\ FollowUps \subseteq Seq(Token)
  /\ StopStrings \subseteq Seq(Token) /\ MaxTokenChoices \subseteq Nat
  /\ {LookupLen, DraftK, SpecK} \subseteq Nat \ {0}
  /\ LanePrefill \in 0..LaneSeq
  /\ Builds \subseteq {"cpu", "gpu", "vulkan"}

VARIABLES
  build,        \* features compiled in
  main, draft,  \* the slot's backends
  cache,        \* prompt_cache
  draftCache,   \* draft_prompt_cache
  tainted,      \* history: the slot's KV was used where it is known not to fit
  kv,           \* the resident engine's cache
  noted,        \* VkModel.prompt_cache
  overwritten,  \* history: a streamed request wrote over the noted positions
  poisoned,     \* the engine's mutex
  job,          \* the request being served
  served        \* requests begun

candleVars == <<main, cache, tainted>>
draftVars == <<draft, draftCache>>
residentVars == <<kv, noted, overwritten, poisoned>>
decodeVars == <<build, candleVars, draftVars, residentVars, job, served>>

NoJob ==
  [phase |-> "idle", lane |-> "candle", stream |-> FALSE, prompt |-> <<>>,
   max |-> 0, text |-> <<>>, start |-> 0, left |-> 0, stop |-> <<>>,
   row |-> Junk, draftRow |-> Junk, next |-> Eos, sent |-> <<>>, gone |-> FALSE,
   filled |-> FALSE, again |-> FALSE, pld |-> FALSE]

DecodeInit ==
  /\ build \in Builds
  /\ main = Loaded
  /\ draft \in (IF DraftModel /\ build = "cpu" THEN {Loaded} ELSE {Unloaded})
  /\ cache = <<>> /\ draftCache = <<>> /\ tainted = FALSE
  /\ kv = NoResident /\ noted = <<>> /\ overwritten = FALSE /\ poisoned = FALSE
  /\ job = NoJob /\ served = 0

-----------------------------------------------------------------------------
Generated(j) == SubSeq(j.text, Len(j.prompt) + 1, Len(j.text))
LastOf(s) == s[Len(s)]

\* stop_hit_in over the re-decoded tail: the window outsizes every stop string.
StopHit(j) ==
  /\ j.stop # <<>>
  /\ \E i \in 1..(Len(Generated(j)) - Len(j.stop) + 1) :
       SubSeq(Generated(j), i, i + Len(j.stop) - 1) = j.stop

\* A committed token: all_tokens and generated_ids grow together.
Push(j, tok) == [j EXCEPT !.text = Append(@, tok)]
Sent(j, tok) == IF j.stream THEN [j EXCEPT !.sent = Append(@, tok)] ELSE j

\* The token drawn from a row of logits: any, when the row follows from no text.
Draw(row) == {t \in Token : row # Junk => t = Greedy(row)}
DraftDraw(row) == {t \in Token : row # Junk => t = DraftGreedy(row)}

\* prepare_prompt_cache: truncate to the prefix shared with the noted prompt, but
\* never the whole prompt; without one, start cold.
PrepareReuse(prompt, noted_) ==
  LET lcp == SharedPrefix(prompt, noted_)
  IN  IF lcp < Len(prompt) - 1 THEN lcp ELSE Len(prompt) - 1
Prepare(be, prompt, noted_) ==
  LET reuse == PrepareReuse(prompt, noted_)
  IN  IF reuse = 0 THEN [be |-> Reset(be), cached |-> <<>>, start |-> 0]
      ELSE [be |-> TruncateTo(be, reuse), cached |-> SubSeq(noted_, 1, reuse),
            start |-> reuse]

\* What becomes of the history after a prefix of length start is kept.
TaintAfter(p) ==
  /\ p.start > 0
  /\ tainted \/ \E l \in 1..Layers : Len(p.be.kv[l]) < p.start

-----------------------------------------------------------------------------
\* Requests that may arrive: a prompt within the window, tokens clamped to the rest
\* of it, an optional stop string; lane and stream as the handler chose.
NextPrompts ==
  {p \in Prompts \cup {c \o f : c \in {cache, noted} \ {<<>>}, f \in FollowUps} :
     Len(p) < MaxSeq}
Clamped(want, prompt) ==
  IF want < MaxSeq - Len(prompt) THEN want ELSE MaxSeq - Len(prompt)
NewJob(lane, stream, prompt, want, stop) ==
  [NoJob EXCEPT !.lane = lane, !.stream = stream, !.prompt = prompt, !.text = prompt,
                !.max = Clamped(want, prompt), !.left = Clamped(want, prompt), !.stop = stop]
NewJobs(lane) ==
  {NewJob(lane, stream, p, m, stop) :
     p \in NextPrompts, m \in MaxTokenChoices, stop \in StopStrings \cup {<<>>},
     stream \in BOOLEAN}

Admit(j) == served < MaxRequests /\ served' = served + 1 /\ job' = j
Idle == job.phase = "idle"

\* The candle loop begins; a request with hallucination detection starts cold.
BeginCandle ==
  /\ Idle
  /\ \E j \in NewJobs("candle"), cold \in BOOLEAN :
       LET p == IF cold THEN [be |-> Reset(main), cached |-> <<>>, start |-> 0]
                ELSE Prepare(main, j.prompt, cache)
       IN  /\ cold => ~j.stream
           /\ main' = p.be /\ cache' = p.cached /\ tainted' = TaintAfter(p)
           /\ Admit([j EXCEPT !.phase = "top", !.start = p.start])
  /\ UNCHANGED <<build, draftVars, residentVars>>

\* The next turn, perhaps a drafted one.
Onward(j) ==
  {[j EXCEPT !.phase = "top"]} \cup
  (IF Len(Generated(j)) < j.max /\ LookupDraft(j.text, j.text, LookupLen, DraftK) # <<>>
   THEN {[j EXCEPT !.phase = "pld"]} ELSE {})

\* What a turn forwards: the rest of the prompt, or the last token.
AtPrompt == Generated(job) = <<>>
TurnInput ==
  IF AtPrompt THEN SubSeq(job.text, job.start + 1, Len(job.text)) ELSE <<LastOf(job.text)>>

\* A committed token that completes a stop string ends the reply; when streaming it
\* is not sent, nor is one that nobody receives.
AfterBlocking(j) == IF StopHit(j) THEN {[j EXCEPT !.phase = "end"]} ELSE Onward(j)
AfterStreamed(j, t) ==
  IF StopHit(j) \/ j.gone THEN {[j EXCEPT !.phase = "end"]} ELSE Onward(Sent(j, t))

\* The forward f is sampled, a stop token ends the reply, any other is committed.
\* The hooks that watch the layers are taken to write nothing back; one may end the
\* reply at the prompt, as an error does anywhere.
Sampled(j, f) ==
  IF f.ok
  THEN \/ \E t \in Draw(LastOf(f.rows)) :
            LET k == [j EXCEPT !.filled = TRUE] IN
            job' \in IF t = Eos THEN {[k EXCEPT !.phase = "end"]}
                     ELSE IF j.stream THEN AfterStreamed(Push(k, t), t)
                     ELSE AfterBlocking(Push(k, t))
       \/ AtPrompt /\ job' = [j EXCEPT !.filled = TRUE, !.phase = "end"]
  ELSE job' = [j EXCEPT !.phase = "end"]

\* One turn of generate_blocking, of which max_tokens are made: forward (perhaps
\* leaving after a confident layer), mask, sample, commit.
CandleStep ==
  /\ job.phase = "top" /\ ~job.stream /\ job.left > 0
  /\ \E exit \in (IF AtPrompt THEN {Layers} ELSE 1..Layers) :
       LET f == IF exit = Layers THEN ForwardLogits(main, TurnInput)
                ELSE ForwardEarlyExit(main, LastOf(TurnInput), exit)
       IN  /\ main' = f.be
           /\ tainted' = (tainted \/ job.again \/ exit < Layers)
           /\ Sampled([job EXCEPT !.left = @ - 1, !.again = FALSE], f)
  /\ UNCHANGED <<build, cache, draftVars, residentVars, served>>

\* One turn of chat_stream, made while tokens are left.
StreamStep ==
  /\ job.phase = "top" /\ job.stream /\ Len(Generated(job)) < job.max
  /\ LET f == ForwardLogits(main, TurnInput)
     IN  /\ main' = f.be
         /\ tainted' = (tainted \/ job.again)
         /\ Sampled([job EXCEPT !.again = FALSE], f)
  /\ UNCHANGED <<build, cache, draftVars, residentVars, served>>

\* The loop is left: the tokens are spent or the request's wall clock is.
EndLoop ==
  /\ job.phase = "top"
  /\ job' = [job EXCEPT !.phase = "end"]
  /\ UNCHANGED <<build, candleVars, draftVars, residentVars, served>>

\* A reply with more tokens; how many of toks a reply takes: up to a stop token, to a
\* full reply, or to where it is cut.
Extended(j, toks) == [j EXCEPT !.text = @ \o toks]
Taken(j, toks, Cut(_)) ==
  Max({n \in 0..Len(toks) :
         \A i \in 1..n : /\ toks[i] # Eos
                         /\ Len(Generated(j)) + i <= j.max
                         /\ i > 1 => ~Cut(i - 1)})
AtEos(j, toks, n) ==
  n < Len(toks) /\ Len(Generated(j)) + n < j.max /\ toks[n + 1] = Eos

\* The accepted drafted tokens are committed, then looked through for a stop string.
CommitDrafted(j, drafted) ==
  LET n == Taken(j, drafted, LAMBDA i : FALSE)
      p == Extended(j, SubSeq(drafted, 1, n))
  IN  [job |-> p, early |-> AtEos(j, drafted, n) \/ StopHit(p)]

\* When streaming, each is looked at and sent before the next.
StreamDrafted(j, drafted) ==
  LET Cut(i) == j.gone \/ StopHit(Extended(j, SubSeq(drafted, 1, i)))
      n   == Taken(j, drafted, Cut)
      cut == n > 0 /\ Cut(n)
  IN  [job   |-> [Extended(j, SubSeq(drafted, 1, n)) EXCEPT
                    !.sent = @ \o SubSeq(drafted, 1, IF cut THEN n - 1 ELSE n)],
       early |-> cut \/ AtEos(j, drafted, n)]

\* Mutant of KeptAfter: one rejected token stays.
KeptAfterOne(pos, accepted) == pos + 2 + accepted
\* Tokens the verified forward keeps: the one it began with and the accepted ones.
KeptAfter(pos, accepted) == pos + 1 + accepted

\* verify_drafts: how many drafted tokens are the argmax of the row before them, and
\* the argmax of the row after those.
VerifyDrafts(drafted, rows) ==
  {[accepted |-> Accepted(drafted, outs), bonus |-> outs[Accepted(drafted, outs) + 1]] :
     outs \in {o \in [1..(Len(drafted) + 1) -> Token] : \A i \in DOMAIN o : o[i] \in Draw(rows[i])}}

\* The model's own next token, which chat_stream sends without looking at it.
Bonus(j, t) == IF j.stream THEN Sent(Push(j, t), t) ELSE Push(j, t)

\* Prompt-lookup decoding: a draft is looked up and verified in one forward; what the
\* model agrees with is committed, and the KV rolled back to it.  `early` drops the
\* model's own next token, as do a stop token or a full reply; the loop goes on all
\* the same.
Verified ==
  LET drafted == LookupDraft(job.text, job.text, LookupLen, DraftK)
      f       == ForwardAllLogits(main, <<LastOf(job.text)>> \o drafted)
  IN  IF ~f.ok
      THEN /\ main' = f.be
           /\ job' = [job EXCEPT !.phase = "top"]
      ELSE \E v \in VerifyDrafts(drafted, f.rows) :
             LET agreed == SubSeq(drafted, 1, v.accepted)
                 c    == IF job.stream THEN StreamDrafted(job, agreed)
                         ELSE CommitDrafted(job, agreed)
                 room == ~c.early /\ v.bonus # Eos /\ Len(Generated(c.job)) < job.max
                 j    == IF room THEN Bonus(c.job, v.bonus) ELSE c.job
             IN  /\ main' = TruncateTo(f.be, KeptAfter(main.pos, v.accepted))
                 /\ job' = [j EXCEPT !.phase = "top", !.again = ~room, !.pld = TRUE]

PldRound ==
  /\ job.phase = "pld" /\ Verified
  /\ UNCHANGED <<build, cache, tainted, draftVars, residentVars, served>>

\* Mutant of Synced: the prompt of the request is left out.
SyncedGenerated(j) == Generated(j)
\* The request ends: the prefix cache becomes the whole text, even when no forward
\* of the prompt succeeded or (max_tokens = 0) none was made.
Synced(j) == j.text
FinishCandle ==
  /\ job.phase = "end" /\ job.lane = "candle"
  /\ cache' = Synced(job) /\ tainted' = (tainted \/ ~job.filled)
  /\ job' = NoJob
  /\ UNCHANGED <<build, main, draftVars, residentVars, served>>

-----------------------------------------------------------------------------
\* generate_spec_decode: both models prefill; an error returns without a sync.
BeginSpec ==
  /\ Idle /\ draft.loaded
  /\ \E j \in {k \in NewJobs("spec") : ~k.stream} :
       LET p == Prepare(main, j.prompt, cache)
           f == ForwardLogits(p.be, SubSeq(j.prompt, p.start + 1, Len(j.prompt)))
           q == Prepare(draft, j.prompt, draftCache)
           g == ForwardLogits(q.be, SubSeq(j.prompt, q.start + 1, Len(j.prompt)))
       IN  /\ main' = f.be /\ cache' = p.cached /\ tainted' = TaintAfter(p)
           /\ IF f.ok
              THEN /\ draft' = g.be /\ draftCache' = q.cached
                   /\ IF g.ok
                      THEN Admit([j EXCEPT !.phase = "spec", !.row = LastOf(f.rows),
                                           !.draftRow = LastOf(g.rows)])
                      ELSE Admit(NoJob)
              ELSE Admit(NoJob) /\ UNCHANGED draftVars
  /\ UNCHANGED <<build, residentVars>>

\* The draft model forwards its own proposals one by one, up to a failure.
Propose(be, drafts) == InPieces(be, drafts, 1)

\* Mutant of CommitSpec: a full reply does not end the commit.
CommitSpecAll(j, toks) ==
  LET n == Max({k \in 0..Len(toks) : \A i \in 1..k : toks[i] # Eos})
  IN  [job |-> Extended(j, SubSeq(toks, 1, n)), eos |-> n < Len(toks)]
\* The committed tokens, up to a stop token or a full reply.
CommitSpec(j, toks) ==
  LET n == Taken(j, toks, LAMBDA i : FALSE)
  IN  [job |-> Extended(j, SubSeq(toks, 1, n)), eos |-> AtEos(j, toks, n)]

\* Mutant of SpecTarget: the first rejected draft stays in both caches.
SpecTargetLate(pos, accepted) ==
  pos - (IF accepted < SpecK THEN SpecK - accepted - 1 ELSE 0)
\* Where both caches are cut after accepted of SpecK drafts.
SpecTarget(pos, accepted) == pos - (SpecK - accepted)

\* spec_iter and the commit loop around it: K drafts, one verifying forward, both
\* caches cut to what was accepted, the main model's own token fed to both.
SpecIter ==
  /\ job.phase = "spec" /\ Len(Generated(job)) < job.max
  /\ \E drafts \in [1..SpecK -> Token], t \in Draw(job.row) :
       LET d == Propose(draft, drafts)
           f == ForwardAllLogits(main, drafts)
           drawn == <<job.draftRow>> \o d.rows
       IN  /\ \A i \in 1..SpecK : i <= Len(drawn) => drafts[i] \in DraftDraw(drawn[i])
           /\ IF ~d.ok \/ ~f.ok
              THEN /\ draft' = d.be /\ main' = (IF d.ok THEN f.be ELSE main)
                   /\ job' = [job EXCEPT !.phase = "end"]
              ELSE \E outs \in [1..SpecK -> Token] :
                   LET accepted == Accepted(drafts, <<t>> \o outs)
                       corrected == (<<t>> \o outs)[accepted + 1]
                       target == SpecTarget(f.be.pos, accepted)
                       fm == ForwardLogits(TruncateTo(f.be, target), <<corrected>>)
                       fd == ForwardLogits(TruncateTo(d.be, target), <<corrected>>)
                       c  == CommitSpec(job, Append(SubSeq(drafts, 1, accepted), corrected))
                       over == c.eos \/ StopHit(c.job)
                   IN  /\ \A i \in 1..SpecK : outs[i] \in Draw(f.rows[i])
                       /\ main' = fm.be
                       /\ draft' = IF fm.ok THEN fd.be ELSE TruncateTo(d.be, target)
                       /\ job' = IF fm.ok /\ fd.ok
                                 THEN [c.job EXCEPT !.row = LastOf(fm.rows),
                                                    !.draftRow = LastOf(fd.rows),
                                                    !.phase = IF over THEN "end" ELSE "spec"]
                                 ELSE [job EXCEPT !.phase = "end"]
  /\ UNCHANGED <<build, cache, tainted, draftCache, residentVars, served>>

\* Both caches are synced to the whole text.
FinishSpec ==
  /\ job.lane = "spec"
  /\ job.phase = "end" \/ (job.phase = "spec" /\ Len(Generated(job)) >= job.max)
  /\ cache' = Synced(job) /\ draftCache' = Synced(job)
  /\ job' = NoJob
  /\ UNCHANGED <<build, main, tainted, draft, residentVars, served>>

-----------------------------------------------------------------------------
\* The lanes of the resident engine: which prompts they take, and their prefill.
\* A streamed Vulkan request neither consults the noted prefix nor updates it.
Eligible(j) ==
  IF build = "vulkan" /\ ~j.stream
  THEN Len(j.prompt) <= LaneSeq - Tile /\ Len(j.prompt) + j.max < LaneSeq
  ELSE Len(j.prompt) <= LanePrefill

Prefilled(j) ==
  IF build = "gpu" THEN FeedAll(kv, j.prompt, 0)
  ELSE IF ~j.stream THEN PrefillCached(kv, noted, j.prompt, ShortSuffix)
  ELSE IF Len(j.prompt) > ShortSuffix THEN FeedPadded(kv, j.prompt, 0)
  ELSE FeedAll(kv, j.prompt, 0)

BeginFast ==
  /\ Idle /\ build # "cpu" /\ ~poisoned
  /\ \E j \in NewJobs("fast") :
       /\ Eligible(j)
       /\ kv' = Prefilled(j)
       /\ IF build = "vulkan" /\ ~j.stream
          THEN /\ noted' = j.prompt
               /\ overwritten' = (overwritten /\ ReuseOf(j.prompt, noted) > 0)
          ELSE /\ overwritten' = (overwritten \/ build = "vulkan")
               /\ UNCHANGED noted
       /\ \E t \in Draw(Attends(kv', Len(j.prompt))) :
            Admit([j EXCEPT !.phase = "fast", !.next = t])
  /\ UNCHANGED <<build, candleVars, draftVars, poisoned>>

\* A committed token is fed at its position for the next.  No lane compares that
\* position with the engine's window: the rotary rows run out, a panic that poisons
\* the engine's mutex (reading just past the tables, Vulkan goes on with what it finds).
FeedNext(p) ==
  LET pos == Len(p.text) - 1 IN
  \/ /\ pos < LaneSeq
     /\ kv' = Feed(kv, job.next, pos)
     /\ \E t \in Draw(Attends(kv', pos + 1)) : job' = [p EXCEPT !.next = t]
     /\ UNCHANGED poisoned
  \/ pos >= LaneSeq /\ poisoned' = TRUE /\ job' = NoJob /\ UNCHANGED kv
  \/ /\ pos = LaneSeq /\ build = "vulkan"
     /\ \E t \in Token : job' = [p EXCEPT !.next = t]
     /\ UNCHANGED <<kv, poisoned>>

EndFast(j) == job' = [j EXCEPT !.phase = "end"] /\ UNCHANGED <<kv, poisoned>>

\* One turn of generate_gpu and generate_vk: a stop token ends the reply, any other is
\* committed, and a stop string or a full reply ends it then.
FastStep ==
  /\ job.phase = "fast" /\ ~job.stream
  /\ LET p == Push(job, job.next) IN
     IF job.next = Eos THEN EndFast(job)
     ELSE IF StopHit(p) \/ Len(Generated(p)) >= p.max THEN EndFast(p)
     ELSE FeedNext(p)
  /\ UNCHANGED <<build, candleVars, draftVars, noted, overwritten, served>>

\* One turn of chat_stream's own loops over the engines: a committed token is sent
\* unless it completes a stop string; a client that left ends the reply.
StreamFast ==
  /\ job.phase = "fast" /\ job.stream
  /\ LET p == Push(job, job.next)
         q == Sent(p, job.next)
     IN  IF job.next = Eos THEN EndFast(job)
         ELSE IF StopHit(p) \/ p.gone THEN EndFast(p)
         ELSE IF Len(Generated(p)) >= p.max THEN EndFast(q)
         ELSE FeedNext(q)
  /\ UNCHANGED <<build, candleVars, draftVars, noted, overwritten, served>>

\* Mutant of NotedAfter: the last token is noted too.
NotedAll(j) == noted \o Generated(j)
\* note_decoded: every generated token but the last was forwarded.
NotedAfter(j) ==
  noted \o SubSeq(Generated(j), 1, Len(Generated(j)) - 1)
FinishFast ==
  /\ job.phase = "end" /\ job.lane = "fast"
  /\ noted' = IF build = "vulkan" /\ ~job.stream THEN NotedAfter(job) ELSE noted
  /\ job' = NoJob
  /\ UNCHANGED <<build, candleVars, draftVars, kv, overwritten, poisoned, served>>

-----------------------------------------------------------------------------
\* The receiver of a stream is dropped.
ClientLeaves ==
  /\ job.phase # "idle" /\ job.stream /\ ~job.gone
  /\ job' = [job EXCEPT !.gone = TRUE]
  /\ UNCHANGED <<build, candleVars, draftVars, residentVars, served>>

\* select_model on this slot: the backend is unloaded and loaded, and only a
\* success clears the prefix cache and replaces the resident engine (into_inner
\* looks through the poison without clearing it).
Reload ==
  /\ Idle /\ served < MaxRequests /\ served' = served + 1
  /\ \/ /\ main' = Loaded /\ cache' = <<>> /\ tainted' = FALSE
        /\ kv' = NoResident /\ noted' = <<>> /\ overwritten' = FALSE
     \/ main' = Unloaded /\ UNCHANGED <<cache, tainted, kv, noted, overwritten>>
  /\ UNCHANGED <<build, draftVars, poisoned, job>>

DecodeNext ==
  \/ BeginCandle \/ CandleStep \/ StreamStep \/ EndLoop \/ PldRound \/ FinishCandle
  \/ BeginSpec \/ SpecIter \/ FinishSpec
  \/ BeginFast \/ FastStep \/ StreamFast \/ FinishFast
  \/ ClientLeaves \/ Reload

DecodeSpec == DecodeInit /\ [][DecodeNext]_decodeVars

-----------------------------------------------------------------------------
\* The request runs on caches that are known to fit: not behind a prompt or a last
\* token that was noted and never forwarded, a token forwarded twice, an early exit,
\* a streamed Vulkan request, or the engine's window.
Untainted ==
  IF job.lane = "fast" THEN ~overwritten /\ Len(job.text) <= LaneSeq + 1 ELSE ~tainted

\* Whatever was reused, drafted, verified and rolled back before, a reply is the one
\* a cold slot gives: each token is the model's argmax after the text so far.
AnswersAsIfCold ==
  Untainted => \A i \in (Len(job.prompt) + 1)..Len(job.text) :
                 job.text[i] = Greedy(SubSeq(job.text, 1, i - 1))

\* Between requests every layer of a slot's KV holds the same text, and the prefix
\* cache (all_tokens, copied at the end of a request) is a prefix of it, or runs one
\* token ahead: the last one of a reply that no forward followed.
CacheTrailsKV ==
  (Idle /\ main.loaded /\ ~tainted) =>
    /\ Clean(main, Layers)
    /\ IsPrefix(cache, main.kv[1]) \/ IsPrefix(main.kv[1], cache)
    /\ Len(cache) <= main.pos + 1

\* Two caches of one length: at the top of a speculative iteration the draft model
\* holds exactly the text, and so does the main model, however much was rejected.
SpecInStep ==
  (job.phase = "spec" /\ Len(Generated(job)) < job.max) =>
    /\ main.pos = draft.pos
    /\ Holds(draft, job.text)
    /\ ~tainted => Holds(main, job.text)

\* max_tokens bounds a reply.  The blocking loop counts turns, not tokens: with
\* prompt lookup a turn commits several, and the reply may reach twice as many less
\* one; a resident engine commits one token before it looks.
BudgetKept ==
  LET n == Len(Generated(job))
  IN  CASE job.lane = "fast" -> n <= job.max \/ n = 1
        [] job.lane = "candle" /\ ~job.stream /\ job.pld -> n <= 2 * job.max - 1
        [] OTHER -> n <= job.max

\* Between requests the tokens noted as resident are, each at its position, unless a
\* streamed request wrote over them since.
NotedIsResident ==
  (Idle /\ ~overwritten) =>
    \A i \in 1..Len(noted) : kv[i - 1] = SubSeq(noted, 1, i)
=============================================================================
