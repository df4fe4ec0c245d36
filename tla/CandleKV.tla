------------------------------ MODULE CandleKV ------------------------------
(***************************************************************************)
(* One CandleCpuBackend: a model's per-layer KV caches and the position    *)
(* counter index_pos kept beside them (candle/backend.rs), with the        *)
(* forward passes of quantized_llama_fork.rs.                              *)
(*                                                                         *)
(* A layer's cache is the sequence of tokens whose keys and values it      *)
(* holds.  An entry is Junk when it is not what a fresh run over the same  *)
(* text computes: it was appended behind a gap or a stale tail, at another *)
(* position than its own, or from a hidden state that was already wrong.   *)
(* A row of logits is the text it follows from, or Junk.                   *)
(***************************************************************************)
EXTENDS Integers, SequencesExt

CONSTANTS
  Token,
  Junk,           \* a cache entry, or a row of logits, of no text
  Layers,         \* n_layers
  MaxSeq,         \* rows of the rotary tables: the context window
  PrefillChunk    \* ZLLM_PREFILL_CHUNK

ASSUME CandleAssumption ==
  /\ Junk \notin Token
  /\ Layers \in Nat \ {0} /\ MaxSeq \in Nat \ {0} /\ PrefillChunk \in Nat \ {0}

Backend ==
  [loaded : BOOLEAN, pos : Nat, kv : [1..Layers -> Seq(Token \cup {Junk})]]

NoKv == [l \in 1..Layers |-> <<>>]

\* load_model: new weights with empty caches; unload_model drops both.
Loaded   == [loaded |-> TRUE, pos |-> 0, kv |-> NoKv]
Unloaded == [loaded |-> FALSE, pos |-> 0, kv |-> NoKv]

\* reset_position and clear_kv_cache.
Reset(be) == [be EXCEPT !.pos = 0, !.kv = NoKv]

\* truncate_to: index_pos becomes n even when a layer's cache is shorter, for
\* which truncate_kv_cache is a no-op.
TruncateTo(be, n) ==
  [be EXCEPT !.pos = n,
             !.kv = [l \in 1..Layers |->
                       SubSeq(@[l], 1, IF n < Len(@[l]) THEN n ELSE Len(@[l]))]]

\* Up to layer l the caches agree, hold pos entries and no Junk: what is appended
\* there next is what a fresh run would append.
Clean(be, l) ==
  \A k \in 1..l : /\ Len(be.kv[k]) = be.pos
                  /\ be.kv[k] = be.kv[1]
                  /\ \A i \in DOMAIN be.kv[k] : be.kv[k][i] # Junk

\* The layer that rejects a forward of n tokens: attention over more than one
\* token adds a causal mask made for pos + n keys to scores over the keys there are.
MaskMismatch(be, n) ==
  {l \in 1..Layers : n > 1 /\ Len(be.kv[l]) # be.pos}

\* forward_attn in layers 1..last: every layer appends before it attends.
Appended(be, toks, last) ==
  [l \in 1..Layers |->
     IF l > last THEN be.kv[l]
     ELSE be.kv[l] \o (IF Clean(be, l) THEN toks ELSE [i \in 1..Len(toks) |-> Junk])]

\* apply_rotary_emb: there is a row for every position.
RotaryRows(be, n) == be.pos + n <= MaxSeq

\* A pass that goes wrong gives no logits; one that does not appends its input to
\* every layer up to exit.  rows are the logits at every input position.
Failed(be) == [be |-> be, ok |-> FALSE, rows |-> <<>>]
Passed(be, toks, exit) ==
  [be   |-> [be EXCEPT !.kv = Appended(be, toks, exit), !.pos = @ + Len(toks)],
   ok   |-> TRUE,
   rows |-> [i \in 1..Len(toks) |-> IF Clean(be, exit) /\ exit = Layers
                                    THEN be.kv[1] \o SubSeq(toks, 1, i) ELSE Junk]]

\* The layers' loop of one forward, which leaves after layer exit.  It fails without
\* a trace when there is no model, no input or no rotary row left, and behind the
\* caches it has already appended to when the mask does not fit.
Forward(be, toks, exit) ==
  LET bad == MaskMismatch(be, Len(toks))
  IN  IF ~be.loaded \/ toks = <<>> \/ ~RotaryRows(be, Len(toks)) THEN Failed(be)
      ELSE IF bad # {} THEN Failed([be EXCEPT !.kv = Appended(be, toks, Min(bad))])
      ELSE Passed(be, toks, exit)

\* forward_logits_early_exit: after a confident layer, the later ones append nothing.
ForwardEarlyExit(be, tok, exit) == Forward(be, <<tok>>, exit)

\* forward_all_logits: to verify a draft.
ForwardAllLogits(be, toks) == Forward(be, toks, Layers)

\* The input in pieces of a size, up to the first failure.  A mask that does not fit
\* stops the first piece; a later one, for which the caches have grown in step, fails
\* only behind the last whole piece that finds its rotary rows.
InPieces(be, toks, size) ==
  LET first == Forward(be, SubSeq(toks, 1, IF size < Len(toks) THEN size ELSE Len(toks)), Layers)
      room  == MaxSeq - be.pos
      fits  == IF Len(toks) <= room THEN Len(toks) ELSE size * (room \div size)
  IN  IF ~first.ok THEN first
      ELSE [Passed(be, SubSeq(toks, 1, fits), Layers) EXCEPT !.ok = fits = Len(toks)]

\* forward_logits.
ForwardLogits(be, toks) == InPieces(be, toks, PrefillChunk)

\* The backend holds exactly text, in every layer and at its position.
Holds(be, text) ==
  be.pos = Len(text) /\ \A l \in 1..Layers : be.kv[l] = text
=============================================================================
