------------------------------ MODULE ResidentKV ------------------------------
(***************************************************************************)
(* The single resident KV stream of a GPU engine, GpuModel (gpu/mod.rs)    *)
(* or VkModel (vulkan/mod.rs): a cache indexed by position that is never   *)
(* cleared, only overwritten.                                              *)
(*                                                                         *)
(* A position holds the text up to it when its keys and values are what a  *)
(* fresh run over that text computes, and Junk otherwise.                  *)
(***************************************************************************)
EXTENDS CandleKV

CONSTANTS
  LaneSeq,      \* max_seq of the engine, 4096 whatever the model's window
  Tile          \* rows a batched Vulkan prefill is padded to

ASSUME ResidentAssumption == LaneSeq \in Nat \ {0} /\ Tile \in Nat \ {0}

NoResident == [p \in 0..(LaneSeq - 1) |-> Junk]

\* What a row at position pos attends: the text of the positions below it, when
\* they hold one.
Attends(kv, pos) ==
  IF pos = 0 THEN <<>>
  ELSE IF /\ kv[pos - 1] # Junk
          /\ \A p \in 0..(pos - 2) : kv[p] = SubSeq(kv[pos - 1], 1, p + 1)
  THEN kv[pos - 1] ELSE Junk

\* Tokens at consecutive positions, in any number of passes.
FeedAll(kv, toks, start) ==
  LET behind == Attends(kv, start)
  IN  [p \in DOMAIN kv |->
         IF p < start \/ p >= start + Len(toks) THEN kv[p]
         ELSE IF behind = Junk THEN Junk
         ELSE behind \o SubSeq(toks, 1, p - start + 1)]

\* forward, forward_argmax, prefill_step: one token at one position.
Feed(kv, tok, pos) == FeedAll(kv, <<tok>>, pos)

\* prefill_inner: a Vulkan tile also writes its padding rows.
FeedPadded(kv, toks, start) ==
  LET fed  == FeedAll(kv, toks, start)
      rows == Tile * ((Len(toks) + Tile - 1) \div Tile)
  IN  [p \in DOMAIN kv |->
         IF p >= start + Len(toks) /\ p < start + rows THEN Junk ELSE fed[p]]

\* lcp_len.
SharedPrefix(s, t) ==
  Max({n \in 0..Len(s) : n <= Len(t) /\ SubSeq(s, 1, n) = SubSeq(t, 1, n)})

\* prefill_cached: keep the prefix shared with the tokens noted as resident, and
\* run at least the last token.  A short suffix goes token by token.
ReuseOf(prompt, noted) ==
  LET lcp == SharedPrefix(prompt, noted)
  IN  IF lcp < Len(prompt) - 1 THEN lcp ELSE Len(prompt) - 1
PrefillCached(kv, noted, prompt, short) ==
  LET reuse  == ReuseOf(prompt, noted)
      suffix == SubSeq(prompt, reuse + 1, Len(prompt))
  IN  IF Len(suffix) > short THEN FeedPadded(kv, suffix, reuse)
      ELSE FeedAll(kv, suffix, reuse)
=============================================================================
