------------------------------ MODULE VkCommands ------------------------------
(***************************************************************************)
(* The command buffers of the raw-Vulkan lane (backend/vulkan/mod.rs):     *)
(* what each recorded program dispatches, which buffers its descriptor     *)
(* sets bind, where it puts barriers, and when a program recorded for an   *)
(* earlier call is submitted again.                                        *)
(*                                                                         *)
(* The device may complete the commands of a program in any order its      *)
(* barriers allow.  A barrier orders the commands of its first stages      *)
(* before those of its second stages and makes the writes of its source    *)
(* accesses visible to its destination accesses.  Every submission is      *)
(* waited for with a fence before the next one is recorded, so a call      *)
(* starts from memory that is settled.                                     *)
(***************************************************************************)
EXTENDS Integers, FiniteSets, Sequences, SequencesExt, FiniteSetsExt

CONSTANTS
  Device,            \* the flags a model is loaded with: head-major cache, fused Q and K,
                     \* flat combine, and the prefill attention kernel
  VkLayers,          \* layers of the model
  FLASH_MIN_SEQ,     \* past this length a single pass over the keys is not used
  SDPA_FLASH_BLOCK,  \* keys of one partial
  SDPA_SUPER,        \* partials of one super-partial
  Pad,               \* rows a prefill chunk is padded to a multiple of (128)
  HeadBatches,       \* batches of eight heads in the three-phase attention
  VkSeq,             \* positions of the cache
  VkRows             \* rows of the longest prefill chunk and verification window

ASSUME VkAssumption ==
  /\ Device \subseteq [headmajor : BOOLEAN, fused : BOOLEAN, flat : BOOLEAN,
                       attention : {"fused", "phases", "scalar"}]
  /\ {VkLayers, SDPA_FLASH_BLOCK, SDPA_SUPER, Pad, HeadBatches, VkSeq, VkRows} \subseteq Nat \ {0}
  /\ FLASH_MIN_SEQ \in Nat

VARIABLES
  device,    \* the flags and weights the model was loaded with
  recorded,  \* the calls the two reusable programs were recorded for
  running,   \* the call on the device, and the call whose program was submitted for it
  completed, \* the items of the program that are done
  written,   \* the buffers written in this call: by which command last, and
             \* the accesses that see it
  wrong      \* commands that read something else than recording order gives
vkVars == <<device, recorded, running, completed, written, wrong>>

-----------------------------------------------------------------------------
(***************************************************************************)
(* Programs.                                                               *)
(***************************************************************************)
CeilDiv(n, d) == (n + d - 1) \div d

\* The caches belong to a layer, every other buffer is shared scratch.
Bound(l, names) == {<<b, IF b \in {"kc", "vc"} THEN l ELSE 0>> : b \in names}

\* One bound dispatch; `size` is what recording fixes: grid, rows, offset.
Disp(l, reads, writes, size) ==
  [stage |-> "shader", reads |-> Bound(l, reads), writes |-> Bound(l, writes), size |-> size]
Copy(l, from, to, size) ==
  [stage |-> "transfer", reads |-> Bound(l, {from}), writes |-> Bound(l, {to}), size |-> size]
Barrier(from, to, src, dst) ==
  [stage |-> "barrier", from |-> from, to |-> to, src |-> src, dst |-> dst]

bar     == Barrier({"shader"}, {"shader"}, {"shader_write"}, {"shader_read"})
\* A plausible slip: the destination access of `bar`, though copies read there.
bar_c2t_shader_read == Barrier({"shader"}, {"transfer"}, {"shader_write"}, {"shader_read"})
bar_c2t == Barrier({"shader"}, {"transfer"}, {"shader_write"}, {"transfer_read"})
bar_t2c == Barrier({"transfer"}, {"shader"}, {"transfer_write"}, {"shader_read"})

\* Both kinds of write in front of the rotation: the copies and the V projection.
bar_both == Barrier({"shader", "transfer"}, {"shader"},
                    {"shader_write", "transfer_write"}, {"shader_read"})
\* The temporary has been read before the next copy fills it.
bar_reuse == Barrier({"shader"}, {"transfer"}, {"shader_read"}, {"transfer_write"})

\* The same program for every layer, one after the other.
EachLayer(Of(_)) == FlattenSeq([l \in 1..VkLayers |-> Of(l)])

-----------------------------------------------------------------------------
(***************************************************************************)
(* One token: VkLayerOps binds, forward_inner records.                     *)
(***************************************************************************)
\* The descriptor sets of a layer: with the fused projection Q and K share one buffer.
LayerOps(d, l) ==
  LET q == IF d.fused THEN "qk" ELSE "q"
      k == IF d.fused THEN "qk" ELSE "k"
  IN  [attn_norm |-> Disp(l, {"x"}, {"normed"}, 1),
       wq_rope   |-> Disp(l, {"normed", "cos", "sin"}, {"q"}, 1),
       wk_rope   |-> Disp(l, {"normed", "cos", "sin"}, {"k"}, 1),
       wqk_rope  |-> Disp(l, {"normed", "cos", "sin"}, {"qk"}, 1),
       wv        |-> Disp(l, {"normed"}, {"v"}, 1),
       kvw_k     |-> Disp(l, {k}, {"kc"}, 1),
       kvw_v     |-> Disp(l, {"v"}, {"vc"}, 1),
       sdpa      |-> Disp(l, {q, "kc", "vc"}, {"attn"}, 1),
       fp        |-> Disp(l, {q, "kc", "vc"}, {"part"}, 1),
       fc        |-> Disp(l, {"part"}, {"attn"}, 1),
       fc1       |-> Disp(l, {"part"}, {"super"}, 1),
       fc2       |-> Disp(l, {"super"}, {"attn"}, 1),
       wo        |-> Disp(l, {"attn", "x"}, {"x"}, 1),
       ffn_norm  |-> Disp(l, {"x"}, {"normed"}, 1),
       w13       |-> Disp(l, {"normed"}, {"gu"}, 1),
       silu      |-> Disp(l, {"gu"}, {"h"}, 1),
       w2        |-> Disp(l, {"h", "x"}, {"x"}, 1)]

\* A head-major cache has no single-pass kernel.
Flash(d, pos) == d.headmajor \/ pos + 1 > FLASH_MIN_SEQ
FlashBlocks(pos) == CeilDiv(pos + 1, SDPA_FLASH_BLOCK)

\* Partials per block of keys, and one or two levels of combining them.
ForwardAttention(d, o, pos) ==
  LET nblk == FlashBlocks(pos) IN
  IF ~Flash(d, pos) THEN <<o.sdpa, bar>>
  ELSE <<[o.fp EXCEPT !.size = nblk], bar>>
       \o IF d.flat THEN <<o.fc, bar>>
          ELSE <<[o.fc1 EXCEPT !.size = CeilDiv(nblk, SDPA_SUPER)], bar, o.fc2, bar>>

ForwardLayer(d, l, pos) ==
  LET o == LayerOps(d, l) IN
     <<o.attn_norm, bar>>
  \o (IF d.fused THEN <<o.wqk_rope>> ELSE <<o.wq_rope, o.wk_rope>>)
  \o <<o.wv, bar, o.kvw_k, o.kvw_v, bar>>
  \o ForwardAttention(d, o, pos)
  \o <<o.wo, bar, o.ffn_norm, bar, o.w13, bar, o.silu, bar, o.w2, bar>>

ForwardTail(c) ==
  IF ~c.lm THEN <<>>
  ELSE <<Disp(0, {"x"}, {"normed"}, 1), bar, Disp(0, {"normed"}, {"logits"}, 1)>>
       \o IF c.argmax THEN <<bar, Disp(0, {"logits"}, {"idx"}, 1)>> ELSE <<>>

ForwardProgram(d, c) ==
  LET Layer(l) == ForwardLayer(d, l, c.pos) IN EachLayer(Layer) \o ForwardTail(c)

\* What the recorded token program depends on besides the uniforms every call refreshes.
RecKey(d, c) ==
  <<IF Flash(d, c.pos) THEN FlashBlocks(c.pos) ELSE 0, c.lm, c.argmax>>

-----------------------------------------------------------------------------
(***************************************************************************)
(* A chunk of the prompt: prefill_inner.                                   *)
(***************************************************************************)
PaddedRows(rows) == Pad * CeilDiv(rows, Pad)

PrefillQkv(d, l, at) ==
  IF d.fused
    THEN <<Disp(l, {"n16"}, {"qk"}, at), Disp(l, {"n16"}, {"vc"}, at), bar_c2t,
           Copy(l, "qk", "q", at), Copy(l, "qk", "kc", at), bar_both>>
    ELSE <<Disp(l, {"n16"}, {"q"}, at), Disp(l, {"n16"}, {"kc"}, at),
           Disp(l, {"n16"}, {"vc"}, at), bar>>

\* Half-precision views of the queries and of every key and value so far.
HalfViews(l, at) ==
  <<Disp(l, {"q"}, {"q16"}, at), Disp(l, {"kc"}, {"k16"}, at), Disp(l, {"vc"}, {"v16"}, at), bar>>

\* Batches of heads share the plane of scores.
ThreePhases(l, at) ==
  FlattenSeq([zb \in 1..HeadBatches |->
    <<Disp(l, {"q16", "k16"}, {"s32"}, at), bar, Disp(l, {"s32"}, {"prob16"}, at), bar,
      Disp(l, {"prob16", "v16"}, {"attn32"}, at), bar>>])

\* One kernel for any offset, three phases for a first chunk, or scalar kernels.
PrefillAttention(d, l, at) ==
  CASE d.attention = "fused"
         -> HalfViews(l, at) \o <<Disp(l, {"q16", "k16", "v16"}, {"attn32"}, at), bar>>
    [] d.attention = "phases" /\ at.pos = 0 -> HalfViews(l, at) \o ThreePhases(l, at)
    [] OTHER -> <<Disp(l, {"q", "kc", "vc"}, {"attn32"}, at)>>

PrefillLayer(d, l, at) ==
     <<Disp(l, {"x32"}, {"n32"}, at), bar, Disp(l, {"n32"}, {"n16"}, at), bar>>
  \o PrefillQkv(d, l, at)
  \o <<Disp(l, {"q", "cosb", "sinb"}, {"q"}, at), Disp(l, {"kc", "cosb", "sinb"}, {"kc"}, at), bar>>
  \o PrefillAttention(d, l, at)
  \o <<bar, Disp(l, {"attn32"}, {"attn16"}, at), bar, Disp(l, {"attn16"}, {"o32"}, at), bar,
       Disp(l, {"x32", "o32"}, {"x32"}, at), bar,
       Disp(l, {"x32"}, {"n32"}, at), bar, Disp(l, {"n32"}, {"n16"}, at), bar,
       Disp(l, {"n16"}, {"gu"}, at), bar, Disp(l, {"gu"}, {"h32"}, at), bar,
       Disp(l, {"h32"}, {"h16"}, at), bar, Disp(l, {"h16"}, {"ffn32"}, at), bar,
       Disp(l, {"x32", "ffn32"}, {"x32"}, at), bar>>

\* The head reads the row of the last real token, whatever the padding.
PrefillTail(c, at) ==
  <<Disp(0, {"x32"}, {"n32"}, at), bar, Disp(0, {"n32"}, {"plogits"}, c.rows)>>

PrefillProgram(d, c) ==
  LET at == [m |-> PaddedRows(c.rows), pos |-> c.pos]
      Layer(l) == PrefillLayer(d, l, at)
  IN  EachLayer(Layer) \o PrefillTail(c, at)

PrefillKey(c) == <<c.rows, c.pos>>

-----------------------------------------------------------------------------
(***************************************************************************)
(* A window of drafts: verify_inner, and the re-layout of a prefilled      *)
(* cache: transpose_kv_headmajor.  Both are recorded for every call.       *)
(***************************************************************************)
VerifyLayer(l, at) ==
  <<Disp(l, {"x32"}, {"n32"}, at), bar,
    Disp(l, {"n32"}, {"q"}, at), Disp(l, {"n32"}, {"o32"}, at), Disp(l, {"n32"}, {"ffn32"}, at), bar,
    Disp(l, {"q", "cosb", "sinb"}, {"q"}, at), Disp(l, {"o32", "cosb", "sinb"}, {"o32"}, at), bar,
    bar_c2t, Copy(l, "o32", "kc", at), Copy(l, "ffn32", "vc", at), bar_t2c,
    Disp(l, {"q", "kc", "vc"}, {"attn32"}, at), bar,
    Disp(l, {"attn32"}, {"o32"}, at), bar, Disp(l, {"x32", "o32"}, {"x32"}, at), bar,
    Disp(l, {"x32"}, {"n32"}, at), bar, Disp(l, {"n32"}, {"gu"}, at), bar,
    Disp(l, {"gu"}, {"h32"}, at), bar, Disp(l, {"h32"}, {"ffn32"}, at), bar,
    Disp(l, {"x32", "ffn32"}, {"x32"}, at), bar>>

VerifyProgram(c) ==
  LET at == [m |-> c.rows, pos |-> c.pos]
      Layer(l) == VerifyLayer(l, at)
  IN  EachLayer(Layer)
      \o <<Disp(0, {"x32"}, {"n32"}, at), bar, Disp(0, {"n32"}, {"vlogits"}, at), bar>>
      \o FlattenSeq([i \in 1..c.rows |-> <<Disp(0, {"vlogits"}, {"varg"}, i), bar>>])

Transpose(c) ==
  LET Cache(l, b) == <<Copy(l, b, "temp", c.rows), bar_t2c,
                       Disp(l, {"temp"}, {b}, c.rows), bar_reuse>>
      Layer(l) == Cache(l, "kc") \o Cache(l, "vc")
  IN  EachLayer(Layer)

-----------------------------------------------------------------------------
(***************************************************************************)
(* Calls.                                                                  *)
(***************************************************************************)
Chunk == {c \in [rows : 1..VkRows, pos : {0, Pad}] : c.pos + PaddedRows(c.rows) <= VkSeq}
Call ==
     {[kind |-> "forward", pos |-> p, lm |-> t.lm, argmax |-> t.argmax] :
        p \in 0..(VkSeq - 1), t \in {u \in [lm : BOOLEAN, argmax : BOOLEAN] : u.argmax => u.lm}}
  \cup {[kind |-> k, rows |-> c.rows, pos |-> c.pos] :
        k \in {"prefill", "verify", "transpose"}, c \in Chunk}
Never == <<>>

Program(d, c) ==
  CASE c.kind = "forward"   -> ForwardProgram(d, c)
    [] c.kind = "prefill"   -> PrefillProgram(d, c)
    [] c.kind = "verify"    -> VerifyProgram(c)
    [] c.kind = "transpose" -> Transpose(c)
ProgramKey(d, c) == IF c.kind = "forward" THEN RecKey(d, c) ELSE PrefillKey(c)

\* What an item waits for, and the command that should have written what it reads.
Waits(p, i) ==
  {j \in 1..(i - 1) :
     IF p[i].stage = "barrier"
       THEN IF p[j].stage = "barrier" THEN p[j].to \cap p[i].from # {} ELSE p[j].stage \in p[i].from
       ELSE p[j].stage = "barrier" /\ p[i].stage \in p[j].to}
LastWriter(p, i, b) ==
  Max({0} \cup {j \in 1..(i - 1) : p[j].stage # "barrier" /\ b \in p[j].writes})

\* Every program, with its waits, in a table.
Ordered(p) == FlattenSeq([i \in DOMAIN p |-> <<p[i] @@ [waits |-> Waits(p, i)]>>])
Programs == [r \in Device \X Call |-> Ordered(Program(r[1], r[2]))] @@ <<>>
ReadAccess(stage)  == IF stage = "shader" THEN "shader_read" ELSE "transfer_read"
WriteAccess(stage) == IF stage = "shader" THEN "shader_write" ELSE "transfer_write"

-----------------------------------------------------------------------------
VkInit ==
  /\ device \in Device
  /\ recorded = [forward |-> Never, prefill |-> Never]
  /\ running = [call |-> Never, recorded |-> Never]
  /\ completed = {}
  /\ written = <<>>
  /\ wrong = {}

Start(c, r) ==
  /\ running.call = Never
  /\ running' = [call |-> c, recorded |-> r]
  /\ UNCHANGED <<device, completed, written, wrong>>

\* forward_inner and prefill_inner: the program is recorded again when its key changed.
Submit(c) ==
  /\ c.kind \in {"forward", "prefill"}
  /\ LET old == recorded[c.kind]
         r == IF old # Never /\ ProgramKey(device, old) = ProgramKey(device, c) THEN old ELSE c
     IN  Start(c, r) /\ recorded' = [recorded EXCEPT ![c.kind] = r]

\* verify_inner and transpose_kv_headmajor record every call.
SubmitOnce(c) ==
  /\ c.kind \in {"verify", "transpose"}
  /\ c.kind = "transpose" => device.headmajor
  /\ Start(c, c)
  /\ UNCHANGED recorded

\* A dispatch or a copy completes: it has read what memory shows it.
Complete(p, i) ==
  /\ p[i].stage # "barrier"
  /\ p[i].waits \subseteq completed
  /\ completed' = completed \cup {i}
  /\ LET Stale(b) ==
           IF b \notin DOMAIN written THEN LastWriter(p, i, b) # 0
           ELSE \/ written[b].by # LastWriter(p, i, b)
                \/ ReadAccess(p[i].stage) \notin written[b].visible
     IN  wrong' = wrong \cup {<<i, b>> : b \in {r \in p[i].reads : Stale(r)}}
  /\ written' = [b \in p[i].writes |-> [by |-> i, visible |-> {}]] @@ written
  /\ UNCHANGED <<device, recorded, running>>

\* A barrier takes effect: the writes in its first scope become visible to its second.
Pass(p, i) ==
  /\ p[i].stage = "barrier"
  /\ p[i].waits \subseteq completed
  /\ completed' = completed \cup {i}
  /\ written' = [b \in DOMAIN written |->
       IF WriteAccess(p[written[b].by].stage) \in p[i].src
         THEN [written[b] EXCEPT !.visible = @ \cup p[i].dst] ELSE written[b]]
  /\ UNCHANGED <<device, recorded, running, wrong>>

\* The fence: the caller reads the result and may submit again.
Wait ==
  /\ running.call # Never
  /\ completed = DOMAIN Programs[device, running.recorded]
  /\ running' = [call |-> Never, recorded |-> Never]
  /\ completed' = {}
  /\ written' = <<>>
  /\ UNCHANGED <<device, recorded, wrong>>

VkNext ==
  \/ \E c \in Call : Submit(c) \/ SubmitOnce(c)
  \/ /\ running.call # Never
     /\ \E p \in {Programs[device, running.recorded]} : \E i \in DOMAIN p \ completed :
          Complete(p, i) \/ Pass(p, i)
  \/ Wait
VkSpec == VkInit /\ [][VkNext]_vkVars

-----------------------------------------------------------------------------
(***************************************************************************)
(* Properties.                                                             *)
(***************************************************************************)
\* Whatever order the device completes commands in, each one read the buffers
\* as recording order left them, and the program on the device is the one this
\* call would have recorded: no barrier of forward_inner, prefill_inner,
\* verify_inner and transpose_kv_headmajor is missing or aimed at the wrong
\* stage, and no record-once key (last_rec, prefill_rec) leaves out something
\* the recording fixed.
RunsAsRecorded ==
  /\ wrong = {}
  /\ running.call # Never => Programs[device, running.recorded] = Programs[device, running.call]
=============================================================================
