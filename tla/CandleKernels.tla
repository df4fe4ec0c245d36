----------------------------- MODULE CandleKernels -----------------------------
(***************************************************************************)
(* The CPU kernels around candle: QMatMul's choice of a kernel and its     *)
(* loops over rows, groups and batches (quantized_llama_fork.rs,           *)
(* q4k_repack.rs, q4k_avx512.rs), the quantization of activations, and     *)
(* attention over a strided view of the cache (sdpa_cpu.rs).               *)
(*                                                                         *)
(* A job is a loop of tasks.  Two of the loops run on a thread pool, whose *)
(* tasks may finish in any order and write their cells of the output       *)
(* without synchronization.  A cell holds what was added up for it.        *)
(***************************************************************************)
EXTENDS Q4KLayout, FiniteSetsExt

CONSTANTS
  PREFILL_MIN_SEQ,  \* rows from which the prefill kernel is worth it
  Weights,          \* weight matrices: [q4k, rows, blocks]
  Batches,          \* activation rows of a job
  ColSpan,          \* output columns a pool task of the batched product takes
  Heads,            \* attention shapes: [head, kv, dim, len, cap]
  LANES,            \* elements of a vector (16), and the vectors Q fits in (8)
  MaxVecs,
  Inputs            \* activations to quantize, sequences of integers

ASSUME KernelAssumption ==
  /\ {PREFILL_MIN_SEQ, ColSpan, LANES, MaxVecs} \subseteq Nat \ {0}
  /\ \A w \in Weights : w.rows \in Nat /\ w.blocks \in Nat \ {0}
  /\ \A s \in Heads : s.head % s.kv = 0 /\ s.len <= s.cap

VARIABLES
  computing, \* the job: what is computed, and by which kernel
  pending,   \* its tasks that no thread has done
  cells      \* output cells written so far
kernelVars == <<computing, pending, cells>>

-----------------------------------------------------------------------------
(***************************************************************************)
(* Matrix products.                                                        *)
(***************************************************************************)
\* Flat arrays of blocks: by row for weights and activations, by group when interleaved.
RawAt(nb, n) == <<n \div nb, n % nb>>
Interleaved(nb, n) == [i \in Row |-> RawAt(nb, (8 * (n \div nb) + i) * nb + (n % nb))]

\* Layouts a weight is kept in beside candle's own (try_repack_q4k, try_extract_raw_q4k).
Repackable(w) == w.q4k /\ w.rows % 8 = 0

\* QMatMul::forward: the first kernel that takes the shape, or candle's.
Route(flags, w, seq) ==
  CASE "avx512" \in flags /\ w.q4k /\ seq = 1                          -> "rows"
    [] "repack" \in flags /\ Repackable(w) /\ seq = 1                  -> "groups"
    [] "simd" \in flags /\ Repackable(w) /\ seq >= PREFILL_MIN_SEQ     -> "tiles"
    [] OTHER                                                          -> "candle"

\* The kernel under a route, by what the processor has.
RowKernel(cpu)  == IF "avx512" \in cpu THEN "vec_dot_avx512" ELSE "vec_dot_scalar"
GemvKernel(cpu) == IF "avx2" \in cpu THEN "gemv_avx2" ELSE "gemv_scalar"

MatTasks(route, w, seq) ==
  CASE route = "rows"   -> {<<0, row>> : row \in 0..(w.rows - 1)}
    [] route = "batch"  -> {<<0, span>> : span \in 0..((w.rows - 1) \div ColSpan)}
    [] route = "groups" -> {<<0, g>> : g \in 0..((w.rows \div 8) - 1)}
    [] route = "tiles"  -> (0..(seq - 1)) \X (0..((w.rows \div 8) - 1))
    [] OTHER            -> {<<0, 0>>}

\* Blocks of a weight row met by blocks of an activation row.
Dot(weights, nb, act) == {<<weights[c], RawAt(nb, act * nb + c)>> : c \in 0..(nb - 1)}

\* vec_dot_q4k_q8k over a row's blocks.
RowDot(cpu, nb, row, act) ==
  IF RowFrom(RowKernel(cpu), 0) = 0
  THEN Dot([c \in 0..(nb - 1) |-> RawAt(nb, row * nb + c)], nb, act) ELSE {}

\* gemv_q4_k_8x8_q8_k over a group's interleaved blocks: output r of the tile.
TileDot(cpu, nb, g, act, r) ==
  LET row == RowFrom(GemvKernel(cpu), r)
  IN  IF row \in Row
      THEN Dot([c \in 0..(nb - 1) |-> Interleaved(nb, g * nb + c)[row]], nb, act) ELSE {}

\* What a task stores: at <<activation row, output row>>.
MatCells(j, t) ==
  LET nb == j.weight.blocks IN
  CASE j.route = "rows" -> {<<0, t[2], RowDot(j.cpu, nb, t[2], 0)>>}
    [] j.route = "batch" ->
         {<<m, col, RowDot(j.cpu, nb, col, m)>> : m \in 0..(j.seq - 1),
            col \in {n \in 0..(j.weight.rows - 1) : n \div ColSpan = t[2]}}
    [] j.route \in {"groups", "tiles"} ->
         {<<t[1], 8 * t[2] + r, TileDot(j.cpu, nb, t[2], t[1], r)>> : r \in Row}
    [] OTHER ->
         {<<m, n, {<<<<n, c>>, <<m, c>>>> : c \in 0..(nb - 1)}>> :
            m \in 0..(j.seq - 1), n \in 0..(j.weight.rows - 1)}
MatExpected(j) ==
  {<<m, n, {<<<<n, c>>, <<m, c>>>> : c \in 0..(j.weight.blocks - 1)}>> :
     m \in 0..(j.seq - 1), n \in 0..(j.weight.rows - 1)}

-----------------------------------------------------------------------------
(***************************************************************************)
(* Attention of one token: sdpa_gqa_decode.                                *)
(***************************************************************************)
\* What an address of a narrowed cache of `cap` positions holds.
CacheAt(s, a) == <<a \div (s.cap * s.dim), (a \div s.dim) % s.cap, a % s.dim>>
QueryAt(s, a) == <<a \div s.dim, a % s.dim>>

\* Offsets of a head's elements: one by one, or in whole vectors that fit the registers.
Vectored(s, cpu) == "avx512" \in cpu /\ s.dim % LANES = 0 /\ s.dim \div LANES <= MaxVecs
Offsets(s, cpu) ==
  IF Vectored(s, cpu) THEN {i * LANES + l : i \in 0..((s.dim \div LANES) - 1), l \in 0..(LANES - 1)}
  ELSE 0..(s.dim - 1)

\* Query heads share the keys and values of a group of kv_repeat; no mask.
SdpaCells(s, cpu, h) ==
  LET kv_h == h \div (s.head \div s.kv)
      base == kv_h * s.cap * s.dim
      score == {<<t, QueryAt(s, h * s.dim + d), CacheAt(s, base + t * s.dim + d)>> :
                  t \in 0..(s.len - 1), d \in Offsets(s, cpu)}
  IN  {<<h, d, [scores |-> score,
                values |-> {<<t, CacheAt(s, base + t * s.dim + d)>> : t \in 0..(s.len - 1)}]>> :
         d \in Offsets(s, cpu)}
SdpaExpected(s) ==
  {<<h, d, [scores |-> {<<t, <<h, e>>, <<(h * s.kv) \div s.head, t, e>>>> :
                           t \in 0..(s.len - 1), e \in 0..(s.dim - 1)},
            values |-> {<<t, <<(h * s.kv) \div s.head, t, d>>>> : t \in 0..(s.len - 1)}]>> :
     h \in 0..(s.head - 1), d \in 0..(s.dim - 1)}

-----------------------------------------------------------------------------
(***************************************************************************)
(* Quantizing an activation: the element of largest magnitude takes the    *)
(* end of the range.                                                       *)
(***************************************************************************)
Magnitude(v) == IF v < 0 THEN -v ELSE v
Half(a, b) == (2 * Magnitude(a) + b) \div (2 * b)     \* |a| / b, half up
RoundAway(a, b) == IF a < 0 THEN -Half(a, b) ELSE Half(a, b)
RoundEven(a, b) ==
  LET n == Half(a, b)
      m == IF (2 * Magnitude(a) + b) % (2 * b) = 0 /\ n % 2 = 1 THEN n - 1 ELSE n
  IN  IF a < 0 THEN -m ELSE m

Largest(x) == Max({Magnitude(x[i]) : i \in DOMAIN x})
FirstLargest(x) == x[Min({i \in DOMAIN x : Magnitude(x[i]) = Largest(x)})]

\* A plausible slip: the number goes through an i32, as in the four-row version, whose
\* cast to i8 wraps.
Wrapped(q) == IF q > 127 THEN q - 256 ELSE q

\* min and the cast to i8: the end of a signed byte.
Clipped(q) == IF q > 127 THEN 127 ELSE q

\* quantize_q8_k: -128 for the first largest; its opposite is clipped to 127.
quantize_q8_k(x) ==
  LET max == FirstLargest(x)
      sign == IF max < 0 THEN -1 ELSE 1
  IN  IF max = 0 THEN [num |-> 0, den |-> 1, qs |-> [i \in DOMAIN x |-> 0]]
      ELSE [num |-> -max, den |-> 128,
            qs |-> [i \in DOMAIN x |-> Clipped(RoundAway(-128 * sign * x[i], Magnitude(max)))]]

\* quantize_mat_q8_k_4x8: -127 for a positive largest, and also for a negative one; its
\* clamp finds nothing to cut.
Scaled(x, positive) ==
  LET top == Largest(x)
      sign == IF positive THEN -1 ELSE 1
  IN  IF top = 0 THEN [num |-> 0, den |-> 1, qs |-> [i \in DOMAIN x |-> 0]]
      ELSE [num |-> sign * top, den |-> 127,
            qs |-> [i \in DOMAIN x |-> RoundEven(127 * sign * x[i], top)]]
quantize_mat_scalar(x) == Scaled(x, FirstLargest(x) > 0)

\* The vector version keeps per lane whether its largest so far was positive.
quantize_mat_avx2(x) ==
  LET Step(s, l) == {x[2 * s + l + 1]}     \* two lanes, one vector a step
      steps == 0..((Len(x) \div 2) - 1)
      top[s \in steps] == [l \in 0..1 |->
        Max({Magnitude(v) : v \in Step(s, l)} \cup IF s = 0 THEN {0} ELSE {top[s - 1][l]})]
      mask[s \in steps] == [l \in 0..1 |->
        \/ top[s][l] \in Step(s, l)
        \/ s > 0 /\ mask[s - 1][l] /\ top[s - 1][l] = top[s][l]]
      end == Max(steps)
  IN  Scaled(x, \E l \in 0..1 : mask[end][l] /\ top[end][l] = Largest(x))

Quantized(how, x) ==
  CASE how = "row" -> quantize_q8_k(x)
    [] how = "mat" -> quantize_mat_scalar(x)
    [] how = "mat_avx2" -> quantize_mat_avx2(x)

-----------------------------------------------------------------------------
Cpu == {{}, {"avx2"}, {"avx2", "avx512"}}
Flags == SUBSET {"avx512", "repack", "simd"}
Jobs ==
     {[kind |-> "matmul", route |-> Route(f, w, seq), weight |-> w, seq |-> seq, cpu |-> c] :
        f \in Flags, w \in Weights, seq \in Batches, c \in Cpu}
  \cup {[kind |-> "matmul", route |-> "batch", weight |-> w, seq |-> seq, cpu |-> c] :
        w \in {v \in Weights : v.q4k}, seq \in Batches, c \in Cpu}
  \cup {[kind |-> "sdpa", shape |-> s, cpu |-> c] : s \in Heads, c \in Cpu}
  \cup {[kind |-> "quantize", how |-> h, x |-> x] : h \in {"row", "mat", "mat_avx2"}, x \in Inputs}
NoKernel == [kind |-> "idle"]

Tasks(j) ==
  CASE j.kind = "matmul" -> MatTasks(j.route, j.weight, j.seq)
    [] j.kind = "sdpa"   -> {<<0, h>> : h \in 0..(j.shape.head - 1)}
    [] OTHER             -> {<<0, 0>>}
CellsOf(j, t) ==
  CASE j.kind = "matmul" -> MatCells(j, t)
    [] j.kind = "sdpa"   -> SdpaCells(j.shape, j.cpu, t[2])
    [] OTHER             -> {<<0, 0, Quantized(j.how, j.x)>>}

KernelInit == computing = NoKernel /\ pending = {} /\ cells = {}

Take(j) ==
  /\ computing = NoKernel
  /\ computing' = j
  /\ pending' = Tasks(j)
  /\ UNCHANGED cells

\* The pool takes any task; every other loop runs in order.
Pooled == computing.kind = "matmul" /\ computing.route \in {"batch", "groups"}
Before(u, t) == u[1] < t[1] \/ (u[1] = t[1] /\ u[2] < t[2])

Work(t) ==
  /\ Pooled \/ \A u \in pending : ~Before(u, t)
  /\ pending' = pending \ {t}
  /\ cells' = cells \cup CellsOf(computing, t)
  /\ UNCHANGED computing

Return ==
  /\ computing # NoKernel
  /\ pending = {}
  /\ computing' = NoKernel
  /\ cells' = {}
  /\ UNCHANGED pending

KernelNext ==
  \/ \E j \in Jobs : Take(j)
  \/ \E t \in pending : Work(t)
  \/ Return
KernelSpec == KernelInit /\ [][KernelNext]_kernelVars

-----------------------------------------------------------------------------
(***************************************************************************)
(* Properties.                                                             *)
(***************************************************************************)
\* Every output cell is written, once, with exactly its dot product: each weight
\* of its row times the activation at the same place and the scale of its
\* sub-block, whichever kernel the shape, the flags and the processor chose and
\* in whatever order the pool took the tasks; and a query head reads its own
\* group's keys and values at every position, and nothing past them.
CellsExact ==
  computing.kind \in {"matmul", "sdpa"} =>
    LET expected == IF computing.kind = "matmul" THEN MatExpected(computing)
                                                 ELSE SdpaExpected(computing.shape) IN
    /\ cells \subseteq expected
    /\ pending = {} => cells = expected

\* A quantized activation stands for its input within half a step (half up, half to
\* even), a clipped end within one: nothing is cut further, and no sign is lost; and the two versions of the four-row quantizer stand for the
\* same values.
Near(x, z) ==
  \A i \in DOMAIN x :
    LET off == Magnitude(z.qs[i] * z.num - x[i] * z.den)
    IN  IF z.qs[i] = 127 THEN off <= Magnitude(z.num) ELSE 2 * off <= Magnitude(z.num)
QuantsStandForInput ==
  computing.kind = "quantize" =>
    \A c \in cells :
      /\ Near(computing.x, c[3])
      /\ computing.how = "mat_avx2" =>
           LET z == quantize_mat_scalar(computing.x) IN
           \A i \in DOMAIN computing.x : c[3].qs[i] * c[3].num = z.qs[i] * z.num
=============================================================================
