------------------------------ MODULE GpuKernels ------------------------------
(***************************************************************************)
(* The compute shaders of the wgpu backend (backend/gpu/shaders.rs) and    *)
(* how they are dispatched (backend/gpu/mod.rs).                           *)
(*                                                                         *)
(* A dispatch is a grid of workgroups that run in any order.  The threads  *)
(* of a workgroup share a small memory and run in any order too, up to the *)
(* next barrier, which none passes before all have reached it.  Dispatches *)
(* of one submission follow each other.  A value is what it was computed   *)
(* from; a sum is its set of terms, marked when one is added twice.        *)
(***************************************************************************)
EXTENDS Q4KLayout, TLC

CONSTANTS
  WG,          \* threads of a workgroup (64 or 256), a power of two
  MaxGrid,     \* workgroups of a dispatch in one dimension (65535)
  AccRows,     \* sums a thread of the tiled product keeps (8)
  Scores,      \* logits to choose from, functions of a vocabulary 0..n-1
  Draws,       \* [logits, noise, greedy] of a sampled row
  TopK,        \* candidates extracted for the CPU
  Passes,      \* sequences of weights multiplied with one vector in one pass
  Products,    \* [weight, m_rows, acc] of a batched product
  Norms,       \* lengths of a normed row
  Rotations,   \* [kernel, n_head, half] and base of one row, m_rows of a batch
  Attentions   \* [kernel, n_head, n_kv_head, hd] and what the kernel reads

ASSUME GpuAssumption ==
  /\ {WG, MaxGrid, AccRows} \subseteq Nat \ {0}
  /\ WG % 2 = 0
  /\ \A p \in Products : p.m_rows \in 1..(WG * AccRows)

VARIABLES
  submitted,  \* dispatches not finished, the first one running
  waiting,    \* its workgroups that have not begun
  group,      \* the workgroup that runs
  reached,    \* the step each of its threads is at
  shared,     \* its shared memory
  private,    \* what each thread keeps for itself
  memory      \* the buffers the submission writes
gpuVars == <<submitted, waiting, group, reached, shared, private, memory>>

\* What a buffer held before, if anything.
Old == <<"old">>
Twice == <<"twice">>
Plus(p, q) == p \cup q \cup IF p \cap q = {} THEN {} ELSE {Twice}
Peek(c) == IF c \in DOMAIN memory THEN memory[c] ELSE {Old}

Thread == 0..(WG - 1)
NoGroup == <<>>
SharedSize == 16

-----------------------------------------------------------------------------
(***************************************************************************)
(* Grids.                                                                  *)
(***************************************************************************)
Ceiling(n, k) == (n + k - 1) \div k

\* One workgroup a row, in two dimensions when the rows do not fit in one.
Width1(n) == IF n < MaxGrid THEN n ELSE MaxGrid
Grid(n, which) == {<<x, y, which>> : x \in 0..(Width1(n) - 1), y \in 0..(Ceiling(n, Width1(n)) - 1)}
GridRow(g, n) == g[1] + g[2] * Width1(n)

\* One thread an element.
GlobalId(t) == group[1] * WG + t

\* Elements t, t + WG, ... of n.
Strided(t, n) == {e \in 0..(n - 1) : e % WG = t}

-----------------------------------------------------------------------------
(***************************************************************************)
(* Weights.  A term is <<weight, activation>>, each a place in its row:    *)
(* sub-blocks of 32 for Q4_K, elements otherwise; -1 for none.             *)
(***************************************************************************)
\* One sub-block of a Q4_K block as the shaders unpack it: the products and the min.
Unpacked4(sub) ==
  LET u == unpack_scales(ScaleBytes(0), 0)
  IN  [products |-> {<<0, Weight(32 * (sub \div 2) + 4 * w + bsel, sub % 2), 32 * sub + 4 * w + bsel,
                       ByteOf(u, sub)>> : w \in 0..7, bsel \in 0..3},
       mins |-> {<<ByteOf(u, 8 + sub), sub>>}]
Exact4(sub) ==
  [products |-> {p \in Exact(0).products : p[3] \div 32 = sub},
   mins     |-> {p \in Exact(0).mins : p[2] = sub}]
Sound4 == {<<sub, Unpacked4(sub) = Exact4(sub)>> : sub \in Sub}

\* Six bits and a scale of a Q6_K element, as the shaders find them in the planes.
Unpacked6(pp) ==
  LET half == pp \div 128
      sub  == (pp % 128) \div 32
      l    == pp % 32
  IN  [low   |-> <<64 * half + l + 32 * (sub % 2), IF sub < 2 THEN 0 ELSE 4>>,
       high  |-> <<32 * half + l, 2 * sub>>,
       scale |-> 8 * half + l \div 16 + 2 * sub]

\* The format: four elements, 32 apart, share two bytes of low bits and one of high bits.
Format6 ==
  UNION {{<<128 * h + l,      [low |-> <<64 * h + l, 0>>,      high |-> <<32 * h + l, 0>>, scale |-> 8 * h + l \div 16]>>,
          <<128 * h + l + 32, [low |-> <<64 * h + l + 32, 0>>, high |-> <<32 * h + l, 2>>, scale |-> 8 * h + l \div 16 + 2]>>,
          <<128 * h + l + 64, [low |-> <<64 * h + l, 4>>,      high |-> <<32 * h + l, 4>>, scale |-> 8 * h + l \div 16 + 4]>>,
          <<128 * h + l + 96, [low |-> <<64 * h + l + 32, 4>>, high |-> <<32 * h + l, 6>>, scale |-> 8 * h + l \div 16 + 6]>>} :
         h \in 0..1, l \in 0..31}

\* upload_q6k: bytes of a 210-byte block in its planes.
Planes6(byte) ==
  CASE byte < 128 -> <<"ql", byte>>
    [] byte \in 128..191 -> <<"qh", byte - 128>>
    [] byte \in 192..207 -> <<"scales", byte - 192>>
    [] OTHER -> <<"d", 0>>
InPlanes(pp) ==
  LET u == Unpacked6(pp) IN
  /\ Planes6(u.low[1]) = <<"ql", u.low[1]>>
  /\ Planes6(128 + u.high[1]) = <<"qh", u.high[1]>>
  /\ Planes6(192 + u.scale) = <<"scales", u.scale>>

Sound6 == {<<pp, <<pp, Unpacked6(pp)>> \in Format6 /\ InPlanes(pp)>> : pp \in 0..(QK_K - 1)}

\* The weight a kernel reads for place e of its row, by format.
At4(e) == IF <<e % 8, TRUE>> \in Sound4 THEN e ELSE -1
At6(e) == IF <<e % QK_K, TRUE>> \in Sound6 THEN e ELSE -1

\* The places of a row.
Places(w) == IF w.type = "q4" THEN 8 * w.nb ELSE w.cols

\* The kernels of a vector: thread t's part of a row.
Q4K_MATVEC(w, row, t) == {<<<<row, At4(g)>>, <<g>>>> : g \in Strided(t, 8 * w.nb)}
Q6K_MATVEC(w, row, t) == {<<<<row, At6(e)>>, <<e>>>> : e \in Strided(t, w.cols)}
F32_MATVEC(w, row, t) == {<<<<row, k>>, <<k>>>> : k \in Strided(t, w.cols)}

\* The fused ones gate each activation as they read it.
Q4K_DOWN(w, row, t) == {<<<<row, At4(g)>>, <<g, g>>>> : g \in Strided(t, 8 * w.nb)}
Q6K_DOWN(w, row, t) == {<<<<row, At6(e)>>, <<e, e>>>> : e \in Strided(t, w.cols)}

Part(w, row, t) ==
  CASE w.type = "q4" /\ ~w.gated -> Q4K_MATVEC(w, row, t)
    [] w.type = "q6" /\ ~w.gated -> Q6K_MATVEC(w, row, t)
    [] w.type = "f32"            -> F32_MATVEC(w, row, t)
    [] w.type = "q4" /\ w.gated  -> Q4K_DOWN(w, row, t)
    [] w.type = "q6" /\ w.gated  -> Q6K_DOWN(w, row, t)

-----------------------------------------------------------------------------
(***************************************************************************)
(* Choosing a token.                                                       *)
(***************************************************************************)
Low == -1000
High == 1000
NoIndex == 1000

Highest(best, k) == \A j \in DOMAIN best : best[j] <= best[k]

\* The first highest of a thread's own scores.
FirstBest(score, own) ==
  LET best == [k \in own |-> score[k]] IN
  IF own = {} THEN <<Low, 0>>
  ELSE LET k == CHOOSE k \in own : Highest(best, k) /\ \A j \in own : j < k => best[j] < best[k]
       IN  <<best[k], k>>

BARGMAX(d, t) == FirstBest(d.logits, Strided(t, Cardinality(DOMAIN d.logits)))

\* Noise is added unless the row is greedy.
BSAMPLE(d, t) ==
  FirstBest([k \in DOMAIN d.logits |-> d.logits[k] + IF d.greedy THEN 0 ELSE d.noise[k]],
            Strided(t, Cardinality(DOMAIN d.logits)))

\* The best that comes after the winner of the round before, ties by index.
Precedes(p, q) == p[1] > q[1] \/ (p[1] = q[1] /\ p[2] < q[2])
BTOPK(d, t, prev) ==
  LET below == {p \in {<<d.logits[c], c>> : c \in Strided(t, Cardinality(DOMAIN d.logits))} :
                  Precedes(prev, p)}
  IN  IF below = {} THEN <<Low, NoIndex>>
      ELSE CHOOSE p \in below : \A q \in below \ {p} : Precedes(p, q)

-----------------------------------------------------------------------------
(***************************************************************************)
(* One thread an element.                                                  *)
(***************************************************************************)
\* Where a row's position lies in the pool.
Physical(d, s, pos) ==
  d.table[d.rows[s + 1].slot][pos \div d.block_size + 1] * d.block_size + (pos % d.block_size)

\* Every pair of a new row's keys and values, packed where its position lies.
BKV_PACK(d, idx) ==
  LET kd2 == (d.n_kv_head * d.hd) \div 2
      s   == idx \div kd2
      j   == idx % kd2
  IN  {<<<<"pool", Physical(d, s, d.rows[s + 1].pos) * kd2 + j>>,
         <<d.rows[s + 1].slot, d.rows[s + 1].pos, j>>>>}

KvHead(d, h) == h \div (d.n_head \div d.n_kv_head)

\* A row and a head over the positions of its slot, gathered block by block.
BDSDPA_PAGED(d, idx) ==
  LET s   == idx \div d.n_head
      h   == idx % d.n_head
      hd2 == d.hd \div 2
      At(t, j) == (Physical(d, s, t) * d.n_kv_head + KvHead(d, h)) * hd2 + j
  IN  {<<<<"out", s, h>>,
         {<<t, Peek(<<"pool", At(t, j)>>)>> : t \in 0..d.rows[s + 1].pos, j \in 0..(hd2 - 1)}>>}

\* The same over one contiguous cache, causal from position `pos`.
BSDPA(d, idx) ==
  LET m == idx \div d.n_head
      h == idx % d.n_head
      At(t, e) == (t * d.n_kv_head + KvHead(d, h)) * d.hd + e
      Held(a) == <<a \div (d.n_kv_head * d.hd), (a \div d.hd) % d.n_kv_head, a % d.hd>>
  IN  {<<<<"out", m, h>>, {<<t, Held(At(t, e))>> : t \in 0..(d.pos + m), e \in 0..(d.hd - 1)}>>}

\* One new row over all of them.
SDPA_DECODE(d, h) ==
  LET At(t, e) == (t * d.n_kv_head + KvHead(d, h)) * d.hd + e
      Held(a) == <<a \div (d.n_kv_head * d.hd), (a \div d.hd) % d.n_kv_head, a % d.hd>>
  IN  {<<<<"out", 0, h>>, {<<t, Held(At(t, e))>> : t \in 0..(d.seq_len - 1), e \in 0..(d.hd - 1)}>>}

\* Adjacent elements turned together by the angle of the row's position.
BROPE(d, idx) ==
  LET per  == d.n_head * d.half
      m    == idx \div per
      h    == (idx % per) \div d.half
      j    == idx % d.half
      base == m * per * 2 + h * d.half * 2 + 2 * j
  IN  {<<<<"x", a>>, <<base, base + 1, m, j>>>> : a \in {base, base + 1}}

\* The same for one row, which begins at `base`.
ROPE(d, idx) ==
  LET j    == idx % d.half
      base == d.base + (idx \div d.half) * d.half * 2 + 2 * j
  IN  {<<<<"x", a>>, <<base, base + 1, 0, j>>>> : a \in {base, base + 1}}

Elements(d) ==
  CASE d.kernel = "bkv_pack"     -> (Len(d.rows) * d.n_kv_head * d.hd) \div 2
    [] d.kernel = "bdsdpa_paged" -> Len(d.rows) * d.n_head
    [] d.kernel = "bsdpa"        -> d.m_rows * d.n_head
    [] d.kernel = "sdpa_decode"  -> d.n_head
    [] d.kernel = "brope"        -> d.m_rows * d.n_head * d.half
    [] d.kernel = "rope"         -> d.n_head * d.half
Written(d, idx) ==
  CASE d.kernel = "bkv_pack"     -> BKV_PACK(d, idx)
    [] d.kernel = "bdsdpa_paged" -> BDSDPA_PAGED(d, idx)
    [] d.kernel = "bsdpa"        -> BSDPA(d, idx)
    [] d.kernel = "sdpa_decode"  -> SDPA_DECODE(d, idx)
    [] d.kernel = "brope"        -> BROPE(d, idx)
    [] d.kernel = "rope"         -> ROPE(d, idx)

-----------------------------------------------------------------------------
(***************************************************************************)
(* Programs.  A step ends in a barrier or not.                             *)
(***************************************************************************)
Plain(op, n)  == <<[op |-> op, n |-> n, barrier |-> FALSE]>>
Fenced(op, n) == <<[op |-> op, n |-> n, barrier |-> TRUE]>>

\* The reduction of every kernel: strides WG / 2, ..., 1.
Halving[s \in 0..WG] == IF s = 0 THEN <<>> ELSE Fenced("fold", s) \o Halving[s \div 2]

\* A plausible slip: no barrier between the strides, as among the threads of one warp.
TreeUnsynced == [i \in DOMAIN Halving[WG \div 2] |-> [Halving[WG \div 2][i] EXCEPT !.barrier = FALSE]]

Tree == Halving[WG \div 2]

\* One of the K candidates.
Round(r) == Fenced("scan", r) \o Tree \o Fenced("keep", r)
Rounds[r \in Nat] == IF r = 0 THEN <<>> ELSE Rounds[r - 1] \o Round(r - 1)

\* One tile of the columns, staged by all and used by all.
TileRound(c) == Fenced("stage", c) \o Fenced("multiply", c)
Tiles[c \in Nat] == IF c = 0 THEN <<>> ELSE Tiles[c - 1] \o TileRound(c - 1)

Choosing == {"bargmax", "bsample"}
Tiled    == {"gemm", "q4k_skinny"}
ShaderProgram(d) ==
  CASE d.kernel \in Choosing -> Fenced("scan", 0) \o Tree \o Plain("winner", 0)
    [] d.kernel = "btopk"    -> Rounds[d.k]
    [] d.kernel = "matvec"   -> Fenced("scan", 0) \o Tree \o Plain("sum", 0)
    [] d.kernel = "bnorm"    -> Fenced("scan", 0) \o Tree \o Plain("scale", 0)
    [] d.kernel \in Tiled    -> Tiles[d.weight.nb] \o Plain("store", 0)
    [] OTHER                 -> Plain("element", 0)

-----------------------------------------------------------------------------
(***************************************************************************)
(* Dispatches.                                                             *)
(***************************************************************************)
\* record_gemm: few rows of Q4_K take the kernel with a thread a column.
record_gemm(p) ==
  [kernel |-> IF p.m_rows <= 2 /\ p.weight.type = "q4" THEN "q4k_skinny" ELSE "gemm",
   weight |-> p.weight, m_rows |-> p.m_rows, acc |-> p.acc]

Groups(d) ==
  CASE d.kernel \in Choosing \cup {"btopk", "bnorm"} -> {<<0, 0, 1>>}
    [] d.kernel = "matvec"     -> UNION {Grid(d.weights[i].rows, i) : i \in DOMAIN d.weights}
    [] d.kernel = "gemm"       -> Grid(d.weight.rows, 1)
    [] d.kernel = "q4k_skinny" -> Grid(Ceiling(d.weight.rows, WG), 1)
    [] OTHER                   -> {<<x, 0, 1>> : x \in 0..(Ceiling(Elements(d), WG) - 1)}

\* A workgroup past the last row returns at once.
Returns(d, g) ==
  \/ d.kernel = "matvec" /\ GridRow(g, d.weights[g[3]].rows) >= d.weights[g[3]].rows
  \/ d.kernel = "gemm" /\ GridRow(g, d.weight.rows) >= d.weight.rows

\* The row of the running workgroup; the column of a thread of the skinny product.
GroupRow == GridRow(group, IF submitted[1].kernel = "matvec" THEN submitted[1].weights[group[3]].rows
                           ELSE submitted[1].weight.rows)
Column(t) == GridRow(group, Ceiling(submitted[1].weight.rows, WG)) * WG + t

\* Tiles: a block of eight sub-blocks, dequantized sub-block by sub-block or element by element.
TileSize(w) == Places(w) \div w.nb
Q4K_GEMM(row, c, i) == <<row, At4(8 * c + i)>>
Q6K_GEMM(w, row, c, i) == <<row, At6(TileSize(w) * c + i)>>
StagedWeight(row, c, i) ==
  LET w == submitted[1].weight IN IF w.type = "q4" THEN Q4K_GEMM(row, c, i) ELSE Q6K_GEMM(w, row, c, i)

\* The rows of a batch a thread of the tiled product owns, and where it keeps them.
OwnRow(t, mi) == t + mi * WG

-----------------------------------------------------------------------------
(***************************************************************************)
(* Execution.                                                              *)
(***************************************************************************)
Gpu == submitted[1]
Steps == ShaderProgram(Gpu)

\* A thread goes on to a step when every barrier before it has been reached by all.
Reaches(t, op) ==
  /\ group # NoGroup
  /\ reached[t] <= Len(Steps)
  /\ Steps[reached[t]].op = op
  /\ \A i \in 1..(reached[t] - 1), u \in Thread : Steps[i].barrier => reached[u] > i
  /\ reached' = [reached EXCEPT ![t] = @ + 1]
  /\ UNCHANGED <<submitted, waiting, group>>

Writes(t, cells) == memory' = [c \in {w[1] : w \in cells} |-> (CHOOSE w \in cells : w[1] = c)[2]] @@ memory

Cell(c, acc, terms) == {<<c, IF acc THEN Plus(Peek(c), terms) ELSE terms>>}

Scan(t) ==
  /\ Reaches(t, "scan")
  /\ shared' = [shared EXCEPT ![t] =
       CASE Gpu.kernel = "bargmax" -> BARGMAX(Gpu, t)
         [] Gpu.kernel = "bsample" -> BSAMPLE(Gpu, t)
         [] Gpu.kernel = "btopk"   -> BTOPK(Gpu, t, private[t])
         [] Gpu.kernel = "matvec"  -> Part(Gpu.weights[group[3]], GroupRow, t)
         [] Gpu.kernel = "bnorm"   -> {<<i, i>> : i \in Strided(t, Gpu.n)}]
  /\ UNCHANGED <<private, memory>>

\* The other half wins only when it is better; sums are added.
Fold(t) ==
  /\ Reaches(t, "fold")
  /\ LET stride == Steps[reached[t]].n
         p == shared[t]
         q == shared[t + stride]
     IN  IF t >= stride THEN UNCHANGED shared
         ELSE shared' = [shared EXCEPT ![t] =
                CASE Gpu.kernel \in Choosing -> IF q[1] > p[1] THEN q ELSE p
                  [] Gpu.kernel = "btopk"    -> IF Precedes(q, p) THEN q ELSE p
                  [] OTHER                   -> Plus(p, q)]
  /\ UNCHANGED <<private, memory>>

Winner(t) ==
  /\ Reaches(t, "winner")
  /\ IF t = 0 THEN Writes(t, {<<<<"token">>, shared[0][2]>>}) ELSE UNCHANGED memory
  /\ UNCHANGED <<shared, private>>

\* Every thread reads the winner; the next round starts below it.
KeepWinner(t) ==
  /\ Reaches(t, "keep")
  /\ private' = [private EXCEPT ![t] = shared[0]]
  /\ IF t = 0 THEN Writes(t, {<<<<"top", Steps[reached[t]].n>>, shared[0]>>}) ELSE UNCHANGED memory
  /\ UNCHANGED shared

StoreSum(t) ==
  /\ Reaches(t, "sum")
  /\ LET w == Gpu.weights[group[3]] IN
     IF t = 0 THEN Writes(t, Cell(<<group[3], w.base + GroupRow>>, w.acc, shared[0]))
     ELSE UNCHANGED memory
  /\ UNCHANGED <<shared, private>>

\* Every thread divides its own elements by the sum of all.
Scale(t) ==
  /\ Reaches(t, "scale")
  /\ Writes(t, {<<<<"y", i>>, <<i, shared[0]>>>> : i \in Strided(t, Gpu.n)})
  /\ UNCHANGED <<shared, private>>

\* A tile of the row's weights, or of the batch's activations.
Stage(t) ==
  /\ Reaches(t, "stage")
  /\ LET c == Steps[reached[t]].n IN
     IF Gpu.kernel = "gemm"
     THEN shared' = [i \in 0..(SharedSize - 1) |->
            IF i \in Strided(t, TileSize(Gpu.weight)) THEN StagedWeight(GroupRow, c, i) ELSE shared[i]]
     ELSE shared' = [i \in 0..(SharedSize - 1) |->
            IF i \in Strided(t, Gpu.m_rows * 8) THEN <<i \div 8, 8 * c + (i % 8)>> ELSE shared[i]]
  /\ UNCHANGED <<private, memory>>

\* The rows a thread owns, or its column of every row.
Multiply(t) ==
  /\ Reaches(t, "multiply")
  /\ LET c == Steps[reached[t]].n IN
     private' = [private EXCEPT ![t] =
       IF Gpu.kernel = "gemm"
       THEN [mi \in DOMAIN @ |-> IF OwnRow(t, mi) >= Gpu.m_rows THEN @[mi]
               ELSE Plus(@[mi], {<<shared[i], <<OwnRow(t, mi), TileSize(Gpu.weight) * c + i>>>> :
                                        i \in 0..(TileSize(Gpu.weight) - 1)})]
       ELSE [m \in DOMAIN @ |-> IF Column(t) >= Gpu.weight.rows \/ m >= Gpu.m_rows THEN @[m]
               ELSE Plus(@[m], {<<<<Column(t), At4(8 * c + s)>>, shared[8 * m + s]>> : s \in Sub})]]
  /\ UNCHANGED <<shared, memory>>

StoreTile(t) ==
  /\ Reaches(t, "store")
  /\ Writes(t,
       IF Gpu.kernel = "gemm"
       THEN UNION {Cell(<<OwnRow(t, mi), GroupRow>>, Gpu.acc, private[t][mi]) :
                     mi \in {n \in DOMAIN private[t] : OwnRow(t, n) < Gpu.m_rows}}
       ELSE UNION {Cell(<<m, Column(t)>>, Gpu.acc, private[t][m]) :
                     m \in {n \in DOMAIN private[t] : n < Gpu.m_rows /\ Column(t) < Gpu.weight.rows}})
  /\ UNCHANGED <<shared, private>>

Element(t) ==
  /\ Reaches(t, "element")
  /\ LET idx == GlobalId(t) IN
     IF idx >= Elements(Gpu) THEN UNCHANGED memory ELSE Writes(t, Written(Gpu, idx))
  /\ UNCHANGED <<shared, private>>

-----------------------------------------------------------------------------
(***************************************************************************)
(* Submissions.                                                            *)
(***************************************************************************)
Submissions ==
     {<<[kernel |-> "bargmax", logits |-> l]>> : l \in Scores}
  \cup {<<[kernel |-> "bsample", logits |-> r.logits, noise |-> r.noise, greedy |-> r.greedy]>> : r \in Draws}
  \cup {<<[kernel |-> "btopk", logits |-> l, k |-> TopK]>> : l \in Scores}
  \cup {<<[kernel |-> "matvec", weights |-> p]>> : p \in Passes}
  \cup {<<[kernel |-> "bnorm", n |-> n]>> : n \in Norms}
  \cup {<<record_gemm(p)>> : p \in Products}
  \cup {<<r>> : r \in Rotations}
  \cup {<<a>> : a \in {x \in Attentions : x.kernel # "bdsdpa_paged"}}
  \cup {<<[a EXCEPT !.kernel = "bkv_pack"], a>> : a \in {x \in Attentions : x.kernel = "bdsdpa_paged"}}

\* Positions of the pool's slots that earlier steps packed.
Resident(d) ==
  LET kd2 == (d.n_kv_head * d.hd) \div 2 IN
  UNION {{<<<<"pool", Physical(d, s - 1, p) * kd2 + i>>, <<d.rows[s].slot, p, i>>>> :
            p \in 0..(d.first[d.rows[s].slot] - 1), i \in 0..(kd2 - 1)} : s \in DOMAIN d.rows}

Begun(d) ==
  /\ waiting' = Groups(d)
  /\ group' = NoGroup

GpuInit ==
  /\ submitted = <<>> /\ waiting = {} /\ group = NoGroup
  /\ reached = [t \in Thread |-> 1]
  /\ shared = <<>> /\ private = <<>> /\ memory = <<>>

SubmitKernels(j) ==
  /\ submitted = <<>>
  /\ submitted' = j
  /\ Begun(j[1])
  /\ LET past == IF j[1].kernel = "bkv_pack" THEN Resident(j[1]) ELSE {} IN
     memory' = [c \in {w[1] : w \in past} |-> (CHOOSE w \in past : w[1] = c)[2]]
  /\ UNCHANGED <<reached, shared, private>>

\* A workgroup begins with its shared memory cleared; one past the last row returns.
StartGroup(g) ==
  /\ submitted # <<>> /\ group = NoGroup
  /\ waiting' = waiting \ {g}
  /\ IF Returns(Gpu, g) THEN UNCHANGED <<group, reached, shared, private>>
     ELSE /\ group' = g
          /\ reached' = [t \in Thread |-> 1]
          /\ shared' = [i \in 0..(SharedSize - 1) |-> <<>>]
          /\ private' = [t \in Thread |-> IF Gpu.kernel = "btopk" THEN <<High, NoIndex>>
                                          ELSE [n \in 0..(AccRows - 1) |-> {}]]
  /\ UNCHANGED <<submitted, memory>>

EndGroup ==
  /\ group # NoGroup
  /\ \A t \in Thread : reached[t] > Len(Steps)
  /\ group' = NoGroup /\ reached' = [t \in Thread |-> 1]
  /\ shared' = <<>> /\ private' = <<>>
  /\ UNCHANGED <<submitted, waiting, memory>>

\* The next dispatch of the submission, which sees all that this one wrote.
NextDispatch ==
  /\ Len(submitted) > 1 /\ waiting = {} /\ group = NoGroup
  /\ submitted' = Tail(submitted)
  /\ Begun(submitted'[1])
  /\ UNCHANGED <<reached, shared, private, memory>>

\* The host has waited for the queue and read the result.
Finished == Len(submitted) = 1 /\ waiting = {} /\ group = NoGroup
ReadBack ==
  /\ Finished
  /\ submitted' = <<>> /\ memory' = <<>>
  /\ UNCHANGED <<waiting, group, reached, shared, private>>

GpuNext ==
  \/ \E j \in Submissions : SubmitKernels(j)
  \/ \E g \in waiting : StartGroup(g)
  \/ \E t \in Thread : \/ Scan(t) \/ Fold(t) \/ Winner(t) \/ KeepWinner(t) \/ StoreSum(t) \/ Scale(t)
                       \/ Stage(t) \/ Multiply(t) \/ StoreTile(t) \/ Element(t)
  \/ EndGroup
  \/ NextDispatch
  \/ ReadBack
GpuSpec == GpuInit /\ [][GpuNext]_gpuVars

-----------------------------------------------------------------------------
(***************************************************************************)
(* What a submission is for: the values each of its cells may end with.    *)
(***************************************************************************)
WithOld(acc, terms) == {terms \cup IF acc THEN {Old} ELSE {}}

\* One of the highest scores.
Highests(score) == {k \in DOMAIN score : \A j \in DOMAIN score : score[j] <= score[k]}

\* The r-th pair in the order of the extraction.
Ranked(score, r) == {p \in {<<score[c], c>> : c \in DOMAIN score} :
  Cardinality({c \in DOMAIN score : Precedes(<<score[c], c>>, p)}) = r}

GatedBy(w, e) == IF w.gated THEN <<e, e>> ELSE <<e>>

\* A head over its row's own positions, its own group's part of each.
Attended(d, s, h) ==
  {<<t, <<d.rows[s + 1].slot, t, KvHead(d, h) * (d.hd \div 2) + i>>>> :
     t \in 0..d.rows[s + 1].pos, i \in 0..((d.hd \div 2) - 1)}

Meant(d) ==
  CASE d.kernel = "bargmax" -> [c \in {<<"token">>} |-> Highests(d.logits)]
    [] d.kernel = "bsample" -> [c \in {<<"token">>} |->
         Highests(IF d.greedy THEN d.logits ELSE [k \in DOMAIN d.logits |-> d.logits[k] + d.noise[k]])]
    [] d.kernel = "btopk" -> [c \in {<<"top", r>> : r \in 0..(d.k - 1)} |-> Ranked(d.logits, c[2])]
    [] d.kernel = "bnorm" -> [c \in {<<"y", i>> : i \in 0..(d.n - 1)} |->
         {<<c[2], {<<i, i>> : i \in 0..(d.n - 1)}>>}]
    [] d.kernel = "matvec" ->
         [c \in UNION {{<<i, d.weights[i].base + r>> : r \in 0..(d.weights[i].rows - 1)} :
                         i \in DOMAIN d.weights} |->
            LET w == d.weights[c[1]] IN
            WithOld(w.acc, {<<<<c[2] - w.base, e>>, GatedBy(w, e)>> : e \in 0..(Places(w) - 1)})]
    [] d.kernel \in Tiled ->
         [c \in (0..(d.m_rows - 1)) \X (0..(d.weight.rows - 1)) |->
            WithOld(d.acc, {<<<<c[2], e>>, <<c[1], e>>>> : e \in 0..(Places(d.weight) - 1)})]
    [] d.kernel \in {"brope", "rope"} ->
         LET first == IF d.kernel = "rope" THEN d.base ELSE 0 IN
         [c \in {<<"x", first + i>> : i \in 0..(2 * Elements(d) - 1)} |->
            LET n == (c[2] - first) \div 2 IN
            {<<first + 2 * n, first + 2 * n + 1, n \div (d.n_head * d.half), n % d.half>>}]
    [] d.kernel = "sdpa_decode" ->
         [c \in {<<"out", 0, h>> : h \in 0..(d.n_head - 1)} |->
            {{<<t, <<t, KvHead(d, c[3]), e>>>> : t \in 0..(d.seq_len - 1), e \in 0..(d.hd - 1)}}]
    [] d.kernel = "bsdpa" ->
         [c \in {<<"out", m, h>> : m \in 0..(d.m_rows - 1), h \in 0..(d.n_head - 1)} |->
            {{<<t, <<t, KvHead(d, c[3]), e>>>> : t \in 0..(d.pos + c[2]), e \in 0..(d.hd - 1)}}]
    [] d.kernel = "bdsdpa_paged" ->
         [c \in {<<"out", s, h>> : s \in 0..(Len(d.rows) - 1), h \in 0..(d.n_head - 1)} |->
            {Attended(d, c[2], c[3])}]

(***************************************************************************)
(* Properties.                                                             *)
(***************************************************************************)
\* In whatever order the workgroups of a grid and the threads between two
\* barriers run: a chosen token is one of the highest (noisy) scores, the
\* candidates are the highest K in order, every output of a product is the sum
\* of each weight of its row with its own activation, once, added to the old
\* value exactly when asked to, every norm divides by the sum of the whole row,
\* and a row attends to every position of its own sequence and no other.
GroupsExact ==
  submitted # <<>> =>
    LET meant == Meant(submitted[Len(submitted)]) IN
    /\ \A c \in DOMAIN memory : c \in DOMAIN meant => memory[c] \in meant[c]
    /\ Finished => /\ DOMAIN meant \subseteq DOMAIN memory
                   /\ \A c \in DOMAIN memory : c \in DOMAIN meant \/ c[1] = "pool"
=============================================================================
