------------------------------- MODULE Q4KLayout -------------------------------
(***************************************************************************)
(* Which weight, activation and scale meet in each product of the Q4_K     *)
(* kernels (backend/candle/q4k_repack.rs and q4k_avx512.rs).               *)
(*                                                                         *)
(* A value is where it comes from: a quant is the index of its weight in   *)
(* its row, a scale byte is the origin of each of its bits.  A kernel's    *)
(* output is the set of products it adds up.  A block has 256 weights in   *)
(* eight sub-blocks with a 6-bit scale and a 6-bit min each; eight rows    *)
(* are interleaved for the vector kernels.  Arithmetic on the values is    *)
(* abstracted, except that the 16-bit sums must not overflow.              *)
(***************************************************************************)
EXTENDS Integers, FiniteSets, Sequences

QK_K == 256
Row  == 0..7
Sub  == 0..7

-----------------------------------------------------------------------------
(***************************************************************************)
(* Bits.  A bit is its origin, <<>> a zero; two origins in one bit clash.  *)
(***************************************************************************)
Keep(v, bits) == [n \in DOMAIN v |-> IF n \in bits THEN v[n] ELSE <<>>]
Left(v, k)    == [n \in DOMAIN v |-> IF n - k \in DOMAIN v THEN v[n - k] ELSE <<>>]
Right(v, k)   == [n \in DOMAIN v |-> IF n + k \in DOMAIN v THEN v[n + k] ELSE <<>>]
Or(v, w) == [n \in DOMAIN v |-> IF v[n] = <<>> THEN w[n] ELSE IF w[n] = <<>> THEN v[n]
                                ELSE <<"clash">>]
Field(v, lo, hi) == Right(Keep(v, lo..hi), lo)

\* Six bits of the scale or the min of a sub-block, in place.
Six(r, what, sub) == [n \in 0..7 |-> IF n < 6 THEN <<r, what, sub, n>> ELSE <<>>]

\* The twelve bytes of a block's scales: the upper sub-blocks are split between
\* the low half of the last four bytes and the top of the first eight.
ScaleBytes(r) == [b \in 0..11 |->
  LET what == IF b < 4 THEN "s" ELSE "m"
      sub  == b % 4
  IN  IF b < 8 THEN Or(Six(r, what, sub), Left(Right(Six(r, what, sub + 4), 4), 6))
      ELSE Or(Keep(Six(r, "s", sub + 4), 0..3), Left(Keep(Six(r, "m", sub + 4), 0..3), 4))]

decode_q4k_scale_min(j, sc) ==
  IF j < 4 THEN <<Keep(sc[j], 0..5), Keep(sc[j + 4], 0..5)>>
  ELSE <<Or(Right(Keep(sc[j - 4], {6, 7}), 2), Keep(sc[j + 4], 0..3)),
         Or(Right(Keep(sc[j], {6, 7}), 2), Field(sc[j + 4], 4, 7))>>

\* Three words of packed sixes to four words: scales, scales, mins, mins.
Word(bytes, at) == [n \in 0..31 |-> bytes[at + n \div 8][n % 8]]
InBytes(k) == {n \in 0..31 : n % 8 < k}
ByteOf(words, n) == [k \in 0..7 |-> words[n \div 4 + 1][8 * (n % 4) + k]]
unpack_scales(bytes, at) ==
  LET u0 == Word(bytes, at)
      u1 == Word(bytes, at + 4)
      u2 == Word(bytes, at + 8)
      Top(u) == Left(Keep(Right(u, 6), InBytes(2)), 4)
  IN  <<Keep(u0, InBytes(6)), Or(Keep(u2, InBytes(4)), Top(u0)),
        Keep(u1, InBytes(6)), Or(Keep(Right(u2, 4), InBytes(4)), Top(u1))>>

-----------------------------------------------------------------------------
(***************************************************************************)
(* Eight rows in one block, and back.                                      *)
(***************************************************************************)
\* Byte n of the interleaved quants is byte <<row, byte>> of its rows.
PackedQs(n) == LET i == n \div 8 IN <<i % 8, 8 * (i \div 8) + (n % 8)>>
UnpackedQs(r, b) == 64 * (b \div 8) + 8 * r + (b % 8)

\* The sixes of one sub-block of eight rows in twelve bytes.
Pack12(s, m) == [k \in 0..11 |->
  LET q == k % 4
      v == IF k < 4 THEN s ELSE m
  IN  IF k < 8 THEN Or(Keep(v[q], 0..5), Left(Keep(v[q + 4], {4, 5}), 2))
      ELSE Or(Keep(s[q + 4], 0..3), Left(Keep(m[q + 4], 0..3), 4))]

\* Sub-block `sub` of row j as the repacker reads it out of the row's bytes.
RowScale(j, sub) ==
  LET sc == ScaleBytes(j)
      i == sub % 4
  IN  IF sub < 4 THEN Keep(sc[i], 0..5)
      ELSE Or(Right(Keep(sc[i], {6, 7}), 2), Keep(sc[i + 8], 0..3))
RowMin(j, sub) ==
  LET sc == ScaleBytes(j)
      i == sub % 4
  IN  IF sub < 4 THEN Keep(sc[i + 4], 0..5)
      ELSE Or(Right(Keep(sc[i + 4], {6, 7}), 2), Field(sc[i + 8], 4, 7))

\* Twelve bytes per sub-block, sub-blocks in order.
PackedScales == [b \in 0..95 |->
  LET sub == b \div 12
  IN  Pack12([j \in Row |-> RowScale(j, sub)], [j \in Row |-> RowMin(j, sub)])[b % 12]]

\* reverse_repack_q4_kx8: the twelve bytes of row r again.
Unpacked(bytes, r, sub) ==
  LET at == 12 * sub
      q == r % 4
  IN  IF r < 4 THEN <<Keep(bytes[at + q], 0..5), Keep(bytes[at + 4 + q], 0..5)>>
      ELSE <<Or(Right(Keep(bytes[at + q], {6, 7}), 2), Keep(bytes[at + 8 + q], 0..3)),
             Or(Right(Keep(bytes[at + 4 + q], {6, 7}), 2), Field(bytes[at + 8 + q], 4, 7))>>
ReversedScales(bytes, r) == [b \in 0..11 |->
  LET what == IF b < 4 THEN 1 ELSE 2
      low  == Unpacked(bytes, r, b % 4)
      high == Unpacked(bytes, r, (b % 4) + 4)
  IN  IF b < 8 THEN Or(Keep(low[what], 0..5), Left(Right(high[what], 4), 6))
      ELSE Or(Keep(high[1], 0..3), Left(Keep(high[2], 0..3), 4))]

-----------------------------------------------------------------------------
(***************************************************************************)
(* Products: <<row, weight, activation, scale>>, and of the mins.          *)
(***************************************************************************)
\* The weight in a nibble of byte b of a row.
Weight(b, high) == 64 * (b \div 32) + 32 * high + (b % 32)

\* What the output of a row is made of.
Exact(r) ==
  [products |-> {<<r, i, i, Six(r, "s", i \div 32)>> : i \in 0..(QK_K - 1)},
   mins     |-> {<<Six(r, "m", j), j>> : j \in Sub}]

\* dequantize_q4k_block, then a dot product with the activation in order.
Dequantized(qs, sc) ==
  {<<qs[32 * j + k][1], Weight(qs[32 * j + k][2], h), 64 * j + 32 * h + k,
     decode_q4k_scale_min(2 * j + h, sc)[1]>> : j \in 0..3, h \in 0..1, k \in 0..31}
gemv_scalar(r) ==
  LET sc == ReversedScales(PackedScales, r)
      qs == [b \in 0..127 |-> PackedQs(UnpackedQs(r, b))]
  IN  [products |-> Dequantized(qs, sc), mins |-> {<<decode_q4k_scale_min(j, sc)[2], j>> : j \in Sub}]

\* One row against an activation, sub-block by sub-block.
vec_dot_scalar(r) ==
  LET u == unpack_scales(ScaleBytes(r), 0)
  IN  [products |-> {<<r, Weight(32 * (j \div 2) + k, j % 2), 32 * j + k, ByteOf(u, j)>> :
                       j \in Sub, k \in 0..31},
       mins |-> {<<ByteOf(u, 8 + j), j>> : j \in Sub}]

\* Half a register per sub-block: 64 bytes of quants meet the even sub-blocks
\* with their low nibbles and the odd ones with their high nibbles.
vec_dot_avx512(r) ==
  LET u == unpack_scales(ScaleBytes(r), 0)
      Half(jj, high, n) == 4 * jj + high + 2 * (n \div 32)
  IN  [products |-> {<<r, Weight(64 * jj + n, high), 32 * Half(jj, high, n) + (n % 32),
                       ByteOf(u, Half(jj, high, n))>> : jj \in 0..1, high \in 0..1, n \in 0..63},
       mins |-> {<<ByteOf(u, 8 + j), j>> : j \in Sub}]

-----------------------------------------------------------------------------
(***************************************************************************)
(* gemv_q4_k_8x8_q8_k_avx2: eight rows in a 32-byte register.              *)
(***************************************************************************)
\* Dwords picked within each half; odd dwords from the second operand.
Shuffle32(v, pick) == [n \in 0..31 |-> v[16 * (n \div 16) + 4 * pick[(n % 16) \div 4 + 1] + (n % 4)]]
BlendOdd(v, w) == [n \in 0..31 |-> IF (n \div 4) % 2 = 1 THEN w[n] ELSE v[n]]
SwapPairs == <<1, 0, 3, 2>>

\* The register of four rows at 8-byte column c of super-step sb, low or high nibbles.
Quants(sb, c, second, high) == [n \in 0..31 |->
  LET p == PackedQs(256 * sb + 64 * c + (IF second THEN 32 ELSE 0) + n) IN <<p[1], Weight(p[2], high)>>]

\* Sixteen activations, in both halves.
Activations(sb, high, c) == [n \in 0..31 |-> 64 * sb + 32 * high + 16 * (c \div 2) + (n % 16)]

\* The two multiplications of a column: the first and the last four of its eight bytes.
Multiplied(sb, c, high, last) ==
  LET v0123 == Quants(sb, c, FALSE, high)
      v4567 == Quants(sb, c, TRUE, high)
      dword == 2 * (c % 2) + last
      w == IF last = 0 THEN BlendOdd(v0123, Shuffle32(v4567, SwapPairs))
                       ELSE BlendOdd(Shuffle32(v0123, SwapPairs), v4567)
      x == Shuffle32(Activations(sb, high, c), <<dword, dword, dword, dword>>)
  IN  [n \in 0..31 |-> <<w[n], x[n]>>]

\* A plausible slip: rows leave the register in the order of its dwords.
DwordOrder == <<0, 1, 2, 3, 4, 5, 6, 7>>

\* Which row's scale multiplies a dword, and in which order rows leave the register.
ScaleMask == <<0, 4, 1, 5, 2, 6, 3, 7>>
DeltaMask == <<0, 4, 1, 5, 2, 6, 3, 7>>
FinalPermute == <<0, 2, 4, 6, 1, 3, 5, 7>>

SubScales(sb, high) == unpack_scales(PackedScales, 12 * (2 * sb + high))

\* The products that reach output r, and the row whose block scale they get.
Lane(r) == FinalPermute[r + 1]
LaneProducts(r) ==
  UNION {LET p == Multiplied(sb, c, high, last)
             s == ByteOf(SubScales(sb, high), ScaleMask[Lane(r) + 1])
         IN  {<<p[n][1][1], p[n][1][2], p[n][2], s>> : n \in 4 * Lane(r)..(4 * Lane(r) + 3)} :
         sb \in 0..3, c \in 0..3, high \in 0..1, last \in 0..1}

\* Mins of two sub-blocks side by side against the pairwise sums of the activation.
LaneMins(r) ==
  {<<ByteOf(SubScales(sb, high), 8 + r), 2 * sb + high>> : sb \in 0..3, high \in 0..1}

\* Eight multiplications are added in 16 bits, two products each, before the scale.
SumsFit == 8 * 2 * 15 * 128 < 2^15

gemv_avx2(r) ==
  [products |-> IF SumsFit /\ DeltaMask[Lane(r) + 1] = r THEN LaneProducts(r) ELSE {},
   mins     |-> LaneMins(r)]

-----------------------------------------------------------------------------
Kernel == {"gemv_scalar", "gemv_avx2", "vec_dot_scalar", "vec_dot_avx512"}
Output(k, r) ==
  CASE k = "gemv_scalar"    -> gemv_scalar(r)
    [] k = "gemv_avx2"      -> gemv_avx2(r)
    [] k = "vec_dot_scalar" -> vec_dot_scalar(r)
    [] k = "vec_dot_avx512" -> vec_dot_avx512(r)

\* The row whose dot product output r of a kernel is, 8 when it is of none.
RowOf(k, r) ==
  LET rows == {q \in Row : Output(k, r) = Exact(q)} IN
  IF rows = {} THEN 8 ELSE CHOOSE q \in rows : TRUE
RowsOf == {<<k, r, RowOf(k, r)>> : k \in Kernel, r \in Row}
RowFrom(k, r) == (CHOOSE t \in RowsOf : t[1] = k /\ t[2] = r)[3]
=============================================================================
