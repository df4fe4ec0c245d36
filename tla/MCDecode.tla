------------------------------- MODULE MCDecode -------------------------------
(***************************************************************************)
(* A small model with small conversations for the decode lanes, the goal   *)
(* manager of a small memory store, the command buffers of three Vulkan    *)
(* devices, and the CPU kernels and the GPU shaders on small shapes.  They *)
(* share no state here: a behaviour exercises one of them, the others stay *)
(* as they began.                                                          *)
(***************************************************************************)
EXTENDS ChatDecode, GoalManager, VkCommands, CandleKernels,
        GpuKernels, TLC

CONSTANTS a, b, eos, g1, g2, t1, c1

VARIABLE traffic    \* which of the five

-----------------------------------------------------------------------------
\* The next token follows from the last two: texts that echo themselves, and end.
FollowsLastTwo(s) ==
  LET n == Len(s)
      t == s[n]
      u == IF n > 1 THEN s[n - 1] ELSE b
  IN  CASE t = a /\ u = a -> b
        [] t = a /\ u = b -> a
        [] t = b /\ u = a -> a
        [] t = b /\ u = b -> eos
        [] OTHER -> a

\* A draft model that agrees about half of the time.
FollowsLast(s) == IF s[Len(s)] = a THEN b ELSE a

\* Openings: one that repeats itself, one with an end-of-turn token inside, a short one.
Openings == {<<a, a, b, a>>, <<b, b, eos, b>>, <<b>>}
Turns == {<<eos, b>>}
Stops == {<<b, a>>}

-----------------------------------------------------------------------------
\* Two goals, a task, a capture and the status in a store that fills up.
Keys_ == {g1, g2, t1, c1, "status"}
Tags_ == {g1, g2, "none", "current", "active", "done", "blocked"}
Cats_ == {"goal", "task", "status", "context"}
Budgets == [c \in Cats_ |-> IF c = "goal" THEN 3 ELSE 2]

Sym == Permutations({g1, g2}) \cup Permutations(Saver)

-----------------------------------------------------------------------------
\* Both cache layouts, both projections, both combines, every attention kernel.
Dev(headmajor, fused, flat, attention) ==
  [headmajor |-> headmajor, fused |-> fused, flat |-> flat, attention |-> attention]
Devices == {Dev(FALSE, FALSE, FALSE, "fused"), Dev(FALSE, TRUE, TRUE, "phases"),
            Dev(TRUE, TRUE, FALSE, "scalar")}

-----------------------------------------------------------------------------
\* Weights of two groups and two blocks a row, of half a group, and of another type;
\* heads that share keys in a vector's shape, in none, and past the registers.
Mats == {[q4k |-> TRUE, rows |-> 16, blocks |-> 2], [q4k |-> TRUE, rows |-> 4, blocks |-> 1],
         [q4k |-> FALSE, rows |-> 8, blocks |-> 1]}
Shapes == {[head |-> 4, kv |-> 2, dim |-> 4, len |-> 2, cap |-> 3],
           [head |-> 2, kv |-> 1, dim |-> 3, len |-> 1, cap |-> 2],
           [head |-> 2, kv |-> 2, dim |-> 6, len |-> 2, cap |-> 2]}
Activation == [1..4 -> -3..3]

-----------------------------------------------------------------------------
\* Five scores for four threads, with ties; noise that changes the winner.
Logits == [0..4 -> 0..2]
Noisy == {[logits |-> l, noise |-> [k \in 0..4 |-> (2 * k) % 3], greedy |-> g] :
            l \in [0..4 -> 0..1], g \in BOOLEAN}

\* Passes of one and of two matrices, grids with and without idle workgroups,
\* batches on both sides of the skinny limit, with more rows than threads.
Mat(type, rows, nb, cols, base, acc, gated) ==
  [type |-> type, rows |-> rows, nb |-> nb, cols |-> cols, base |-> base, acc |-> acc, gated |-> gated]
Vectors == {<<Mat("q4", 3, 1, 0, 0, FALSE, FALSE), Mat("q6", 2, 1, 6, 4, FALSE, FALSE)>>,
            <<Mat("f32", 3, 1, 5, 0, FALSE, FALSE)>>, <<Mat("q4", 1, 2, 0, 0, TRUE, TRUE)>>,
            <<Mat("q6", 2, 1, 6, 0, TRUE, TRUE)>>}
Batched == {[weight |-> Mat("q4", 3, 2, 0, 0, FALSE, FALSE), m_rows |-> 5, acc |-> TRUE],
            [weight |-> Mat("q6", 2, 2, 10, 0, FALSE, FALSE), m_rows |-> 2, acc |-> FALSE],
            [weight |-> Mat("q4", 5, 2, 0, 0, FALSE, FALSE), m_rows |-> 2, acc |-> TRUE]}
Turned == {[kernel |-> "brope", m_rows |-> 2, n_head |-> 2, half |-> 2],
           [kernel |-> "rope", n_head |-> 2, half |-> 2, base |-> 8]}

\* Two sequences decoding, three rows of one prompt, and contiguous caches.
At_(s, p) == [slot |-> s, pos |-> p]
Attended_ == {
  [kernel |-> "bdsdpa_paged", rows |-> <<At_(0, 2), At_(1, 1)>>, first |-> [s \in 0..1 |-> 2 - s], n_head |-> 4,
   n_kv_head |-> 2, hd |-> 2, block_size |-> 2, table |-> [s \in 0..1 |-> IF s = 0 THEN <<3, 0>> ELSE <<1>>]],
  [kernel |-> "bdsdpa_paged", rows |-> <<At_(0, 1), At_(0, 2), At_(0, 3)>>, first |-> [s \in 0..1 |-> 1], n_head |-> 2,
   n_kv_head |-> 1, hd |-> 2, block_size |-> 2, table |-> [s \in 0..1 |-> <<2, 0>>]],
  [kernel |-> "bsdpa", m_rows |-> 3, pos |-> 0, n_head |-> 4, n_kv_head |-> 2, hd |-> 2],
  [kernel |-> "sdpa_decode", seq_len |-> 3, n_head |-> 4, n_kv_head |-> 2, hd |-> 2]}

-----------------------------------------------------------------------------
QuietDecode == DecodeInit /\ build = "vulkan"
QuietGoals == GoalInit /\ \A w \in Width : width <= w
QuietVulkan == VkInit /\ ~device.fused

LocalInit ==
  /\ GpuInit
  /\ \/ traffic = "chat"    /\ DecodeInit  /\ QuietGoals /\ QuietVulkan /\ KernelInit
     \/ traffic = "goals"   /\ QuietDecode /\ GoalInit   /\ QuietVulkan /\ KernelInit
     \/ traffic = "vulkan"  /\ QuietDecode /\ QuietGoals /\ VkInit      /\ KernelInit
     \/ traffic \in {"kernels", "gpu"} /\ QuietDecode /\ QuietGoals /\ QuietVulkan /\ KernelInit
LocalNext ==
  /\ UNCHANGED traffic
  /\ \/ traffic = "chat"    /\ DecodeNext /\ UNCHANGED <<goalVars, vkVars, kernelVars, gpuVars>>
     \/ traffic = "goals"   /\ GoalNext   /\ UNCHANGED <<decodeVars, vkVars, kernelVars, gpuVars>>
     \/ traffic = "vulkan"  /\ VkNext     /\ UNCHANGED <<decodeVars, goalVars, kernelVars, gpuVars>>
     \/ traffic = "kernels" /\ KernelNext /\ UNCHANGED <<decodeVars, goalVars, vkVars, gpuVars>>
     \/ traffic = "gpu"     /\ GpuNext    /\ UNCHANGED <<decodeVars, goalVars, vkVars, kernelVars>>
LocalSpec ==
  LocalInit /\ [][LocalNext]_<<decodeVars, goalVars, vkVars, kernelVars, gpuVars, traffic>>
=============================================================================
