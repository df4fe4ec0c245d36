------------------------------ MODULE MCBatcher ------------------------------
\* Small instances of the scheduler: requests, prompts and samplers for TLC.
EXTENDS ContinuousBatcher

CONSTANTS r1, r2, r3, a, b, eos

Symmetry == Permutations(Block) \cup Permutations(Slot)

\* Two prompts that share their first full block, and a short one.
PromptsShared == [r \in Req |-> CASE r = r1 -> <<a, a, b>>
                                  [] r = r2 -> <<a, a, a>>
                                  [] OTHER  -> <<b>>]
\* The same two, and one that needs the whole of a four-block pool.
PromptsTight == [r \in Req |-> CASE r = r1 -> <<a, a, b>>
                                 [] r = r2 -> <<a, a, a>>
                                 [] OTHER  -> <<b, b, b, b, b, b, b>>]
\* Prompts whose last tokens repeat, so that prompt lookup finds a draft.
PromptsEcho == [r \in Req |-> CASE r = r1 -> <<a, b, a, b>>
                                [] OTHER  -> <<b, a>>]
\* Prompts longer than a chunk that share nothing.
PromptsLong == [r \in Req |-> CASE r = r1 -> <<b, a>>
                                [] OTHER  -> <<a, a, a, a, a>>]
\* Echoes of which the model follows some and not others.
PromptsEchoes == [r \in Req |-> CASE r = r1 -> <<a, b, a, b>>
                                  [] OTHER  -> <<a, b, b, a>>]
ThreeTwo == [r \in Req |-> IF r = r3 THEN 2 ELSE 3]
Three == [r \in Req |-> 3]
Four  == [r \in Req |-> 4]

NoneSampled == [r \in Req |-> "greedy"]
AllTopK   == [r \in Req |-> "topk"]

\* Any token may follow, or the text may end.
Free(r, path, text) == {a, eos}

\* A deterministic model: what follows depends on the text, and the two sampled
\* paths draw differently.
Fixed(r, path, text) ==
  {IF path = "gumbel" THEN (IF Len(text) % 2 = 0 THEN b ELSE a)
   ELSE IF Len(text) % 2 = 0 THEN a ELSE b}

\* The next token follows from the last two.
FixedByLast(r, path, text) ==
  {IF text[Len(text)] = a /\ text[Len(text) - 1] = b THEN a
   ELSE IF text[Len(text)] = a THEN b ELSE a}
=============================================================================
