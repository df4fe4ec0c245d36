------------------------------- MODULE MCServer -------------------------------
\* Small instances of the serving thread and its clients.
EXTENDS BatchServer

CONSTANTS r1, r2, r3, a, eos

Symmetry == Permutations(Block) \cup Permutations(Slot)

\* Two prompts that share their first block, and a short one.
PromptsShared == [r \in Req |-> CASE r = r1 -> <<a, a, a>>
                                  [] r = r2 -> <<a, a, eos>>
                                  [] OTHER  -> <<eos>>]
\* The last prompt is longer than the context.
PromptsOneTooLong == [r \in Req |-> IF r = r3 THEN <<a, a, a, a, a>> ELSE <<a, a>>]
Two == [r \in Req |-> 2]
\* The first request may run past the context: prompt and tokens exceed MaxSeq.
OneOverruns == [r \in Req |-> IF r = r1 THEN 4 ELSE 2]
NoneSampled == [r \in Req |-> "greedy"]
Only(r, path, text) == {a}
=============================================================================
