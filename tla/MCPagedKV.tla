------------------------------ MODULE MCPagedKV ------------------------------
\* A pool of Block blocks shared by two slots, driven by any caller.
EXTENDS PagedKV, TLC

Symmetry == Permutations(Block) \cup Permutations(Slot) \cup Permutations(Token)
=============================================================================
