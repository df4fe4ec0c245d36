------------------------------ MODULE SlotCache ------------------------------
(***************************************************************************)
(* What the paged pool promises its callers: each slot has a KV cache of   *)
(* its own, as if MaxSeq positions were reserved for it ("contiguous-      *)
(* equivalent", BatchedDecoder::new in src/src/backend/gpu/mod.rs).  Blocks*)
(* and their sharing are not visible here.  PagedKV implements this        *)
(* specification under the mapping cache[s] <- what s reads back.          *)
(***************************************************************************)
EXTENDS Integers, Sequences

CONSTANTS Slot, Token, MaxSeq

VARIABLE cache   \* the token whose KV each position of a slot holds

Init == cache = [s \in Slot |-> <<>>]

\* An idle slot starts from whatever prefix the cross-request cache offers.
Start(s) == /\ cache[s] = <<>>
            /\ \E n \in 0..MaxSeq : \E text \in [1..n -> Token] :
                 cache' = [cache EXCEPT ![s] = text]

\* A slot is fed one more token.
Extend(s) == /\ Len(cache[s]) < MaxSeq
             /\ \E t \in Token : cache' = [cache EXCEPT ![s] = Append(@, t)]

Clear(s) == cache' = [cache EXCEPT ![s] = <<>>]

Next == \E s \in Slot : Start(s) \/ Extend(s) \/ Clear(s)

Spec == Init /\ [][Next]_cache
=============================================================================
