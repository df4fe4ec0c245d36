------------------------------ MODULE SpecDecode ------------------------------
(***************************************************************************)
(* Prompt-lookup drafting, the pure functions of                           *)
(* src/src/engine/spec_decode.rs: find where the last tokens occurred      *)
(* before and propose what followed them.  None is the empty draft, which  *)
(* is what every caller turns it into.                                     *)
(***************************************************************************)
EXTENDS Integers, Sequences

\* lookup_draft: the most recent earlier occurrence of recent's last n tokens
\* in haystack, continued by at most k tokens.
LookupDraft(haystack, recent, n, k) ==
  IF Len(recent) < n \/ Len(haystack) < n + 1 \/ k = 0 THEN <<>>
  ELSE LET key    == SubSeq(recent, Len(recent) - n + 1, Len(recent))
           starts == {i \in 0..(Len(haystack) - n - 1) :
                        SubSeq(haystack, i + 1, i + n) = key}
       IN  IF starts = {} THEN <<>>
           ELSE LET start == CHOOSE i \in starts : \A j \in starts : j <= i
                    after == start + n
                    rest  == Len(haystack) - after
                IN  SubSeq(haystack, after + 1, after + (IF k < rest THEN k ELSE rest))

\* lookup_draft_best: the longest n-gram that matches, from maxLen down to 2.
LookupDraftBest(haystack, recent, maxLen, k) ==
  LET lens == {n \in 2..(IF maxLen > 2 THEN maxLen ELSE 2) :
                 LookupDraft(haystack, recent, n, k) # <<>>}
  IN  IF lens = {} THEN <<>>
      ELSE LookupDraft(haystack, recent, CHOOSE n \in lens : \A m \in lens : m <= n, k)

\* Mutant of Accepted: the draft is taken without verification.
AcceptedUnverified(draft, outs) == Len(draft)

\* How many drafted tokens the model's own outputs agree with.
Accepted(draft, outs) ==
  CHOOSE n \in 0..Len(draft) :
    /\ \A i \in 1..n : outs[i] = draft[i]
    /\ n < Len(draft) => outs[n + 1] # draft[n + 1]
=============================================================================
