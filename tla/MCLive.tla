------------------------------- MODULE MCLive -------------------------------
(***************************************************************************)
(* Liveness.  Either the thread and its clients, with one slot and its full*)
(* pool; or a caller that steps a batcher of two slots as long as anything *)
(* is in flight, over a pool that just holds one full sequence, with       *)
(* requests that fit the context.  A behaviour is of one kind.             *)
(***************************************************************************)
EXTENDS MCServer

TwoSlots == {"s1", "s2"}
PromptsFit == [r \in Req |-> CASE r = r1 -> <<a, a>>
                               [] r = r2 -> <<eos, a, a>>
                               [] OTHER  -> <<eos>>]
AllFit == [r \in Req |-> CASE r = r1 -> 3 [] r = r2 -> 2 [] OTHER -> 1]
OneEnds(r, path, text) == {a} \cup (IF r = r1 THEN {eos} ELSE {})
Tight == INSTANCE ContinuousBatcher WITH
  Slot <- TwoSlots, Prompt <- PromptsFit, MaxTokens <- AllFit, Outputs <- OneEnds

\* A caller's batcher has no serving thread.
Threadless == serving = "none"

LiveInit ==
  /\ serving \in {"recv", "none"}
  /\ IF Threadless THEN Tight!BatcherInit ELSE BatcherInit
  /\ NobodyServedYet

CallerSteps == Threadless /\ Tight!StepNext    /\ UNCHANGED serverVars
CallerNext  == Threadless /\ Tight!BatcherNext /\ UNCHANGED serverVars

LiveNext ==
  \/ ServeNext
  \/ ~Threadless /\ ClientNext
  \/ CallerNext

\* The thread never stops between two statements, the caller not before all is done;
\* clients may do nothing, and nothing need be admitted.
LiveSpec ==
  /\ LiveInit /\ [][LiveNext]_allVars
  /\ WF_allVars(ServeNext)
  /\ WF_allVars(CallerSteps)
=============================================================================
