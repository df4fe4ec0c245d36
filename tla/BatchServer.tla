----------------------------- MODULE BatchServer -----------------------------
(***************************************************************************)
(* GpuBatchServer of src/src/backend/gpu/batch.rs: the thread that owns    *)
(* the model and its ContinuousBatcher, and the clients that talk to it    *)
(* through channels.                                                       *)
(*                                                                         *)
(* Clients run concurrently with the thread: they submit requests, drop    *)
(* the receiving end of a stream, and ask for another model.  The thread   *)
(* runs serve(): block for a message when nothing is in flight, fill free  *)
(* slots from the queue, take one scheduler step (many actions of          *)
(* ContinuousBatcher), deliver its results, cancel what nobody reads.      *)
(*                                                                         *)
(* A stream is what was sent on a request's channel: tokens, and End for   *)
(* the None that closes it.  Channels are unbounded and never lose a       *)
(* message.  The results of one step are delivered at once: nobody but     *)
(* the receivers, which only read, can act between two sends.  The thread  *)
(* also stops when every handle of the server is dropped; the server's     *)
(* handle lives as long as the process, so that is left out.               *)
(***************************************************************************)
EXTENDS ContinuousBatcher

CONSTANTS
  End,       \* the None that ends a stream
  Swap,      \* CbMsg::Swap
  MaxSwaps   \* bound on the number of swap_model calls

ASSUME ServerAssumption ==
  /\ End \notin Token
  /\ Swap \notin Req
  /\ MaxSwaps \in Nat

VARIABLES
  serving,    \* where serve() is: "recv", "fill", "step", "reap", "load", "gone"
  queue,      \* the messages sent to the thread and not received yet
  submitted,  \* requests for which submit() was called
  open,       \* those whose receiving end is still held
  chans,      \* requests whose sending end the thread holds
  stream,     \* what was sent to each request
  severed,    \* requests whose sending end was dropped without an End
  swaps       \* swap_model calls so far, and how the last was answered

serverVars == <<serving, queue, submitted, open, chans, stream, severed, swaps>>
allVars == <<vars, serverVars>>

NobodyServedYet ==
  /\ queue = <<>>
  /\ submitted = {} /\ open = {} /\ chans = {} /\ severed = {}
  /\ stream = [r \in Req |-> <<>>]
  /\ swaps = [calls |-> 0, answer |-> "none"]

ServerInit == BatcherInit /\ serving = "recv" /\ NobodyServedYet

Ended(r) == r \in severed \/ (stream[r] # <<>> /\ Last(stream[r]) = End)

-----------------------------------------------------------------------------
(* Clients *)

\* submit: when the thread is gone the send fails and the caller gets Err.
Submit(r) ==
  /\ r \notin submitted
  /\ submitted' = submitted \cup {r}
  /\ IF serving = "gone"
     THEN severed' = severed \cup {r} /\ UNCHANGED <<queue, open>>
     ELSE /\ queue' = Append(queue, r)
          /\ open' = open \cup {r}
          /\ UNCHANGED severed
  /\ UNCHANGED <<vars, serving, chans, stream, swaps>>

\* The client disconnects: its receiver is dropped.
Close(r) ==
  /\ r \in open
  /\ open' = open \ {r}
  /\ UNCHANGED <<vars, serving, queue, submitted, chans, stream, severed, swaps>>

\* swap_model sends the message and blocks for the answer.
SwapModel ==
  /\ swaps.calls < MaxSwaps /\ swaps.answer # "waiting"
  /\ swaps' = [calls |-> swaps.calls + 1,
               answer |-> IF serving = "gone" THEN "failed" ELSE "waiting"]
  /\ queue' = IF serving = "gone" THEN queue ELSE Append(queue, Swap)
  /\ UNCHANGED <<vars, serving, submitted, open, chans, stream, severed>>

-----------------------------------------------------------------------------
(* The serving thread *)

\* Mutant of Busy: only decoding sequences count as work.
BusyDecoding == active # <<>>

\* Where the serve loop continues from its top: it blocks unless it is busy.
Busy == active # <<>> \/ prefilling # <<>> \/ preempted # <<>>

\* admit_req: enqueue, or answer a request that is refused with End.
AdmitReq(r) ==
  \/ Enqueue(r) /\ chans' = chans \cup {r} /\ UNCHANGED stream
  \/ /\ ~(Len(Prompt[r]) <= MaxSeq /\ freeSlots # {} /\ CanFit(Len(Prompt[r])))
     /\ stream' = [stream EXCEPT ![r] = Append(@, End)]
     /\ UNCHANGED <<vars, chans>>

\* The thread takes the next message: it admits a request, or on a swap leaves
\* the loop and closes every stream.
Receive ==
  /\ queue # <<>>
  /\ queue' = Tail(queue)
  /\ IF Head(queue) = Swap
     THEN /\ serving' = "load"
          /\ stream' = [r \in Req |-> IF r \in chans THEN Append(stream[r], End)
                                      ELSE stream[r]]
          /\ chans' = {}
          /\ UNCHANGED vars
     ELSE serving' = "fill" /\ AdmitReq(Head(queue))
  /\ UNCHANGED <<submitted, open, severed, swaps>>

Recv == serving = "recv" /\ Receive

Fill == serving = "fill" /\ freeSlots # {} /\ Receive

\* No free slot or no message: start a step if there is anything to do.
FillDone ==
  /\ serving = "fill"
  /\ freeSlots = {} \/ queue = <<>>
  /\ IF Busy THEN StepBegin /\ serving' = "step"
     ELSE serving' = "recv" /\ UNCHANGED vars
  /\ UNCHANGED <<queue, submitted, open, chans, stream, severed, swaps>>

Step ==
  /\ serving = "step" /\ phase \notin {"idle"} \cup Failed
  /\ StepNext
  /\ UNCHANGED serverVars

\* The tokens a step returned for r that were not sent yet.
Unsent(r) == SubSeq(emitted[r], Len(stream[r]) + 1, Len(emitted[r]))

\* Mutants of Deliver: the last token of a finished request is replaced by its
\* end, or the end is not sent.
DeliverLastLost ==
  /\ serving = "step" /\ phase = "idle"
  /\ LET over == {r \in chans : status[r] = "done"} IN
       /\ stream' = [r \in Req |-> IF r \in over THEN Append(stream[r], End)
                                   ELSE IF r \in chans THEN stream[r] \o Unsent(r)
                                   ELSE stream[r]]
       /\ chans' = chans \ over
  /\ serving' = "reap"
  /\ UNCHANGED <<vars, queue, submitted, open, severed, swaps>>
DeliverNoEnd ==
  /\ serving = "step" /\ phase = "idle"
  /\ stream' = [r \in Req |-> IF r \in chans THEN stream[r] \o Unsent(r) ELSE stream[r]]
  /\ chans' = {r \in chans : status[r] # "done"}
  /\ serving' = "reap"
  /\ UNCHANGED <<vars, queue, submitted, open, severed, swaps>>

\* Send each result to its channel; after the last one of a request, send End
\* and drop the channel.
Deliver ==
  /\ serving = "step" /\ phase = "idle"
  /\ LET over == {r \in chans : status[r] = "done"} IN
       /\ stream' = [r \in Req |->
            IF r \in over THEN Append(stream[r] \o Unsent(r), End)
            ELSE IF r \in chans THEN stream[r] \o Unsent(r) ELSE stream[r]]
       /\ chans' = chans \ over
  /\ serving' = "reap"
  /\ UNCHANGED <<vars, queue, submitted, open, severed, swaps>>

\* Mutant of Reap: the channel is dropped, the sequence decodes on.
ReapChannelOnly ==
  /\ serving = "reap"
  /\ chans' = chans \cap open
  /\ serving' = IF Busy THEN "fill" ELSE "recv"
  /\ UNCHANGED <<vars, queue, submitted, open, stream, severed, swaps>>

\* chans.retain: cancel the sequences whose receiver is closed, one by one.
Reap ==
  /\ serving = "reap"
  /\ IF chans \subseteq open
     THEN /\ serving' = IF Busy THEN "fill" ELSE "recv"
          /\ UNCHANGED <<vars, chans>>
     ELSE /\ \E r \in chans \ open : Cancel(r) /\ chans' = chans \ {r}
          /\ UNCHANGED serving
  /\ UNCHANGED <<queue, submitted, open, stream, severed, swaps>>

\* The messages of a thread that ends are dropped with their channels.
Sever ==
  /\ serving' = "gone"
  /\ severed' = severed \cup chans \cup (ToSet(queue) \ {Swap})
  /\ queue' = <<>>
  /\ chans' = {}

\* A failed assertion unwinds the thread.
Unwind ==
  /\ serving = "step" /\ phase \in Failed
  /\ Sever
  /\ swaps' = [swaps EXCEPT !.answer = IF @ = "waiting" THEN "failed" ELSE @]
  /\ UNCHANGED <<vars, submitted, open, stream>>

\* The batcher is dropped with all it held.
DropBatcher ==
  /\ free' = Block /\ slotBlocks' = [s \in Slot |-> <<>>]
  /\ refcount' = [b \in Block |-> 0] /\ older' = [b \in Block |-> {}]
  /\ cacheMap' = [h \in {} |-> {}] /\ blockHash' = [b \in Block |-> NoHash]
  /\ kv' = [b \in Block |-> EmptyBlock] /\ held' = [s \in Slot |-> <<>>]
  /\ freeSlots' = Slot /\ slotOf' = [r \in {} |-> {}]
  /\ active' = <<>> /\ prefilling' = <<>> /\ preempted' = <<>>
  /\ status' = [r \in Req |-> IF status[r] = "in" THEN "cancelled" ELSE status[r]]
  /\ hostKv' = [r \in Req |-> <<>>]
  /\ UNCHANGED <<phase, after, swapMode, loading, tokens, emitted, finished,
                 prefillPos, cachedBlocks, draft>>

\* The new model loads, and serve() starts over with a new batcher; or it does
\* not, and the thread returns.
LoadModel ==
  /\ serving = "load"
  /\ DropBatcher
  /\ \/ /\ serving' = "recv"
        /\ swaps' = [swaps EXCEPT !.answer = "loaded"]
        /\ UNCHANGED <<queue, chans, severed>>
     \/ /\ Sever
        /\ swaps' = [swaps EXCEPT !.answer = "failed"]
  /\ UNCHANGED <<submitted, open, stream>>

ServeNext == \/ Recv \/ Fill \/ FillDone \/ Step \/ Deliver \/ Reap
             \/ Unwind \/ LoadModel

ClientNext == SwapModel \/ \E r \in Req : Submit(r) \/ Close(r)

ServerNext == ServeNext \/ ClientNext

ServerSpec == ServerInit /\ [][ServerNext]_allVars

-----------------------------------------------------------------------------
(* Properties *)

\* The thread holds a channel for exactly the requests in flight whenever it
\* looks for messages: no sequence decodes for nobody, no client waits for a
\* sequence the batcher does not have.
ChannelsMatchBatch ==
  serving \in {"recv", "fill"} =>
    chans = ToSet(active) \cup ToSet(prefilling) \cup ToSet(preempted)

\* A stream is a prefix of what the batcher produced for the request, then at
\* most one End; a request that finished got all of its tokens before the End.
\* And what the batcher produced ends by EOS or max_tokens only, once.
StreamFaithful ==
  /\ StreamWellFormed
  /\ \A r \in Req : \E n \in 0..Len(emitted[r]) :
       LET sent == SubSeq(emitted[r], 1, n) IN
       /\ stream[r] \in {sent, Append(sent, End)}
       /\ Ended(r) /\ r \notin severed /\ status[r] = "done" => n = Len(emitted[r])

\* No request is forgotten: as long as a client listens and its stream has not ended,
\* its message is queued or the thread holds its channel.
NobodyForgotten ==
  \A r \in submitted \cap open : r \in ToSet(queue) \/ r \in chans \/ Ended(r)

\* Every submitted request's stream ends, whatever the other clients do: with
\* its tokens, an abort by a model swap, a refusal, or the loss of the thread.
EveryStreamEnds == \A r \in Req : r \in submitted /\ r \in open ~> Ended(r) \/ r \notin open

\* swap_model returns: the swap message is reached although it is only read
\* while a slot is free.
SwapAnswered == swaps.answer = "waiting" ~> swaps.answer # "waiting"

\* A sequence whose client is gone does not hold its slot forever, even if it is
\* still being prefilled or waits in the queue.
ClosedReclaimed ==
  \A r \in Req : r \in submitted \ open ~>
    \/ r \notin ToSet(queue) /\ r \notin InFlight
    \/ serving = "gone"
=============================================================================
