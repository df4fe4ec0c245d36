-------------------------- MODULE BatchServerProofs --------------------------
(***************************************************************************)
(* Proofs about the serving thread and its clients: for any number of      *)
(* clients, in any interleaving of their submits, disconnects and model    *)
(* swaps with the thread, the batcher keeps its invariant, the thread      *)
(* holds a channel for exactly what is in flight, and what a client reads  *)
(* is a prefix of what was produced for it and then at most one End.       *)
(*                                                                         *)
(* Everything the thread does to the batcher is a call the batcher knows,  *)
(* or dropping it between two steps (ServerStep), so the invariants of     *)
(* BatcherProofs and BatcherCapacityProofs carry over.  ServerInv adds     *)
(* where a request's message, channel and stream are.                      *)
(***************************************************************************)
EXTENDS BatchServer, BatcherCapacityProofs

-----------------------------------------------------------------------------
(* The inductive invariant *)

Waiting == ToSet(queue) \ {Swap}

ServerTypeOK ==
  /\ serving \in {"recv", "fill", "step", "reap", "load", "gone"}
  /\ queue \in Seq(Req \cup {Swap})
  /\ submitted \subseteq Req /\ open \subseteq Req /\ chans \subseteq Req
  /\ severed \subseteq Req
  /\ stream \in [Req -> Seq(Token \cup {End})]
  /\ swaps \in [calls : Nat, answer : {"none", "waiting", "loaded", "failed"}]

SentOnce(q) == \A i, j \in 1..Len(q) : q[i] = q[j] /\ q[i] # Swap => i = j

\* A request is sent to the thread once, and has no stream before it is received.
QueueOK ==
  /\ SentOnce(queue)
  /\ \A r \in Waiting : r \in submitted
  /\ \A r \in Req : r \in Waiting \/ r \notin submitted =>
       status[r] = "new" /\ stream[r] = <<>>

\* While it serves, the thread holds a channel for what is in flight, and until the
\* results of a step are delivered for what the step finished.
ChannelsOK ==
  /\ serving \in {"recv", "fill", "step", "reap"} =>
       \A r \in Req : status[r] = "in" => r \in chans
  /\ \A r \in chans : status[r] = "in" \/ (status[r] = "done" /\ serving = "step")
  /\ serving \in {"load", "gone"} => chans = {}

\* A stream repeats the first tokens produced; an open channel has no End yet.
StreamOK(r) ==
  \E n \in 0..Len(emitted[r]) :
    LET sent == SubSeq(emitted[r], 1, n) IN
    /\ r \in chans => stream[r] = sent
    /\ r \notin chans => stream[r] \in {sent, Append(sent, End)}
    /\ r \notin chans \cup severed /\ status[r] = "done" => n = Len(emitted[r])

ServerInv ==
  /\ ServerTypeOK /\ QueueOK /\ ChannelsOK
  /\ \A r \in Req : StreamOK(r)
  /\ serving \in {"recv", "fill", "reap", "load"} => phase = "idle"

\* What the thread and its clients do to the batcher.
BatcherOrDrop == [BatcherNext]_vars \/ (DropBatcher /\ serving = "load")

-----------------------------------------------------------------------------
(* What the server does to the batcher *)

\* Everything the thread and its clients do is a call the batcher knows, a turn of
\* its step(), or dropping it between two steps to load another model.
LEMMA ServerMoves ==
  ASSUME ServerTypeOK, [ServerNext]_allVars
  PROVE  BatcherOrDrop
<1>1. CASE UNCHANGED vars
  BY <1>1 DEF BatcherOrDrop
<1>2. ASSUME Receive PROVE BatcherOrDrop
  <2>1. CASE Head(queue) = Swap
    BY <1>1, <1>2, <2>1 DEF Receive
  <2>2. CASE Head(queue) # Swap
    <3>1. Head(queue) \in Req
      BY <1>2, <2>2, HeadTailProperties DEF Receive, ServerTypeOK
    <3>2. Enqueue(Head(queue)) \/ UNCHANGED vars
      BY <1>2, <2>2 DEF Receive, AdmitReq
    <3> QED BY <1>1, <3>1, <3>2 DEF BatcherOrDrop, BatcherNext
  <2> QED BY <2>1, <2>2
<1>3. ASSUME Reap PROVE BatcherOrDrop
  <2>1. UNCHANGED vars \/ \E r \in chans : Cancel(r)
    BY <1>3 DEF Reap
  <2>2. chans \subseteq Req
    BY DEF ServerTypeOK
  <2> QED BY <1>1, <2>1, <2>2 DEF BatcherOrDrop, BatcherNext
<1>4. ASSUME FillDone \/ Step PROVE BatcherOrDrop
  <2>1. UNCHANGED vars \/ StepNext
    BY <1>4 DEF FillDone, Step, StepNext
  <2> QED BY <1>1, <2>1 DEF BatcherOrDrop, BatcherNext
<1>5. ASSUME LoadModel PROVE BatcherOrDrop
  BY <1>5 DEF LoadModel, BatcherOrDrop
<1>6. ASSUME Deliver \/ Unwind \/ ClientNext \/ UNCHANGED allVars PROVE UNCHANGED vars
  BY <1>6 DEF Deliver, Unwind, ClientNext, SwapModel, Submit, Close, allVars
<1> QED BY <1>1, <1>2, <1>3, <1>4, <1>5, <1>6 DEF ServerNext, ServeNext, Recv, Fill

\* A new batcher has an empty pool, and that pool is in order.
LEMMA NewPool == KVInit => KVInv
BY BooksInit, ContentsInit DEF KVInv

LEMMA NewPoolNext == KVInit' => KVInv'
BY NewPool, PTL

\* Dropping the batcher between two steps ends every request it had, and leaves
\* nothing of them in the new one.
LEMMA DropKeeps ==
  ASSUME BatcherInv, phase = "idle", DropBatcher
  PROVE  BatcherInv'
<1>0. SchedulerInv /\ SchedulerTypeOK /\ PhaseOK
  BY DEF BatcherInv, SchedulerInv
<1>1. KVInv'
  <2>1. KVInit'
    BY DEF DropBatcher, KVInit
  <2> QED BY <2>1, NewPoolNext
<1>2. loading = {} /\ loading' = {} /\ phase' = "idle"
  BY <1>0 DEF DropBatcher, PhaseOK, Failed
<1>3. /\ active' = <<>> /\ prefilling' = <<>> /\ preempted' = <<>>
      /\ Decoding' = {} /\ Prefills' = {} /\ Evicted' = {} /\ InFlight' = {}
  <2>1. ToSet(<<>>) = {}
    BY DEF ToSet
  <2> QED BY <1>2, <2>1 DEF DropBatcher, Decoding, Prefills, Evicted, InFlight
<1>4. SlotsOK' /\ SlotHolders' /\ QueuesApart'
  <2>1. NoRepeat(<<>>)
    BY DEF NoRepeat
  <2>2. DOMAIN slotOf' = {} /\ freeSlots' = Slot /\ \A s \in Slot : slotBlocks'[s] = <<>>
    BY DEF DropBatcher
  <2>3. SlotsOK'
    BY <2>2 DEF SlotsOK, DropBatcher
  <2> QED BY <1>2, <1>3, <2>1, <2>2, <2>3 DEF SlotHolders, QueuesApart
<1>5. /\ \A r \in Req : status'[r] = IF status[r] = "in" THEN "cancelled" ELSE status[r]
      /\ \A r \in Req : hostKv'[r] = <<>>
      /\ UNCHANGED <<tokens, emitted, finished, draft, prefillPos, cachedBlocks, after>>
  BY DEF DropBatcher
<1>6. SchedulerTypeOK'
  <2>1. \A S : <<>> \in Seq(S)
    BY EmptySeq
  <2>2. status' \in [Req -> {"new", "in", "done", "cancelled"}]
    BY <1>0 DEF SchedulerTypeOK, DropBatcher
  <2>3. hostKv' \in [Req -> Seq(Seq(Token))]
    BY <2>1 DEF DropBatcher
  <2> QED BY <1>0, <1>2, <1>3, <1>5, <2>1, <2>2, <2>3 DEF SchedulerTypeOK, Phases
<1>7. ASSUME NEW r \in Req PROVE RequestOK(r)'
  <2>1. TextOK(r)
    BY <1>0 DEF SchedulerInv, RequestOK
  <2>2. TextOK(r)'
    BY <1>5, <2>1 DEF TextOK, EndsAt
  <2>3. status[r] = "new" => emitted[r] = <<>>
    BY <1>0, NewFacts
  <2>4. OutsideOK(r)'
    BY <1>5, <2>3 DEF OutsideOK
  <2> QED BY <1>2, <1>3, <2>2, <2>4 DEF RequestOK
<1>8. PhaseOK'
  BY <1>2, <1>3, CalmPhase
<1> QED BY <1>1, <1>4, <1>6, <1>7, <1>8 DEF BatcherInv, SchedulerInv

-----------------------------------------------------------------------------
(* The queue of messages *)

\* A message is sent: it is the last of the queue.
LEMMA SendMessage ==
  ASSUME NEW q \in Seq(Req \cup {Swap}), SentOnce(q), NEW m \in Req \cup {Swap},
         m = Swap \/ m \notin ToSet(q)
  PROVE  /\ Append(q, m) \in Seq(Req \cup {Swap}) /\ SentOnce(Append(q, m))
         /\ ToSet(Append(q, m)) = ToSet(q) \cup {m}
<1> DEFINE p == Append(q, m)
<1>1. /\ p \in Seq(Req \cup {Swap}) /\ Len(p) = Len(q) + 1 /\ p[Len(p)] = m
      /\ \A j \in 1..Len(q) : p[j] = q[j]
  OBVIOUS
<1>2. \A j \in 1..Len(q) : p[j] # m \/ m = Swap
  BY <1>1 DEF ToSet
<1> HIDE DEF p
<1>3. SentOnce(p)
  BY <1>1, <1>2 DEF SentOnce
<1>4. ToSet(p) = ToSet(q) \cup {m}
  BY <1>1 DEF ToSet
<1> QED BY <1>1, <1>3, <1>4 DEF p

\* The thread takes the first message; a request is not in the queue any more.
LEMMA TakeMessage ==
  ASSUME NEW q \in Seq(Req \cup {Swap}), SentOnce(q), q # <<>>
  PROVE  /\ Head(q) \in Req \cup {Swap} /\ Head(q) \in ToSet(q)
         /\ Tail(q) \in Seq(Req \cup {Swap}) /\ SentOnce(Tail(q))
         /\ ToSet(Tail(q)) \subseteq ToSet(q)
         /\ ToSet(q) = ToSet(Tail(q)) \cup {Head(q)}
         /\ Head(q) # Swap => Head(q) \notin ToSet(Tail(q))
<1> DEFINE p == Tail(q)
<1>1. /\ p \in Seq(Req \cup {Swap}) /\ Len(q) \in Nat \ {0} /\ Len(p) = Len(q) - 1
      /\ Head(q) \in Req \cup {Swap} /\ Head(q) = q[1]
      /\ \A i \in 1..Len(p) : p[i] = q[i + 1]
  BY HeadTailProperties, EmptySeq
<1> HIDE DEF p
<1>2. SentOnce(p)
  BY <1>1 DEF SentOnce
<1>3. \A x \in ToSet(p) : x \in ToSet(q)
  BY <1>1 DEF ToSet
<1>4. Head(q) \in ToSet(q)
  BY <1>1 DEF ToSet
<1>5. \A x \in ToSet(q) : x \in ToSet(p) \/ x = Head(q)
  <2> SUFFICES ASSUME NEW i \in 1..Len(q), q[i] # Head(q) PROVE q[i] \in ToSet(p)
    BY DEF ToSet
  <2>1. i - 1 \in 1..Len(p) /\ p[i - 1] = q[i]
    BY <1>1
  <2> QED BY <1>1, <2>1 DEF ToSet
<1>6. Head(q) # Swap => Head(q) \notin ToSet(p)
  <2> SUFFICES ASSUME q[1] # Swap, NEW i \in 1..Len(p), p[i] = q[1] PROVE FALSE
    BY <1>1 DEF ToSet
  <2>1. i + 1 \in 1..Len(q) /\ 1 \in 1..Len(q) /\ q[i + 1] = q[1] /\ i + 1 # 1
    BY <1>1
  <2> QED BY <2>1 DEF SentOnce
<1> QED BY <1>1, <1>2, <1>3, <1>4, <1>5, <1>6 DEF p

-----------------------------------------------------------------------------
(* Streams *)

\* What a turn of step() does to a request: nothing, or it produces more tokens for
\* one in flight, which may end by that.
Produces(r) ==
  /\ status[r] = "in" /\ status'[r] \in {"in", "done"}
  /\ \E c \in Seq(Token) : emitted'[r] = emitted[r] \o c

LEMMA StepTexts ==
  ASSUME BatcherInv, StepNext, NEW r \in Req
  PROVE  (emitted'[r] = emitted[r] /\ status'[r] = status[r]) \/ Produces(r)
<1>0. SchedulerInv /\ SchedulerTypeOK /\ PhaseOK
  BY DEF BatcherInv, SchedulerInv
<1>1. CASE UNCHANGED textVars
  BY <1>1 DEF textVars
<1>2. CASE Decode
  <2>1. CASE r \notin Decoding
    BY <1>2, <2>1 DEF Decode, Decoding
  <2>2. CASE r \in Decoding
    <3>1. status[r] = "in"
      BY <1>0, <1>2, <2>2 DEF Decode, PhaseOK
    <3>2. PICK o \in [1..(Len(draft[r]) + 1) -> Token] :
            /\ emitted'[r] = emitted[r] \o Committed(r, o)
            /\ status'[r] \in {"done", status[r]}
      BY <1>2, <2>2 DEF Decode, Decoding
    <3>3. Committed(r, o) \in Seq(Token)
      BY <1>0, CommittedShape
    <3> QED BY <3>1, <3>2, <3>3 DEF Produces
  <2> QED BY <2>1, <2>2
<1>3. CASE Join
  <2>1. PICK x \in Req : loading = {x} /\ RestoredOK(x)
    BY <1>0, <1>3, LoadingFacts DEF Join
  <2>2. PICK g \in Token : Emit(x, g) /\ (Finish(x) \/ status' = status)
    BY <1>3, <2>1 DEF Join
  <2>3. CASE x # r
    BY <1>0, <2>2, <2>3 DEF Emit, Finish, SchedulerTypeOK
  <2>4. CASE x = r
    <3>1. status[r] = "in" /\ status'[r] \in {"in", "done"}
      BY <1>0, <2>1, <2>2, <2>4 DEF RestoredOK, Finish, SchedulerTypeOK
    <3>2. emitted[r] \in Seq(Token) /\ emitted'[r] = Append(emitted[r], g)
      BY <1>0, <2>2, <2>4 DEF Emit, SchedulerTypeOK
    <3>3. emitted'[r] = emitted[r] \o <<g>> /\ <<g>> \in Seq(Token)
      BY <3>2, AppendIsConcat
    <3> QED BY <3>1, <3>3 DEF Produces
  <2> QED BY <2>3, <2>4
<1>4. UNCHANGED textVars \/ Decode \/ Join
  BY DEF StepNext, StepBegin, MakeRoom, LayRows, Page, Retire, SkipPrefill, EvictActive,
         EvictPrefill, PrefillPage, PrefillChunk, RegisterPrefix, Resume, LoadPage, Load,
         StepEnd, seqVars
<1> QED BY <1>1, <1>2, <1>3, <1>4

\* The tokens of a request that a client was sent are the first of a longer text too.
LEMMA PrefixKept ==
  ASSUME NEW e \in Seq(Token), NEW c \in Seq(Token), NEW n \in 0..Len(e)
  PROVE  /\ n \in 0..Len(e \o c) /\ SubSeq(e \o c, 1, n) = SubSeq(e, 1, n)
         /\ SubSeq(e, 1, n) \in Seq(Token) /\ Len(SubSeq(e, 1, n)) = n
<1>1. Len(e) \in Nat /\ Len(c) \in Nat /\ Len(e \o c) = Len(e) + Len(c)
  BY ConcatProperties
<1>2. \A i \in 1..n : e[i] \in Token
  BY ElementOfSeq
<1>3. SubSeq(e, 1, n) \in Seq(Token) /\ Len(SubSeq(e, 1, n)) = n
  BY <1>1, <1>2, SubSeqProperties
<1>4. SubSeq(e \o c, 1, n) = SubSeq(e, 1, n)
  <2>1. CASE n = 0
    BY <2>1, SubSeqEmpty
  <2>2. CASE n # 0
    <3>1. 1 \in 1..Len(e) /\ n \in 1..Len(e)
      BY <1>1, <2>2
    <3> QED BY <3>1, SubSeqOfConcat1
  <2> QED BY <2>1, <2>2
<1> QED BY <1>1, <1>3, <1>4

\* A stream to which nothing is sent, or which is closed, stays right while the
\* batcher goes on producing for requests in flight.
LEMMA StreamKept ==
  ASSUME NEW r \in Req, StreamOK(r), emitted[r] \in Seq(Token),
         NEW c \in Seq(Token), emitted'[r] = emitted[r] \o c,
         r \in chans' => r \in chans,
         stream'[r] = stream[r]
           \/ (r \in chans /\ r \notin chans' /\ stream'[r] = Append(stream[r], End)),
         r \notin chans' \cup severed' /\ status'[r] = "done" =>
           r \notin chans \cup severed /\ status[r] = "done" /\ c = <<>>
  PROVE  StreamOK(r)'
<1>1. PICK n \in 0..Len(emitted[r]) :
        LET sent == SubSeq(emitted[r], 1, n) IN
        /\ r \in chans => stream[r] = sent
        /\ r \notin chans => stream[r] \in {sent, Append(sent, End)}
        /\ r \notin chans \cup severed /\ status[r] = "done" => n = Len(emitted[r])
  BY DEF StreamOK
<1>2. n \in 0..Len(emitted'[r]) /\ SubSeq(emitted'[r], 1, n) = SubSeq(emitted[r], 1, n)
  BY PrefixKept
<1>3. r \notin chans' \cup severed' /\ status'[r] = "done" => n = Len(emitted'[r])
  BY <1>1, ConcatEmptySeq
<1>4. r \in chans' => stream'[r] = SubSeq(emitted'[r], 1, n)
  BY <1>1, <1>2
<1>5. r \notin chans' => stream'[r] \in {SubSeq(emitted'[r], 1, n),
                                         Append(SubSeq(emitted'[r], 1, n), End)}
  BY <1>1, <1>2
<1> QED BY <1>2, <1>3, <1>4, <1>5 DEF StreamOK

\* A request for which nothing was produced yet has an empty stream, or is refused.
LEMMA StreamOpens ==
  ASSUME NEW r \in Req, emitted'[r] = <<>>, status'[r] # "done",
         stream'[r] = <<>> \/ (stream'[r] = <<End>> /\ r \notin chans')
  PROVE  StreamOK(r)'
<1>1. Len(<<>>) = 0 /\ SubSeq(<<>>, 1, 0) = <<>> /\ Append(<<>>, End) = <<End>>
  BY SubSeqEmpty, EmptySeq
<1>2. 0 \in 0..Len(emitted'[r])
  BY <1>1
<1> QED BY <1>1, <1>2 DEF StreamOK

\* Sending what was not sent yet leaves nothing unsent.
LEMMA StreamCaughtUp ==
  ASSUME NEW r \in Req, StreamOK(r), emitted[r] \in Seq(Token), r \in chans
  PROVE  stream[r] \o Unsent(r) = emitted[r]
<1> DEFINE e == emitted[r]
<1>1. PICK n \in 0..Len(e) : stream[r] = SubSeq(e, 1, n)
  BY DEF StreamOK
<1>2. Len(stream[r]) = n
  BY <1>1, PrefixKept, EmptySeq
<1>3. Len(e) \in Nat
  OBVIOUS
<1> HIDE DEF e
<1>4. e \in Seq(Token)
  BY DEF e
<1>5. SubSeq(e, 1, n) \o SubSeq(e, n + 1, Len(e)) = SubSeq(e, 1, Len(e))
  <2>1. 1 \in 1..(Len(e) + 1) /\ n \in (1 - 1)..Len(e) /\ Len(e) \in n..Len(e)
    BY <1>3
  <2> QED BY <1>4, <2>1, ConcatAdjacentSubSeq
<1>6. SubSeq(e, 1, Len(e)) = e
  BY <1>4, SubSeqFull
<1> QED BY <1>1, <1>2, <1>5, <1>6 DEF Unsent, e

LEMMA StreamDelivered ==
  ASSUME NEW r \in Req, emitted'[r] = emitted[r], emitted[r] \in Seq(Token),
         stream'[r] = emitted[r] \/ (r \notin chans' /\ stream'[r] = Append(emitted[r], End))
  PROVE  StreamOK(r)'
<1>1. Len(emitted[r]) \in 0..Len(emitted[r]) /\ SubSeq(emitted[r], 1, Len(emitted[r])) = emitted[r]
  BY SubSeqFull
<1> QED BY <1>1 DEF StreamOK

\* Nothing is produced, and nothing sent but perhaps an End.
LEMMA StreamQuiet ==
  ASSUME NEW r \in Req, StreamOK(r), emitted[r] \in Seq(Token), emitted'[r] = emitted[r],
         status'[r] = "done" => status[r] = "done",
         r \in chans' => r \in chans, severed \subseteq severed',
         r \in chans => r \in chans' \/ r \in severed' \/ status'[r] # "done",
         stream'[r] = stream[r]
           \/ (r \in chans /\ r \notin chans' /\ stream'[r] = Append(stream[r], End))
  PROVE  StreamOK(r)'
<1>1. <<>> \in Seq(Token) /\ emitted'[r] = emitted[r] \o <<>>
  BY EmptySeq, ConcatEmptySeq
<1>2. r \notin chans' \cup severed' /\ status'[r] = "done" =>
        r \notin chans \cup severed /\ status[r] = "done" /\ <<>> = <<>>
  OBVIOUS
<1> QED BY <1>1, <1>2, StreamKept

-----------------------------------------------------------------------------
(* Every action keeps the invariant *)

LEMMA EmittedType ==
  ASSUME BatcherInv
  PROVE  \A x \in Req : emitted[x] \in Seq(Token)
BY DEF BatcherInv, SchedulerInv, SchedulerTypeOK

\* Clients only add messages, drop receivers, and wait.
LEMMA ClientInv ==
  ASSUME BatcherInv, ServerInv, ClientNext
  PROVE  ServerInv'
<1>0. ServerTypeOK /\ QueueOK /\ ChannelsOK
  BY DEF ServerInv
<1>8. queue \in Seq(Req \cup {Swap}) /\ SentOnce(queue)
  BY <1>0 DEF ServerTypeOK, QueueOK
<1>1. UNCHANGED <<vars, serving, chans, stream>> /\ severed \subseteq severed'
  BY DEF ClientNext, SwapModel, Submit, Close
<1>2. UNCHANGED <<status, emitted, phase>>
  BY <1>1 DEF vars, seqVars, textVars
<1>3. \A x \in Req : StreamOK(x)'
  BY <1>1, <1>2, EmittedType, StreamQuiet DEF ServerInv
<1>4. ChannelsOK'
  BY <1>0, <1>1, <1>2 DEF ChannelsOK
<1>5. CASE SwapModel
  <2>1. /\ UNCHANGED <<submitted, open, severed>> /\ queue' \in {queue, Append(queue, Swap)}
        /\ swaps' \in [calls : Nat, answer : {"none", "waiting", "loaded", "failed"}]
    BY <1>0, <1>5 DEF SwapModel, ServerTypeOK
  <2>2. /\ queue' \in Seq(Req \cup {Swap}) /\ SentOnce(queue')
        /\ ToSet(queue') \subseteq ToSet(queue) \cup {Swap}
        /\ ToSet(queue) \subseteq ToSet(queue')
    BY <1>8, <2>1, SendMessage
  <2>3. Waiting' = Waiting
    BY <2>2 DEF Waiting
  <2>4. ServerTypeOK' /\ QueueOK'
    BY <1>0, <1>1, <1>2, <2>1, <2>2, <2>3 DEF ServerTypeOK, QueueOK
  <2> QED BY <1>1, <1>2, <1>3, <1>4, <2>4 DEF ServerInv
<1>6. ASSUME NEW r \in Req, Close(r) PROVE ServerInv'
  <2>1. UNCHANGED <<submitted, queue, severed, swaps>> /\ open' = open \ {r}
    BY <1>6 DEF Close
  <2>2. ServerTypeOK' /\ QueueOK'
    BY <1>0, <1>1, <1>2, <2>1 DEF ServerTypeOK, QueueOK, Waiting
  <2> QED BY <1>1, <1>2, <1>3, <1>4, <2>2 DEF ServerInv
<1>7. ASSUME NEW r \in Req, Submit(r) PROVE ServerInv'
  <2>1. /\ r \notin submitted /\ submitted' = submitted \cup {r} /\ swaps' = swaps
        /\ \/ severed' = severed \cup {r} /\ UNCHANGED <<queue, open>>
           \/ queue' = Append(queue, r) /\ open' = open \cup {r} /\ severed' = severed
    BY <1>7 DEF Submit
  <2>2. r \notin Waiting /\ r # Swap /\ r \notin ToSet(queue)
    BY <1>0, <2>1, ServerAssumption DEF QueueOK, Waiting
  <2>3. /\ queue' \in Seq(Req \cup {Swap}) /\ SentOnce(queue')
        /\ ToSet(queue') \subseteq ToSet(queue) \cup {r}
    BY <1>8, <2>1, <2>2, SendMessage
  <2>4. Waiting' \subseteq Waiting \cup {r}
    BY <2>3 DEF Waiting
  <2>5. ServerTypeOK' /\ QueueOK'
    BY <1>0, <1>1, <1>2, <2>1, <2>3, <2>4 DEF ServerTypeOK, QueueOK
  <2> QED BY <1>1, <1>2, <1>3, <1>4, <2>5 DEF ServerInv
<1> QED BY <1>5, <1>6, <1>7 DEF ClientNext

\* A swap is received between two steps: every open channel gets its End.
LEMMA ReceiveSwapInv ==
  ASSUME BatcherInv, ServerInv, serving \in {"recv", "fill"}, Receive, Head(queue) = Swap
  PROVE  ServerInv'
<1>0. ServerTypeOK /\ QueueOK /\ ChannelsOK /\ phase = "idle"
  BY DEF ServerInv
<1>1. /\ queue # <<>> /\ queue' = Tail(queue) /\ serving' = "load" /\ chans' = {}
      /\ \A x \in Req : stream'[x] = IF x \in chans THEN Append(stream[x], End) ELSE stream[x]
      /\ UNCHANGED <<vars, submitted, open, severed, swaps>>
  BY DEF Receive
<1>2. UNCHANGED <<status, emitted, phase>>
  BY <1>1 DEF vars, seqVars, textVars
<1>3. \A x \in chans : status[x] = "in"
  BY <1>0 DEF ChannelsOK
<1>4. \A x \in Req : StreamOK(x)'
  BY <1>1, <1>2, <1>3, EmittedType, StreamQuiet DEF ServerInv
<1>5. ChannelsOK'
  BY <1>1 DEF ChannelsOK
<1>6. queue' \in Seq(Req \cup {Swap}) /\ SentOnce(queue') /\ ToSet(queue') \subseteq ToSet(queue)
      /\ ToSet(queue) \subseteq ToSet(queue') \cup {Swap}
  BY <1>0, <1>1, TakeMessage DEF ServerTypeOK, QueueOK
<1>7. Waiting' = Waiting
  BY <1>6 DEF Waiting
<1>8. QueueOK'
  <2>1. \A x \in Req : status[x] = "new" => stream'[x] = stream[x]
    BY <1>1, <1>3
  <2> QED BY <1>0, <1>1, <1>2, <1>6, <1>7, <2>1 DEF QueueOK
<1>9. ServerTypeOK'
  <2>1. stream' = [x \in Req |-> IF x \in chans THEN Append(stream[x], End) ELSE stream[x]]
    BY DEF Receive
  <2>2. \A x \in Req : stream[x] \in Seq(Token \cup {End})
                       /\ Append(stream[x], End) \in Seq(Token \cup {End})
    BY <1>0 DEF ServerTypeOK
  <2>3. stream' \in [Req -> Seq(Token \cup {End})]
    BY <2>1, <2>2
  <2> QED BY <1>0, <1>1, <1>6, <2>3 DEF ServerTypeOK
<1> QED BY <1>0, <1>1, <1>2, <1>4, <1>5, <1>8, <1>9 DEF ServerInv

\* A request is received: it gets a channel with its slot, or is refused with End.
LEMMA ReceiveRequestInv ==
  ASSUME BatcherInv, ServerInv, serving \in {"recv", "fill"}, Receive, Head(queue) # Swap
  PROVE  ServerInv'
<1>0. ServerTypeOK /\ QueueOK /\ ChannelsOK /\ phase = "idle"
  BY DEF ServerInv
<1> DEFINE r == Head(queue)
<1>1. /\ queue # <<>> /\ queue' = Tail(queue) /\ serving' = "fill" /\ AdmitReq(r)
      /\ UNCHANGED <<submitted, open, severed, swaps>>
  BY DEF Receive
<1>2. /\ queue' \in Seq(Req \cup {Swap}) /\ SentOnce(queue')
      /\ ToSet(queue') \subseteq ToSet(queue) /\ r \in Req /\ r \in ToSet(queue)
      /\ r \notin ToSet(queue')
  BY <1>0, <1>1, TakeMessage DEF ServerTypeOK, QueueOK
<1>3. Waiting' \subseteq Waiting /\ r \in Waiting /\ r \notin Waiting' /\ r \in submitted
  BY <1>0, <1>2 DEF Waiting, QueueOK
<1>4. status[r] = "new" /\ stream[r] = <<>> /\ r \notin chans
  BY <1>0, <1>2, <1>3 DEF QueueOK, ChannelsOK
<1>5. emitted[r] = <<>> /\ \A x \in Req : emitted[x] \in Seq(Token)
  BY <1>2, <1>4, NewFacts, EmittedType DEF BatcherInv
<1> HIDE DEF r
<1>6. /\ phase' = "idle" /\ emitted' = emitted
      /\ \A x \in Req \ {r} : status'[x] = status[x] /\ stream'[x] = stream[x]
      /\ stream' \in [Req -> Seq(Token \cup {End})] /\ chans' \subseteq chans \cup {r}
      /\ chans \subseteq chans'
      /\ \/ status'[r] = "in" /\ r \in chans' /\ stream'[r] = <<>>
         \/ status'[r] = "new" /\ r \notin chans' /\ stream'[r] = <<End>>
  <2>1. CASE Enqueue(r) /\ chans' = chans \cup {r} /\ UNCHANGED stream
    <3>1. phase' = phase /\ emitted' = emitted /\ status' = [status EXCEPT ![r] = "in"]
      BY <2>1 DEF Enqueue
    <3>2. status \in [Req -> {"new", "in", "done", "cancelled"}]
      BY DEF BatcherInv, SchedulerInv, SchedulerTypeOK
    <3> QED BY <1>0, <1>2, <1>4, <2>1, <3>1, <3>2 DEF ServerTypeOK
  <2>2. CASE /\ stream' = [stream EXCEPT ![r] = Append(@, End)]
             /\ UNCHANGED <<vars, chans>>
    <3>1. phase' = phase /\ emitted' = emitted /\ status' = status
      BY <2>2 DEF vars, seqVars, textVars
    <3>2. Append(<<>>, End) = <<End>> /\ <<End>> \in Seq(Token \cup {End})
      OBVIOUS
    <3>3. /\ stream'[r] = <<End>> /\ \A x \in Req \ {r} : stream'[x] = stream[x]
          /\ stream' \in [Req -> Seq(Token \cup {End})]
      BY <1>0, <1>2, <1>4, <2>2, <3>2 DEF ServerTypeOK
    <3> QED BY <1>0, <1>2, <1>4, <2>2, <3>1, <3>3
  <2> QED BY <1>1, <2>1, <2>2 DEF AdmitReq
<1>7. ASSUME NEW x \in Req PROVE StreamOK(x)'
  <2>1. CASE x = r
    BY <1>2, <1>5, <1>6, <2>1, StreamOpens
  <2>2. CASE x # r
    <3>1. /\ status'[x] = status[x] /\ stream'[x] = stream[x] /\ emitted'[x] = emitted[x]
          /\ (x \in chans <=> x \in chans') /\ severed' = severed
      BY <1>1, <1>6, <2>2
    <3>2. StreamOK(x)
      BY DEF ServerInv
    <3> QED BY <1>5, <3>1, <3>2, StreamQuiet
  <2> QED BY <2>1, <2>2
<1>8. ChannelsOK'
  <2>1. serving \notin {"step", "load", "gone"} /\ serving' = "fill"
    BY <1>1
  <2> QED BY <1>0, <1>2, <1>6, <2>1 DEF ChannelsOK, ServerTypeOK
<1>9. QueueOK'
  <2>1. \A x \in Req : x \in Waiting' \/ x \notin submitted' =>
          x # r /\ (x \in Waiting \/ x \notin submitted)
    BY <1>1, <1>3
  <2> QED BY <1>0, <1>1, <1>2, <1>3, <1>6, <2>1 DEF QueueOK
<1>10. ServerTypeOK'
  BY <1>0, <1>1, <1>2, <1>6 DEF ServerTypeOK
<1> QED BY <1>1, <1>6, <1>7, <1>8, <1>9, <1>10 DEF ServerInv

\* The thread begins a step, or blocks for a message when there is nothing to do.
LEMMA FillDoneInv ==
  ASSUME BatcherInv, ServerInv, FillDone
  PROVE  ServerInv'
<1>0. ServerTypeOK /\ QueueOK /\ ChannelsOK
  BY DEF ServerInv
<1>1. /\ serving = "fill" /\ serving' \in {"step", "recv"}
      /\ serving' = "recv" => UNCHANGED vars
      /\ UNCHANGED <<queue, submitted, open, chans, stream, severed, swaps>>
      /\ UNCHANGED <<status, emitted>>
  BY DEF FillDone, StepBegin, vars, seqVars, textVars
<1>2. \A x \in Req : StreamOK(x)'
  BY <1>1, EmittedType, StreamQuiet DEF ServerInv
<1>3. ServerTypeOK' /\ QueueOK' /\ ChannelsOK'
  BY <1>0, <1>1 DEF ServerTypeOK, QueueOK, ChannelsOK, Waiting
<1>4. serving' = "recv" => phase' = "idle"
  BY <1>1 DEF ServerInv, vars, seqVars
<1> QED BY <1>1, <1>2, <1>3, <1>4 DEF ServerInv

\* A turn of step(): what it produces stays unsent until the step ends.
LEMMA StepInv ==
  ASSUME BatcherInv, ServerInv, Step
  PROVE  ServerInv'
<1>0. ServerTypeOK /\ QueueOK /\ ChannelsOK
  BY DEF ServerInv
<1>1. /\ serving = "step" /\ serving' = "step" /\ StepNext
      /\ UNCHANGED <<queue, submitted, open, chans, stream, severed, swaps>>
  BY DEF Step, serverVars
<1>2. \A x \in Req : (emitted'[x] = emitted[x] /\ status'[x] = status[x]) \/ Produces(x)
  BY <1>1, StepTexts
<1>3. \A x \in Req : status[x] = "in" => x \in chans
  BY <1>0, <1>1 DEF ChannelsOK
<1>4. ASSUME NEW x \in Req PROVE StreamOK(x)'
  <2>1. StreamOK(x) /\ emitted[x] \in Seq(Token)
    BY EmittedType DEF ServerInv
  <2>2. CASE emitted'[x] = emitted[x] /\ status'[x] = status[x]
    BY <1>1, <2>1, <2>2, StreamQuiet
  <2>3. CASE Produces(x)
    <3>1. PICK c \in Seq(Token) : emitted'[x] = emitted[x] \o c
      BY <2>3 DEF Produces
    <3>2. x \in chans'
      BY <1>1, <1>3, <2>3 DEF Produces
    <3> QED BY <1>1, <2>1, <3>1, <3>2, StreamKept
  <2> QED BY <1>2, <2>2, <2>3
<1>5. \A x \in Req : status'[x] = "new" <=> status[x] = "new"
  BY <1>2 DEF Produces
<1>6. ServerTypeOK' /\ QueueOK'
  BY <1>0, <1>1, <1>5 DEF ServerTypeOK, QueueOK, Waiting
<1>7. ChannelsOK'
  BY <1>0, <1>1, <1>2, <1>3 DEF ChannelsOK, Produces, ServerTypeOK
<1> QED BY <1>1, <1>4, <1>6, <1>7 DEF ServerInv

\* The results of a step are delivered: nothing is unsent, and what ended is closed.
LEMMA DeliverInv ==
  ASSUME BatcherInv, ServerInv, Deliver
  PROVE  ServerInv'
<1>0. ServerTypeOK /\ QueueOK /\ ChannelsOK
  BY DEF ServerInv
<1> DEFINE over == {x \in chans : status[x] = "done"}
<1>1. /\ serving = "step" /\ phase = "idle" /\ serving' = "reap" /\ chans' = chans \ over
      /\ stream' = [x \in Req |->
            IF x \in over THEN Append(stream[x] \o Unsent(x), End)
            ELSE IF x \in chans THEN stream[x] \o Unsent(x) ELSE stream[x]]
      /\ UNCHANGED <<vars, queue, submitted, open, severed, swaps>>
  BY DEF Deliver
<1>2. UNCHANGED <<status, emitted, phase>>
  BY <1>1 DEF vars, seqVars, textVars
<1>3. \A x \in Req : emitted[x] \in Seq(Token) /\ StreamOK(x)
  BY EmittedType DEF ServerInv
<1>4. \A x \in chans : x \in Req /\ stream[x] \o Unsent(x) = emitted[x] /\ status[x] # "new"
  BY <1>0, <1>3, StreamCaughtUp DEF ServerTypeOK, ChannelsOK
<1>5. \A x \in Req : stream'[x] = IF x \in over THEN Append(emitted[x], End)
                                  ELSE IF x \in chans THEN emitted[x] ELSE stream[x]
  BY <1>1, <1>4
<1>6. \A x \in over : x \in chans /\ x \notin chans'
  BY <1>1
<1>7. \A x \in chans \ over : x \in chans' /\ status[x] = "in"
  BY <1>0, <1>1 DEF ChannelsOK
<1> HIDE DEF over
<1>8. ASSUME NEW x \in Req PROVE StreamOK(x)'
  <2>1. CASE x \in chans
    BY <1>2, <1>3, <1>5, <1>6, <2>1, StreamDelivered
  <2>2. CASE x \notin chans
    <3>1. /\ stream'[x] = stream[x] /\ x \notin chans' /\ severed' = severed
          /\ emitted'[x] = emitted[x] /\ status'[x] = status[x]
      BY <1>1, <1>2, <1>5, <1>6, <2>2
    <3> QED BY <1>3, <2>2, <3>1, StreamQuiet
  <2> QED BY <2>1, <2>2
<1>9. ChannelsOK'
  <2>1. \A x \in Req : status'[x] = "in" => x \in chans'
    <3>1. \A x \in over : status[x] = "done"
      BY DEF over
    <3> QED BY <1>0, <1>1, <1>2, <1>7, <3>1 DEF ChannelsOK
  <2>2. \A x \in chans' : status'[x] = "in"
    BY <1>1, <1>2, <1>7
  <2> QED BY <1>1, <2>1, <2>2 DEF ChannelsOK
<1>10. QueueOK'
  <2>1. \A x \in Req : status[x] = "new" => stream'[x] = stream[x]
    BY <1>4, <1>5, <1>6
  <2>2. Waiting' = Waiting
    BY <1>1 DEF Waiting
  <2> QED BY <1>0, <1>1, <1>2, <2>1, <2>2 DEF QueueOK
<1>11. ServerTypeOK'
  <2>1. \A x \in Req : stream'[x] \in Seq(Token \cup {End})
    <3>1. ASSUME NEW x \in Req PROVE /\ emitted[x] \in Seq(Token \cup {End})
                                     /\ Append(emitted[x], End) \in Seq(Token \cup {End})
      <4>1. emitted[x] \in Seq(Token \cup {End})
        BY <1>3, SeqMonotonic
      <4> QED BY <4>1
    <3> QED BY <1>0, <1>5, <3>1 DEF ServerTypeOK
  <2>2. stream' \in [Req -> Seq(Token \cup {End})]
    BY <1>1, <2>1
  <2> QED BY <1>0, <1>1, <2>2 DEF ServerTypeOK
<1> QED BY <1>1, <1>2, <1>8, <1>9, <1>10, <1>11 DEF ServerInv

\* A request nobody reads is cancelled with its channel.
LEMMA ReapInv ==
  ASSUME BatcherInv, ServerInv, Reap
  PROVE  ServerInv'
<1>0. ServerTypeOK /\ QueueOK /\ ChannelsOK /\ phase = "idle"
  BY DEF ServerInv, Reap
<1>1. /\ serving = "reap" /\ serving' \in {"fill", "recv", "reap"}
      /\ UNCHANGED <<queue, submitted, open, stream, severed, swaps>>
  BY DEF Reap
<1>2. Waiting' = Waiting
  BY <1>1 DEF Waiting
<1>3. CASE UNCHANGED <<vars, chans>>
  <2>1. UNCHANGED <<status, emitted, phase>>
    BY <1>3 DEF vars, seqVars, textVars
  <2>2. \A x \in Req : StreamOK(x)'
    BY <1>1, <1>3, <2>1, EmittedType, StreamQuiet DEF ServerInv
  <2>3. ServerTypeOK' /\ QueueOK' /\ ChannelsOK'
    BY <1>0, <1>1, <1>2, <1>3, <2>1 DEF ServerTypeOK, QueueOK, ChannelsOK
  <2> QED BY <1>0, <1>1, <2>1, <2>2, <2>3 DEF ServerInv
<1>4. ASSUME NEW r \in chans, Cancel(r), chans' = chans \ {r} PROVE ServerInv'
  <2>1. r \in Req /\ status[r] = "in"
    BY <1>0, <1>1 DEF ServerTypeOK, ChannelsOK
  <2>2. status' = [status EXCEPT ![r] = "cancelled"] /\ emitted' = emitted /\ phase' = phase
    BY <1>4 DEF Cancel
  <2>3. /\ status'[r] = "cancelled" /\ \A x \in Req \ {r} : status'[x] = status[x]
    BY <2>1, <2>2 DEF BatcherInv, SchedulerInv, SchedulerTypeOK
  <2>4. \A x \in Req : StreamOK(x)'
    BY <1>1, <1>4, <2>2, <2>3, EmittedType, StreamQuiet DEF ServerInv
  <2>5. ServerTypeOK' /\ QueueOK'
    BY <1>0, <1>1, <1>2, <1>4, <2>1, <2>3 DEF ServerTypeOK, QueueOK
  <2>6. ChannelsOK'
    BY <1>0, <1>1, <1>4, <2>1, <2>3 DEF ChannelsOK, ServerTypeOK
  <2> QED BY <1>0, <1>1, <2>2, <2>4, <2>5, <2>6 DEF ServerInv
<1> QED BY <1>3, <1>4 DEF Reap

\* When the thread ends, or drops its batcher, no channel is left that could have
\* missed the tokens of a request that finished.
LEMMA ThreadEndsInv ==
  ASSUME BatcherInv, ServerInv, Unwind \/ LoadModel
  PROVE  ServerInv'
<1>0. ServerTypeOK /\ QueueOK /\ ChannelsOK
  BY DEF ServerInv
<1>1. /\ serving = "load" => chans = {} /\ phase = "idle"
      /\ UNCHANGED <<submitted, open, stream>> /\ emitted' = emitted /\ phase' = phase
      /\ \A x \in Req : \/ status'[x] = status[x]
                        \/ status[x] = "in" /\ status'[x] = "cancelled"
  BY <1>0 DEF ServerInv, ChannelsOK, Unwind, LoadModel, DropBatcher, vars, seqVars, textVars
<1>2. \/ serving = "load" /\ serving' = "recv" /\ UNCHANGED <<queue, chans, severed>>
         /\ \A x \in Req : status'[x] # "in"
      \/ /\ serving' = "gone" /\ queue' = <<>> /\ chans' = {}
         /\ severed' = severed \cup chans \cup Waiting
  BY DEF Unwind, LoadModel, DropBatcher, Sever, Waiting
<1>3. chans' \subseteq chans /\ severed \subseteq severed' /\ \A x \in chans : x \in chans' \cup severed'
  BY <1>2
<1>4. \A x \in Req : StreamOK(x)'
  BY <1>1, <1>3, EmittedType, StreamQuiet DEF ServerInv
<1>5. queue' \in Seq(Req \cup {Swap}) /\ SentOnce(queue') /\ Waiting' \subseteq Waiting
  <2>1. CASE queue' = queue
    BY <1>0, <2>1 DEF ServerTypeOK, QueueOK, Waiting
  <2>2. CASE queue' = <<>>
    <3>1. queue' \in Seq(Req \cup {Swap}) /\ Len(queue') = 0 /\ ToSet(queue') = {}
      BY <2>2, EmptySeq DEF ToSet
    <3> QED BY <3>1 DEF SentOnce, Waiting
  <2> QED BY <1>2, <2>1, <2>2
<1>6. QueueOK'
  BY <1>0, <1>1, <1>5 DEF QueueOK
<1>7. ServerTypeOK'
  <2>1. Waiting \subseteq Req
    BY <1>0 DEF ServerTypeOK, Waiting, ToSet
  <2>2. chans' \subseteq Req /\ severed' \subseteq Req
    BY <1>0, <1>2, <2>1 DEF ServerTypeOK
  <2>3. swaps' \in [calls : Nat, answer : {"none", "waiting", "loaded", "failed"}]
    <3>1. /\ swaps \in [calls : Nat, answer : {"none", "waiting", "loaded", "failed"}]
          /\ swaps' \in {[swaps EXCEPT !.answer = a] : a \in {"loaded", "failed", swaps.answer}}
      BY <1>0 DEF ServerTypeOK, Unwind, LoadModel
    <3> QED BY <3>1
  <2> QED BY <1>0, <1>1, <1>2, <1>5, <2>2, <2>3 DEF ServerTypeOK
<1>8. ChannelsOK'
  BY <1>1, <1>2 DEF ChannelsOK
<1>9. serving' = "recv" => phase' = "idle"
  BY <1>1, <1>2
<1> QED BY <1>2, <1>4, <1>6, <1>7, <1>8, <1>9 DEF ServerInv

\* Whatever the thread and its clients do, both invariants stay.
LEMMA ServerStep ==
  ASSUME BatcherInv, ServerInv, [ServerNext]_allVars
  PROVE  BatcherInv' /\ ServerInv'
<1>0. ServerTypeOK /\ QueueOK /\ ChannelsOK
  BY DEF ServerInv
<1>1. BatcherInv'
  <2>1. serving = "load" => phase = "idle"
    BY DEF ServerInv
  <2> QED BY <1>0, <2>1, ServerMoves, BatcherStep, DropKeeps DEF BatcherOrDrop
<1>2. ASSUME UNCHANGED allVars PROVE ServerInv'
  <2>1. /\ UNCHANGED <<serving, queue, submitted, open, chans, stream, severed, swaps>>
        /\ UNCHANGED <<status, emitted, phase>>
    BY <1>2 DEF allVars, serverVars, vars, seqVars, textVars
  <2>2. \A x \in Req : StreamOK(x)'
    BY <2>1, EmittedType, StreamQuiet DEF ServerInv
  <2>3. ServerTypeOK' /\ QueueOK' /\ ChannelsOK'
    BY <1>0, <2>1 DEF ServerTypeOK, QueueOK, ChannelsOK, Waiting
  <2> QED BY <2>1, <2>2, <2>3 DEF ServerInv
<1>3. ASSUME Recv \/ Fill PROVE ServerInv'
  BY <1>3, ReceiveSwapInv, ReceiveRequestInv DEF Recv, Fill
<1>4. ASSUME ServeNext, ~Recv, ~Fill PROVE ServerInv'
  BY <1>4, FillDoneInv, StepInv, DeliverInv, ReapInv, ThreadEndsInv DEF ServeNext
<1> QED BY <1>1, <1>2, <1>3, <1>4, ClientInv DEF ServerNext

LEMMA ServerInitInv ==
  ASSUME ServerInit
  PROVE  ServerInv
<1>1. /\ serving = "recv" /\ queue = <<>> /\ phase = "idle"
      /\ submitted = {} /\ open = {} /\ chans = {} /\ severed = {}
      /\ stream = [r \in Req |-> <<>>] /\ swaps = [calls |-> 0, answer |-> "none"]
      /\ emitted = [r \in Req |-> <<>>] /\ status = [r \in Req |-> "new"]
  BY DEF ServerInit, NobodyServedYet, BatcherInit
<1>2. /\ queue \in Seq(Req \cup {Swap}) /\ Len(queue) = 0 /\ ToSet(queue) = {}
      /\ <<>> \in Seq(Token \cup {End})
  BY <1>1, EmptySeq DEF ToSet
<1>3. ServerTypeOK
  BY <1>1, <1>2 DEF ServerTypeOK
<1>4. QueueOK /\ ChannelsOK
  BY <1>1, <1>2 DEF QueueOK, SentOnce, Waiting, ChannelsOK
<1>5. ASSUME NEW r \in Req PROVE StreamOK(r)
  <2>1. 0 \in 0..Len(emitted[r]) /\ SubSeq(emitted[r], 1, 0) = <<>>
    BY <1>1, SubSeqEmpty, EmptySeq
  <2>2. stream[r] = <<>> /\ status[r] = "new"
    BY <1>1
  <2> QED BY <2>1, <2>2 DEF StreamOK
<1> QED BY <1>1, <1>3, <1>4, <1>5 DEF ServerInv

\* The batcher's invariant and the server's hold in every state of the server, for any
\* number of clients that submit, disconnect and swap models at any time.
THEOREM ServerInvariant == ServerSpec => [](BatcherInv /\ ServerInv)
<1>1. ServerInit => BatcherInv /\ ServerInv
  BY InitInv, ServerInitInv DEF ServerInit
<1>2. BatcherInv /\ ServerInv /\ [ServerNext]_allVars => (BatcherInv /\ ServerInv)'
  BY ServerStep
<1> QED BY <1>1, <1>2, PTL DEF ServerSpec

-----------------------------------------------------------------------------
(* The theorems *)

\* Under the server, which cancels and drops requests at any time between two steps
\* and starts over with a new batcher, the pool's books balance, every slot attends
\* its own tokens, and slots and requests are accounted for.
THEOREM ServerKeepsBatcher ==
  ServerSpec => [](/\ RefcountExact /\ FreeExact /\ CacheInverse
                   /\ AttendsOwnTokens /\ CacheHoldsItsPrefix
                   /\ SlotsAccounted /\ StreamWellFormed)
<1>1. BatcherInv => /\ RefcountExact /\ FreeExact /\ CacheInverse
                    /\ AttendsOwnTokens /\ CacheHoldsItsPrefix
                    /\ SlotsAccounted /\ StreamWellFormed
  BY AccountsFromInv, StreamsFromInv DEF BatcherInv, KVInv, Books, Contents
<1> QED BY <1>1, ServerInvariant, PTL

\* Whenever the thread looks for messages it holds a channel for exactly what the
\* batcher has: no sequence decodes for nobody, no client waits for nothing.
THEOREM ChannelsAreMatched == ServerSpec => []ChannelsMatchBatch
<1>1. ASSUME BatcherInv, ServerInv, serving \in {"recv", "fill"}
      PROVE  chans = ToSet(active) \cup ToSet(prefilling) \cup ToSet(preempted)
  <2>1. SchedulerInv /\ PhaseOK /\ SchedulerTypeOK /\ phase = "idle" /\ ChannelsOK /\ ServerTypeOK
    BY <1>1 DEF BatcherInv, SchedulerInv, ServerInv
  <2>2. loading = {} /\ \A r \in Decoding : status[r] = "in"
    BY <2>1 DEF PhaseOK, Failed
  <2>3. Decoding \subseteq Req /\ Prefills \subseteq Req /\ Evicted \subseteq Req
    BY <2>1, QueueMembers DEF SchedulerTypeOK, Decoding, Prefills, Evicted
  <2>4. \A r \in InFlight : r \in Req /\ status[r] = "in"
    BY <2>1, <2>2, <2>3 DEF SchedulerInv, RequestOK, PrefillsOK, RestoredOK, InFlight,
       Decoding, Prefills, Evicted
  <2>5. \A r \in Req : status[r] = "in" => r \in InFlight
    BY <2>1 DEF SchedulerInv, RequestOK, OutsideOK
  <2>6. \A r \in Req : r \in chans <=> status[r] = "in"
    BY <1>1, <2>1 DEF ChannelsOK
  <2>7. chans \subseteq Req
    BY <2>1 DEF ServerTypeOK
  <2> QED BY <2>2, <2>4, <2>5, <2>6, <2>7 DEF InFlight
<1>2. BatcherInv /\ ServerInv => ChannelsMatchBatch
  BY <1>1 DEF ChannelsMatchBatch
<1> QED BY <1>2, ServerInvariant, PTL

\* A client reads the first tokens produced for it, in order and none twice, then at
\* most one End; and all of them if the request finished and the thread lives.
THEOREM StreamsAreFaithful == ServerSpec => []StreamFaithful
<1>1. ASSUME BatcherInv, ServerInv, NEW r \in Req
      PROVE  \E n \in 0..Len(emitted[r]) :
               LET sent == SubSeq(emitted[r], 1, n) IN
               /\ stream[r] \in {sent, Append(sent, End)}
               /\ Ended(r) /\ r \notin severed /\ status[r] = "done" => n = Len(emitted[r])
  <2>1. emitted[r] \in Seq(Token)
    BY <1>1, EmittedType
  <2>2. PICK n \in 0..Len(emitted[r]) :
          LET sent == SubSeq(emitted[r], 1, n) IN
          /\ r \in chans => stream[r] = sent
          /\ r \notin chans => stream[r] \in {sent, Append(sent, End)}
          /\ r \notin chans \cup severed /\ status[r] = "done" => n = Len(emitted[r])
    BY <1>1 DEF ServerInv, StreamOK
  <2>3. SubSeq(emitted[r], 1, n) \in Seq(Token)
    BY <2>1, PrefixKept, EmptySeq
  <2>4. ASSUME NEW s \in Seq(Token), s # <<>> PROVE Last(s) # End
    <3>1. Len(s) \in 1..Len(s)
      BY <2>4, EmptySeq
    <3>2. s[Len(s)] \in Token
      BY <3>1, ElementOfSeq
    <3> QED BY <3>2, ServerAssumption DEF Last
  <2>5. Ended(r) /\ r \notin severed => r \notin chans
    BY <2>2, <2>3, <2>4 DEF Ended
  <2> QED BY <2>2, <2>5
<1>2. BatcherInv /\ ServerInv => StreamFaithful
  BY <1>1, StreamsFromInv DEF StreamFaithful
<1> QED BY <1>2, ServerInvariant, PTL

\* A stream that has ended and has no channel is not touched any more.
LEMMA EndedKept ==
  ASSUME NEW r \in Req, Ended(r), severed \subseteq severed', stream'[r] = stream[r]
  PROVE  Ended(r)'
BY DEF Ended

\* End is the last of what is sent.
LEMMA EndedNow ==
  ASSUME NEW r \in Req, NEW s \in Seq(Token \cup {End}), stream'[r] = Append(s, End)
  PROVE  Ended(r)'
<1>1. Len(Append(s, End)) = Len(s) + 1 /\ Append(s, End)[Len(s) + 1] = End /\ Len(s) \in Nat
  OBVIOUS
<1>2. Append(s, End) # <<>>
  BY <1>1, EmptySeq
<1> QED BY <1>1, <1>2 DEF Ended, Last

\* Where a request goes whose message is taken or whose channel is dropped.
LEMMA ForgottenStep ==
  ASSUME BatcherInv, ServerInv, NobodyForgotten, [ServerNext]_allVars
  PROVE  NobodyForgotten'
<1>0. ServerTypeOK /\ QueueOK /\ ChannelsOK
  BY DEF ServerInv
<1> SUFFICES ASSUME NEW r \in submitted' \cap open',
                    r \notin ToSet(queue'), r \notin chans'
             PROVE  Ended(r)'
  BY DEF NobodyForgotten
<1>1. severed \subseteq severed'
  BY DEF ServerNext, ServeNext, ClientNext, Recv, Fill, Receive, FillDone, Step, Deliver, Reap,
         Unwind, LoadModel, Sever, Submit, Close, SwapModel, allVars, serverVars
<1>2. CASE r \in submitted \cap open /\ UNCHANGED <<queue, chans, stream>>
  BY <1>0, <1>1, <1>2, EndedKept DEF NobodyForgotten, ServerTypeOK
<1>3. ASSUME ClientNext PROVE Ended(r)'
  <2>1. CASE SwapModel
    <3>1. UNCHANGED <<submitted, open, chans, stream>> /\ queue' \in {queue, Append(queue, Swap)}
      BY <2>1 DEF SwapModel
    <3>2. ToSet(queue) \subseteq ToSet(queue')
      BY <1>0, <3>1, SendMessage DEF ServerTypeOK, QueueOK
    <3> QED BY <1>0, <1>1, <3>1, <3>2, EndedKept DEF NobodyForgotten, ServerTypeOK
  <2>2. ASSUME NEW x \in Req, Close(x) PROVE Ended(r)'
    <3>1. UNCHANGED <<submitted, queue, chans, stream>> /\ open' \subseteq open
      BY <2>2 DEF Close
    <3> QED BY <1>2, <3>1
  <2>3. ASSUME NEW x \in Req, Submit(x) PROVE Ended(r)'
    <3>1. /\ x \notin submitted /\ submitted' = submitted \cup {x}
          /\ UNCHANGED <<chans, stream>>
          /\ \/ severed' = severed \cup {x} /\ UNCHANGED <<queue, open>>
             \/ queue' = Append(queue, x) /\ open' = open \cup {x}
      BY <2>3 DEF Submit
    <3>2. x \notin ToSet(queue)
      BY <1>0, <3>1, ServerAssumption DEF QueueOK, Waiting
    <3>3. queue' = Append(queue, x) => ToSet(queue') = ToSet(queue) \cup {x}
      BY <1>0, <3>2, SendMessage DEF ServerTypeOK, QueueOK
    <3>4. CASE r = x
      BY <3>1, <3>3, <3>4 DEF Ended
    <3>5. CASE r # x
      <4>1. r \in submitted \cap open /\ r \notin ToSet(queue) /\ r \notin chans
        BY <3>1, <3>3, <3>5
      <4> QED BY <1>0, <1>1, <3>1, <4>1, EndedKept DEF NobodyForgotten, ServerTypeOK
    <3> QED BY <3>4, <3>5
  <2> QED BY <1>3, <2>1, <2>2, <2>3 DEF ClientNext
<1>4. ASSUME r \in submitted \cap open, ServeNext PROVE Ended(r)'
  <2>1. r \in Req /\ stream[r] \in Seq(Token \cup {End})
    BY <1>0, <1>4 DEF ServerTypeOK
  <2>2. r \in ToSet(queue) \/ r \in chans \/ Ended(r)
    BY <1>4 DEF NobodyForgotten
  <2>3. ASSUME Receive PROVE Ended(r)'
    <3>1. /\ queue # <<>> /\ queue' = Tail(queue)
          /\ ToSet(queue) = ToSet(queue') \cup {Head(queue)}
      BY <1>0, <2>3, TakeMessage DEF Receive, ServerTypeOK, QueueOK
    <3>2. CASE Head(queue) = Swap
      <4>1. r # Swap /\ stream'[r] = IF r \in chans THEN Append(stream[r], End) ELSE stream[r]
        BY <2>1, <2>3, <3>2, ServerAssumption DEF Receive
      <4>2. r \in chans \/ Ended(r)
        BY <2>2, <3>1, <3>2, <4>1
      <4> QED BY <1>1, <2>1, <4>1, <4>2, EndedKept, EndedNow
    <3>3. CASE Head(queue) # Swap
      <4>1. \/ chans' = chans \cup {Head(queue)} /\ UNCHANGED stream
            \/ /\ chans' = chans
               /\ stream' = [stream EXCEPT ![Head(queue)] = Append(@, End)]
        BY <2>3, <3>3 DEF Receive, AdmitReq
      <4>2. CASE r = Head(queue)
        <5>1. stream'[r] = Append(stream[r], End)
          BY <1>0, <2>1, <4>1, <4>2 DEF ServerTypeOK
        <5> QED BY <2>1, <5>1, EndedNow
      <4>3. CASE r # Head(queue)
        <5>1. stream'[r] = stream[r] /\ Ended(r)
          BY <1>0, <2>1, <2>2, <3>1, <4>1, <4>3 DEF ServerTypeOK
        <5> QED BY <1>1, <2>1, <5>1, EndedKept
      <4> QED BY <4>2, <4>3
    <3> QED BY <3>2, <3>3
  <2>4. CASE Deliver
    <3>1. /\ UNCHANGED queue
          /\ r \in chans => r \notin chans' /\ stream'[r] = Append(stream[r] \o Unsent(r), End)
          /\ r \notin chans => stream'[r] = stream[r]
      BY <1>4, <2>1, <2>4 DEF Deliver
    <3>2. CASE r \in chans
      <4>1. stream[r] \o Unsent(r) = emitted[r] /\ emitted[r] \in Seq(Token)
        BY <2>1, <3>2, StreamCaughtUp, EmittedType DEF ServerInv
      <4>2. emitted[r] \in Seq(Token \cup {End})
        BY <4>1, SeqMonotonic
      <4> QED BY <2>1, <3>1, <3>2, <4>1, <4>2, EndedNow
    <3>3. CASE r \notin chans
      BY <1>1, <2>1, <2>2, <3>1, <3>3, EndedKept
    <3> QED BY <3>2, <3>3
  <2>5. CASE Reap
    <3>1. /\ UNCHANGED <<queue, stream, open>>
          /\ \/ chans' = chans
             \/ \E x \in chans \ open : chans' = chans \ {x}
      BY <2>5 DEF Reap
    <3>2. r \notin chans
      BY <1>4, <3>1
    <3> QED BY <1>1, <2>1, <2>2, <3>1, <3>2, EndedKept
  <2>6. CASE Unwind \/ LoadModel
    <3>1. /\ UNCHANGED stream
          /\ UNCHANGED <<queue, chans>> \/ severed' = severed \cup chans \cup (ToSet(queue) \ {Swap})
      BY <2>6 DEF Unwind, LoadModel, Sever
    <3>2. CASE UNCHANGED <<queue, chans>>
      BY <1>2, <1>4, <3>1, <3>2
    <3>3. CASE severed' = severed \cup chans \cup (ToSet(queue) \ {Swap})
      <4>1. r # Swap
        BY <2>1, ServerAssumption
      <4>2. CASE r \in severed'
        BY <4>2 DEF Ended
      <4>3. CASE r \notin severed'
        BY <1>1, <2>1, <2>2, <3>1, <3>3, <4>1, <4>3, EndedKept
      <4> QED BY <4>2, <4>3
    <3> QED BY <3>1, <3>2, <3>3
  <2>7. CASE FillDone \/ Step
    <3>1. UNCHANGED <<queue, chans, stream>>
      BY <2>7 DEF FillDone, Step, serverVars
    <3> QED BY <1>2, <1>4, <3>1
  <2> QED BY <1>4, <2>3, <2>4, <2>5, <2>6, <2>7 DEF ServeNext, Recv, Fill
<1>5. ServeNext \/ UNCHANGED allVars => r \in submitted \cap open
  <2>1. ServeNext \/ UNCHANGED allVars => UNCHANGED <<submitted, open>>
    BY DEF ServeNext, Recv, Fill, Receive, FillDone, Step, Deliver, Reap, Unwind, LoadModel,
           allVars, serverVars
  <2> QED BY <2>1
<1>6. CASE UNCHANGED allVars
  BY <1>2, <1>5, <1>6 DEF allVars, serverVars
<1> QED BY <1>3, <1>4, <1>5, <1>6 DEF ServerNext

\* The safety half of EveryStreamEnds: no interleaving of messages, results, swaps and
\* disconnects loses a request whose client still listens.
THEOREM NobodyIsForgotten == ServerSpec => []NobodyForgotten
<1>1. ServerInit => NobodyForgotten
  BY DEF ServerInit, NobodyServedYet, NobodyForgotten
<1>2. BatcherInv /\ ServerInv /\ NobodyForgotten /\ [ServerNext]_allVars => NobodyForgotten'
  BY ForgottenStep
<1> QED BY <1>1, <1>2, ServerInvariant, PTL DEF ServerSpec

-----------------------------------------------------------------------------
(* Capacity under the server *)

\* A new batcher has all its blocks free and nothing preempted.
LEMMA DropMakesRoom ==
  ASSUME phase = "idle", DropBatcher
  PROVE  PositionsInv' /\ RowsInv' /\ RoomyInv'
<1>1. /\ phase' = "idle" /\ preempted' = <<>>
      /\ \A s \in Slot : Len(slotBlocks'[s]) = 0
  BY EmptySeq DEF DropBatcher
<1>2. BlocksInContext'
  <2>1. MaxBlocks' = MaxBlocks
    BY DEF MaxBlocks, BlocksFor
  <2> QED BY <1>1, <2>1, MaxBlocksNat DEF BlocksInContext
<1> QED BY <1>1, <1>2 DEF PositionsInv, RowsInv, RoomyInv

\* Any step of the server is a step of the batcher, or gives it up while it is idle.
LEMMA BatcherOrIdleDrop ==
  ASSUME ServerInv, [ServerNext]_allVars
  PROVE  [BatcherNext]_vars \/ (DropBatcher /\ phase = "idle")
BY ServerMoves DEF ServerInv, BatcherOrDrop

LEMMA PositionsUnderServer ==
  ASSUME FitsContext
  PROVE  ServerSpec => []PositionsInv
<1>1. ServerInit => PositionsInv
  BY PositionsInit DEF ServerInit
<1>2. BatcherInv /\ ServerInv /\ PositionsInv /\ [ServerNext]_allVars => PositionsInv'
  BY BatcherOrIdleDrop, PositionsStep, DropMakesRoom
<1> QED BY <1>1, <1>2, ServerInvariant, PTL DEF ServerSpec

LEMMA RoomyUnderServer ==
  ASSUME FitsContext, FullPool
  PROVE  ServerSpec => []RoomyInv
<1>1. ServerInit => RoomyInv
  BY DEF ServerInit, NobodyServedYet, BatcherInit, RoomyInv
<1>2. BatcherInv /\ ServerInv /\ PositionsInv /\ RoomyInv /\ [ServerNext]_allVars => RoomyInv'
  BY BatcherOrIdleDrop, RoomyStep, DropMakesRoom DEF PositionsInv
<1> QED BY <1>1, <1>2, ServerInvariant, PositionsUnderServer, PTL DEF ServerSpec

LEMMA RowsUnderServer ==
  ASSUME Pld = FALSE
  PROVE  ServerSpec => []RowsInv
<1>1. ServerInit => RowsInv
  BY DEF ServerInit, NobodyServedYet, BatcherInit, RowsInv
<1>2. BatcherInv /\ ServerInv /\ RowsInv /\ [ServerNext]_allVars => RowsInv'
  BY BatcherOrIdleDrop, RowsStep, DropMakesRoom
<1> QED BY <1>1, <1>2, ServerInvariant, PTL DEF ServerSpec

\* FullPoolSuffices under the server: clients that come, leave and swap models never
\* make it preempt, and while a slot is free a prompt of MaxSeq tokens is admitted.
THEOREM ServerNeverStarves ==
  ASSUME FitsContext
  PROVE  ServerSpec => []FullPoolNeverStarves
<1>1. CASE FullPool
  <2>1. BatcherInv /\ PositionsInv /\ RoomyInv => FullPoolNeverStarves
    BY <1>1, RoomyNeverStarves
  <2> QED BY <1>1, <2>1, ServerInvariant, PositionsUnderServer, RoomyUnderServer, PTL
<1>2. CASE ~FullPool
  <2>1. FullPoolNeverStarves
    BY <1>2 DEF FullPoolNeverStarves, FullPool
  <2> QED BY <2>1, PTL
<1> QED BY <1>1, <1>2

\* Under the hypotheses of NoAssertionEverFails no assertion fails in the server either.
THEOREM ServerNeverAsserts ==
  ASSUME FitsContext, FullPool, Pld = FALSE
  PROVE  ServerSpec => []NoAssertionFails
<1>1. PositionsInv /\ RowsInv /\ RoomyInv => NoAssertionFails
  BY DEF PositionsInv, RowsInv, RoomyInv, NoAssertionFails, Failed
<1> QED BY <1>1, PositionsUnderServer, RoomyUnderServer, RowsUnderServer, PTL

\* Then a thread is gone only because a model failed to load, which swap_model says.
THEOREM OnlyLoadEndsThread ==
  ASSUME FitsContext, FullPool, Pld = FALSE
  PROVE  ServerSpec => [](serving = "gone" => swaps.answer = "failed")
<1> DEFINE GoneByLoad == serving = "gone" => swaps.answer = "failed"
<1>1. ServerInit => GoneByLoad
  BY DEF ServerInit, NobodyServedYet
<1>2. ASSUME ServerTypeOK, NoAssertionFails, GoneByLoad, [ServerNext]_allVars, serving' = "gone"
      PROVE  swaps'.answer = "failed"
  <2>1. ~Unwind
    BY <1>2 DEF NoAssertionFails, Unwind
  <2>2. CASE LoadModel
    BY <1>2, <2>2 DEF LoadModel, ServerTypeOK
  <2>3. CASE SwapModel
    BY <1>2, <2>3 DEF SwapModel
  <2>4. CASE UNCHANGED <<serving, swaps>>
    BY <1>2, <2>4
  <2>5. Unwind \/ LoadModel \/ SwapModel \/ UNCHANGED <<serving, swaps>>
    BY <1>2 DEF ServerNext, ServeNext, ClientNext, Recv, Fill, Receive, FillDone, Step,
       Deliver, Reap, Submit, Close, allVars, serverVars
  <2> QED BY <2>1, <2>2, <2>3, <2>4, <2>5
<1>3. ServerInv /\ NoAssertionFails /\ GoneByLoad /\ [ServerNext]_allVars => GoneByLoad'
  BY <1>2 DEF ServerInv
<1> HIDE DEF GoneByLoad
<1>4. ServerSpec => []GoneByLoad
  BY <1>1, <1>3, ServerInvariant, ServerNeverAsserts, PTL DEF ServerSpec
<1> QED BY <1>4 DEF GoneByLoad

=============================================================================
