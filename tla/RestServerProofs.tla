--------------------------- MODULE RestServerProofs ---------------------------
(***************************************************************************)
(* Proofs that admission is exact, that no handlers wait for one another in*)
(* a circle, and that a request no selection overlaps is served by one     *)
(* model (module RestServer), for any number of handlers, slots and models *)
(* and any limit.                                                          *)
(*                                                                         *)
(* AdmissionInv says where in its handler a request holds an ActiveGuard:  *)
(* from the fetch_add to the answer, and not while the batch server        *)
(* streams its reply.  LockInv says where it may hold which lock.          *)
(* OneModelInv says what a selection has replaced at each of its places.   *)
(***************************************************************************)
EXTENDS RestServer, TLAPS, FiniteSetTheorems

\* Every handler has a place and a request.
HandlersTyped ==
  /\ DOMAIN pc = Handler /\ DOMAIN req = Handler
  /\ \A h \in Handler : DOMAIN req[h] = DOMAIN NoReq

Prepared  == {"refused", "validate", "table", "build", "store", "lane", "engine"}
Decoding  == {"probe", "park", "generate", "capture"}
Selecting == {"collect", "reload", "context", "swapEngine", "swapBatch", "swapTokenizer",
              "swapName", "dropTable", "swapMeta", "forget"}
Storing   == {"remember", "tokenize", "borrow"}

\* The requests that come to a place.
FitsAt(place, kind) ==
  /\ place \in Prepared \cup {"measure", "admit"} => kind \in Generation
  /\ place \in Decoding => kind \in Generation \cup {"embed"}
  /\ place = "encode" => kind \in Generation \cup {"batched"}
  /\ place = "submit" => kind = "batched"
  /\ place = "batch" => kind \in {"chat", "stream", "batched"}
  /\ place = "name" => kind \in {"text", "batched"}
  /\ place = "respond" => kind = "text"
  /\ place \in Selecting \cup Storing => kind \in {"goal", "select"}

\* Where a request of a kind has a guard.
GuardedAt(place, kind) ==
  \/ place \in Prepared
  \/ place \in Decoding \cup {"answer"} /\ kind \in Generation
  \/ place = "batch" /\ kind = "chat"
  \/ place \in {"name", "respond"} /\ kind = "text"

Guarded == {h \in Handler : GuardedAt(pc[h], req[h].kind)}

AdmissionInv ==
  /\ HandlersTyped
  /\ \A h \in Handler : FitsAt(pc[h], req[h].kind)
  /\ guards = Guarded
  /\ active = Cardinality(guards)
  /\ Cardinality(Admitted) <= MaxConcurrent

\* A step of h: the other handlers stay where they are, with what they serve.
OthersStay(h) ==
  /\ HandlersTyped'
  /\ \A g \in Handler \ {h} : pc'[g] = pc[g] /\ req'[g].kind = req[g].kind

-----------------------------------------------------------------------------
\* The guards are finitely many.
LEMMA GuardsFinite ==
  ASSUME AdmissionInv
  PROVE  /\ IsFiniteSet(guards) /\ IsFiniteSet(Admitted)
         /\ Cardinality(guards) \in Nat /\ Cardinality(Admitted) \in Nat
<1>1. guards \subseteq Handler /\ Admitted \subseteq Handler
  BY DEF AdmissionInv, Guarded, Admitted
<1>2. IsFiniteSet(guards) /\ IsFiniteSet(Admitted)
  BY <1>1, RestAssumption, FS_Subset
<1> QED
  BY <1>2, FS_CardinalityType

\* A step that neither makes nor drops a guard (nor revives a refused request).
LEMMA KeepsGuards ==
  ASSUME AdmissionInv, NEW h \in Handler, OthersStay(h), NoGuard,
         FitsAt(pc'[h], req'[h].kind),
         GuardedAt(pc'[h], req'[h].kind) <=> GuardedAt(pc[h], req[h].kind),
         pc[h] = "refused" => pc'[h] = "refused"
  PROVE  AdmissionInv'
<1>1. HandlersTyped' /\ \A g \in Handler : FitsAt(pc'[g], req'[g].kind)
  BY DEF AdmissionInv, OthersStay
<1>2. guards' = Guarded'
  BY DEF AdmissionInv, OthersStay, NoGuard, Guarded
<1>3. active' = Cardinality(guards')
  BY DEF AdmissionInv, NoGuard
<1>4. Admitted' \subseteq Admitted
  BY DEF AdmissionInv, OthersStay, NoGuard, Guarded, Admitted
<1>5. Cardinality(Admitted') <= Cardinality(Admitted) /\ Cardinality(Admitted') \in Nat
  BY <1>4, GuardsFinite, FS_Subset, FS_CardinalityType
<1>6. Cardinality(Admitted') <= MaxConcurrent
  BY <1>5, GuardsFinite, RestAssumption DEF AdmissionInv
<1> QED
  BY <1>1, <1>2, <1>3, <1>6 DEF AdmissionInv

\* A step that drops the guard of its handler.
LEMMA DropsGuard ==
  ASSUME AdmissionInv, NEW h \in Handler, OthersStay(h), GuardDropped(h),
         h \in guards,
         FitsAt(pc'[h], req'[h].kind), ~GuardedAt(pc'[h], req'[h].kind)
  PROVE  AdmissionInv'
<1>1. HandlersTyped' /\ \A g \in Handler : FitsAt(pc'[g], req'[g].kind)
  BY DEF AdmissionInv, OthersStay
<1>2. guards' = Guarded'
  BY DEF AdmissionInv, OthersStay, GuardDropped, Guarded
<1>3. Cardinality(guards') = Cardinality(guards) - 1
  BY GuardsFinite, FS_RemoveElement DEF GuardDropped
<1>4. active' = Cardinality(guards')
  BY <1>3 DEF AdmissionInv, GuardDropped
<1>5. Admitted' \subseteq Admitted
  BY DEF AdmissionInv, OthersStay, GuardDropped, Guarded, Admitted
<1>6. Cardinality(Admitted') <= Cardinality(Admitted) /\ Cardinality(Admitted') \in Nat
  BY <1>5, GuardsFinite, FS_Subset, FS_CardinalityType
<1>7. Cardinality(Admitted') <= MaxConcurrent
  BY <1>6, GuardsFinite, RestAssumption DEF AdmissionInv
<1> QED
  BY <1>1, <1>2, <1>4, <1>7 DEF AdmissionInv

\* A handler goes to a place, its request served on.
LEMMA MovesOn ==
  ASSUME HandlersTyped, NEW h \in Handler, NEW place, Goes(h, place),
         Keeps \/ \E m : Hand(h, m)
  PROVE  OthersStay(h) /\ pc'[h] = place /\ req'[h].kind = req[h].kind
  BY DEF HandlersTyped, Goes, Keeps, Hand, OthersStay, NoReq

\* A handler is done with its request.
LEMMA IsDone ==
  ASSUME HandlersTyped, NEW h \in Handler, Done(h)
  PROVE  OthersStay(h) /\ pc'[h] = "idle"
  BY DEF HandlersTyped, Done, Goes, OthersStay, NoReq

\* The two together: a plain move between places with the same claim to a guard.
LEMMA MoveInv ==
  ASSUME AdmissionInv, NEW h \in Handler, NEW place, Goes(h, place),
         Keeps \/ \E m : Hand(h, m), NoGuard, pc[h] # "refused",
         FitsAt(place, req[h].kind),
         GuardedAt(place, req[h].kind) <=> GuardedAt(pc[h], req[h].kind)
  PROVE  AdmissionInv'
<1>1. OthersStay(h) /\ pc'[h] = place /\ req'[h].kind = req[h].kind
  BY MovesOn DEF AdmissionInv
<1> QED
  BY <1>1, KeepsGuards

\* A request without a guard ends.
LEMMA EndInv ==
  ASSUME AdmissionInv, NEW h \in Handler, Done(h), NoGuard,
         ~GuardedAt(pc[h], req[h].kind)
  PROVE  AdmissionInv'
<1>1. OthersStay(h) /\ pc'[h] = "idle"
  BY IsDone DEF AdmissionInv
<1>2. FitsAt(pc'[h], req'[h].kind) /\ ~GuardedAt(pc'[h], req'[h].kind)
  BY <1>1 DEF FitsAt, GuardedAt, Prepared, Decoding, Selecting, Storing
<1>3. pc[h] # "refused"
  BY DEF GuardedAt, Prepared
<1> QED
  BY <1>1, <1>2, <1>3, KeepsGuards

\* A request with a guard ends.
LEMMA EndGuardedInv ==
  ASSUME AdmissionInv, NEW h \in Handler, Done(h), GuardDropped(h),
         GuardedAt(pc[h], req[h].kind)
  PROVE  AdmissionInv'
<1>1. OthersStay(h) /\ pc'[h] = "idle"
  BY IsDone DEF AdmissionInv
<1>2. FitsAt(pc'[h], req'[h].kind) /\ ~GuardedAt(pc'[h], req'[h].kind)
  BY <1>1 DEF FitsAt, GuardedAt, Prepared, Decoding, Selecting, Storing
<1>3. h \in guards
  BY DEF AdmissionInv, Guarded
<1> QED
  BY <1>1, <1>2, <1>3, DropsGuard

\* A request past admit is counted among the guards, and the limit holds.
LEMMA FetchAddInv ==
  ASSUME AdmissionInv, NEW h \in Handler, FetchAdd(h)
  PROVE  AdmissionInv'
<1> DEFINE place == IF CountedIn(active + 1) THEN "validate" ELSE "refused"
<1>1. Goes(h, place) /\ Keeps /\ At(h, "admit")
  BY DEF FetchAdd
<1>2. OthersStay(h) /\ pc'[h] = place /\ req'[h].kind = req[h].kind
  BY <1>1, MovesOn DEF AdmissionInv
<1>3. place \in {"validate", "refused"} /\ req[h].kind \in Generation
  BY <1>1 DEF AdmissionInv, FitsAt, At
<1>4. GuardedAt(pc'[h], req'[h].kind) /\ FitsAt(pc'[h], req'[h].kind)
  BY <1>2, <1>3 DEF GuardedAt, FitsAt, Prepared, Decoding, Selecting, Storing
<1>5. h \notin guards
  BY <1>1 DEF AdmissionInv, Guarded, GuardedAt, Prepared, Decoding, At
<1>6. HandlersTyped' /\ \A g \in Handler : FitsAt(pc'[g], req'[g].kind)
  BY <1>2, <1>4 DEF AdmissionInv, OthersStay
<1>7. guards' = Guarded'
  BY <1>2, <1>4 DEF AdmissionInv, OthersStay, FetchAdd, Guarded
<1>8. Cardinality(guards') = Cardinality(guards) + 1 /\ IsFiniteSet(guards')
  BY <1>5, GuardsFinite, FS_AddElement DEF FetchAdd
<1>9. active' = Cardinality(guards')
  BY <1>8 DEF AdmissionInv, FetchAdd
<1>10. Cardinality(Admitted') <= MaxConcurrent
  <2>1. CASE CountedIn(active + 1)
    <3>1. Admitted' \subseteq guards'
      BY DEF Admitted
    <3>2. Cardinality(Admitted') <= Cardinality(guards') /\ Cardinality(Admitted') \in Nat
      BY <1>8, <3>1, FS_Subset, FS_CardinalityType
    <3>3. active' <= MaxConcurrent
      BY <2>1 DEF FetchAdd, CountedIn
    <3> QED
      BY <1>8, <1>9, <3>2, <3>3, GuardsFinite, RestAssumption
  <2>2. CASE ~CountedIn(active + 1)
    <3>1. Admitted' = Admitted
      BY <1>2, <1>5, <2>2 DEF AdmissionInv, OthersStay, FetchAdd, Guarded, Admitted
    <3> QED
      BY <3>1 DEF AdmissionInv
  <2> QED
    BY <2>1, <2>2
<1> QED
  BY <1>6, <1>7, <1>9, <1>10 DEF AdmissionInv

\* A request comes without a guard.
LEMMA ArriveInv ==
  ASSUME AdmissionInv, NEW h \in Handler, Arrive(h)
  PROVE  AdmissionInv'
<1>1. \E kind \in Kinds : req'[h].kind = kind /\ Goes(h, FirstPlace(kind)) /\ OthersStay(h)
  <2> USE DEF AdmissionInv
  <2>1. PICK kind \in Kinds, grammar \in BOOLEAN, m \in Model :
          /\ req' = [req EXCEPT ![h] =
               [NoReq EXCEPT !.kind = kind, !.grammar = grammar,
                             !.crossed = Swapping # {},
                             !.target = IF kind = "select" THEN m ELSE NoModel,
                             !.hands = IF kind \in {"chat", "stream"} THEN {m} ELSE {}]]
          /\ Goes(h, FirstPlace(kind))
    BY DEF Arrive
  <2> DEFINE new ==
               [NoReq EXCEPT !.kind = kind, !.grammar = grammar,
                             !.crossed = Swapping # {},
                             !.target = IF kind = "select" THEN m ELSE NoModel,
                             !.hands = IF kind \in {"chat", "stream"} THEN {m} ELSE {}]
  <2>2. new.kind = kind /\ DOMAIN new = DOMAIN NoReq
    BY DEF NoReq
  <2>3. req' = [req EXCEPT ![h] = new]
    BY <2>1
  <2> HIDE DEF new
  <2>4. OthersStay(h) /\ req'[h] = new
    BY <2>1, <2>2, <2>3 DEF HandlersTyped, Goes, OthersStay, NoReq
  <2> QED
    BY <2>1, <2>2, <2>4
<1>11. PICK kind \in Kinds :
         req'[h].kind = kind /\ Goes(h, FirstPlace(kind)) /\ OthersStay(h)
  BY <1>1
<1>2. pc'[h] = FirstPlace(kind) /\ pc[h] = "idle"
  BY <1>11 DEF Arrive, AdmissionInv, HandlersTyped, Goes, At
<1>3. kind \in {"chat", "stream", "text", "batched", "embed", "goal", "select"}
  BY RestAssumption
<1>4. FitsAt(pc'[h], req'[h].kind) /\ ~GuardedAt(pc'[h], req'[h].kind)
  BY <1>11, <1>2, <1>3
  DEF FirstPlace, FitsAt, GuardedAt, Generation, Prepared, Decoding, Selecting, Storing
<1>5. ~GuardedAt(pc[h], req[h].kind) /\ NoGuard
  BY <1>2 DEF Arrive, GuardedAt, Prepared, Decoding
<1> QED
  BY <1>11, <1>2, <1>4, <1>5, KeepsGuards

-----------------------------------------------------------------------------
\* The steps of a handler up to its lane.
LEMMA PreparingInv ==
  ASSUME AdmissionInv, NEW h \in Handler,
         \/ Encode(h) \/ Measure(h) \/ Refuse(h) \/ Validate(h)
         \/ ReadTable(h) \/ Build(h) \/ StoreTable(h) \/ TakeLane(h)
  PROVE  AdmissionInv'
<1> DEFINE kind == req[h].kind
<1>0. FitsAt(pc[h], kind)
  BY DEF AdmissionInv
<1> USE DEF FitsAt, GuardedAt, Generation, Prepared, Decoding, Selecting, Storing, At
<1>1. CASE Encode(h)
  <2>1. CASE kind = "batched"
    <3>1. Goes(h, "submit") /\ (\E m : Hand(h, m)) /\ NoGuard
      BY <1>1, <2>1 DEF Encode
    <3> QED
      BY <1>0, <1>1, <2>1, <3>1, MoveInv DEF Encode
  <2>2. CASE kind # "batched"
    <3>1. Goes(h, "measure") /\ (\E m : Hand(h, m)) /\ NoGuard
      BY <1>1, <2>2 DEF Encode
    <3> QED
      BY <1>0, <1>1, <2>2, <3>1, MoveInv DEF Encode
  <2> QED
    BY <2>1, <2>2
<1>2. CASE Measure(h)
  <2>1. CASE Hand(h, window) /\ Goes(h, "admit")
    BY <1>0, <1>2, <2>1, MoveInv DEF Measure
  <2>2. CASE Done(h)
    BY <1>0, <1>2, <2>2, EndInv DEF Measure
  <2> QED
    BY <1>2, <2>1, <2>2 DEF Measure
<1>3. CASE Refuse(h)
  BY <1>0, <1>3, EndGuardedInv DEF Refuse
<1>4. CASE Validate(h)
  <2>1. CASE NoGuard /\ Goes(h, "table") /\ (Keeps \/ \E m : Hand(h, m))
    BY <1>0, <1>4, <2>1, MoveInv DEF Validate
  <2>2. CASE NoGuard /\ Goes(h, "lane") /\ (Keeps \/ \E m : Hand(h, m))
    BY <1>0, <1>4, <2>2, MoveInv DEF Validate
  <2>3. CASE GuardDropped(h) /\ Done(h)
    BY <1>0, <1>4, <2>3, EndGuardedInv DEF Validate
  <2> QED
    BY <1>4, <2>1, <2>2, <2>3 DEF Validate
<1>5. CASE ReadTable(h)
  <2>1. CASE Goes(h, "build") /\ Keeps
    BY <1>0, <1>5, <2>1, MoveInv DEF ReadTable
  <2>2. CASE Goes(h, "lane") /\ Hand(h, table)
    BY <1>0, <1>5, <2>2, MoveInv DEF ReadTable
  <2> QED
    BY <1>5, <2>1, <2>2 DEF ReadTable
<1>6. CASE Build(h)
  BY <1>0, <1>6, MoveInv DEF Build
<1>7. CASE StoreTable(h)
  BY <1>0, <1>7, MoveInv DEF StoreTable
<1>8. CASE TakeLane(h)
  <2>1. CASE Goes(h, "probe") /\ Keeps /\ NoGuard
    BY <1>0, <1>8, <2>1, MoveInv DEF TakeLane
  <2>2. CASE Goes(h, "engine") /\ Keeps /\ NoGuard
    BY <1>0, <1>8, <2>2, MoveInv DEF TakeLane
  <2>3. CASE GuardDropped(h) /\ Done(h)
    BY <1>0, <1>8, <2>3, EndGuardedInv DEF TakeLane
  <2>4. CASE /\ kind # "text" /\ Goes(h, "batch") /\ Hand(h, batch)
             /\ IF kind = "stream" THEN GuardDropped(h) ELSE NoGuard
    <3>1. CASE kind = "stream"
      <4>1. OthersStay(h) /\ pc'[h] = "batch" /\ req'[h].kind = kind
        BY <2>4, MovesOn DEF AdmissionInv
      <4>2. h \in guards
        BY <1>8 DEF TakeLane, AdmissionInv, Guarded
      <4> QED
        BY <2>4, <3>1, <4>1, <4>2, DropsGuard
    <3>2. CASE kind # "stream"
      BY <1>0, <1>8, <2>4, <3>2, MoveInv DEF TakeLane
    <3> QED
      BY <3>1, <3>2
  <2> QED
    BY <1>8, <2>1, <2>2, <2>3, <2>4 DEF TakeLane
<1> QED
  BY <1>1, <1>2, <1>3, <1>4, <1>5, <1>6, <1>7, <1>8

\* The steps from the lane to the reply.
LEMMA ServingInv ==
  ASSUME AdmissionInv, NEW h \in Handler,
         \/ BatchEnd(h) \/ SubmitBatched(h) \/ NameReply(h) \/ RespondText(h)
         \/ TakeEngine(h) \/ Probe(h) \/ Park(h)
         \/ Generate(h) \/ CaptureHidden(h) \/ Answer(h)
  PROVE  AdmissionInv'
<1> DEFINE kind == req[h].kind
<1>0. FitsAt(pc[h], kind) /\ (h \in guards <=> GuardedAt(pc[h], kind))
  BY DEF AdmissionInv, Guarded
<1> USE DEF FitsAt, GuardedAt, Generation, Prepared, Decoding, Selecting, Storing, At
<1>1. CASE BatchEnd(h)
  <2>1. CASE h \in guards
    BY <1>0, <1>1, <2>1, EndGuardedInv DEF BatchEnd
  <2>2. CASE h \notin guards
    BY <1>0, <1>1, <2>2, EndInv DEF BatchEnd
  <2> QED
    BY <2>1, <2>2
<1>2. CASE SubmitBatched(h)
  <2>1. CASE Done(h)
    BY <1>0, <1>2, <2>1, EndInv DEF SubmitBatched
  <2>2. CASE Hand(h, batch) /\ Goes(h, "name")
    BY <1>0, <1>2, <2>2, MoveInv DEF SubmitBatched
  <2> QED
    BY <1>2, <2>1, <2>2 DEF SubmitBatched
<1>3. CASE NameReply(h)
  <2>1. CASE kind = "batched" /\ Goes(h, "batch")
    BY <1>0, <1>3, <2>1, MoveInv DEF NameReply
  <2>2. CASE kind # "batched" /\ Goes(h, "respond")
    BY <1>0, <1>3, <2>2, MoveInv DEF NameReply
  <2> QED
    BY <1>3, <2>1, <2>2 DEF NameReply
<1>4. CASE RespondText(h)
  BY <1>0, <1>4, EndGuardedInv DEF RespondText
<1>5. CASE TakeEngine(h)
  <2>1. CASE Goes(h, "probe") /\ Keeps
    BY <1>0, <1>5, <2>1, MoveInv DEF TakeEngine
  <2>2. CASE Goes(h, "generate") /\ Hand(h, engine)
    BY <1>0, <1>5, <2>2, MoveInv DEF TakeEngine
  <2> QED
    BY <1>5, <2>1, <2>2 DEF TakeEngine
<1>6. CASE Probe(h)
  <2>1. CASE Goes(h, "generate") /\ Hand(h, loaded[req[h].at])
    BY <1>0, <1>6, <2>1, MoveInv DEF Probe
  <2>2. CASE UNCHANGED pc /\ \E i : req' = [req EXCEPT ![h].at = i]
    <3>1. OthersStay(h) /\ pc'[h] = pc[h] /\ req'[h].kind = kind
      BY <2>2 DEF AdmissionInv, HandlersTyped, OthersStay, NoReq
    <3> QED
      BY <1>0, <1>6, <3>1, KeepsGuards DEF Probe
  <2>3. CASE Goes(h, "park") /\ \E i : req' = [req EXCEPT ![h].at = i]
    <3>1. OthersStay(h) /\ pc'[h] = "park" /\ req'[h].kind = kind
      BY <2>3 DEF AdmissionInv, HandlersTyped, Goes, OthersStay, NoReq
    <3> QED
      BY <1>0, <1>6, <3>1, KeepsGuards DEF Probe
  <2> QED
    BY <1>6, <2>1, <2>2, <2>3 DEF Probe
<1>7. CASE Park(h)
  BY <1>0, <1>7, MoveInv DEF Park
<1>8. CASE Generate(h)
  <2>1. CASE Goes(h, "answer")
    BY <1>0, <1>8, <2>1, MoveInv DEF Generate
  <2>2. CASE Goes(h, "capture") /\ kind # "embed"
    BY <1>0, <1>8, <2>2, MoveInv DEF Generate
  <2> QED
    BY <1>8, <2>1, <2>2 DEF Generate
<1>9. CASE CaptureHidden(h)
  BY <1>0, <1>9, MoveInv DEF CaptureHidden
<1>10. CASE Answer(h)
  <2>1. CASE kind = "text" /\ Goes(h, "name") /\ Keeps /\ NoGuard
    BY <1>0, <1>10, <2>1, MoveInv DEF Answer
  <2>2. CASE Done(h) /\ h \in guards /\ GuardDropped(h)
    BY <1>0, <1>10, <2>2, EndGuardedInv DEF Answer
  <2>3. CASE Done(h) /\ h \notin guards /\ NoGuard
    BY <1>0, <1>10, <2>3, EndInv DEF Answer
  <2> QED
    BY <1>10, <2>1, <2>2, <2>3 DEF Answer
<1> QED
  BY <1>1, <1>2, <1>3, <1>4, <1>5, <1>6, <1>7, <1>8, <1>9, <1>10

\* The steps of goal updates and selections: no guard anywhere.
LEMMA UncountedInv ==
  ASSUME AdmissionInv, NEW h \in Handler,
         \/ Remember(h) \/ Tokenize(h) \/ Borrow(h)
         \/ Collect(h) \/ Reload(h) \/ Context(h) \/ SwapEngine(h) \/ SwapBatch(h)
         \/ SwapTokenizer(h) \/ SwapName(h) \/ DropTable(h) \/ SwapMeta(h)
         \/ ForgetContext(h)
  PROVE  AdmissionInv'
<1> DEFINE kind == req[h].kind
<1>0. FitsAt(pc[h], kind)
  BY DEF AdmissionInv
<1> USE DEF FitsAt, GuardedAt, Generation, Prepared, Decoding, Selecting, Storing, At
<1>1. CASE Remember(h)
  BY <1>0, <1>1, MoveInv DEF Remember
<1>2. CASE Tokenize(h)
  BY <1>0, <1>2, MoveInv DEF Tokenize
<1>3. CASE Borrow(h)
  BY <1>0, <1>3, MoveInv DEF Borrow
<1>4. CASE Collect(h)
  <2>1. CASE UNCHANGED pc /\ req' = [req EXCEPT ![h].at = @ + 1]
    <3>1. OthersStay(h) /\ pc'[h] = pc[h] /\ req'[h].kind = kind
      BY <2>1 DEF AdmissionInv, HandlersTyped, OthersStay, NoReq
    <3> QED
      BY <1>0, <1>4, <3>1, KeepsGuards DEF Collect
  <2>2. CASE /\ Goes(h, "reload")
             /\ req' = [g \in Handler |->
                  IF g = h THEN [req[g] EXCEPT !.at = 1]
                  ELSE [req[g] EXCEPT !.crossed = @ \/ pc[g] # "idle"]]
    <3>1. OthersStay(h) /\ pc'[h] = "reload" /\ req'[h].kind = kind
      BY <2>2 DEF AdmissionInv, HandlersTyped, Goes, OthersStay, NoReq
    <3> QED
      BY <1>0, <1>4, <3>1, KeepsGuards DEF Collect
  <2> QED
    BY <1>4, <2>1, <2>2 DEF Collect
<1>5. CASE Reload(h)
  <2>1. CASE UNCHANGED pc /\ req' = [req EXCEPT ![h].at = @ + 1]
    <3>1. OthersStay(h) /\ pc'[h] = pc[h] /\ req'[h].kind = kind
      BY <2>1 DEF AdmissionInv, HandlersTyped, OthersStay, NoReq
    <3> QED
      BY <1>0, <1>5, <3>1, KeepsGuards DEF Reload
  <2>2. CASE Goes(h, "context") /\ Keeps
    BY <1>0, <1>5, <2>2, MoveInv DEF Reload
  <2>3. CASE Done(h)
    BY <1>0, <1>5, <2>3, EndInv DEF Reload
  <2> QED
    BY <1>5, <2>1, <2>2, <2>3 DEF Reload, lockVars
<1>6. CASE Context(h)
  BY <1>0, <1>6, MoveInv DEF Context
<1>7. CASE SwapEngine(h)
  BY <1>0, <1>7, MoveInv DEF SwapEngine
<1>8. CASE SwapBatch(h)
  BY <1>0, <1>8, MoveInv DEF SwapBatch
<1>9. CASE SwapTokenizer(h)
  BY <1>0, <1>9, MoveInv DEF SwapTokenizer
<1>10. CASE SwapName(h)
  BY <1>0, <1>10, MoveInv DEF SwapName
<1>11. CASE DropTable(h)
  BY <1>0, <1>11, MoveInv DEF DropTable
<1>12. CASE SwapMeta(h)
  BY <1>0, <1>12, MoveInv DEF SwapMeta
<1>13. CASE ForgetContext(h)
  <2>1. CASE Goes(h, "remember")
    BY <1>0, <1>13, <2>1, MoveInv DEF ForgetContext
  <2>2. CASE Goes(h, "answer")
    BY <1>0, <1>13, <2>2, MoveInv DEF ForgetContext
  <2> QED
    BY <1>13, <2>1, <2>2 DEF ForgetContext
<1> QED
  BY <1>1, <1>2, <1>3, <1>4, <1>5, <1>6, <1>7, <1>8, <1>9, <1>10, <1>11, <1>12, <1>13

-----------------------------------------------------------------------------
LEMMA AdmissionInit == RestInit => AdmissionInv
<1> SUFFICES ASSUME RestInit PROVE AdmissionInv
  OBVIOUS
<1>1. HandlersTyped /\ \A h \in Handler : pc[h] = "idle" /\ req[h].kind = "none"
  BY DEF RestInit, HandlersTyped, NoReq
<1>2. \A h \in Handler :
        FitsAt(pc[h], req[h].kind) /\ ~GuardedAt(pc[h], req[h].kind)
  BY <1>1 DEF FitsAt, GuardedAt, Prepared, Decoding, Selecting, Storing
<1>3. guards = {} /\ Guarded = {} /\ Admitted = {} /\ active = 0
  BY <1>2 DEF RestInit, Guarded, Admitted
<1> QED
  BY <1>1, <1>2, <1>3, FS_EmptySet, RestAssumption DEF AdmissionInv

LEMMA AdmissionStep == AdmissionInv /\ [RestNext]_restVars => AdmissionInv'
<1> SUFFICES ASSUME AdmissionInv, [RestNext]_restVars PROVE AdmissionInv'
  OBVIOUS
<1>1. CASE RestNext
  BY <1>1, ArriveInv, FetchAddInv, PreparingInv, ServingInv, UncountedInv DEF RestNext
<1>2. CASE UNCHANGED restVars
  BY <1>2
  DEF restVars, AdmissionInv, HandlersTyped, Guarded, Admitted
<1> QED
  BY <1>1, <1>2

LEMMA AdmissionInvIsExact == AdmissionInv => AdmissionExact
BY DEF AdmissionInv, AdmissionExact, FitsAt, Guarded, GuardedAt, Decoding

\* The counter of requests is the number of guards, never more than max_concurrent
\* requests are past admission, and none decodes on a slot or the resident engine
\* without its guard (admit and the drop of ActiveGuard), however refusals, late
\* rejections, streams and selections of a model interleave.
THEOREM AdmissionIsExact == RestSpec => []AdmissionExact
<1>1. RestInit => AdmissionInv
  BY AdmissionInit
<1>2. AdmissionInv /\ [RestNext]_restVars => AdmissionInv'
  BY AdmissionStep
<1>3. AdmissionInv => AdmissionExact
  BY AdmissionInvIsExact
<1> QED
  BY <1>1, <1>2, <1>3, PTL DEF RestSpec

-----------------------------------------------------------------------------
(***************************************************************************)
(* No handlers wait for one another in a circle.  The order in which locks *)
(* are taken is: a slot (a selection: the slots, the first one first) or   *)
(* the engine, then the memory, then the tokenizer.                        *)
(***************************************************************************)
\* Where a handler may hold a slot, the engine, the memory.
HoldsSlot   == {"generate", "capture", "answer", "reload"}
HoldsEngine == {"generate", "answer"}
HoldsMemory == {"tokenize", "borrow", "answer"}
Holding     == HoldsSlot \cup HoldsMemory \cup {"collect", "store"}

\* The locks and the slot a handler is at are what they seem.
LocksTyped ==
  /\ owner \in [Slots -> Handler \cup {Nobody}]
  /\ engineOwner \in Handler \cup {Nobody} /\ memoryOwner \in Handler \cup {Nobody}
  /\ turn \in Nat
  /\ \A h \in Handler : req[h].at \in Slots

\* A selection that collects the slots holds those before the one it is at.
SlotsHeld ==
  \A h \in Handler, i \in Slots :
    /\ owner[i] = h => pc[h] \in HoldsSlot \/ (pc[h] = "collect" /\ i < req[h].at)
    /\ pc[h] = "collect" /\ i < req[h].at => owner[i] = h

OthersHeld ==
  \A h \in Handler :
    /\ engineOwner = h => pc[h] \in HoldsEngine
    /\ memoryOwner = h => pc[h] \in HoldsMemory
    /\ h \in building <=> pc[h] = "store"

LockInv == HandlersTyped /\ LocksTyped /\ SlotsHeld /\ OthersHeld /\ building \subseteq Handler

\* A slot's holder waits for nobody but the memory, the tokenizer or a later slot; the
\* memory's for nobody but the tokenizer; and the tokenizer's readers for nobody.
LEMMA LockOrder == LockInv => NoLockCycle
<1> SUFFICES ASSUME LockInv, NEW S \in (SUBSET Handler) \ {{}},
                    \A h \in S : WaitsFor(h) \cap S # {}
             PROVE  FALSE
  BY DEF NoLockCycle
<1>0. Nobody \notin S /\ S \subseteq Handler
  BY RestAssumption
<1>1. \A h \in S : pc[h] \in {"park", "collect", "context", "engine", "swapEngine", "capture",
                              "remember", "forget", "swapTokenizer", "encode", "build",
                              "generate", "tokenize"}
  BY DEF WaitsFor, At
<1>2. \A h \in S : pc[h] # "swapTokenizer"
  <2> SUFFICES ASSUME NEW h \in S, pc[h] = "swapTokenizer" PROVE FALSE
    OBVIOUS
  <2>1. WaitsFor(h) = building
    BY DEF WaitsFor, At
  <2>2. PICK g \in S : g \in building
    BY <2>1
  <2>3. pc[g] = "store"
    BY <1>0, <2>2 DEF LockInv, OthersHeld
  <2> QED
    BY <1>1, <2>3
<1>3. \A h \in S : pc[h] \notin {"encode", "build", "generate", "tokenize"}
  <2> SUFFICES ASSUME NEW h \in S, pc[h] \in {"encode", "build", "generate", "tokenize"}
               PROVE  FALSE
    OBVIOUS
  <2>1. WaitsFor(h) = TokenizerWaits
    BY DEF WaitsFor, At
  <2> QED
    BY <1>2, <2>1 DEF TokenizerWaits, At
<1>4. \A h \in S : pc[h] \notin {"capture", "remember", "forget"}
  <2> SUFFICES ASSUME NEW h \in S, pc[h] \in {"capture", "remember", "forget"}
               PROVE  FALSE
    OBVIOUS
  <2>1. WaitsFor(h) = Holder(memoryOwner)
    BY DEF WaitsFor, At
  <2>2. memoryOwner \in S
    BY <2>1 DEF Holder
  <2>3. pc[memoryOwner] \in HoldsMemory
    BY <1>0, <2>2 DEF LockInv, OthersHeld
  <2> QED
    BY <1>1, <1>3, <2>2, <2>3 DEF HoldsMemory
<1>5. \A h \in S : pc[h] \notin {"engine", "swapEngine"}
  <2> SUFFICES ASSUME NEW h \in S, pc[h] \in {"engine", "swapEngine"} PROVE FALSE
    OBVIOUS
  <2>1. engineOwner \in S
    BY DEF WaitsFor, At, Holder
  <2>2. pc[engineOwner] \in HoldsEngine
    BY <1>0, <2>1 DEF LockInv, OthersHeld
  <2> QED
    BY <1>1, <1>3, <2>1, <2>2 DEF HoldsEngine
<1>6. \A h \in S : \A i \in Slots : Holder(owner[i]) \cap S # {} =>
                     owner[i] \in S /\ pc[owner[i]] = "collect" /\ i < req[owner[i]].at
  BY <1>0, <1>1, <1>3, <1>4 DEF LockInv, SlotsHeld, HoldsSlot, Holder
<1>7. 1 \in Slots
  BY RestAssumption DEF Slots
<1>8. \A h \in S : pc[h] = "collect" => req[h].at = 1
  <2> SUFFICES ASSUME NEW h \in S, pc[h] = "collect", req[h].at # 1 PROVE FALSE
    OBVIOUS
  <2>1. req[h].at \in Slots /\ 1 < req[h].at
    BY <1>0, RestAssumption DEF LockInv, LocksTyped, Slots
  <2>2. WaitsFor(h) = Holder(owner[req[h].at])
    BY DEF WaitsFor, At
  <2> DEFINE g == owner[req[h].at]
  <2>3. g \in S /\ pc[g] = "collect" /\ req[h].at < req[g].at
    BY <1>6, <2>1, <2>2
  <2>4. req[g].at \in Slots /\ 1 < req[g].at
    BY <1>0, <2>1, <2>3 DEF LockInv, LocksTyped, Slots
  <2>5. owner[1] = h /\ owner[1] = g
    BY <1>0, <1>7, <2>1, <2>3, <2>4 DEF LockInv, SlotsHeld
  <2>6. req[h].at < req[h].at
    BY <2>3, <2>5
  <2> QED
    BY <2>1, <2>6 DEF Slots
<1>9. \A h \in S : pc[h] \notin {"park", "collect", "context"}
  <2> SUFFICES ASSUME NEW h \in S, pc[h] \in {"park", "collect", "context"} PROVE FALSE
    OBVIOUS
  <2>1. PICK i \in Slots : WaitsFor(h) = Holder(owner[i])
    <3>1. CASE pc[h] = "context"
      BY <1>7, <3>1 DEF WaitsFor, At
    <3>2. CASE pc[h] \in {"park", "collect"}
      <4>1. WaitsFor(h) = Holder(owner[req[h].at])
        BY <3>2 DEF WaitsFor, At
      <4> QED
        BY <1>0, <4>1 DEF LockInv, LocksTyped
    <3> QED
      BY <3>1, <3>2
  <2>2. owner[i] \in S /\ pc[owner[i]] = "collect" /\ i < req[owner[i]].at
    BY <1>6, <2>1
  <2>3. req[owner[i]].at = 1
    BY <1>8, <2>2
  <2> QED
    BY <2>2, <2>3, RestAssumption DEF Slots
<1> QED
  BY <1>1, <1>2, <1>3, <1>4, <1>5, <1>9

\* A step of h: the others stay where they are, at the slot they are at.
Alone(h) ==
  /\ HandlersTyped'
  /\ \A g \in Handler \ {h} : pc'[g] = pc[g] /\ req'[g].at = req[g].at

LEMMA MovesAlone ==
  ASSUME HandlersTyped, NEW h \in Handler, NEW place, Goes(h, place),
         Keeps \/ \E m : Hand(h, m)
  PROVE  Alone(h) /\ pc'[h] = place /\ req'[h].at = req[h].at
  BY DEF HandlersTyped, Goes, Keeps, Hand, Alone, NoReq

LEMMA DoneAlone ==
  ASSUME HandlersTyped, NEW h \in Handler, Done(h)
  PROVE  Alone(h) /\ pc'[h] = "idle" /\ req'[h].at \in Slots
<1>1. 1 \in Slots
  BY RestAssumption DEF Slots
<1> QED
  BY <1>1 DEF HandlersTyped, Done, Goes, Alone, NoReq

\* A handler that holds nothing goes on without a lock.
LEMMA FreeStep ==
  ASSUME LockInv, NEW h \in Handler, Alone(h), NoLock, req'[h].at \in Slots,
         pc[h] \notin Holding, pc'[h] # "store",
         pc'[h] = "collect" => req'[h].at = 1
  PROVE  LockInv'
<1>1. LocksTyped' /\ building' \subseteq Handler
  BY DEF LockInv, LocksTyped, Alone, NoLock, lockVars
<1>2. ASSUME NEW g \in Handler, NEW i \in Slots
      PROVE  /\ owner'[i] = g => pc'[g] \in HoldsSlot \/ (pc'[g] = "collect" /\ i < req'[g].at)
             /\ pc'[g] = "collect" /\ i < req'[g].at => owner'[i] = g
  <2>1. CASE g = h
    <3>1. owner[i] # h
      BY DEF LockInv, SlotsHeld, Holding
    <3>2. ~(i < 1)
      BY RestAssumption DEF Slots
    <3> QED
      BY <2>1, <3>1, <3>2 DEF NoLock, lockVars
  <2>2. CASE g # h
    BY <2>2 DEF LockInv, SlotsHeld, Alone, NoLock, lockVars
  <2> QED
    BY <2>1, <2>2
<1>3. SlotsHeld'
  BY <1>2 DEF SlotsHeld
<1>4. OthersHeld'
  BY DEF LockInv, OthersHeld, Alone, NoLock, lockVars, Holding, HoldsSlot, HoldsEngine, HoldsMemory
<1> QED
  BY <1>1, <1>3, <1>4 DEF LockInv, Alone

LEMMA FreeMove ==
  ASSUME LockInv, NEW h \in Handler, NEW place, Goes(h, place),
         Keeps \/ \E m : Hand(h, m), NoLock,
         pc[h] \notin Holding, place \notin {"store", "collect"}
  PROVE  LockInv'
<1>1. Alone(h) /\ pc'[h] = place /\ req'[h].at \in Slots
  BY MovesAlone DEF LockInv, LocksTyped
<1> QED
  BY <1>1, FreeStep

LEMMA FreeEnd ==
  ASSUME LockInv, NEW h \in Handler, Done(h), NoLock, pc[h] \notin Holding
  PROVE  LockInv'
<1>1. Alone(h) /\ pc'[h] = "idle" /\ req'[h].at \in Slots
  BY DoneAlone DEF LockInv
<1> QED
  BY <1>1, FreeStep

\* The steps between locks.
LEMMA FreeSteps ==
  ASSUME LockInv, NEW h \in Handler,
         \/ Encode(h) \/ Measure(h) \/ FetchAdd(h) \/ Refuse(h) \/ Validate(h)
         \/ ReadTable(h) \/ TakeLane(h) \/ BatchEnd(h)
         \/ SubmitBatched(h) \/ NameReply(h) \/ RespondText(h)
         \/ Context(h) \/ SwapEngine(h) \/ SwapBatch(h) \/ SwapTokenizer(h) \/ SwapName(h)
         \/ DropTable(h) \/ SwapMeta(h) \/ ForgetContext(h)
  PROVE  LockInv'
<1> USE DEF Holding, HoldsSlot, HoldsMemory, At
<1>1. pc[h] \notin Holding /\ NoLock
  BY DEF Encode, Measure, FetchAdd, Refuse, Validate, ReadTable, TakeLane, BatchEnd,
         SubmitBatched, NameReply, RespondText, Context, SwapEngine, SwapBatch,
         SwapTokenizer, SwapName, DropTable, SwapMeta, ForgetContext
<1>2. CASE Done(h)
  BY <1>1, <1>2, FreeEnd
<1>3. CASE /\ Keeps \/ \E m : Hand(h, m)
           /\ \E place : place \notin {"store", "collect"} /\ Goes(h, place)
  BY <1>1, <1>3, FreeMove
<1>4. CASE Encode(h) \/ Measure(h) \/ FetchAdd(h) \/ Refuse(h) \/ Validate(h)
  BY <1>2, <1>3, <1>4 DEF Encode, Measure, FetchAdd, Refuse, Validate
<1>5. CASE ReadTable(h) \/ TakeLane(h) \/ BatchEnd(h)
  BY <1>2, <1>3, <1>5 DEF ReadTable, TakeLane, BatchEnd
<1>6. CASE SubmitBatched(h) \/ NameReply(h) \/ RespondText(h)
  BY <1>2, <1>3, <1>6 DEF SubmitBatched, NameReply, RespondText
<1>7. CASE Context(h) \/ SwapEngine(h) \/ SwapBatch(h) \/ SwapTokenizer(h) \/ SwapName(h)
  BY <1>2, <1>3, <1>7 DEF Context, SwapEngine, SwapBatch, SwapTokenizer, SwapName
<1>8. CASE DropTable(h) \/ SwapMeta(h) \/ ForgetContext(h)
  BY <1>2, <1>3, <1>8 DEF DropTable, SwapMeta, ForgetContext
<1> QED
  BY <1>4, <1>5, <1>6, <1>7, <1>8

\* What h holds fits where it is.
FitsHeld(h) ==
  /\ \A i \in Slots :
       /\ owner[i] = h => pc[h] \in HoldsSlot \/ (pc[h] = "collect" /\ i < req[h].at)
       /\ pc[h] = "collect" /\ i < req[h].at => owner[i] = h
  /\ engineOwner = h => pc[h] \in HoldsEngine
  /\ memoryOwner = h => pc[h] \in HoldsMemory
  /\ h \in building <=> pc[h] = "store"

\* The others hold what they held.
OthersHold(h) ==
  \A g \in Handler \ {h} :
    /\ \A i \in Slots : owner'[i] = g <=> owner[i] = g
    /\ engineOwner' = g <=> engineOwner = g
    /\ memoryOwner' = g <=> memoryOwner = g
    /\ g \in building' <=> g \in building

\* A step that takes or leaves locks is about its own handler.
LEMMA OwnLocks ==
  ASSUME LockInv, NEW h \in Handler, Alone(h), OthersHold(h),
         LocksTyped', building' \subseteq Handler, FitsHeld(h)'
  PROVE  LockInv'
<1>1. ASSUME NEW g \in Handler
      PROVE  FitsHeld(g)'
  <2>1. CASE g = h
    BY <2>1
  <2>2. CASE g # h
    BY <2>2 DEF LockInv, SlotsHeld, OthersHeld, FitsHeld, Alone, OthersHold
  <2> QED
    BY <2>1, <2>2
<1>2. SlotsHeld' /\ OthersHeld'
  BY <1>1 DEF SlotsHeld, OthersHeld, FitsHeld
<1> QED
  BY <1>2 DEF LockInv, Alone

\* What the steps that take or leave a lock have to show, once the slot stays.
LEMMA LocksStayTyped ==
  ASSUME LockInv, NEW h \in Handler, Alone(h), req'[h].at \in Slots
  PROVE  \A g \in Handler : req'[g].at \in Slots
  BY DEF LockInv, LocksTyped, Alone

\* The steps that build the grammar table.
LEMMA TableSteps ==
  ASSUME LockInv, NEW h \in Handler, Build(h) \/ StoreTable(h)
  PROVE  LockInv'
<1>1. ASSUME NEW place, Goes(h, place), place \in {"store", "lane"},
             pc[h] \in {"build", "store"},
             Keeps \/ \E m : Hand(h, m),
             building' = (IF place = "store" THEN building \cup {h} ELSE building \ {h}),
             UNCHANGED <<owner, engineOwner, memoryOwner, turn>>
      PROVE  LockInv'
  <2>1. Alone(h) /\ pc'[h] = place /\ req'[h].at \in Slots
    BY <1>1, MovesAlone DEF LockInv, LocksTyped
  <2>2. LocksTyped'
    BY <1>1, <2>1, LocksStayTyped DEF LockInv, LocksTyped
  <2>3. OthersHold(h) /\ building' \subseteq Handler
    BY <1>1 DEF OthersHold, LockInv
  <2>4. FitsHeld(h)'
    BY <1>1, <2>1
    DEF LockInv, SlotsHeld, OthersHeld, FitsHeld, HoldsSlot, HoldsEngine, HoldsMemory
  <2> QED
    BY <2>1, <2>2, <2>3, <2>4, OwnLocks
<1> QED
  BY <1>1 DEF Build, StoreTable, At

\* A slot is taken.
LEMMA SlotTaken ==
  ASSUME LockInv, NEW h \in Handler, NEW place, NEW i \in Slots,
         owner[i] = Nobody, owner' = [owner EXCEPT ![i] = h],
         UNCHANGED <<engineOwner, memoryOwner, building, turn>>,
         Goes(h, place), Keeps \/ \E m : Hand(h, m),
         \/ pc[h] \in {"probe", "park"} /\ place = "generate"
         \/ pc[h] = "borrow" /\ place = "answer"
  PROVE  LockInv'
<1>1. Alone(h) /\ pc'[h] = place /\ req'[h].at \in Slots
  BY MovesAlone DEF LockInv, LocksTyped
<1>2. LocksTyped'
  BY <1>1, LocksStayTyped DEF LockInv, LocksTyped
<1>3. OthersHold(h) /\ building' \subseteq Handler
  BY RestAssumption DEF OthersHold, LockInv, LocksTyped
<1>4. FitsHeld(h)'
  BY <1>1 DEF LockInv, LocksTyped, OthersHeld, FitsHeld, HoldsSlot, HoldsEngine, HoldsMemory
<1> QED
  BY <1>1, <1>2, <1>3, <1>4, OwnLocks

LEMMA RemainderType == \A a \in Nat, b \in Nat \ {0} : a % b \in 0..(b - 1)
OBVIOUS

\* acquire_slot looks, takes or waits.
LEMMA AcquireSteps ==
  ASSUME LockInv, NEW h \in Handler, Probe(h) \/ Park(h)
  PROVE  LockInv'
<1> DEFINE i == req[h].at
<1>0. i \in Slots /\ turn \in Nat
  BY DEF LockInv, LocksTyped
<1>1. CASE Probe(h) /\ owner[i] = Nobody
  BY <1>0, <1>1, SlotTaken DEF Probe, At
<1>2. CASE Probe(h) /\ owner[i] # Nobody
  <2>1. PICK j \in Slots, t \in Nat :
          /\ req' = [req EXCEPT ![h].at = j] /\ turn' = t
          /\ UNCHANGED <<owner, engineOwner, memoryOwner, building>>
          /\ UNCHANGED pc \/ Goes(h, "park")
    <3>1. CASE i < PoolSize
      BY <1>0, <1>2, <3>1, RestAssumption DEF Probe, Slots
    <3>2. CASE i >= PoolSize
      <4>1. (turn % PoolSize) + 1 \in Slots /\ (turn + 1) % PoolSize \in Nat
        BY <1>0, RestAssumption, RemainderType DEF Slots
      <4> QED
        BY <1>0, <1>2, <3>2, <4>1, RestAssumption DEF Probe, Slots
    <3> QED
      BY <1>0, <3>1, <3>2, RestAssumption DEF Slots
  <2>2. Alone(h) /\ req'[h].at \in Slots /\ pc'[h] \in {pc[h], "park"} /\ pc[h] = "probe"
    BY <1>2, <2>1 DEF LockInv, HandlersTyped, Alone, Goes, NoReq, Probe, At
  <2>3. LocksTyped' /\ OthersHold(h) /\ building' \subseteq Handler
    BY <2>1, <2>2, LocksStayTyped DEF LockInv, LocksTyped, OthersHold
  <2>4. FitsHeld(h)'
    BY <2>1, <2>2
    DEF LockInv, SlotsHeld, OthersHeld, FitsHeld, HoldsSlot, HoldsEngine, HoldsMemory
  <2> QED
    BY <2>2, <2>3, <2>4, OwnLocks
<1>3. CASE Park(h)
  BY <1>0, <1>3, SlotTaken DEF Park, At
<1> QED
  BY <1>1, <1>2, <1>3

\* A handler goes on with the locks it has, to a place where it may hold them.
LEMMA MoveHolding ==
  ASSUME LockInv, NEW h \in Handler, NEW place, Goes(h, place),
         Keeps \/ \E m : Hand(h, m), NoLock,
         pc[h] \notin {"collect", "store"}, place \notin {"collect", "store"},
         pc[h] \in HoldsSlot => place \in HoldsSlot,
         engineOwner = h => place \in HoldsEngine,
         pc[h] \in HoldsMemory => place \in HoldsMemory
  PROVE  LockInv'
<1>1. Alone(h) /\ pc'[h] = place /\ req'[h].at \in Slots
  BY MovesAlone DEF LockInv, LocksTyped
<1>2. LocksTyped' /\ OthersHold(h) /\ building' \subseteq Handler
  BY <1>1, LocksStayTyped DEF LockInv, LocksTyped, OthersHold, NoLock, lockVars
<1>3. FitsHeld(h)'
  BY <1>1 DEF LockInv, SlotsHeld, OthersHeld, FitsHeld, NoLock, lockVars
<1> QED
  BY <1>1, <1>2, <1>3, OwnLocks

\* The engine, then the memory, is taken by who holds nothing.
LEMMA OwnerTaken ==
  ASSUME LockInv, NEW h \in Handler, NEW place, Goes(h, place),
         Keeps \/ \E m : Hand(h, m), UNCHANGED <<owner, building, turn>>,
         \/ /\ engineOwner = Nobody /\ engineOwner' = h /\ UNCHANGED memoryOwner
            /\ pc[h] = "engine" /\ place = "generate"
         \/ /\ memoryOwner = Nobody /\ memoryOwner' = h /\ UNCHANGED engineOwner
            /\ pc[h] = "remember" /\ place = "tokenize"
  PROVE  LockInv'
<1> USE DEF HoldsSlot, HoldsEngine, HoldsMemory
<1>1. Alone(h) /\ pc'[h] = place /\ req'[h].at \in Slots
  BY MovesAlone DEF LockInv, LocksTyped
<1>2. LocksTyped' /\ building' \subseteq Handler
  BY <1>1, LocksStayTyped DEF LockInv, LocksTyped
<1>3. OthersHold(h)
  BY RestAssumption DEF OthersHold
<1>4. FitsHeld(h)'
  BY <1>1 DEF LockInv, SlotsHeld, OthersHeld, FitsHeld
<1> QED
  BY <1>1, <1>2, <1>3, <1>4, OwnLocks

\* Everything is left at the end of a reply.
LEMMA AllReleased ==
  ASSUME LockInv, NEW h \in Handler, Released(h), Alone(h), req'[h].at \in Slots,
         pc[h] # "store", pc'[h] \notin {"collect", "store"}
  PROVE  LockInv'
<1>1. Nobody \notin Handler
  BY RestAssumption
<1>2. LocksTyped' /\ building' \subseteq Handler
  BY LocksStayTyped DEF LockInv, LocksTyped, Released
<1>3. OthersHold(h)
  BY <1>1 DEF OthersHold, Released, LockInv, LocksTyped
<1>4. FitsHeld(h)'
  BY <1>1 DEF LockInv, LocksTyped, OthersHeld, FitsHeld, Released
<1> QED
  BY <1>2, <1>3, <1>4, OwnLocks

\* The steps of a reply, and of a goal.
LEMMA ReplySteps ==
  ASSUME LockInv, NEW h \in Handler,
         \/ TakeEngine(h) \/ Generate(h) \/ CaptureHidden(h) \/ Answer(h)
         \/ Remember(h) \/ Tokenize(h) \/ Borrow(h)
  PROVE  LockInv'
<1> USE DEF At, HoldsSlot, HoldsEngine, HoldsMemory
<1>1. CASE TakeEngine(h)
  <2>1. CASE engine = NoModel
    BY <1>1, <2>1, MoveHolding DEF TakeEngine, LockInv, OthersHeld, NoLock, lockVars
  <2>2. CASE engine # NoModel
    BY <1>1, <2>2, OwnerTaken DEF TakeEngine
  <2> QED
    BY <2>1, <2>2
<1>2. CASE Generate(h)
  <2>1. CASE req[h].kind = "embed" \/ engineOwner = h
    <3>1. Goes(h, "answer")
      BY <1>2, <2>1 DEF Generate
    <3> QED
      BY <1>2, <3>1, MoveHolding DEF Generate
  <2>2. CASE ~(req[h].kind = "embed" \/ engineOwner = h)
    <3>1. Goes(h, "capture")
      BY <1>2, <2>2 DEF Generate
    <3> QED
      BY <1>2, <2>2, <3>1, MoveHolding DEF Generate
  <2> QED
    BY <2>1, <2>2
<1>3. CASE CaptureHidden(h)
  BY <1>3, MoveHolding DEF CaptureHidden
<1>4. CASE Answer(h)
  <2>1. CASE Goes(h, "name") /\ Keeps
    <3>1. Alone(h) /\ pc'[h] = "name" /\ req'[h].at \in Slots
      BY <2>1, MovesAlone DEF LockInv, LocksTyped
    <3> QED
      BY <1>4, <3>1, AllReleased DEF Answer
  <2>2. CASE Done(h)
    <3>1. Alone(h) /\ pc'[h] = "idle" /\ req'[h].at \in Slots
      BY <2>2, DoneAlone DEF LockInv
    <3> QED
      BY <1>4, <3>1, AllReleased DEF Answer
  <2> QED
    BY <1>4, <2>1, <2>2 DEF Answer
<1>5. CASE Remember(h)
  BY <1>5, OwnerTaken DEF Remember
<1>6. CASE Tokenize(h)
  BY <1>6, MoveHolding DEF Tokenize, LockInv, OthersHeld
<1>7. CASE Borrow(h)
  <2>1. CASE UNCHANGED owner
    BY <1>7, <2>1, MoveHolding DEF Borrow, LockInv, OthersHeld, NoLock, lockVars
  <2>2. CASE \E i \in Slots : owner[i] = Nobody /\ owner' = [owner EXCEPT ![i] = h]
    <3>1. PICK i \in Slots : owner[i] = Nobody /\ owner' = [owner EXCEPT ![i] = h]
      BY <2>2
    <3> QED
      BY <1>7, <3>1, SlotTaken DEF Borrow
  <2> QED
    BY <1>7, <2>1, <2>2 DEF Borrow
<1> QED
  BY <1>1, <1>2, <1>3, <1>4, <1>5, <1>6, <1>7

\* A request comes at the first slot, and holds nothing.
LEMMA ArriveLock ==
  ASSUME LockInv, NEW h \in Handler, Arrive(h)
  PROVE  LockInv'
<1>1. PICK kind \in Kinds :
        /\ \E new : new.at = 1 /\ DOMAIN new = DOMAIN NoReq /\ req' = [req EXCEPT ![h] = new]
        /\ Goes(h, FirstPlace(kind))
  <2>1. PICK kind \in Kinds, grammar \in BOOLEAN, m \in Model :
          /\ req' = [req EXCEPT ![h] =
               [NoReq EXCEPT !.kind = kind, !.grammar = grammar,
                             !.crossed = Swapping # {},
                             !.target = IF kind = "select" THEN m ELSE NoModel,
                             !.hands = IF kind \in {"chat", "stream"} THEN {m} ELSE {}]]
          /\ Goes(h, FirstPlace(kind))
    BY DEF Arrive
  <2> DEFINE new ==
               [NoReq EXCEPT !.kind = kind, !.grammar = grammar,
                             !.crossed = Swapping # {},
                             !.target = IF kind = "select" THEN m ELSE NoModel,
                             !.hands = IF kind \in {"chat", "stream"} THEN {m} ELSE {}]
  <2>2. new.at = 1 /\ DOMAIN new = DOMAIN NoReq
    BY DEF NoReq
  <2>3. req' = [req EXCEPT ![h] = new]
    BY <2>1
  <2> QED
    BY <2>1, <2>2, <2>3
<1>2. 1 \in Slots
  BY RestAssumption DEF Slots
<1>3. Alone(h) /\ req'[h].at = 1 /\ pc'[h] = FirstPlace(kind)
  BY <1>1 DEF LockInv, HandlersTyped, Alone, Goes
<1>4. FirstPlace(kind) # "store"
  BY RestAssumption DEF FirstPlace, Generation
<1> QED
  BY <1>2, <1>3, <1>4, FreeStep
  DEF Arrive, At, Holding, HoldsSlot, HoldsMemory

\* A selection takes the slots in order ...
LEMMA CollectLock ==
  ASSUME LockInv, NEW h \in Handler, Collect(h)
  PROVE  LockInv'
<1> DEFINE i == req[h].at
<1>0. i \in Slots /\ 1 \in Slots
  BY RestAssumption DEF LockInv, LocksTyped, Slots
<1>1. /\ pc[h] = "collect" /\ owner[i] = Nobody /\ owner' = [owner EXCEPT ![i] = h]
      /\ UNCHANGED <<engineOwner, memoryOwner, building, turn>>
  BY DEF Collect, At
<1>2. /\ Alone(h)
      /\ \/ pc'[h] = "collect" /\ req'[h].at = i + 1 /\ i + 1 \in Slots
         \/ pc'[h] = "reload" /\ req'[h].at = 1
  <2>1. CASE i < PoolSize
    <3>1. req' = [req EXCEPT ![h].at = i + 1] /\ UNCHANGED pc
      BY <2>1 DEF Collect
    <3>2. i + 1 \in Slots
      BY <1>0, <2>1, RestAssumption DEF Slots
    <3>3. Alone(h)
      BY <3>1 DEF LockInv, HandlersTyped, Alone, NoReq
    <3>4. pc'[h] = "collect" /\ req'[h].at = i + 1
      BY <1>1, <3>1 DEF LockInv, HandlersTyped, NoReq
    <3> QED
      BY <3>2, <3>3, <3>4
  <2>2. CASE ~(i < PoolSize)
    BY <1>0, <1>1, <2>2 DEF Collect, LockInv, HandlersTyped, Alone, Goes, NoReq
  <2> QED
    BY <2>1, <2>2
<1>3. LocksTyped' /\ building' \subseteq Handler
  BY <1>0, <1>1, <1>2, LocksStayTyped DEF LockInv, LocksTyped
<1>4. OthersHold(h)
  BY <1>0, <1>1, RestAssumption DEF OthersHold, LockInv, LocksTyped
<1>5. engineOwner # h /\ memoryOwner # h /\ h \notin building
  BY <1>1 DEF LockInv, OthersHeld, HoldsEngine, HoldsMemory
<1>6. ASSUME NEW j \in Slots
      PROVE  /\ owner'[j] = h => pc'[h] \in HoldsSlot \/ (pc'[h] = "collect" /\ j < req'[h].at)
             /\ pc'[h] = "collect" /\ j < req'[h].at => owner'[j] = h
  <2>1. CASE pc'[h] = "reload"
    BY <2>1 DEF HoldsSlot
  <2>2. CASE pc'[h] = "collect" /\ req'[h].at = i + 1
    <3>1. owner'[j] = h <=> owner[j] = h \/ j = i
      BY <1>0, <1>1 DEF LockInv, LocksTyped
    <3>2. owner[j] = h <=> j < i
      BY <1>1 DEF LockInv, SlotsHeld, HoldsSlot
    <3>3. j < i + 1 <=> j < i \/ j = i
      BY <1>0, RestAssumption DEF Slots
    <3> QED
      BY <2>2, <3>1, <3>2, <3>3
  <2> QED
    BY <1>2, <2>1, <2>2
<1>7. FitsHeld(h)'
  BY <1>1, <1>2, <1>5, <1>6 DEF FitsHeld
<1> QED
  BY <1>0, <1>2, <1>3, <1>4, <1>7, OwnLocks

\* ... and leaves them together.
LEMMA ReloadLock ==
  ASSUME LockInv, NEW h \in Handler, Reload(h)
  PROVE  LockInv'
<1>0. pc[h] = "reload" /\ req[h].at \in Slots
  BY DEF LockInv, LocksTyped, Reload, At
<1>1. CASE /\ req[h].at < PoolSize /\ req' = [req EXCEPT ![h].at = @ + 1]
           /\ UNCHANGED <<lockVars, pc>>
  <2>1. Alone(h) /\ pc'[h] = "reload" /\ req'[h].at \in Slots
    BY <1>0, <1>1, RestAssumption DEF LockInv, LocksTyped, HandlersTyped, Alone, Slots, NoReq
  <2>2. LocksTyped' /\ OthersHold(h) /\ building' \subseteq Handler
    BY <1>1, <2>1, LocksStayTyped DEF LockInv, LocksTyped, OthersHold, lockVars
  <2>3. FitsHeld(h)'
    BY <1>0, <1>1, <2>1
    DEF LockInv, OthersHeld, FitsHeld, lockVars, HoldsSlot, HoldsEngine, HoldsMemory
  <2> QED
    BY <2>1, <2>2, <2>3, OwnLocks
<1>2. CASE Keeps /\ Released(h) /\ Goes(h, "context")
  <2>1. Alone(h) /\ pc'[h] = "context" /\ req'[h].at \in Slots
    BY <1>0, <1>2, MovesAlone DEF LockInv
  <2> QED
    BY <1>0, <1>2, <2>1, AllReleased
<1>3. CASE Done(h) /\ Released(h)
  <2>1. Alone(h) /\ pc'[h] = "idle" /\ req'[h].at \in Slots
    BY <1>3, DoneAlone DEF LockInv
  <2> QED
    BY <1>0, <1>3, <2>1, AllReleased
<1> QED
  BY <1>1, <1>2, <1>3 DEF Reload

-----------------------------------------------------------------------------
LEMMA LockInit == RestInit => LockInv
<1> SUFFICES ASSUME RestInit PROVE LockInv
  OBVIOUS
<1>1. 1 \in Slots /\ Nobody \notin Handler
  BY RestAssumption DEF Slots
<1>2. HandlersTyped /\ \A h \in Handler : pc[h] = "idle" /\ req[h].at = 1
  BY DEF RestInit, HandlersTyped, NoReq
<1>3. LocksTyped
  BY <1>1, <1>2 DEF RestInit, LocksTyped
<1>4. SlotsHeld /\ OthersHeld /\ building \subseteq Handler
  BY <1>1, <1>2 DEF RestInit, SlotsHeld, OthersHeld
<1> QED
  BY <1>2, <1>3, <1>4 DEF LockInv

LEMMA LockStep == LockInv /\ [RestNext]_restVars => LockInv'
<1> SUFFICES ASSUME LockInv, [RestNext]_restVars PROVE LockInv'
  OBVIOUS
<1>1. CASE RestNext
  BY <1>1, ArriveLock, FreeSteps, TableSteps, AcquireSteps, ReplySteps, CollectLock, ReloadLock
  DEF RestNext
<1>2. CASE UNCHANGED restVars
  BY <1>2
  DEF restVars, lockVars, LockInv, HandlersTyped, LocksTyped, SlotsHeld, OthersHeld
<1> QED
  BY <1>1, <1>2

\* No set of handlers, however many of them and of slots, waits in a circle: not a
\* request under its slot that captures into the memory, a goal that borrows a slot
\* under the memory, a table built under the tokenizer and selections that lock every
\* slot (acquire_slot, select_model, capture_prefill_to_memory, the encoder of main.rs).
THEOREM NoCircularWait == RestSpec => []NoLockCycle
<1>1. RestInit => LockInv
  BY LockInit
<1>2. LockInv /\ [RestNext]_restVars => LockInv'
  BY LockStep
<1>3. LockInv => NoLockCycle
  BY LockOrder
<1> QED
  BY <1>1, <1>2, <1>3, PTL DEF RestSpec
-----------------------------------------------------------------------------
(***************************************************************************)
(* A request no selection overlaps is served by one model.  A selection    *)
(* that runs alone has, at each of its places, replaced what it is past;   *)
(* when none runs everything is of the model that is served.               *)
(***************************************************************************)
\* The places of a selection that replaces, and those past each replacement.
PastTable     == {"swapMeta"}
PastName      == {"dropTable"} \cup PastTable
PastTokenizer == {"swapName"} \cup PastName
PastBatch     == {"swapTokenizer"} \cup PastTokenizer
PastEngine    == {"swapBatch"} \cup PastBatch
PastContext   == {"swapEngine"} \cup PastEngine
PastReload    == {"context"} \cup PastContext
Replacing     == {"reload"} \cup PastReload

\* What selection h, which runs alone, has replaced so far.
Replaced(h) ==
  LET m == req[h].target IN
  /\ \A i \in Slots : pc[h] \in PastReload \/ i < req[h].at => loaded[i] = m
  /\ pc[h] \in PastContext => window = m
  /\ pc[h] \in PastEngine => engine \in {m, NoModel}
  /\ pc[h] \in PastBatch => batch \in {m, NoModel}
  /\ pc[h] \in PastTokenizer => tokenizer = m
  /\ pc[h] \in PastName => served = m
  /\ pc[h] \in PastTable => table \in {m, NoModel}

\* Everything the server knows of a model is of model m.
AllOf(m) ==
  /\ \A i \in Slots : loaded[i] = m
  /\ window = m /\ tokenizer = m /\ served = m /\ meta = m
  /\ engine \in {m, NoModel} /\ batch \in {m, NoModel} /\ table \in {m, NoModel}

\* A request in service that no selection overlaps.
Uncrossed(h) == pc[h] # "idle" /\ ~req[h].crossed

\* When no selection runs, and when one does.
Settled ==
  /\ AllOf(served)
  /\ \A h \in Handler : Uncrossed(h) => req[h].hands \subseteq {served}
Replacement(h) ==
  /\ Swapping = {h} /\ Replaced(h)
  /\ \A g \in Handler : Uncrossed(g) => req[g].kind = "select"

OneModelInv ==
  /\ DOMAIN loaded = Slots
  /\ \A h \in Handler : req[h].kind = "select" => req[h].hands = {}
  /\ \A h \in Handler : pc[h] \in Selecting => req[h].kind = "select"
  /\ clean => \/ Swapping = {} /\ Settled
              \/ \E h \in Handler : Replacement(h)

\* A step of h: the other handlers stay where they are, with the request they have.
OneMoves(h) ==
  /\ HandlersTyped'
  /\ \A g \in Handler \ {h} : pc'[g] = pc[g] /\ req'[g] = req[g]

\* The places where a selection replaces are those Swapping counts.
LEMMA SwappingReplaces == Swapping = {h \in Handler : pc[h] \in Replacing}
BY DEF Swapping, Replacing, PastReload, PastContext, PastEngine, PastBatch, PastTokenizer,
       PastName, PastTable

\* A selection that replaces while the last one is clean is alone.
LEMMA ReplacesAlone ==
  ASSUME OneModelInv, clean, NEW h \in Handler, pc[h] \in Replacing
  PROVE  Replacement(h)
<1>1. h \in Swapping
  BY SwappingReplaces
<1> QED
  BY <1>1 DEF OneModelInv, Replacement

\* What a step of h outside the replacement may do: end, or go on with the hands it
\* has, or with one more, of the model that is served if all is of one model.
GoesOn(h) ==
  \/ pc'[h] = "idle" /\ req'[h] = NoReq
  \/ /\ pc[h] # "idle" /\ req'[h].kind = req[h].kind /\ req'[h].crossed = req[h].crossed
     /\ \/ req'[h].hands = req[h].hands
        \/ /\ req[h].kind # "select"
           /\ \E m : /\ req'[h].hands = req[h].hands \cup {m}
                     /\ AllOf(served) => m = served

\* ... and to what the server knows of models: a table is built from the tokenizer.
TableOnly ==
  /\ UNCHANGED <<loaded, engine, batch, window, tokenizer, served, meta, clean>>
  /\ table' \in {table, tokenizer}

LEMMA QuietStep ==
  ASSUME OneModelInv, HandlersTyped, NEW h \in Handler, OneMoves(h), GoesOn(h), TableOnly,
         pc[h] \notin Replacing, pc'[h] \notin Replacing,
         pc'[h] \in Selecting => req'[h].kind = "select"
  PROVE  OneModelInv'
<1>1. Swapping' = Swapping
  BY DEF Swapping, OneMoves, Replacing, PastReload, PastContext, PastEngine, PastBatch,
         PastTokenizer, PastName, PastTable
<1>2. \A g \in Handler : req'[g].kind = "select" => req'[g].hands = {}
  BY DEF OneModelInv, OneMoves, GoesOn, NoReq
<1>3. \A g \in Handler : pc'[g] \in Selecting => req'[g].kind = "select"
  BY DEF OneModelInv, OneMoves
<1>4. \A g \in Handler : Uncrossed(g)' =>
        /\ Uncrossed(g) /\ req'[g].kind = req[g].kind
        /\ req[g].kind = "select" \/ AllOf(served) =>
             req'[g].hands \subseteq req[g].hands \cup {served}
        /\ req[g].kind = "select" => req'[g].hands = req[g].hands
  BY DEF OneMoves, GoesOn, Uncrossed
<1>5. ASSUME Swapping = {}, Settled PROVE Settled'
  <2>1. AllOf(served)'
    BY <1>5 DEF Settled, AllOf, TableOnly
  <2>2. \A g \in Handler : Uncrossed(g)' => req'[g].hands \subseteq {served}
    BY <1>4, <1>5 DEF Settled
  <2> QED
    BY <2>1, <2>2 DEF Settled, TableOnly
<1>6. ASSUME NEW g \in Handler, Replacement(g) PROVE Replacement(g)'
  <2>1. g # h /\ pc'[g] = pc[g] /\ req'[g] = req[g]
    BY <1>6, SwappingReplaces DEF Replacement, OneMoves
  <2>2. Replaced(g)'
    BY <1>6, <2>1
    DEF Replacement, Replaced, TableOnly, PastReload, PastContext, PastEngine, PastBatch,
        PastTokenizer, PastName, PastTable
  <2>3. \A f \in Handler : Uncrossed(f)' => req'[f].kind = "select"
    BY <1>4, <1>6 DEF Replacement
  <2> QED
    BY <1>1, <1>6, <2>2, <2>3 DEF Replacement
<1> QED
  BY <1>1, <1>2, <1>3, <1>5, <1>6 DEF OneModelInv, TableOnly

\* A selection that replaces goes on, and has replaced what it is then past.
LEMMA ReplacingStep ==
  ASSUME OneModelInv, HandlersTyped, NEW h \in Handler, OneMoves(h), clean' = clean,
         DOMAIN loaded' = Slots,
         pc[h] \in Replacing, pc'[h] \in Replacing,
         req'[h].kind = req[h].kind, req'[h].crossed = req[h].crossed,
         req'[h].hands = req[h].hands,
         Replaced(h) => Replaced(h)'
  PROVE  OneModelInv'
<1>1. Swapping' = Swapping
  BY DEF Swapping, OneMoves, Replacing, PastReload, PastContext, PastEngine, PastBatch,
         PastTokenizer, PastName, PastTable
<1>2. req[h].kind = "select"
  BY DEF OneModelInv, Replacing, PastReload, PastContext, PastEngine, PastBatch,
         PastTokenizer, PastName, PastTable, Selecting
<1>3. /\ \A g \in Handler : req'[g].kind = "select" => req'[g].hands = {}
      /\ \A g \in Handler : pc'[g] \in Selecting => req'[g].kind = "select"
  BY <1>2 DEF OneModelInv, OneMoves
<1>4. ASSUME clean PROVE Replacement(h)'
  <2>1. Replacement(h)
    BY <1>4, ReplacesAlone
  <2>2. \A g \in Handler : Uncrossed(g)' => req'[g].kind = "select"
    BY <1>2, <2>1 DEF Replacement, OneMoves, Uncrossed
  <2> QED
    BY <1>1, <2>1, <2>2 DEF Replacement
<1> QED
  BY <1>3, <1>4 DEF OneModelInv

\* A handler goes to a place outside the replacement, with the hands it has or one more.
LEMMA QuietMove ==
  ASSUME OneModelInv, HandlersTyped, NEW h \in Handler, NEW place, Goes(h, place), TableOnly,
         \/ Keeps
         \/ /\ req[h].kind # "select"
            /\ \E m : Hand(h, m) /\ (AllOf(served) => m = served),
         pc[h] \notin Replacing \cup {"idle"}, place \notin Replacing,
         place \in Selecting => req[h].kind = "select"
  PROVE  OneModelInv'
<1>1. OneMoves(h) /\ pc'[h] = place
  BY DEF HandlersTyped, Goes, Keeps, Hand, OneMoves, NoReq
<1>2. GoesOn(h) /\ req'[h].kind = req[h].kind
  BY DEF HandlersTyped, GoesOn, Keeps, Hand, NoReq
<1> QED
  BY <1>1, <1>2, QuietStep

\* A request ends.
LEMMA QuietEnd ==
  ASSUME OneModelInv, HandlersTyped, NEW h \in Handler, Done(h), TableOnly,
         pc[h] \notin Replacing
  PROVE  OneModelInv'
<1>1. OneMoves(h) /\ GoesOn(h) /\ pc'[h] = "idle"
  BY DEF HandlersTyped, Done, Goes, OneMoves, GoesOn, NoReq
<1> QED
  BY <1>1, QuietStep
  DEF Replacing, PastReload, PastContext, PastEngine, PastBatch, PastTokenizer, PastName,
      PastTable, Selecting

\* The steps of a reply and of a goal: whatever of a model they look at is of the model
\* that is served, if everything is.
LEMMA ReplyOne ==
  ASSUME OneModelInv, AdmissionInv, LockInv, NEW h \in Handler,
         \/ Encode(h) \/ Measure(h) \/ FetchAdd(h) \/ Refuse(h) \/ Validate(h)
         \/ ReadTable(h) \/ Build(h) \/ StoreTable(h) \/ TakeLane(h) \/ BatchEnd(h)
         \/ SubmitBatched(h) \/ NameReply(h) \/ RespondText(h) \/ TakeEngine(h)
         \/ Park(h) \/ Generate(h) \/ CaptureHidden(h) \/ Answer(h)
         \/ Remember(h) \/ Tokenize(h) \/ Borrow(h) \/ ForgetContext(h)
  PROVE  OneModelInv'
<1>1. HandlersTyped /\ FitsAt(pc[h], req[h].kind) /\ req[h].at \in Slots
  BY DEF AdmissionInv, LockInv, LocksTyped
<1> USE DEF At, FitsAt, Generation, Prepared, Decoding, Selecting, Storing, Replacing,
            PastReload, PastContext, PastEngine, PastBatch, PastTokenizer, PastName, PastTable
<1>2. CASE Done(h) /\ TableOnly /\ pc[h] \notin Replacing
  BY <1>1, <1>2, QuietEnd
<1>3. CASE /\ TableOnly /\ pc[h] \notin Replacing \cup {"idle"}
           /\ \E place : place \notin Selecting \cup Replacing /\ Goes(h, place)
           /\ \/ Keeps
              \/ /\ req[h].kind # "select"
                 /\ \E m : Hand(h, m) /\ (AllOf(served) => m = served)
  BY <1>1, <1>3, QuietMove
<1>4. NoSwap => TableOnly
  BY DEF NoSwap, modelVars, TableOnly
<1>5. CASE Encode(h) \/ Measure(h)
  BY <1>1, <1>2, <1>3, <1>4, <1>5 DEF Encode, Measure, AllOf
<1>6. CASE FetchAdd(h) \/ Refuse(h) \/ Validate(h)
  BY <1>1, <1>2, <1>3, <1>4, <1>6 DEF FetchAdd, Refuse, Validate, AllOf
<1>7. CASE ReadTable(h) \/ Build(h)
  BY <1>1, <1>2, <1>3, <1>4, <1>7 DEF ReadTable, Build, AllOf
<1>8. CASE StoreTable(h)
  BY <1>1, <1>3, <1>8 DEF StoreTable, TableOnly
<1>9. CASE TakeLane(h) \/ BatchEnd(h)
  BY <1>1, <1>2, <1>3, <1>4, <1>9 DEF TakeLane, BatchEnd, AllOf
<1>10. CASE SubmitBatched(h) \/ NameReply(h) \/ RespondText(h)
  BY <1>1, <1>2, <1>3, <1>4, <1>10 DEF SubmitBatched, NameReply, RespondText, AllOf
<1>11. CASE TakeEngine(h) \/ Park(h)
  BY <1>1, <1>2, <1>3, <1>4, <1>11 DEF TakeEngine, Park, AllOf
<1>12. CASE Generate(h) \/ CaptureHidden(h) \/ Answer(h)
  BY <1>1, <1>2, <1>3, <1>4, <1>12 DEF Generate, CaptureHidden, Answer, AllOf
<1>13. CASE Remember(h) \/ Tokenize(h) \/ Borrow(h) \/ ForgetContext(h)
  BY <1>1, <1>2, <1>3, <1>4, <1>13 DEF Remember, Tokenize, Borrow, ForgetContext
<1> QED
  BY <1>5, <1>6, <1>7, <1>8, <1>9, <1>10, <1>11, <1>12, <1>13

\* A slot is taken, with the weights in it, or the next one is looked at.
LEMMA ProbeOne ==
  ASSUME OneModelInv, AdmissionInv, LockInv, NEW h \in Handler, Probe(h)
  PROVE  OneModelInv'
<1>1. /\ HandlersTyped /\ req[h].at \in Slots /\ TableOnly
      /\ pc[h] = "probe" /\ req[h].kind # "select"
  BY DEF AdmissionInv, FitsAt, Decoding, Generation, LockInv, LocksTyped, Probe, At, NoSwap,
         modelVars, TableOnly
<1> USE DEF Selecting, Replacing, PastReload, PastContext, PastEngine, PastBatch,
            PastTokenizer, PastName, PastTable
<1>2. CASE Goes(h, "generate") /\ Hand(h, loaded[req[h].at])
  BY <1>1, <1>2, QuietMove DEF AllOf
<1>3. CASE /\ UNCHANGED pc \/ Goes(h, "park")
           /\ \E i : req' = [req EXCEPT ![h].at = i]
  <2>1. OneMoves(h) /\ GoesOn(h) /\ pc'[h] \in {"probe", "park"}
    BY <1>1, <1>3 DEF HandlersTyped, Goes, OneMoves, GoesOn, NoReq
  <2> QED
    BY <1>1, <2>1, QuietStep
<1> QED
  BY <1>2, <1>3 DEF Probe

\* A request comes, with the template of the model that is served; one that comes while
\* a selection runs is marked.
LEMMA ArriveOne ==
  ASSUME OneModelInv, HandlersTyped, NEW h \in Handler, Arrive(h)
  PROVE  OneModelInv'
<1>1. PICK kind \in Kinds, grammar \in BOOLEAN, m \in Model :
        /\ kind # "select" => m = meta
        /\ req' = [req EXCEPT ![h] =
             [NoReq EXCEPT !.kind = kind, !.grammar = grammar,
                           !.crossed = Swapping # {},
                           !.target = IF kind = "select" THEN m ELSE NoModel,
                           !.hands = IF kind \in {"chat", "stream"} THEN {m} ELSE {}]]
        /\ Goes(h, FirstPlace(kind))
  BY DEF Arrive
<1> DEFINE new ==
             [NoReq EXCEPT !.kind = kind, !.grammar = grammar,
                           !.crossed = Swapping # {},
                           !.target = IF kind = "select" THEN m ELSE NoModel,
                           !.hands = IF kind \in {"chat", "stream"} THEN {m} ELSE {}]
<1>2. /\ new.kind = kind /\ new.crossed = (Swapping # {}) /\ DOMAIN new = DOMAIN NoReq
      /\ new.hands = IF kind \in {"chat", "stream"} THEN {m} ELSE {}
  BY DEF NoReq
<1>3. req' = [req EXCEPT ![h] = new]
  BY <1>1
<1> HIDE DEF new
<1>4. OneMoves(h) /\ req'[h] = new /\ pc'[h] = FirstPlace(kind)
  BY <1>1, <1>2, <1>3 DEF HandlersTyped, Goes, OneMoves
<1>5. pc[h] = "idle" /\ UNCHANGED <<modelVars, clean>>
  BY DEF Arrive, At
<1>6. kind \in {"chat", "stream", "text", "batched", "embed", "goal", "select"}
  BY RestAssumption
<1> USE DEF Selecting, Replacing, PastReload, PastContext, PastEngine, PastBatch,
            PastTokenizer, PastName, PastTable
<1>7. pc'[h] \notin Replacing /\ (pc'[h] \in Selecting => kind = "select")
  BY <1>4, <1>6 DEF FirstPlace, Generation
<1>8. Swapping' = Swapping
  BY <1>4, <1>5, <1>7 DEF Swapping, OneMoves
<1>9. /\ \A g \in Handler : req'[g].kind = "select" => req'[g].hands = {}
      /\ \A g \in Handler : pc'[g] \in Selecting => req'[g].kind = "select"
  BY <1>2, <1>4, <1>7 DEF OneModelInv, OneMoves
<1>10. ASSUME Swapping = {}, Settled PROVE Settled'
  <2>1. AllOf(served)'
    BY <1>5, <1>10 DEF Settled, AllOf, modelVars
  <2>2. new.hands \subseteq {served}
    BY <1>1, <1>2, <1>10 DEF Settled, AllOf
  <2>3. \A g \in Handler : Uncrossed(g)' => req'[g].hands \subseteq {served}
    BY <1>4, <1>10, <2>2 DEF Settled, Uncrossed, OneMoves
  <2> QED
    BY <1>5, <2>1, <2>3 DEF Settled, modelVars
<1>11. ASSUME NEW g \in Handler, Replacement(g) PROVE Replacement(g)'
  <2>1. g # h /\ pc'[g] = pc[g] /\ req'[g] = req[g] /\ Swapping # {}
    BY <1>4, <1>5, <1>11, SwappingReplaces DEF Replacement, OneMoves
  <2>2. Replaced(g)'
    BY <1>5, <1>11, <2>1 DEF Replacement, Replaced, modelVars
  <2>3. \A f \in Handler : Uncrossed(f)' => req'[f].kind = "select"
    BY <1>2, <1>4, <1>11, <2>1 DEF Replacement, Uncrossed, OneMoves
  <2> QED
    BY <1>8, <1>11, <2>2, <2>3 DEF Replacement
<1> QED
  BY <1>5, <1>8, <1>9, <1>10, <1>11 DEF OneModelInv, modelVars

\* A selection takes a slot; with the last one it begins to replace, and marks whatever
\* is in service.
LEMMA CollectOne ==
  ASSUME OneModelInv, HandlersTyped, NEW h \in Handler, Collect(h)
  PROVE  OneModelInv'
<1> USE DEF Selecting, Replacing, PastReload, PastContext, PastEngine, PastBatch,
            PastTokenizer, PastName, PastTable
<1>1. pc[h] = "collect" /\ req[h].kind = "select" /\ UNCHANGED modelVars
  BY DEF Collect, At, OneModelInv
<1>2. CASE req[h].at < PoolSize
  <2>1. req' = [req EXCEPT ![h].at = @ + 1] /\ UNCHANGED <<pc, clean>>
    BY <1>2 DEF Collect
  <2>2. OneMoves(h) /\ GoesOn(h) /\ pc'[h] = "collect" /\ req'[h].kind = "select"
    BY <1>1, <2>1 DEF HandlersTyped, OneMoves, GoesOn, NoReq
  <2> QED
    BY <1>1, <2>1, <2>2, QuietStep DEF TableOnly, modelVars
<1>3. CASE ~(req[h].at < PoolSize)
  <2>1. /\ req' = [g \in Handler |->
             IF g = h THEN [req[g] EXCEPT !.at = 1]
             ELSE [req[g] EXCEPT !.crossed = @ \/ pc[g] # "idle"]]
        /\ Goes(h, "reload") /\ clean' = (Swapping = {})
    BY <1>3 DEF Collect
  <2>2. /\ pc'[h] = "reload" /\ req'[h].at = 1
        /\ \A g \in Handler \ {h} : pc'[g] = pc[g]
        /\ \A g \in Handler : req'[g].kind = req[g].kind /\ req'[g].hands = req[g].hands
        /\ \A g \in Handler \ {h} : pc[g] # "idle" => req'[g].crossed
    BY <2>1 DEF HandlersTyped, Goes, NoReq
  <2>3. /\ \A g \in Handler : req'[g].kind = "select" => req'[g].hands = {}
        /\ \A g \in Handler : pc'[g] \in Selecting => req'[g].kind = "select"
    BY <1>1, <2>2 DEF OneModelInv
  <2>4. ASSUME Swapping = {} PROVE Replacement(h)'
    <3>1. Swapping' = {h}
      BY <2>2, <2>4 DEF Swapping
    <3>2. Replaced(h)'
      BY <2>2 DEF Replaced, Slots
    <3>3. \A g \in Handler : Uncrossed(g)' => req'[g].kind = "select"
      BY <1>1, <2>2 DEF Uncrossed
    <3> QED
      BY <3>1, <3>2, <3>3 DEF Replacement
  <2> QED
    BY <1>1, <2>1, <2>3, <2>4 DEF OneModelInv, modelVars
<1> QED
  BY <1>2, <1>3

\* Slot after slot gets the model that is selected; a failure leaves nothing clean.
LEMMA ReloadOne ==
  ASSUME OneModelInv, HandlersTyped, LocksTyped, NEW h \in Handler, Reload(h)
  PROVE  OneModelInv'
<1> DEFINE i == req[h].at
<1> USE DEF Selecting, Replacing, PastReload, PastContext, PastEngine, PastBatch,
            PastTokenizer, PastName, PastTable
<1>1. /\ pc[h] = "reload" /\ i \in Slots /\ DOMAIN loaded = Slots
      /\ UNCHANGED <<engine, batch, window, tokenizer, table, served, meta>>
  BY DEF Reload, At, LocksTyped, OneModelInv
<1>2. CASE /\ loaded' = [loaded EXCEPT ![i] = req[h].target] /\ UNCHANGED clean
           /\ req' = [req EXCEPT ![h].at = @ + 1] /\ UNCHANGED pc
  <2>1. /\ OneMoves(h) /\ pc'[h] = "reload" /\ req'[h].at = i + 1
        /\ req'[h].kind = req[h].kind /\ req'[h].crossed = req[h].crossed
        /\ req'[h].hands = req[h].hands /\ req'[h].target = req[h].target
    BY <1>1, <1>2 DEF HandlersTyped, OneMoves, NoReq
  <2>2. Replaced(h) => Replaced(h)'
    <3>1. \A j \in Slots : j < i + 1 <=> j < i \/ j = i
      BY <1>1, RestAssumption DEF Slots
    <3> QED
      BY <1>1, <1>2, <2>1, <3>1 DEF Replaced
  <2> QED
    BY <1>1, <1>2, <2>1, <2>2, ReplacingStep
<1>3. CASE /\ loaded' = [loaded EXCEPT ![i] = req[h].target] /\ UNCHANGED clean
           /\ Keeps /\ Goes(h, "context") /\ ~(i < PoolSize)
  <2>1. OneMoves(h) /\ pc'[h] = "context" /\ req'[h] = req[h]
    BY <1>3 DEF HandlersTyped, Keeps, Goes, OneMoves
  <2>2. Replaced(h) => Replaced(h)'
    <3>1. \A j \in Slots : j < i \/ j = i
      BY <1>1, <1>3, RestAssumption DEF Slots
    <3> QED
      BY <1>1, <1>3, <2>1, <3>1 DEF Replaced
  <2> QED
    BY <1>1, <1>3, <2>1, <2>2, ReplacingStep
<1>4. CASE Done(h) /\ clean' = FALSE /\ loaded' = [loaded EXCEPT ![i] = NoModel]
  <2>1. OneMoves(h) /\ pc'[h] = "idle" /\ req'[h] = NoReq
    BY <1>4 DEF HandlersTyped, Done, Goes, OneMoves, NoReq
  <2> QED
    BY <1>1, <1>4, <2>1 DEF OneModelInv, OneMoves, NoReq
<1> QED
  BY <1>2, <1>3, <1>4 DEF Reload, lockVars

\* Then everything else, one lock at a time.
LEMMA ReplaceOne ==
  ASSUME OneModelInv, HandlersTyped, NEW h \in Handler,
         \/ Context(h) \/ SwapEngine(h) \/ SwapBatch(h) \/ SwapTokenizer(h)
         \/ SwapName(h) \/ DropTable(h)
  PROVE  OneModelInv'
<1> USE DEF Replacing, PastReload, PastContext, PastEngine, PastBatch, PastTokenizer,
            PastName, PastTable, At
<1>1. /\ UNCHANGED <<clean, loaded>> /\ pc[h] \in Replacing /\ Keeps
      /\ \E place \in Replacing : Goes(h, place)
  BY DEF Context, SwapEngine, SwapBatch, SwapTokenizer, SwapName, DropTable
<1>2. OneMoves(h) /\ req'[h] = req[h] /\ pc'[h] \in Replacing
  BY <1>1 DEF HandlersTyped, Keeps, Goes, OneMoves
<1>3. 1 \in Slots
  BY RestAssumption DEF Slots
<1>4. Replaced(h) => Replaced(h)'
  <2>1. CASE Context(h)
    BY <1>2, <1>3, <2>1 DEF Context, Replaced, HandlersTyped, Goes
  <2>2. CASE SwapEngine(h)
    BY <1>2, <2>2 DEF SwapEngine, Replaced, HandlersTyped, Goes
  <2>3. CASE SwapBatch(h)
    BY <1>2, <2>3 DEF SwapBatch, Replaced, HandlersTyped, Goes
  <2>4. CASE SwapTokenizer(h)
    BY <1>2, <2>4 DEF SwapTokenizer, Replaced, HandlersTyped, Goes
  <2>5. CASE SwapName(h)
    BY <1>2, <2>5 DEF SwapName, Replaced, HandlersTyped, Goes
  <2>6. CASE DropTable(h)
    BY <1>2, <2>6 DEF DropTable, Replaced, HandlersTyped, Goes
  <2> QED
    BY <2>1, <2>2, <2>3, <2>4, <2>5, <2>6
<1> QED
  BY <1>1, <1>2, <1>4, ReplacingStep DEF OneModelInv

\* With the template everything is of the new model, and no request in service has
\* seen another.
LEMMA SwapMetaOne ==
  ASSUME OneModelInv, HandlersTyped, NEW h \in Handler, SwapMeta(h)
  PROVE  OneModelInv'
<1> USE DEF Replacing, PastReload, PastContext, PastEngine, PastBatch, PastTokenizer,
            PastName, PastTable, At
<1>1. /\ pc[h] = "swapMeta" /\ meta' = req[h].target
      /\ UNCHANGED <<loaded, engine, batch, window, tokenizer, table, served, clean>>
  BY DEF SwapMeta
<1>2. OneMoves(h) /\ req' = req /\ pc'[h] = "forget"
  BY DEF SwapMeta, HandlersTyped, Keeps, Goes, OneMoves
<1>3. /\ \A g \in Handler : req'[g].kind = "select" => req'[g].hands = {}
      /\ \A g \in Handler : pc'[g] \in Selecting => req'[g].kind = "select"
  BY <1>1, <1>2 DEF OneModelInv, OneMoves, Selecting
<1>4. ASSUME clean PROVE Swapping' = {} /\ Settled'
  <2>1. Replacement(h)
    BY <1>1, <1>4, ReplacesAlone
  <2>2. AllOf(req[h].target)' /\ served = req[h].target
    BY <1>1, <1>2, <2>1 DEF Replacement, Replaced, AllOf
  <2>3. \A g \in Handler : Uncrossed(g)' => req'[g].hands = {}
    BY <1>1, <1>2, <2>1 DEF Replacement, OneModelInv, Uncrossed, OneMoves
  <2>4. Swapping' = {}
    BY <1>2, <2>1 DEF Replacement, Swapping, OneMoves
  <2> QED
    BY <1>1, <1>2, <2>2, <2>3, <2>4 DEF Settled, AllOf
<1> QED
  BY <1>1, <1>3, <1>4 DEF OneModelInv

-----------------------------------------------------------------------------
LEMMA OneModelInit == RestInit => OneModelInv
<1> SUFFICES ASSUME RestInit PROVE OneModelInv
  OBVIOUS
<1>1. \A h \in Handler : pc[h] = "idle" /\ req[h] = NoReq
  BY DEF RestInit
<1>2. Swapping = {} /\ \A h \in Handler : ~Uncrossed(h) /\ pc[h] \notin Selecting
  BY <1>1 DEF Swapping, Uncrossed, Selecting
<1>3. AllOf(served) /\ DOMAIN loaded = Slots
  BY DEF RestInit, AllOf
<1> QED
  BY <1>1, <1>2, <1>3 DEF OneModelInv, Settled, NoReq

LEMMA OneModelStep ==
  OneModelInv /\ AdmissionInv /\ LockInv /\ [RestNext]_restVars => OneModelInv'
<1> SUFFICES ASSUME OneModelInv, AdmissionInv, LockInv, [RestNext]_restVars
             PROVE  OneModelInv'
  OBVIOUS
<1>1. HandlersTyped /\ LocksTyped
  BY DEF LockInv
<1>2. CASE RestNext
  BY <1>1, <1>2, ReplyOne, ProbeOne, ArriveOne, CollectOne, ReloadOne, ReplaceOne, SwapMetaOne
  DEF RestNext
<1>3. CASE UNCHANGED restVars
  BY <1>3
  DEF restVars, modelVars, OneModelInv, Settled, Replacement, AllOf, Replaced, Uncrossed,
      Swapping
<1> QED
  BY <1>2, <1>3

LEMMA OneModelServes == OneModelInv => ServedByOneModel
<1> SUFFICES ASSUME OneModelInv, clean, NEW h \in Handler, Uncrossed(h)
             PROVE  Cardinality(req[h].hands) <= 1
  BY DEF ServedByOneModel, Uncrossed
<1>1. req[h].hands = {} \/ req[h].hands = {served}
  BY DEF OneModelInv, Settled, Replacement
<1> QED
  BY <1>1, FS_EmptySet, FS_Singleton, 0 <= 1, 1 <= 1

\* A request that no selection overlaps is served by one model, whatever the number of
\* handlers, slots and models and whatever fails in a selection (an engine or the batch
\* server that does not come back): its template, tokenizer, window, table, weights and
\* name are read under five locks at five moments, which select_model replaces one by
\* one, so that a selection that ran alone must have got to all of them.
THEOREM OneModelServesARequest == RestSpec => []ServedByOneModel
<1>1. RestInit => OneModelInv /\ AdmissionInv /\ LockInv
  BY OneModelInit, AdmissionInit, LockInit
<1>2. OneModelInv /\ AdmissionInv /\ LockInv /\ [RestNext]_restVars
      => (OneModelInv /\ AdmissionInv /\ LockInv)'
  BY OneModelStep, AdmissionStep, LockStep
<1>3. OneModelInv => ServedByOneModel
  BY OneModelServes
<1> QED
  BY <1>1, <1>2, <1>3, PTL DEF RestSpec
=============================================================================
