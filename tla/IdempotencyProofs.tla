-------------------------- MODULE IdempotencyProofs --------------------------
(***************************************************************************)
(* Idempotency of POST /benchmarks and its races for GPU models, for any   *)
(* number of racing requests.                                              *)
(***************************************************************************)
EXTENDS BenchmarkBackendProofs

USE DEF ModelConflict, KeyTaken, InsertBenchmark, EndTransaction, KeyConflict

\* The unique index: no two rows have the same key.
UniqueKeys ==
  \A a, b \in Requests :
    status[a] # "none" /\ status[b] # "none" /\ payload[a].key = payload[b].key => a = b

\* Only a finished handler has replied, and with a row that has its key.
ReplyInv ==
  \A r \in Requests : reply[r] # Null =>
    /\ hpc[r] = "done"
    /\ reply[r] \in Requests
    /\ status[reply[r]] # "none"
    /\ payload[reply[r]].key = payload[r].key

\* RecheckFindsRow, with the lookup spelled out.
RecheckInv ==
  \A r \in Requests : hpc[r] = "recheck" =>
    \E b \in Requests : status[b] # "none" /\ payload[b].key = payload[r].key

KeyInv == UniqueKeys /\ ReplyInv /\ RecheckInv

-----------------------------------------------------------------------------
(* What the step of a handler does to rows, bodies and replies.            *)

\* The three kinds of steps: the request arrives, the row is committed, or
\* neither bodies nor rows change.
Arrives(r) == hpc[r] = "new" /\ status' = status /\ \E p \in Payloads : payload' = [payload EXCEPT ![r] = p]
Commits(r) ==
  /\ hpc[r] = "commit" /\ hpc'[r] = "enqueue" /\ payload' = payload
  /\ status' = [status EXCEPT ![r] = "queued"]
  /\ \A b \in Requests : status[b] # "none" => payload[b].key # payload[r].key
KeepsRows(r) == hpc[r] # "new" /\ status' = status /\ payload' = payload

\* The handler replies with a row of its key.
Replies(r) ==
  /\ hpc'[r] = "done"
  /\ \E b \in Requests : /\ reply' = [reply EXCEPT ![r] = b]
                         /\ status'[b] # "none" /\ payload'[b].key = payload'[r].key

\* A lookup finds exactly the rows with its key.
LEMMA Lookup ==
  ASSUME NEW k
  PROVE  \A b : b \in FindByIdempotencyKey(k) <=> b \in Requests /\ status[b] # "none" /\ payload[b].key = k
  BY DEF FindByIdempotencyKey, RowExists

\* Every step of a handler that has not finished is of one of these kinds, and
\* goes to the second lookup only when a row has its key.
LEMMA HandlerKinds ==
  ASSUME TypeOK, HandlerInv, RecheckInv, NEW r \in Requests,
         PostBenchmark(r) \/ HandlerStep(r) \/ HandlerFails(r) \/ EnqueueUnacknowledged(r)
  PROVE  /\ Arrives(r) \/ Commits(r) \/ KeepsRows(r)
         /\ reply' = reply \/ Replies(r)
         /\ hpc[r] # "done" /\ \A q \in Requests \ {r} : hpc'[q] = hpc[q]
         /\ hpc'[r] = "recheck" =>
              KeepsRows(r) /\ \E b \in Requests : status[b] # "none" /\ payload[b].key = payload[r].key
<1>0. /\ hpc \in [Requests -> HandlerSteps] /\ reply \in [Requests -> Requests \union {Null}]
      /\ payload \in [Requests -> Payloads \union {Null}]
      /\ status \in [Requests -> BenchmarkStatus \union {"none"}]
  BY DEF TypeOK
<1> USE DEF Goto, Answer, Arrives, Commits, KeepsRows
<1>1. CASE PostBenchmark(r)
  <2>1. hpc[r] = "new" /\ status[r] = "none" /\ status' = status
    BY <1>1 DEF PostBenchmark, dbVars, HandlerInv
  <2>2. PICK p \in Payloads :
          /\ payload' = [payload EXCEPT ![r] = p]
          /\ \/ \E b \in FindByIdempotencyKey(p.key) : Answer(r, b)
             \/ hpc' = [hpc EXCEPT ![r] = "gpu_model"] /\ reply' = reply
    BY <1>1 DEF PostBenchmark
  <2>3. CASE \E b \in FindByIdempotencyKey(p.key) : Answer(r, b)
    <3>1. PICK b \in FindByIdempotencyKey(p.key) : Answer(r, b)
      BY <2>3
    <3>2. b \in Requests /\ status[b] # "none" /\ payload[b].key = p.key
      BY <3>1, Lookup
    <3>3. b # r /\ payload'[b] = payload[b] /\ payload'[r] = p
      BY <1>0, <2>1, <2>2, <3>2
    <3>4. Replies(r)
      BY <1>0, <2>1, <3>1, <3>2, <3>3 DEF Replies
    <3> QED
      BY <1>0, <2>1, <2>2, <3>1, <3>4
  <2>4. CASE hpc' = [hpc EXCEPT ![r] = "gpu_model"] /\ reply' = reply
    BY <1>0, <2>1, <2>2, <2>4
  <2> QED
    BY <2>2, <2>3, <2>4
<1>2. CASE SelectGpuModel(r)
  BY <1>0, <1>2 DEF SelectGpuModel, storeVars
<1>3. CASE FlushGpuModel(r)
  BY <1>0, <1>3 DEF FlushGpuModel, storeVars
<1>4. CASE CommitBenchmark(r)
  <2>1. CASE FindByIdempotencyKey(payload[r].key) = {}
    BY <1>0, <1>4, <2>1, Lookup DEF CommitBenchmark
  <2>2. CASE FindByIdempotencyKey(payload[r].key) # {}
    <3>1. \E b \in Requests : status[b] # "none" /\ payload[b].key = payload[r].key
      BY <2>2, Lookup
    <3> QED
      BY <1>0, <1>4, <2>2, <3>1 DEF CommitBenchmark
  <2> QED
    BY <2>1, <2>2
<1>5. CASE RecheckKey(r)
  <2>1. status' = status /\ payload' = payload /\ hpc[r] = "recheck"
    BY <1>5 DEF RecheckKey, storeVars
  <2>2. PICK b \in FindByIdempotencyKey(payload[r].key) : Answer(r, b)
    BY <1>5, <2>1, Lookup DEF RecheckKey, RecheckInv
  <2>3. b \in Requests /\ status[b] # "none" /\ payload[b].key = payload[r].key
    BY <2>2, Lookup
  <2>4. Replies(r)
    BY <1>0, <2>1, <2>2, <2>3 DEF Replies
  <2> QED
    BY <1>0, <2>1, <2>2, <2>4
<1>6. CASE EnqueueBenchmark(r)
  <2>1. /\ status' = status /\ payload' = payload /\ hpc[r] = "enqueue" /\ status[r] # "none"
        /\ hpc' = [hpc EXCEPT ![r] = "done"] /\ reply' = [reply EXCEPT ![r] = r]
    BY <1>6 DEF EnqueueBenchmark, dbVars, HandlerInv
  <2>2. Replies(r)
    BY <1>0, <2>1 DEF Replies
  <2> QED
    BY <1>0, <2>1, <2>2
<1>7. CASE HandlerFails(r)
  <2>1. hpc[r] \notin {"new", "done"}
    BY <1>7 DEF HandlerFails, HandlerFaults
  <2> QED
    BY <1>0, <1>7, <2>1 DEF HandlerFails, storeVars
<1>8. CASE EnqueueUnacknowledged(r)
  BY <1>0, <1>8 DEF EnqueueUnacknowledged, dbVars
<1>9. CASE RefuseValue(r)
  BY <1>0, <1>9 DEF RefuseValue, storeVars
<1> QED
  BY <1>1, <1>2, <1>3, <1>4, <1>5, <1>6, <1>7, <1>8, <1>9 DEF HandlerStep

-----------------------------------------------------------------------------

\* A step of a handler keeps the keys unique and the replies right.
LEMMA ApiKeyInv ==
  ASSUME TypeOK, HandlerInv, KeyInv, NEW r \in Requests,
         PostBenchmark(r) \/ HandlerStep(r) \/ HandlerFails(r) \/ EnqueueUnacknowledged(r)
  PROVE  KeyInv'
<1>0. /\ reply \in [Requests -> Requests \union {Null}]
      /\ payload \in [Requests -> Payloads \union {Null}]
      /\ status \in [Requests -> BenchmarkStatus \union {"none"}]
      /\ UniqueKeys /\ ReplyInv /\ RecheckInv
  BY DEF TypeOK, KeyInv
<1>1. /\ Arrives(r) \/ Commits(r) \/ KeepsRows(r)
      /\ reply' = reply \/ Replies(r)
      /\ hpc[r] # "done" /\ \A q \in Requests \ {r} : hpc'[q] = hpc[q]
      /\ hpc'[r] = "recheck" =>
           KeepsRows(r) /\ \E b \in Requests : status[b] # "none" /\ payload[b].key = payload[r].key
  BY <1>0, HandlerKinds
<1>2. Arrives(r) => status[r] = "none"
  BY DEF Arrives, HandlerInv
\* A row that exists stays, with its body; so does the body of every other request.
<1>3. /\ \A b \in Requests : status[b] # "none" => status'[b] # "none" /\ payload'[b] = payload[b]
      /\ \A q \in Requests \ {r} : payload'[q] = payload[q] /\ (status'[q] = status[q])
      /\ status'[r] # "none" => payload'[r] = payload[r]
  BY <1>0, <1>1, <1>2 DEF Arrives, Commits, KeepsRows
<1>4. UniqueKeys'
  <2>1. CASE Commits(r)
    BY <1>0, <2>1 DEF Commits, UniqueKeys
  <2>2. CASE Arrives(r) \/ KeepsRows(r)
    <3>1. status' = status
      BY <2>2 DEF Arrives, KeepsRows
    <3> QED
      BY <1>0, <1>3, <3>1 DEF UniqueKeys
  <2> QED
    BY <1>1, <2>1, <2>2
<1>5. ReplyInv'
  <2> SUFFICES ASSUME NEW q \in Requests, reply'[q] # Null
               PROVE  /\ hpc'[q] = "done" /\ reply'[q] \in Requests /\ status'[reply'[q]] # "none"
                      /\ payload'[reply'[q]].key = payload'[q].key
    BY DEF ReplyInv
  <2>1. reply[r] = Null
    BY <1>0, <1>1 DEF ReplyInv
  <2>2. CASE q = r
    BY <1>0, <1>1, <2>1, <2>2 DEF Replies
  <2>3. CASE q # r
    <3>1. reply'[q] = reply[q]
      BY <1>0, <1>1, <2>3 DEF Replies
    <3> QED
      BY <1>0, <1>1, <1>3, <2>3, <3>1 DEF ReplyInv
  <2> QED
    BY <2>2, <2>3
<1>6. RecheckInv'
  <2> SUFFICES ASSUME NEW q \in Requests, hpc'[q] = "recheck"
               PROVE  \E b \in Requests : status'[b] # "none" /\ payload'[b].key = payload'[q].key
    BY DEF RecheckInv
  <2>1. CASE q = r
    BY <1>1, <2>1 DEF KeepsRows
  <2>2. CASE q # r
    <3>1. PICK b \in Requests : status[b] # "none" /\ payload[b].key = payload[q].key
      BY <1>0, <1>1, <2>2 DEF RecheckInv
    <3> QED
      BY <1>3, <2>2, <3>1
  <2> QED
    BY <2>1, <2>2
<1> QED
  BY <1>4, <1>5, <1>6 DEF KeyInv

\* Workers change neither bodies nor replies, and neither add nor remove rows.
LEMMA WorkerKeyInv ==
  ASSUME TypeOK, MessageInv, KeyInv, UNCHANGED apiVars, NEW w \in Workers,
         Dequeue(w) \/ WorkerStep(w) \/ WorkerDies(w)
  PROVE  KeyInv'
<1>1. payload' = payload
  BY DEF WorkerStep, Dequeue, WorkerMarksRunning, MarkRunningFails, SelectEngine, RunEngine,
         NvidiaFails, WorkerCompletes, CompleteFails, HandleException, WorkerMarksFailed,
         WorkerDies, storeVars
<1>2. \A b \in Requests : status'[b] = "none" <=> status[b] = "none"
  BY WorkersKeepRows
<1> QED
  BY <1>1, <1>2 DEF KeyInv, UniqueKeys, ReplyInv, RecheckInv, apiVars

\* Keys stay unique and replies right in every reachable state.
THEOREM KeyInvariant == Spec => []KeyInv
<1>1. Init => KeyInv
  BY DEF Init, StoreInit, ApiInit, KeyInv, UniqueKeys, ReplyInv, RecheckInv
<1>2. CarrierInv /\ KeyInv /\ [Next]_vars => KeyInv'
  <2> SUFFICES ASSUME CarrierInv, KeyInv, [Next]_vars PROVE KeyInv'
    OBVIOUS
  <2>0. TypeOK /\ HandlerInv /\ MessageInv
    BY DEF CarrierInv
  <2>1. ASSUME ApiNext PROVE KeyInv'
    BY <2>0, <2>1, ApiKeyInv DEF ApiNext
  <2>2. ASSUME WorkerNext, UNCHANGED apiVars PROVE KeyInv'
    BY <2>0, <2>2, WorkerKeyInv DEF WorkerNext
  <2>3. ASSUME UNCHANGED vars PROVE KeyInv'
    BY <2>3 DEF vars, storeVars, apiVars, KeyInv, UniqueKeys, ReplyInv, RecheckInv
  <2> QED
    BY <2>1, <2>2, <2>3 DEF Next, Quiescent
<1> QED
  BY <1>1, <1>2, CarrierInvariant, PTL DEF Spec

\* All requests with one idempotency key that are answered 202 are answered with
\* one job id, whose row has that key: create_benchmark is idempotent under any
\* number of concurrent and failing requests.
THEOREM IdempotentRepliesHolds == Spec => []IdempotentReplies
<1>1. KeyInv => IdempotentReplies
  BY DEF KeyInv, UniqueKeys, ReplyInv, IdempotentReplies, RowExists
<1> QED
  BY <1>1, KeyInvariant, PTL

\* The re-raise in create_benchmark's handling of an IntegrityError is dead code.
THEOREM RecheckFindsRowHolds == Spec => []RecheckFindsRow
<1>1. KeyInv => RecheckFindsRow
  <2> SUFFICES ASSUME KeyInv, NEW r \in Requests, hpc[r] = "recheck"
               PROVE  FindByIdempotencyKey(payload[r].key) # {}
    BY DEF RecheckFindsRow
  <2>1. PICK b \in Requests : status[b] # "none" /\ payload[b].key = payload[r].key
    BY DEF KeyInv, RecheckInv
  <2> QED
    BY <2>1, Lookup
<1> QED
  BY <1>1, KeyInvariant, PTL

-----------------------------------------------------------------------------
(* Races for a new GPU model.                                              *)

\* Every GPU model was committed with a benchmark.
ModelsUsed == \A m \in models : \E q \in Requests : status[q] # "none" /\ payload[q].gpu = m

\* Only bodies that fit are stored, and a name that does not fit ends at the flush.
StoredFits ==
  \A r \in Requests :
    /\ status[r] # "none" => Storable(payload[r])
    /\ hpc[r] = "commit" => payload[r].gpu \notin LongNames

\* While only engines fail, a request that was answered 500 although its body fits lost
\* a race for its model.
LostRaces ==
  OnlyEngines =>
    \A r \in Requests : hpc[r] = "error" /\ Storable(payload[r]) =>
      status[r] = "none" /\ payload[r].gpu \in models

ModelInv == ModelInsertedOnce /\ ModelsUsed /\ StoredFits /\ LostRaces

\* The three kinds of steps: the handler inserts its model, publishes it, or has no
\* insert open afterwards and changes neither models nor rows.
Inserts(r) ==
  /\ newModel' = [newModel EXCEPT ![r] = TRUE] /\ hpc' = [hpc EXCEPT ![r] = "commit"]
  /\ status' = status /\ payload' = payload /\ models' = models
  /\ payload[r].gpu \notin models /\ payload[r].gpu \notin LongNames
  /\ \A q \in Requests \ {r} : newModel[q] => payload[q].gpu # payload[r].gpu
Publishes(r) ==
  /\ hpc[r] = "commit" /\ hpc' = [hpc EXCEPT ![r] = "enqueue"]
  /\ newModel' = [newModel EXCEPT ![r] = FALSE]
  /\ status' = [status EXCEPT ![r] = "queued"] /\ payload' = payload
  /\ models' = models \union {payload[r].gpu} /\ payload[r].fits
Releases(r) ==
  /\ newModel' = [newModel EXCEPT ![r] = FALSE] /\ \E s \in HandlerSteps : hpc' = [hpc EXCEPT ![r] = s]
  /\ status' = status /\ models' = models
  /\ \/ payload' = payload
     \/ /\ status[r] = "none" /\ hpc'[r] \notin {"commit", "error"}
        /\ \E p \in Payloads : payload' = [payload EXCEPT ![r] = p]
  /\ hpc'[r] = "commit" => payload[r].gpu \in models
  /\ OnlyEngines /\ hpc'[r] = "error" /\ Storable(payload[r]) =>
       status[r] = "none" /\ payload[r].gpu \in models

\* Every step of a handler is of one of these kinds.
LEMMA ModelKinds ==
  ASSUME TypeOK, HandlerInv, RecheckInv, ModelInv, NEW r \in Requests,
         PostBenchmark(r) \/ HandlerStep(r) \/ HandlerFails(r) \/ EnqueueUnacknowledged(r)
  PROVE  Inserts(r) \/ Publishes(r) \/ Releases(r)
<1>0. /\ hpc \in [Requests -> HandlerSteps] /\ newModel \in [Requests -> BOOLEAN]
      /\ payload \in [Requests -> Payloads \union {Null}]
      /\ status \in [Requests -> BenchmarkStatus \union {"none"}]
  BY DEF TypeOK
<1>1. /\ hpc[r] \in {"new", "gpu_model", "flush", "commit", "recheck"} => status[r] = "none"
      /\ hpc[r] # "commit" => newModel = [newModel EXCEPT ![r] = FALSE]
  BY <1>0 DEF HandlerInv, ModelInv, ModelInsertedOnce
<1> USE DEF Goto, Answer, HandlerSteps
<1>2. CASE PostBenchmark(r)
  BY <1>0, <1>1, <1>2 DEF PostBenchmark, dbVars, Releases
<1>3. CASE SelectGpuModel(r)
  BY <1>0, <1>1, <1>3 DEF SelectGpuModel, storeVars, Releases
<1>4. CASE FlushGpuModel(r)
  BY <1>0, <1>1, <1>4 DEF FlushGpuModel, storeVars, Releases, Inserts
<1>5. CASE CommitBenchmark(r)
  BY <1>0, <1>1, <1>5 DEF CommitBenchmark, Releases, Publishes
<1>6. CASE RecheckKey(r)
  <2>1. FindByIdempotencyKey(payload[r].key) # {}
    BY <1>6, Lookup DEF RecheckKey, RecheckInv
  <2> QED
    BY <1>0, <1>1, <1>6, <2>1 DEF RecheckKey, storeVars, Releases
<1>7. CASE EnqueueBenchmark(r)
  BY <1>0, <1>1, <1>7 DEF EnqueueBenchmark, dbVars, Releases
<1>8. CASE HandlerFails(r)
  BY <1>0, <1>8, NobodyDies DEF HandlerFails, storeVars, Releases
<1>9. CASE EnqueueUnacknowledged(r)
  BY <1>0, <1>1, <1>9, NobodyDies DEF EnqueueUnacknowledged, dbVars, Releases
<1>10. CASE RefuseValue(r)
  <2>1. ~Storable(payload[r])
    BY <1>10 DEF RefuseValue, Storable
  <2> QED
    BY <1>0, <1>10, <2>1 DEF RefuseValue, storeVars, Releases
<1> QED
  BY <1>2, <1>3, <1>4, <1>5, <1>6, <1>7, <1>8, <1>9, <1>10 DEF HandlerStep

\* A commit publishes a model that no other open transaction has inserted.
LEMMA ApiModelInv ==
  ASSUME TypeOK, ModelInv, NEW r \in Requests, Inserts(r) \/ Publishes(r) \/ Releases(r)
  PROVE  ModelInv'
<1>0. /\ hpc \in [Requests -> HandlerSteps] /\ newModel \in [Requests -> BOOLEAN]
      /\ payload \in [Requests -> Payloads \union {Null}]
      /\ status \in [Requests -> BenchmarkStatus \union {"none"}]
  BY DEF TypeOK
<1>1. ModelInsertedOnce /\ ModelsUsed /\ StoredFits /\ LostRaces
  BY DEF ModelInv
\* A committed name fits.
<1>m. \A m \in models : m \notin LongNames
  BY <1>1 DEF ModelsUsed, StoredFits, Storable
<1>2. CASE Inserts(r)
  <2>1. ModelInsertedOnce'
    BY <1>0, <1>1, <1>2 DEF ModelInsertedOnce, Inserts
  <2>2. ModelsUsed' /\ LostRaces'
    BY <1>0, <1>1, <1>2 DEF ModelsUsed, LostRaces, Inserts
  <2>3. StoredFits'
    BY <1>0, <1>1, <1>2 DEF StoredFits, Inserts
  <2> QED
    BY <2>1, <2>2, <2>3 DEF ModelInv
<1>3. CASE Publishes(r)
  <2>1. ModelInsertedOnce'
    BY <1>0, <1>1, <1>3 DEF ModelInsertedOnce, Publishes
  <2>2. ModelsUsed' /\ LostRaces'
    BY <1>0, <1>1, <1>3 DEF ModelsUsed, LostRaces, Publishes
  <2>3. Storable(payload[r])
    BY <1>1, <1>3 DEF StoredFits, Storable, Publishes
  <2>4. StoredFits'
    BY <1>0, <1>1, <1>3, <2>3 DEF StoredFits, Publishes
  <2> QED
    BY <2>1, <2>2, <2>4 DEF ModelInv
<1>4. CASE Releases(r)
  <2>1. ModelInsertedOnce'
    BY <1>0, <1>1, <1>4 DEF ModelInsertedOnce, Releases
  <2>2. ModelsUsed'
    BY <1>0, <1>1, <1>4 DEF ModelsUsed, Releases
  <2>3. LostRaces'
    BY <1>0, <1>1, <1>4 DEF LostRaces, Releases
  <2>4. StoredFits'
    BY <1>0, <1>1, <1>m, <1>4 DEF StoredFits, Releases
  <2> QED
    BY <2>1, <2>2, <2>3, <2>4 DEF ModelInv
<1> QED
  BY <1>2, <1>3, <1>4

\* Workers touch neither models nor handlers, and neither add nor remove rows.
LEMMA WorkerModelInv ==
  ASSUME TypeOK, MessageInv, ModelInv, UNCHANGED apiVars, NEW w \in Workers,
         Dequeue(w) \/ WorkerStep(w) \/ WorkerDies(w)
  PROVE  ModelInv'
<1>1. payload' = payload /\ models' = models
  BY DEF WorkerStep, Dequeue, WorkerMarksRunning, MarkRunningFails, SelectEngine, RunEngine,
         NvidiaFails, WorkerCompletes, CompleteFails, HandleException, WorkerMarksFailed,
         WorkerDies, storeVars, dbVars, MarkRunning, CompleteBenchmark, MarkFailed
<1>2. \A b \in Requests : status'[b] = "none" <=> status[b] = "none"
  BY WorkersKeepRows
<1> QED
  BY <1>1, <1>2 DEF ModelInv, ModelInsertedOnce, ModelsUsed, StoredFits, LostRaces, apiVars

\* GPU models are inserted by one transaction each and committed with a benchmark.
THEOREM ModelInvariant == Spec => []ModelInv
<1>1. Init => ModelInv
  BY DEF Init, StoreInit, ApiInit, ModelInv, ModelInsertedOnce, ModelsUsed, StoredFits, LostRaces
<1>2. CarrierInv /\ KeyInv /\ ModelInv /\ [Next]_vars => ModelInv'
  <2> SUFFICES ASSUME CarrierInv, KeyInv, ModelInv, [Next]_vars PROVE ModelInv'
    OBVIOUS
  <2>0. TypeOK /\ HandlerInv /\ MessageInv /\ RecheckInv
    BY DEF CarrierInv, KeyInv
  <2>1. ASSUME ApiNext PROVE ModelInv'
    BY <2>0, <2>1, ModelKinds, ApiModelInv DEF ApiNext
  <2>2. ASSUME WorkerNext, UNCHANGED apiVars PROVE ModelInv'
    BY <2>0, <2>2, WorkerModelInv DEF WorkerNext
  <2>3. ASSUME UNCHANGED vars PROVE ModelInv'
    BY <2>3 DEF vars, storeVars, apiVars, ModelInv, ModelInsertedOnce, ModelsUsed, StoredFits, LostRaces
  <2> QED
    BY <2>1, <2>2, <2>3 DEF Next, Quiescent
<1> QED
  BY <1>1, <1>2, CarrierInvariant, KeyInvariant, PTL DEF Spec

\* The commit of create_benchmark never meets the unique index of gpu_models, however
\* many requests for new models race and fail.
THEOREM ModelInsertedOnceHolds == Spec => []ModelInsertedOnce
<1>1. ModelInv => ModelInsertedOnce
  BY DEF ModelInv
<1> QED
  BY <1>1, ModelInvariant, PTL

\* Bodies that do not fit are never stored; with a healthy environment a POST whose body
\* fits fails only by losing the race for a new model, and leaves no row.
THEOREM FailedPostExplainedHolds == Spec => []FailedPostExplained
<1>1. ModelInv => FailedPostExplained
  <2> SUFFICES ASSUME ModelInv PROVE FailedPostExplained
    OBVIOUS
  <2>1. \A r \in Requests : RowExists(r) => Storable(payload[r])
    BY DEF ModelInv, StoredFits, RowExists
  <2>2. ASSUME OnlyEngines, NEW r \in Requests, hpc[r] = "error", Storable(payload[r])
        PROVE  /\ ~RowExists(r)
               /\ \E q \in Requests \ {r} : RowExists(q) /\ payload[q].gpu = payload[r].gpu
    BY <2>2 DEF ModelInv, ModelsUsed, LostRaces, RowExists
  <2> QED
    BY <2>1, <2>2 DEF FailedPostExplained, OnlyEngines
<1> QED
  BY <1>1, ModelInvariant, PTL
==============================================================================
