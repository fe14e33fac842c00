---------------------------- MODULE BenchmarkApi ----------------------------
(***************************************************************************)
(* POST /benchmarks (app/api/benchmarks.py with create_benchmark of        *)
(* app/services/benchmark_service.py).  The handlers of all API replicas   *)
(* interleave at every await on PostgreSQL or Redis; hpc[r] is the await   *)
(* that the handler of request r is at.                                    *)
(***************************************************************************)
EXTENDS BackendStore

VARIABLES
  hpc,       \* the next await of each handler
  newModel,  \* has the handler's open transaction inserted a gpu_models row?
  reply      \* the job_id answered to each request, Null before the answer

apiVars == <<hpc, newModel, reply>>

\* "new": not sent yet; "done": answered 202; "error": answered 500, or the
\* connection broke.
HandlerSteps == {"new", "gpu_model", "flush", "commit", "recheck", "enqueue", "done", "error"}

ApiInit ==
  /\ hpc = [r \in Requests |-> "new"]
  /\ newModel = [r \in Requests |-> FALSE]
  /\ reply = [r \in Requests |-> Null]

Goto(r, step) == hpc' = [hpc EXCEPT ![r] = step]

Answer(r, b) == Goto(r, "done") /\ reply' = [reply EXCEPT ![r] = b]

\* The request arrives and create_benchmark looks its key up; a row with that
\* key is answered as it is, without enqueueing anything.
PostBenchmark(r) ==
  /\ hpc[r] = "new"
  /\ \E p \in Payloads :
       /\ payload' = [payload EXCEPT ![r] = p]
       /\ \/ \E b \in FindByIdempotencyKey(p.key) : Answer(r, b)
          \/ FindByIdempotencyKey(p.key) = {} /\ Goto(r, "gpu_model") /\ UNCHANGED reply
  /\ UNCHANGED <<dbVars, redisVars, newModel>>

\* The SELECT of _get_or_create_gpu_model.
SelectGpuModel(r) ==
  /\ hpc[r] = "gpu_model"
  /\ Goto(r, IF payload[r].gpu \in models THEN "commit" ELSE "flush")
  /\ UNCHANGED <<storeVars, newModel, reply>>

\* Faulty variant: the IntegrityError of the GPU model is taken for that of the key.
FlushCaughtAsConflict(r) == Goto(r, "recheck")

\* The IntegrityError of the GPU model is raised outside the try of create_benchmark:
\* the request is answered 500.
ModelConflict(r) == Goto(r, "error")

\* The flush of _get_or_create_gpu_model.  PostgreSQL makes the INSERT wait
\* while another open transaction has inserted the same model_name.  If that
\* transaction commits, the unique index raises IntegrityError here.
FlushGpuModel(r) ==
  /\ hpc[r] = "flush"
  /\ payload[r].gpu \notin LongNames
  /\ \A q \in Requests \ {r} : newModel[q] => payload[q].gpu # payload[r].gpu
  /\ IF payload[r].gpu \in models
       THEN ModelConflict(r) /\ UNCHANGED newModel
       ELSE Goto(r, "commit") /\ newModel' = [newModel EXCEPT ![r] = TRUE]
  /\ UNCHANGED <<storeVars, reply>>

\* Faulty variants of the four parts of the commit: the key column has no unique
\* index, the row is never committed, the transaction stays open and keeps its lock
\* on model_name, and an IntegrityError is not caught.
NoUniqueIndex(r) == FALSE
CommitForgotten(r) == UNCHANGED <<status, models>>
KeepLock(r) == UNCHANGED newModel
ConflictIsError(r) == Goto(r, "error")

KeyTaken(r) == FindByIdempotencyKey(payload[r].key) # {}

InsertBenchmark(r) ==
  /\ status' = [status EXCEPT ![r] = "queued"]
  /\ models' = models \union {payload[r].gpu}

EndTransaction(r) == newModel' = [newModel EXCEPT ![r] = FALSE]

KeyConflict(r) == Goto(r, "recheck")

\* session.commit(): the INSERT of the benchmark and the COMMIT, which also
\* publishes the handler's gpu_models row.  A transaction that has the same key
\* in flight only delays the INSERT, so both statements are one step.  On
\* IntegrityError the handler rolls back.
CommitBenchmark(r) ==
  /\ hpc[r] = "commit"
  /\ payload[r].fits
  /\ EndTransaction(r)
  /\ IF KeyTaken(r)
       THEN KeyConflict(r) /\ UNCHANGED <<status, models>>
       ELSE InsertBenchmark(r) /\ Goto(r, "enqueue")
  /\ UNCHANGED <<payload, attempts, result, redisVars, reply>>

\* A value that its column cannot hold: PostgreSQL refuses the INSERT of the flush or of
\* the commit before it looks at an index.  That is a DataError, which nobody catches:
\* the request is answered 500, and its transaction is rolled back.
RefuseValue(r) ==
  /\ \/ hpc[r] = "flush" /\ payload[r].gpu \in LongNames
     \/ hpc[r] = "commit" /\ ~payload[r].fits
  /\ Goto(r, "error")
  /\ EndTransaction(r)
  /\ UNCHANGED <<storeVars, reply>>

\* The second lookup, after the rollback: answer the row, or raise again.
RecheckKey(r) ==
  /\ hpc[r] = "recheck"
  /\ IF FindByIdempotencyKey(payload[r].key) = {}
       THEN Goto(r, "error") /\ UNCHANGED reply
       ELSE \E b \in FindByIdempotencyKey(payload[r].key) : Answer(r, b)
  /\ UNCHANGED <<storeVars, newModel>>

\* created is true: push the job and answer with the new row.
EnqueueBenchmark(r) ==
  /\ hpc[r] = "enqueue"
  /\ Enqueue(r)
  /\ Answer(r, r)
  /\ UNCHANGED <<payload, dbVars, dlq, newModel>>

\* The faults that end a handler at each of its awaits.  The step "enqueue"
\* starts with session.refresh, so a database error ends it too.
HandlerFaults(step) ==
  CASE step \in {"gpu_model", "flush", "commit", "recheck"} -> {"db", "crash"}
    [] step = "enqueue" -> {"db", "crash", "redis"}
    [] OTHER -> {}

\* The handler raises, or its process dies: its open transaction is rolled back.
HandlerFails(r) ==
  /\ HandlerFaults(hpc[r]) \intersect Faults # {}
  /\ Goto(r, "error")
  /\ newModel' = [newModel EXCEPT ![r] = FALSE]
  /\ UNCHANGED <<storeVars, reply>>

\* LPUSH takes effect, but the client of the request never learns of it.
EnqueueUnacknowledged(r) ==
  /\ hpc[r] = "enqueue"
  /\ {"redis", "crash"} \intersect Faults # {}
  /\ Enqueue(r)
  /\ Goto(r, "error")
  /\ UNCHANGED <<payload, dbVars, dlq, newModel, reply>>

HandlerStep(r) ==
  \/ SelectGpuModel(r)
  \/ FlushGpuModel(r)
  \/ CommitBenchmark(r)
  \/ RefuseValue(r)
  \/ RecheckKey(r)
  \/ EnqueueBenchmark(r)

ApiNext ==
  \E r \in Requests :
    \/ PostBenchmark(r)
    \/ HandlerStep(r)
    \/ HandlerFails(r)
    \/ EnqueueUnacknowledged(r)
=============================================================================
