---------------------------- MODULE BackendStore ----------------------------
(***************************************************************************)
(* The two stores that the API and the worker processes of the backend     *)
(* share: the PostgreSQL tables of app/models.py and the Redis lists of    *)
(* app/services/queue_service.py.                                          *)
(*                                                                         *)
(* A benchmark row gets a fresh uuid4 from the POST request that inserts   *)
(* it, and a request inserts at most one row, so a row is named by the     *)
(* request that minted its id.                                             *)
(***************************************************************************)
EXTENDS Naturals, Sequences

CONSTANTS
  Requests,    \* POST /benchmarks requests, and the benchmark ids they mint
  Keys,        \* idempotency keys
  Models,      \* GPU model names
  LongNames,   \* the names among them that are longer than 64 characters
  Fits,        \* the values of "workload_type and batch_size fit their columns"
  MaxRetries,  \* settings.worker_max_retries
  Faults,      \* the kinds of fault that may happen, a subset of FaultKinds
  Null         \* Python's None

\* "engine": nvidia-smi fails or prints something float() rejects;
\* "db": a statement raises and its transaction is rolled back, or a read raises;
\* "commit_lost": a COMMIT takes effect and its acknowledgement is lost;
\* "redis": an LPUSH raises; "crash": an API or worker process dies.
FaultKinds == {"engine", "db", "commit_lost", "redis", "crash"}

ASSUME MaxRetriesAssumption == MaxRetries \in Nat
ASSUME FaultsAssumption == Faults \subseteq FaultKinds

ASSUME ColumnsAssumption == LongNames \subseteq Models /\ Fits \subseteq BOOLEAN

\* BenchmarkCreateRequest limits the key alone: gpu_model and workload_type may be
\* longer than their String(64), batch_size larger than its Integer.
Payloads == [key : Keys, gpu : Models, fits : Fits]

\* The columns of gpu_models and benchmarks hold the body.
Storable(p) == p.gpu \notin LongNames /\ p.fits

ASSUME NullAssumption == Null \notin Requests

VARIABLES
  payload,   \* the body of each request received so far
  status,    \* benchmarks.status, "none" while the row does not exist
  attempts,  \* benchmarks.attempt_count
  result,    \* raw_metrics["attempt"] of the benchmark_results row, 0 if none
  models,    \* committed gpu_models rows
  queue,     \* the Redis work list: LPUSH appends here, BRPOP takes the head
  dlq        \* the Redis dead-letter list

dbVars == <<status, attempts, result, models>>
redisVars == <<queue, dlq>>
storeVars == <<payload, status, attempts, result, models, queue, dlq>>

BenchmarkStatus == {"queued", "running", "completed", "failed"}
Message == [id : Requests, attempt : Nat]

StoreInit ==
  /\ payload = [r \in Requests |-> Null]
  /\ status = [r \in Requests |-> "none"]
  /\ attempts = [r \in Requests |-> 0]
  /\ result = [r \in Requests |-> 0]
  /\ models = {}
  /\ queue = <<>>
  /\ dlq = <<>>

RowExists(b) == status[b] # "none"

\* The rows that carry idempotency key k: a set, because only the unique index
\* keeps scalar_one_or_none from meeting two of them.
FindByIdempotencyKey(k) == {b \in Requests : RowExists(b) /\ payload[b].key = k}

\* benchmark_service.mark_running, once its commit has taken effect.
MarkRunning(b) ==
  /\ status' = IF RowExists(b) THEN [status EXCEPT ![b] = "running"] ELSE status
  /\ attempts' = IF RowExists(b) THEN [attempts EXCEPT ![b] = @ + 1] ELSE attempts
  /\ UNCHANGED <<result, models>>

\* benchmark_service.complete_benchmark, once its commit has taken effect: the
\* status and the result row become visible together.
CompleteBenchmark(b, attempt) ==
  /\ status' = IF RowExists(b) THEN [status EXCEPT ![b] = "completed"] ELSE status
  /\ result' = IF RowExists(b) THEN [result EXCEPT ![b] = attempt] ELSE result
  /\ UNCHANGED <<attempts, models>>

\* Faulty variant: a status that BenchmarkStatus does not have.
MarkFailedAsError(b) ==
  /\ status' = [status EXCEPT ![b] = "error"]
  /\ UNCHANGED <<attempts, result, models>>

\* benchmark_service.mark_failed.
MarkFailed(b) ==
  /\ status' = IF RowExists(b) THEN [status EXCEPT ![b] = "failed"] ELSE status
  /\ UNCHANGED <<attempts, result, models>>

\* Faulty variants: a job that is not pushed, a retry that keeps its attempt, a dead
\* letter that is not pushed.
EnqueueForgotten(b) == queue' = queue
RetrySameAttempt(m) == queue' = Append(queue, m)
ForgetDeadLetter(m) == dlq' = dlq

\* queue_service.enqueue, and enqueue_retry with the attempt it increments.
Enqueue(b) == queue' = Append(queue, [id |-> b, attempt |-> 0])
EnqueueRetry(m) == queue' = Append(queue, [m EXCEPT !.attempt = @ + 1])

\* queue_service.move_to_dlq.
MoveToDlq(m) == dlq' = Append(dlq, m)
=============================================================================
