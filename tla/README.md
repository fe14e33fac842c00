# TLA+ verification of the GPU benchmark platform

Models of the benchmark backend (`src/backend`), the Kubernetes operator
(`src/operator`), the Crossplane provider (`src/provider`) and the path of a
`BenchmarkEnvironment` through Crossplane and admission (`src/crossplane`,
`src/policies`). TLC checks them on small instances. TLAPS proves their safety
properties for every value of the constants.

## 1. The system

A user asks for a benchmark with a `BenchmarkJob` object (operator), with a
`BenchmarkEnvironment` claim (from which Crossplane composes a `BenchmarkJob`), with a
`GPUBenchmarkJob` managed resource (provider), or with `POST /benchmarks`. Both
controllers call the same HTTP API. The API stores a row in PostgreSQL and pushes
a message onto a Redis list. Workers pop messages, run an engine and write results.

| Part | State | Operations | Interacts with | What is hard |
|---|---|---|---|---|
| API (`api/benchmarks.py`, `benchmark_service.py`) | `gpu_models`, `benchmarks`, open transactions | POST, GET, history | PostgreSQL, Redis, both controllers | racing lookups and inserts, commit then push, rollback |
| Queue (`queue_service.py`) | work list, dead-letter list | enqueue, enqueue_retry, dequeue, move_to_dlq | API, workers | BRPOP is at most once |
| Worker (`benchmark_worker.py`) | popped message, session | mark_running, run, complete, retry, dead-letter, mark_failed | queue, PostgreSQL, engines | death with a job, failed commit, lost acknowledgement, retry limit |
| Engines (`gpu_engine.py`) | none | runtime_available, run | worker | availability changes between check and use |
| Operator (`benchmarkjob_controller.go`) | object in the API server, cached copies, reconcile in progress | Reconcile and its handlers | API server, backend, users | stale reads, conflicts, restarts, two pods, deletion during submission |
| Provider (`gpubenchmarkjob_controller.go`) | managed resource, cached copy, reconcile in progress | Connect, Observe, Create, Update, Delete | crossplane-runtime, backend | Create cut off, status lost after Create, deletion, a ProviderConfig that goes |
| benchmark-sizing function | none | RunFunction | Crossplane | rounding, boundaries, missing annotations |
| Composition, XRD, CRD, Kyverno | none | admission | API server | layers that disagree |

`PROJECT.json` lists the hazards of each part at the line where they bite.

## 2. Modules

| Module | Models |
|---|---|
| `BackendStore` | the tables and lists, and the functions of `benchmark_service.py` and `queue_service.py` that write them |
| `BenchmarkApi` | POST /benchmarks, one action per await |
| `BenchmarkWorker` | `run_forever`, `_process_job` and the choice of engine, one action per await |
| `BenchmarkBackend` | API and workers together, with their properties and their fairness |
| `BenchmarkLifecycle` | the abstract backend: what a client sees of a job |
| `BenchmarkJobOperator` | the operator, the API server as it sees it, and the abstract backend |
| `BenchmarkJobContract` | what the operator promises about a `BenchmarkJob`: one controller that acts atomically on the latest state |
| `GPUBenchmarkProvider` | the provider under the managed reconciler of crossplane-runtime, on the same abstract backend |
| `BenchmarkEnvironment` | XRD, sizing function, composition, CRD and Kyverno as layers that one request passes |
| `BenchmarkBackendProofs`, `IdempotencyProofs`, `SettlementProofs`, `LifecycleProofs` | theorems about `BenchmarkBackend` |
| `BenchmarkJobOperatorProofs`, `GPUBenchmarkProviderProofs`, `BenchmarkEnvironmentProofs` | theorems about the module of that name |
| `OperatorContractProofs` | `BenchmarkJobOperator` implements `BenchmarkJobContract`; retries follow the limit |
| `MCBackend`, `MCOperator` | symmetry sets for TLC |

`BenchmarkLifecycle` is the joint between the backend and its clients. The backend
implements it (`ImplementsLifecycle`, under the mapping `JobView`, the row as
`get_benchmark` returns it), which is checked and proved. Operator and provider run on
top of it, with `ReRuns` FALSE: each is checked against every backend that keeps the
contract and in which a completed job is not run again. The concrete backend is one
of these as long as its commits are acknowledged. With the fault `commit_lost` a worker
may run a completed job once more, which the contract allows with `ReRuns` TRUE only, and
then the results about the controllers say nothing: an object that is Completed could
name a job that the backend shows as running or failed. There is no instance that puts a
controller on the concrete backend: within these limits the refinement theorem makes it
unnecessary for safety.

`BenchmarkJobContract` does the same for the users of the operator. It has no caches,
events, revisions, conflicts, restarts or second pod. Each of its actions changes the
object in one step, from the object as it is and the backend job as it is. The
operator implements it (`ImplementsContract`, under `ObjView`, the object without its
revision), so the safety of a `BenchmarkJob` can be read from the contract alone.
Two of its guards are as weak as the code makes them. `ReportRunning` asks only that
the job has started, because it may end between the poll and the write. `Cancel`
may name the job of a live object once an earlier object of that name was deleted,
because both share the job of the name. The contract has no fairness: it does not
say that a report is ever made, and `OperatorMissedRunning` shows one that is not.

Operators under a comment "Faulty variant" are wrong versions of the definition that
follows them. They are not part of any specification. Each one stands for a plausible
bug and shows that some property would notice it.

### Backend: state and actions

* A row gets its uuid from the request that inserts it, so `Requests` names both
  the requests and the rows. `status[b] = "none"` means that there is no such row.
* `hpc[r]` is the await at which the handler of request `r` is. An open
  transaction that has inserted a GPU model is `newModel[r]`; another INSERT of that
  model waits, as PostgreSQL makes it wait on the unique index. The INSERT of the
  benchmark and its COMMIT are one step, because the wait in between shows nothing.
* A body is its key, its GPU model and whether its other values fit. The schema bounds
  neither the two names nor the batch size, the columns do: `LongNames` are models
  that are too long for theirs, `Fits` says whether bodies with other values that do
  not fit are sent, and `RefuseValue` is the DataError that flush or commit then raise,
  which no handler catches.
* A request whose first lookup fails has no effect and is not told apart from one
  that was never sent.
* `wpc[w]` and `msg[w]` are the await and the popped message of a worker. `broken[w]`
  says that a flush or commit failed in its session and nobody has rolled it back:
  SQLAlchemy then refuses every further statement.
* A message is the id and the attempt. The head of `queue` is the end that BRPOP takes.
* `Faults` chooses what may go wrong in an instance: `engine`, `db` (a statement
  fails), `commit_lost` (a commit takes effect and raises), `redis`, `crash`. Faults
  are never forced and not counted.

### Operator: state and actions

* `obj` is the object in the API server. Each operator pod has a `cache` that follows
  it through `events`, and one reconcile in progress: `rpc[o]` is its next call and
  `loc[o]` its copy. The default work queue never runs one name twice at a time.
* `Reconcile` reads the cache. `HandlePending`, `HandlePoll` and `CancelBackendJob`
  are the HTTP calls with everything the handler computes from the answer.
  `WriteObject` is the Update or Status().Update that ends a handler. It is refused
  when the copy is not the latest one.
* `Store`, `WatchEvent` and `Current` are the API server and the informer, modelled
  from how the controller uses them. So are `UserCreates`, `UserEditsSpec` and
  `UserDeletes`. An edit changes the spec or `maxRetries`, at any time.
* A `maxRetries` of 0 is left out of the JSON that the operator sends, so the Update that
  adds the finalizer makes the API server store the default. `handleFailure` reads a
  0 as the default too.
* `Edges`, the state machine that the theorem `PhaseEdgesHolds` is about, has two edges that the
  comment at `benchmarkjob_controller.go:69-70` does not draw: an object without a phase
  is submitted at once (`"" -> Submitted`), and a job may fail before it was seen running
  (`Submitted -> Failed`). The retries lead back to Pending.
* `results` is the id of the job whose numbers are in the status.
* The default branch of Reconcile, for an unknown phase, is left out: the CRD's enum
  admits no such phase.

### Provider: state and actions

* `obj`, `cache` and `copy` are the resource, the cached copy and the copy of the
  reconcile in progress. Of the revisions only "is it the latest" is kept
  (`cacheFresh`, `copyFresh`). There is one provider, because leader election is on.
* `Connect`, `Observe`, `Create` and `Delete` are the methods of the connector and the
  external client. `Update` is never reached: Observe always says "up to date".
* `FirstCall`, `Proceed`, `Written`, `AfterWrite` and `Conflict` are the managed
  reconciler, modelled from how the provider relies on it: the annotations
  `external-create-pending`, `-succeeded` and `-failed` around Create (`create`), the
  finalizer, the conditions, and the refusal to go on with a creation it never saw end.
* The annotations are written before the status. Whether the status that Create has set
  survives that write depends on the version of the runtime; `keeps` is a free choice,
  made once per behaviour. The library is not part of the repository. As far as we know,
  the one that `src/provider/go.mod` pins (v0.20.1) reads the object anew for that
  write, which drops the status (`keeps` FALSE). Then the job id is never stored, every
  reconcile calls Create again, and the idempotency key alone prevents a second job:
  `OneJobPerName` and `NoLostWakeUp` are the properties that matter there.
  `SubmissionReached` and `LostJobReplaced` are claims about `keeps` TRUE only.
* `BackendForgets` is a database restored from a backup. `UserRemovesConfig` takes the
  ProviderConfig away, which nothing prevents since Connect tracks no usage, and
  `UserRestoresConfig` brings it back.
* `maxRetries` and `retryCount` are left out: the types declare them and no code reads or
  writes them. See section 3 for what their comments promise.

### Environment: state and actions

* `xr` is the composite as stored, `resp` the last answer of the function together with
  the fields it is about, `composed` the `BenchmarkJob`.
* `RunFunction` has the defaults, the two validations, the tier table and the
  arithmetic. `batchMultiplier` is kept in 256ths, which the floating-point numbers of
  the code hold exactly. `int(...)` is `\div`.
* Go maps are references. Values that the function puts into a map it has just made
  are in no response, which `Annotations` models.
* `XrdAdmits`, `CrdAdmits` and `KyvernoAdmits` state the limits of each
  layer from its own file. The owner is its length.
* `Unvalidated` stands for a composite stored under another schema: the function also
  runs on values that the XRD would refuse today.

## 3. Runs

| Run | Instance | Shows |
|---|---|---|
| `BackendSafety` | 3 requests, 2 keys, 2 models, 2 workers, limit 2, all faults | a job is never in two places or without a row, replies are idempotent, a GPU model is inserted by one open transaction at most, attempts are bounded, `failed` is dead-lettered; refinement of `BenchmarkLifecycle`, in which `completed` has its result |
| `BackendProgress` | 2 requests, 3 models of which one is too long, bodies that fit and that do not, 2 workers, limit 3, `engine` faults, fairness | requests are answered, with 500 only for a body that does not fit or after a race for a new GPU model; no job is lost, every job ends, a dead letter is shown as failed; final states are final; a result names an attempt no smaller than the count |
| `OperatorSafety` | 2 pods, 2 objects, 1 retry, 1 fault | the phase never runs ahead of the job; settled and deleted objects are left alone; the finalizer precedes the POST; no wake-up is lost; refinement of `BenchmarkJobContract`, in which the phase moves along the state machine and a known job is cancelled before its object goes |
| `OperatorProgress` | 1 pod, 2 objects, 2 specs, 1 edit, 1 fault, limits 0 and 1, default 2, fairness | each retry is counted once and below the limit the object has at that moment, `Failed` is written only when it is used up; deletions end; running and failed jobs are reported |
| `ProviderProgress` | 1 resource, 2 ids, 2 specs, 1 edit, 1 fault, both values of `keeps`, fairness | the status never runs ahead; one job per name; no POST while the backend has the job and that has not failed; a job id is kept while the backend has the job (but by `Orphan` deletions); no resource is forgotten, but one whose Create was cut off; every resource is submitted, its outcome shown, a lost job replaced; a deletion ends unless the backend has the job or a Create was cut off |
| `Environment` | 2 GPUs, batches 0, 64, 65, 1024, owners at the limits | the layers agree; the estimate is the reference, and is threefold for training |

Six more runs each show that the code does not do what a document, a comment or a
test says.

| Run | What happens |
|---|---|
| `BackendLostEnqueue` | A POST fails after its commit. Retries with the same key are answered 202, and the job is never queued. |
| `BackendBrokenSession` | The last attempt fails in its commit. `mark_failed` raises on the same session, and the dead-lettered job never shows `failed`. |
| `OperatorMissedRunning` | The job completes between two polls. `handleSubmitted` ignores `completed`, and the object stays in Submitted. |
| `OperatorRetryKey` | A retry uses the key of the first submission and gets the failed job back. |
| `OperatorZeroRetries` | An object with `maxRetries: 0` is retried: 0 is read as "not set". |
| `ProviderDeletion` | Delete cancels nothing. Observe finds the job again, and the finalizer stays. |

Other disagreements are in the models and not runs of their own:

* Two first requests for a GPU model race and one is answered 500, and a body that the
  schema accepts is answered 500 when it does not fit the columns.
  `FailedPostExplained` says that nothing else is, and that neither leaves a row.
* The backend has no DELETE route, so a deleted `BenchmarkJob` leaves its job in the
  queue: `CancelBackendJob` has no effect on `job`.
* The provider never submits a failed job again. `gpubenchmarkjob_types.go:64-65` says that
  it does, up to `maxRetries` times, and lines 94-95 that `retryCount` counts it. In the
  code a failed job makes its resource Unavailable at once, and a second POST with the
  same key would only return the failed job. `NoNeedlessSubmission` therefore speaks of
  jobs that have not failed: it would hold of a provider that did retry, too.
* The sizing function says that it annotates the composite (`main.go:11`). The values for a
  composite without an annotation map are put into a map that no response holds.
* A message popped by a worker that dies is gone, and its row stays `running`. `NoJobLost`
  and `EveryJobSettles` are about behaviours without crashes.
* A deletion that starts from a copy without the job id, because the submission is still
  under way, cancels nothing. `DeletionCancels` is about jobs that the object knows.

### Bounds

Three requests on two keys give two racing requests with one key and a third
on the other key, and let two of them share a new GPU model. Two workers are enough
for two of them to meet on one job. A limit of 2 has one retry and then the dead
letter; `BackendProgress` has two retries. Two objects under one name give a
deletion with work still under way and a re-creation, and two pods give every
conflict between writers. One fault at any place is
allowed in each controller run, besides any number of stale reads and conflicts.
The provider has two job ids so that one can be lost and another made. Its run has one
resource under the name; that re-creations make no second job is the theorem's part.
The ProviderConfig goes at most once, and comes back without counting as an edit.
`BackendSafety` has only bodies that fit, to stay small; `BackendProgress` and the theorems
have the others too.
The length 54 is one more than the namespace leaves room for; batches 64 and 65 are at the boundary of the multiplier.
`DefaultMaxRetries` is 3 in the code and 1 or 2 here; the operator compares it and
does nothing else with it. Symmetry is used in runs without liveness properties
only, over sets whose members are treated alike. The theorems of section 4 remove
these bounds for safety.

### Fairness

* Backend: a handler or worker that can take a step takes one, because asyncio runs
  every ready task and the database releases its locks. Some worker pops a list that
  stays non-empty (BRPOP is polled for ever). New requests and faults are not forced.
  A step that may fail is fair together with its failure.
* Operator and provider: the informer delivers, the work queue is served, and the
  backend takes every job to an end. The last is `EveryJobSettles`, which holds when
  nothing but engines fails. With `crash` or `redis` faults a job that a worker has
  popped may be lost and its row stays `running` for ever, and the controllers then
  poll for ever.
* The provider's liveness is conditional on a ProviderConfig that stays
  (`<>[]config`), and, where the status of Create matters, on `keeps`. Without `keeps`
  the job id may never be stored, and Create is repeated.

## 4. Proofs

Every safety invariant and every action property of the passing runs is proved, and so
are both refinements. The theorems hold for arbitrary sets, numbers of
pods, objects, edits and faults, and any retry limits. They use the `ASSUME`s of the modules only:
bounds and limits are in Nat, and the values that stand for "none" are not values.
The provider also assumes more ids than faults.

Four properties are proved and stated by no run, because a property of the run implies
them: `CompletedHasResult` (by `ImplementsLifecycle`), `PhaseEdges` and
`DeletionCancels` (by `ImplementsContract`), `EstimateMonotone` (by
`EstimateIsReference`).

* `CarrierInvariant` (`BenchmarkBackendProofs`): `CarrierInv` is inductive.
  `OneCarrier` is not by itself: a push keeps it only when no other place holds the
  job, which takes `Exclusive` (the places of a job, pair by pair), `HandlerInv` (a
  request has no row before its commit, so no message can name it), `MessageInv` and
  `RowInv` (every message names a row). The step cases are reduced to a few effects
  first (`ApiCases`, `WorkerCases`) and only these are compared with the invariant.
* `KeyInvariant` (`IdempotencyProofs`): the unique index as an invariant of the rows,
  with what is known of replies and second lookups. It is inductive relative to
  `CarrierInv`: a body changes only when its request arrives, before it has a row.
* `ModelInvariant` (`IdempotencyProofs`): a GPU model has at most one open insert, and
  none once it is committed (`ModelInsertedOnce`, for all faults), every committed model
  came with a row, and, while only engines fail, a request that was answered 500 has no
  row and finds its model committed, unless its body does not fit. The last two give
  `FailedPostExplained`: the winner's row is the witness. A handler step is
  one of three kinds (insert, commit, let go), and only these are compared with the
  invariant.
* `SettledInvariant` (`SettlementProofs`): how jobs end. `EndInv` (a failed row has its
  dead letter; a row with a result has no work left anywhere, if commits are
  acknowledged), `RunInv` (between `mark_running` and `complete_benchmark` the row says
  `running`), `AttemptInv` (the attempt in a message is never behind the count in the
  row) and `FreshInv`. From it the retry limit, the final states and what a result
  says. A write to a row keeps it because, by `Exclusive`, nobody else has that job.
* `KeptInvariant` (`SettlementProofs`): while only engines fail, no session is ever left
  broken and every unfinished row has its job somewhere. `NoJobLost` alone is not
  inductive: `mark_failed` must reach the row after the dead letter was pushed, which
  a broken session would prevent. `NobodyDies` (`BenchmarkBackendProofs`) removes the
  fault actions.
* `BackendImplementsLifecycle` (`LifecycleProofs`): every step of the backend is a step
  of `BenchmarkLifecycle` or changes nothing a client sees. The unique index gives
  Submit its guard, `RunInv` and `EndInv` give the guards of Start, Finish and Fail.
* `OperatorInvariant` (`BenchmarkJobOperatorProofs`): about every copy of the object in
  caches, events and reconciles. Each one by itself is sound (`Sound`: it names a job
  that exists and claims no more than it has done; a finalizer came before the job id). Each one stands to the object as an earlier
  revision does (`Placed`), and is the object if it has its revision (`ExactFor`). A
  reconcile that would win its write has computed a status along an edge
  (`BasedInv`). The last event on its way is the object (`FeedInv`). `StatusSettles`
  and `NoLostWakeUp` need all of these: the former that a stale copy loses, the
  latter that a pod that goes to sleep has seen the object as it is.
* `OperatorImplementsContract` (`OperatorContractProofs`): every step of the operator is a
  step of `BenchmarkJobContract` or is not seen by it. It needs a second invariant on
  top of `OperatorInv`, `ContractInv`. A status was computed from an older copy and an
  older answer of the backend. If it will be accepted, the copy is still the object, and
  the answer is still true: a job that has started has started, and one that has failed
  or completed stays so, and the limit that decided about a retry is still the
  object's (`Justified`), which gives `RetriesFollowLimit`. A deletion that some copy
  shows is never taken back (`DoomedFor`), so that a DELETE is not sent while the first
  object of a name is alive.
* `ProviderInvariant` (`GPUBenchmarkProviderProofs`): the same idea with freshness flags;
  `CopyInv` says that Create is only reached with a job id that is empty or lost, and
  that the object cannot vanish while it runs. From it `NoNeedlessSubmission`.
* `LinkInvariant` (`GPUBenchmarkProviderProofs`): the job id has a finalizer with it
  (`IdInv`), a copy that will be accepted agrees with the resource on the job unless that
  job is gone (`FreshCopyInv`), and Create and the removal of the finalizer are about
  resources without a job in the backend, or orphaned ones (`CallInv`). From it
  `KnownJobKept` and `NoLostWakeUp`, which rests on
  the poll interval: without it a job that ends later would go unseen.
* `BenchmarkEnvironmentProofs`: every answer is that of the function to some composite,
  so the properties are facts about `RunFunction` and the layers. The eleven times
  that tier and workload can give make the arithmetic linear.

Only model-checked: all liveness, which is beyond the prover, and `ENABLED`, with it the
absence of deadlock.

## 5. What is not modelled

* Generated Go code (deep copies, accessors), migrations, chart, CI, health, logging
  and telemetry: they share no state with what is modelled.
* The numbers measured by the engines, and the GPU history route, which only reads.
* Messages, timestamps and `schedulerAPIURL`.
* The wait of an INSERT on a key in flight. The hash that `_build_idempotency_key`
  derives from a body: keys are opaque. The 422 for a key of more than 128 characters,
  on which the operator would submit for ever: its POSTs are taken to be well formed.
* A Redis client that repeats an LPUSH by itself.
* Provider: the grace period after a failed creation, the initializer of the external
  name, `Update`.
* Environment: a change of the owner, which renames the composed resources; the
  ResourceQuota; `maxRetries`, which is 0..10 with default 3 in every layer.
* A job id that the operator polls and the backend does not have: rows are never
  deleted, so it takes an operator that is pointed at another database.
