-------------------------- MODULE BenchmarkBackend --------------------------
(***************************************************************************)
(* The backend: the API handlers and the workers around PostgreSQL and     *)
(* Redis, and what they must guarantee together.                           *)
(***************************************************************************)
EXTENDS BenchmarkApi, BenchmarkWorker

vars == <<storeVars, apiVars, workerVars>>

Init == StoreInit /\ ApiInit /\ WorkerInit

\* Every request has been answered and every message dealt with: the backend
\* waits for work that no client of the model will send.
Quiescent ==
  /\ \A r \in Requests : hpc[r] \in {"done", "error"}
  /\ \A w \in Workers : wpc[w] = "idle"
  /\ queue = <<>>
  /\ UNCHANGED vars

Next ==
  \/ ApiNext /\ UNCHANGED workerVars
  \/ WorkerNext /\ UNCHANGED apiVars
  \/ Quiescent

Spec == Init /\ [][Next]_vars

\* asyncio runs every handler and every worker that is not blocked, and a popped
\* list is popped again; nothing forces a request to be sent or a fault to happen.
Fairness ==
  /\ \A r \in Requests : WF_vars(HandlerStep(r) /\ UNCHANGED workerVars)
  /\ \A w \in Workers : WF_vars(WorkerStep(w) /\ UNCHANGED apiVars)
  /\ WF_vars(\E w \in Workers : Dequeue(w) /\ UNCHANGED apiVars)

FairSpec == Spec /\ Fairness

-----------------------------------------------------------------------------
(* Where the work for a benchmark is.                                      *)

\* The worker has popped a job and has neither finished it nor pushed it again.
Holding(w) == wpc[w] \notin {"idle", "mark_failed"}

\* The places that hold the job of row b: its handler before the LPUSH, the two
\* lists, and the worker that holds it.
Carriers(b) ==
  {<<"handler", r>> : r \in {q \in {b} : hpc[q] = "enqueue"}}
    \union {<<"queue", i>> : i \in {j \in DOMAIN queue : queue[j].id = b}}
    \union {<<"dlq", i>> : i \in {j \in DOMAIN dlq : dlq[j].id = b}}
    \union {<<"worker", w>> : w \in {v \in Workers : Holding(v) /\ msg[v].id = b}}

DeadLettered(b) == \E i \in DOMAIN dlq : dlq[i].id = b

Terminal(b) == status[b] \in {"completed", "failed"}

-----------------------------------------------------------------------------
(* Safety.                                                                 *)

\* The tables, the lists and the processes stay within the types of models.py and
\* of the queue's messages.
TypeOK ==
  /\ payload \in [Requests -> Payloads \union {Null}]
  /\ status \in [Requests -> BenchmarkStatus \union {"none"}]
  /\ attempts \in [Requests -> Nat]
  /\ result \in [Requests -> Nat]
  /\ models \in SUBSET Models
  /\ queue \in Seq(Message)
  /\ dlq \in Seq(Message)
  /\ hpc \in [Requests -> HandlerSteps]
  /\ newModel \in [Requests -> BOOLEAN]
  /\ reply \in [Requests -> Requests \union {Null}]
  /\ wpc \in [Workers -> WorkerSteps]
  /\ msg \in [Workers -> Message \union {Null}]
  /\ broken \in [Workers -> BOOLEAN]

\* The job of a benchmark is in at most one place, whatever fails: no two
\* workers ever run the same benchmark, and a job is never both dead-lettered
\* and waiting.  mark_running's unlocked attempt_count += 1 relies on it.
OneCarrier == \A b \in Requests : \A c, d \in Carriers(b) : c = d

\* A job that is waiting, running or dead-lettered has a committed row:
\* create_benchmark_job enqueues after the commit, so mark_running and
\* complete_benchmark never meet a missing benchmark and drop the job silently.
CarriedHasRow == \A b \in Requests : Carriers(b) # {} => RowExists(b)

\* All requests with one idempotency key that are answered 202 are answered
\* with one job id, and that job was created with that key, under any
\* interleaving of the lookups, the failed inserts and the second lookups.
IdempotentReplies ==
  \A r \in Requests : reply[r] # Null =>
    /\ RowExists(reply[r])
    /\ payload[reply[r]].key = payload[r].key
    /\ \A q \in Requests :
         reply[q] # Null /\ payload[q].key = payload[r].key => reply[q] = reply[r]

\* The re-raise of create_benchmark (the row that made the INSERT fail is gone
\* at the second lookup) never happens: rows are never deleted.
RecheckFindsRow ==
  \A r \in Requests : hpc[r] = "recheck" => FindByIdempotencyKey(payload[r].key) # {}

\* Only the idempotency key can make create_benchmark's commit raise IntegrityError,
\* which is what its except clause takes it for: at the commit the handler's GPU model
\* is either in the table or inserted by this transaction, and by no other open one.
\* A lock on a new model name is held only by a handler that is about to commit.
ModelInsertedOnce ==
  \A r \in Requests :
    /\ newModel[r] => hpc[r] = "commit"
    /\ hpc[r] = "commit" => (newModel[r] <=> payload[r].gpu \notin models)
    /\ \A q \in Requests : newModel[q] /\ newModel[r] /\ payload[q].gpu = payload[r].gpu => q = r

\* worker_max_retries bounds the runs of a benchmark over all its messages,
\* retries and lost acknowledgements (a limit of 0 still allows the first run).
AttemptsBounded == \A b \in Requests : attempts[b] <= MaxRetries \/ attempts[b] <= 1

\* The attempt stored with a result counts at least the attempts the row had
\* made when it was written: it never claims fewer runs than mark_running counted,
\* unless a lost acknowledgement makes the worker run the job again.
ResultCountsAttempts ==
  "commit_lost" \notin Faults =>
    \A b \in Requests : result[b] # 0 => attempts[b] <= result[b]

\* A client that reads "completed" also finds the result: both are written in
\* one commit and the result row is never removed.
CompletedHasResult == \A b \in Requests : status[b] = "completed" => result[b] # 0

\* "failed" is only ever shown for a job that is in the dead-letter list.
FailedIsDeadLettered == \A b \in Requests : status[b] = "failed" => DeadLettered(b)

\* Without lost connections and crashes every benchmark that is not finished is
\* somewhere: waiting for its push, in the queue, or with a worker.
NoJobLost ==
  Faults \subseteq {"engine"} =>
    \A b \in Requests : RowExists(b) /\ ~Terminal(b) =>
      \/ Carriers(b) # {} /\ ~DeadLettered(b)
      \/ \E w \in Workers : wpc[w] = "mark_failed" /\ msg[w].id = b

\* A job that POST /benchmarks has accepted is queued in Redis, or on its way
\* there, for as long as its row says "queued", also when the accepted request
\* was the retry of one that failed half way.
AcceptedIsQueued ==
  \A r \in Requests : reply[r] # Null /\ status[reply[r]] = "queued" => Carriers(reply[r]) # {}

\* A POST that meets no fault of its environment is answered 500 for one of two reasons:
\* its body does not fit the columns, or it lost the race for a new GPU model.  After a
\* lost race the model is there and the request left nothing behind, so a second try
\* cannot fail that way; a body that does not fit is never stored.
FailedPostExplained ==
  /\ \A r \in Requests : RowExists(r) => Storable(payload[r])
  /\ Faults \subseteq {"engine"} =>
       \A r \in Requests : hpc[r] = "error" /\ Storable(payload[r]) =>
         /\ ~RowExists(r)
         /\ \E q \in Requests \ {r} : RowExists(q) /\ payload[q].gpu = payload[r].gpu

-----------------------------------------------------------------------------
(* What a step may never do, and what must happen.                         *)

\* "failed" is final, and so is "completed" unless the acknowledgement of the
\* completing commit was lost: mark_running overwrites any status, so this rests
\* on no message for the benchmark being left anywhere.
TerminalIsFinal ==
  [][\A b \in Requests :
       /\ status[b] = "failed" => status'[b] = "failed"
       /\ status[b] = "completed" /\ "commit_lost" \notin Faults => status'[b] = "completed"]_vars

\* The benchmarks table as GET /benchmarks/{id} shows it.
JobView ==
  [b \in Requests |->
     IF RowExists(b)
       THEN [key |-> payload[b].key, spec |-> payload[b].gpu,
             status |-> status[b], result |-> result[b] # 0]
       ELSE Null]

Lifecycle == INSTANCE BenchmarkLifecycle WITH
               Ids <- Requests, Specs <- Models, NoJob <- Null,
               ReRuns <- ("commit_lost" \in Faults), job <- JobView

ASSUME NullIsNoJob == Null \notin Lifecycle!Jobs

\* To its clients the backend is the abstract job store: handlers, queue,
\* workers and faults only ever make the steps of BenchmarkLifecycle visible.
ImplementsLifecycle == Lifecycle!Spec

\* A request that was sent is answered: a handler that waits for the
\* transaction of another on the same new GPU model does not wait forever.
EveryRequestAnswered ==
  \A r \in Requests : hpc[r] # "new" ~> hpc[r] \in {"done", "error"}

\* A benchmark that was stored is run to an end, however its attempts go.
EveryJobSettles == \A b \in Requests : RowExists(b) ~> Terminal(b)

\* A job that is given up, its retries exhausted, is shown as "failed".
DeadLetteredShowsFailed == \A b \in Requests : DeadLettered(b) ~> status[b] = "failed"
=============================================================================
