-------------------------- MODULE BenchmarkWorker --------------------------
(***************************************************************************)
(* The worker processes: run_forever and _process_job of                   *)
(* app/workers/benchmark_worker.py with the engines of                     *)
(* app/services/gpu_engine.py.  wpc[w] is the await that worker w is at.   *)
(***************************************************************************)
EXTENDS BackendStore

CONSTANT Workers

VARIABLES
  wpc,    \* the next await of each worker
  msg,    \* the message each worker has popped
  broken  \* must the worker's session be rolled back before its next use?

workerVars == <<wpc, msg, broken>>

\* "nvidia", "simulated": running on that engine; "except": in the handler of
\* line 53, before it pushes anything.
WorkerSteps == {"idle", "mark_running", "select", "nvidia", "simulated",
                "complete", "except", "mark_failed"}

WorkerInit ==
  /\ wpc = [w \in Workers |-> "idle"]
  /\ msg = [w \in Workers |-> Null]
  /\ broken = [w \in Workers |-> FALSE]

Step(w, from, to) == wpc[w] = from /\ wpc' = [wpc EXCEPT ![w] = to]

\* The exception handler is entered, with the session usable or not.
Raise(w, unusable) ==
  /\ wpc' = [wpc EXCEPT ![w] = "except"]
  /\ broken' = [broken EXCEPT ![w] = unusable]
  /\ UNCHANGED msg

\* _process_job returns, or the process dies and its pod restarts: in both
\* cases the next thing the worker does is a dequeue with a fresh session.
Idle(w) ==
  /\ wpc' = [wpc EXCEPT ![w] = "idle"]
  /\ msg' = [msg EXCEPT ![w] = Null]
  /\ broken' = [broken EXCEPT ![w] = FALSE]

\* Faulty variant: the worker reads the message and leaves it in the list.
Peek == queue' = queue

\* BRPOP.
Pop == queue' = Tail(queue)

\* BRPOP removes the message before anything is done about it.
Dequeue(w) ==
  /\ Step(w, "idle", "mark_running")
  /\ queue # <<>>
  /\ msg' = [msg EXCEPT ![w] = Head(queue)]
  /\ Pop
  /\ UNCHANGED <<payload, dbVars, dlq, broken>>

WorkerMarksRunning(w) ==
  /\ Step(w, "mark_running", "select")
  /\ MarkRunning(msg[w].id)
  /\ UNCHANGED <<payload, redisVars, msg, broken>>

\* Any statement of mark_running may fail.  When the refresh after the commit
\* fails, the row has changed all the same.  A connection that could not be
\* opened leaves the session usable, any other failure does not.
MarkRunningFails(w) ==
  /\ wpc[w] = "mark_running"
  /\ "db" \in Faults
  /\ \/ MarkRunning(msg[w].id)
     \/ UNCHANGED dbVars
  /\ \E unusable \in BOOLEAN : Raise(w, unusable)
  /\ UNCHANGED <<payload, redisVars>>

\* runtime_available() decides for the NVIDIA adapter or the simulated engine.
SelectEngine(w) ==
  /\ wpc[w] = "select"
  /\ \E engine \in {"nvidia", "simulated"} : wpc' = [wpc EXCEPT ![w] = engine]
  /\ UNCHANGED <<storeVars, msg, broken>>

RunEngine(w) ==
  /\ wpc[w] \in {"nvidia", "simulated"}
  /\ wpc' = [wpc EXCEPT ![w] = "complete"]
  /\ UNCHANGED <<storeVars, msg, broken>>

\* The NVIDIA adapter raises: nvidia-smi has gone since the first check, or its
\* output does not parse.  The simulated engine never does.
NvidiaFails(w) ==
  /\ wpc[w] = "nvidia"
  /\ "engine" \in Faults
  /\ Raise(w, FALSE)
  /\ UNCHANGED storeVars

\* complete_benchmark.  benchmark_results.benchmark_id is unique: a second
\* result for the row makes the flush raise IntegrityError.
WorkerCompletes(w) ==
  /\ wpc[w] = "complete"
  /\ IF RowExists(msg[w].id) /\ result[msg[w].id] # 0
       THEN Raise(w, TRUE) /\ UNCHANGED dbVars
       ELSE CompleteBenchmark(msg[w].id, msg[w].attempt + 1) /\ Idle(w)
  /\ UNCHANGED <<payload, redisVars>>

\* The flush or the COMMIT of complete_benchmark raises.  When only the
\* acknowledgement of the COMMIT is lost, the row is completed all the same.
CompleteFails(w) ==
  /\ wpc[w] = "complete"
  /\ \/ "db" \in Faults /\ UNCHANGED dbVars
     \/ /\ "commit_lost" \in Faults
        /\ result[msg[w].id] = 0
        /\ CompleteBenchmark(msg[w].id, msg[w].attempt + 1)
  /\ Raise(w, TRUE)
  /\ UNCHANGED <<payload, redisVars>>

\* Faulty variants of the three parts of the handler: the limit is off by one, a failed
\* attempt is dropped, and nothing follows the push to the dead-letter list.
RetryOnceMore(m) == m.attempt < MaxRetries
DropAttempt(w) == Idle(w) /\ UNCHANGED redisVars
GiveUpSilently(w) == MoveToDlq(msg[w]) /\ Idle(w) /\ UNCHANGED queue

Retryable(m) == m.attempt + 1 < MaxRetries

Retry(w) == EnqueueRetry(msg[w]) /\ Idle(w) /\ UNCHANGED dlq

GiveUp(w) ==
  /\ MoveToDlq(msg[w])
  /\ wpc' = [wpc EXCEPT ![w] = "mark_failed"]
  /\ UNCHANGED <<queue, msg, broken>>

\* The exception handler, up to its push.
HandleException(w) ==
  /\ wpc[w] = "except"
  /\ IF Retryable(msg[w]) THEN Retry(w) ELSE GiveUp(w)
  /\ UNCHANGED <<payload, dbVars>>

\* mark_failed in the session of the attempt.  After a failed flush or commit
\* nobody has rolled that session back: it raises PendingRollbackError, which
\* leaves run_forever and ends the process.
WorkerMarksFailed(w) ==
  /\ wpc[w] = "mark_failed"
  /\ IF broken[w] THEN UNCHANGED dbVars ELSE MarkFailed(msg[w].id)
  /\ Idle(w)
  /\ UNCHANGED <<payload, redisVars>>

\* The faults that end a worker process at each of its awaits: run_forever and
\* the handler of line 53 catch nothing.  A BRPOP that popped the message and
\* then lost the connection counts as a fault of the step that follows it.
FatalFaults(step) ==
  CASE step = "idle" -> {}
    [] step \in {"mark_running", "except"} -> {"crash", "redis"}
    [] step = "mark_failed" -> {"crash", "redis", "db"}
    [] OTHER -> {"crash"}

\* The process dies with the message it has popped.
WorkerDies(w) ==
  /\ FatalFaults(wpc[w]) \intersect Faults # {}
  /\ Idle(w)
  /\ UNCHANGED storeVars

WorkerStep(w) ==
  \/ WorkerMarksRunning(w)
  \/ MarkRunningFails(w)
  \/ SelectEngine(w)
  \/ RunEngine(w)
  \/ NvidiaFails(w)
  \/ WorkerCompletes(w)
  \/ CompleteFails(w)
  \/ HandleException(w)
  \/ WorkerMarksFailed(w)

WorkerNext ==
  \E w \in Workers :
    \/ Dequeue(w)
    \/ WorkerStep(w)
    \/ WorkerDies(w)
=============================================================================
