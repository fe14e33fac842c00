------------------------- MODULE BenchmarkLifecycle -------------------------
(***************************************************************************)
(* What the backend promises its clients, the operator and the provider:   *)
(* the life of a benchmark as POST /benchmarks and GET /benchmarks/{id}    *)
(* show it, without handlers, queue or workers.                            *)
(***************************************************************************)
CONSTANTS
  Ids,    \* job ids
  Keys,   \* idempotency keys
  Specs,  \* what is to be run
  NoJob,  \* the job id is not in the database (404)
  ReRuns  \* may a completed job be run again?

VARIABLE job

Statuses == {"queued", "running", "completed", "failed"}
Jobs == [key : Keys, spec : Specs, status : Statuses, result : BOOLEAN]

Exists(i) == job[i] # NoJob
WithKey(k) == {i \in Ids : Exists(i) /\ job[i].key = k}

\* The jobs that a worker may still pick up.
Open(i) ==
  /\ Exists(i)
  /\ \/ job[i].status \in {"queued", "running"}
     \/ ReRuns /\ job[i].status = "completed"

Init == job = [i \in Ids |-> NoJob]

\* A key is taken at most once.
Submit(i, k, s) ==
  /\ ~Exists(i)
  /\ WithKey(k) = {}
  /\ job' = [job EXCEPT ![i] = [key |-> k, spec |-> s, status |-> "queued", result |-> FALSE]]

Start(i) ==
  /\ Open(i)
  /\ job' = [job EXCEPT ![i].status = "running"]

\* The status and the result appear together.
Finish(i) ==
  /\ Exists(i) /\ job[i].status = "running" /\ ~job[i].result
  /\ job' = [job EXCEPT ![i].status = "completed", ![i].result = TRUE]

Fail(i) ==
  /\ Open(i)
  /\ job' = [job EXCEPT ![i].status = "failed"]

Advance(i) == Start(i) \/ Finish(i) \/ Fail(i)

Next ==
  \E i \in Ids :
    \/ \E k \in Keys, s \in Specs : Submit(i, k, s)
    \/ Advance(i)

Spec == Init /\ [][Next]_job
=============================================================================
