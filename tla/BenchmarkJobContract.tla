------------------------ MODULE BenchmarkJobContract ------------------------
(***************************************************************************)
(* What the operator promises about a BenchmarkJob: one controller that    *)
(* changes the object in the API server atomically, from the object as it  *)
(* is and the backend job as it is, without caches, events, conflicts,     *)
(* restarts or a second pod.                                               *)
(***************************************************************************)
EXTENDS Naturals

CONSTANTS
  Ids, Specs, Name,
  NoId, NoObj, NoJob,
  RetryLimits, DefaultMaxRetries

VARIABLES
  obj,      \* the object, without its revision
  created,  \* the number of objects that there have been
  job,      \* the backend's jobs
  cancels   \* the job ids for which a DELETE was sent

vars == <<obj, created, job, cancels>>

\* As in BenchmarkJobOperator, no completed job runs again.
Backend == INSTANCE BenchmarkLifecycle WITH Keys <- {Name}, ReRuns <- FALSE

Phases == {"", "Pending", "Submitted", "Running", "Completed", "Failed"}

Objects ==
  [uid : Nat, spec : Specs, maxRetries : Nat, finalizer : BOOLEAN, deleting : BOOLEAN,
   phase : Phases, jobID : Ids \union {NoId}, retries : Nat, results : Ids \union {NoId}]

\* A limit of 0 counts as not set.
Limit(m) == IF m = 0 THEN DefaultMaxRetries ELSE m

Init ==
  /\ obj = NoObj /\ created = 0
  /\ Backend!Init
  /\ cancels = {}

\* The object becomes new, and nothing else changes.
Becomes(new) == obj' = new /\ UNCHANGED <<created, job, cancels>>

-----------------------------------------------------------------------------
(* The users.                                                              *)

Create(s, m) ==
  /\ obj = NoObj
  /\ obj' = [uid |-> created + 1, spec |-> s, maxRetries |-> m,
             finalizer |-> FALSE, deleting |-> FALSE,
             phase |-> "", jobID |-> NoId, retries |-> 0, results |-> NoId]
  /\ created' = created + 1
  /\ UNCHANGED <<job, cancels>>

Edit(s) == obj # NoObj /\ Becomes([obj EXCEPT !.spec = s])

EditLimit(m) == obj # NoObj /\ Becomes([obj EXCEPT !.maxRetries = m])

Delete ==
  /\ obj # NoObj /\ ~obj.deleting
  /\ Becomes(IF obj.finalizer THEN [obj EXCEPT !.deleting = TRUE] ELSE NoObj)

-----------------------------------------------------------------------------
(* The controller.                                                         *)

Alive == obj # NoObj /\ ~obj.deleting

\* The finalizer is put on before anything else is done, once.
Adopt ==
  /\ Alive /\ ~obj.finalizer
  /\ Becomes([obj EXCEPT !.finalizer = TRUE, !.maxRetries = Limit(@)])

\* The backend takes a submission under the key of the object.
Submit(i, s) == Backend!Submit(i, Name, s) /\ UNCHANGED <<obj, created, cancels>>

\* The job that has the key is entered into the object.
RecordJob(i) ==
  /\ Alive /\ obj.finalizer /\ obj.phase \in {"", "Pending"}
  /\ i \in Backend!WithKey(Name)
  /\ Becomes([obj EXCEPT !.jobID = i, !.phase = "Submitted"])

\* The object has job i, in one of the phases P.
Has(i, P) == Alive /\ obj.finalizer /\ obj.phase \in P /\ obj.jobID = i /\ Backend!Exists(i)

\* The job has started; it may be over by now.
ReportRunning(i) ==
  /\ Has(i, {"Submitted"}) /\ job[i].status # "queued"
  /\ Becomes([obj EXCEPT !.phase = "Running"])

ReportCompleted(i) ==
  /\ Has(i, {"Running"}) /\ job[i].status = "completed"
  /\ Becomes([obj EXCEPT !.phase = "Completed", !.results = i])

\* A failed job is retried as often as the limit of the moment says, and then reported.
Retry(i) ==
  /\ Has(i, {"Submitted", "Running"}) /\ job[i].status = "failed"
  /\ obj.retries < Limit(obj.maxRetries)
  /\ Becomes([obj EXCEPT !.retries = @ + 1, !.jobID = NoId, !.phase = "Pending"])

ReportFailed(i) ==
  /\ Has(i, {"Submitted", "Running"}) /\ job[i].status = "failed"
  /\ obj.retries >= Limit(obj.maxRetries)
  /\ Becomes([obj EXCEPT !.phase = "Failed"])

\* A DELETE is sent for a job of the backend, and only once an object is being
\* deleted or gone.
Cancel(i) ==
  /\ Backend!Exists(i)
  /\ Alive => obj.uid > 1
  /\ cancels' = cancels \union {i}
  /\ UNCHANGED <<obj, created, job>>

\* The object goes; if it has a job that is not known to be over, after its DELETE.
Release ==
  /\ obj # NoObj /\ obj.deleting
  /\ obj.jobID # NoId /\ obj.phase \notin {"Completed", "Failed"} => obj.jobID \in cancels
  /\ Becomes(NoObj)

-----------------------------------------------------------------------------

BackendAdvances(i) == Backend!Advance(i) /\ UNCHANGED <<obj, created, cancels>>

Next ==
  \/ \E s \in Specs, m \in RetryLimits : Create(s, m)
  \/ \E s \in Specs : Edit(s)
  \/ \E m \in RetryLimits : EditLimit(m)
  \/ Delete \/ Adopt \/ Release
  \/ \E i \in Ids :
       \/ \E s \in Specs : Submit(i, s)
       \/ RecordJob(i) \/ ReportRunning(i) \/ ReportCompleted(i) \/ Retry(i) \/ ReportFailed(i)
       \/ Cancel(i)
       \/ BackendAdvances(i)

Spec == Init /\ [][Next]_vars
=============================================================================
