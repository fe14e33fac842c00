------------------------ MODULE BenchmarkJobOperator ------------------------
(***************************************************************************)
(* The operator (operator/controllers/benchmarkjob_controller.go) working  *)
(* on the BenchmarkJob objects that users create, one after the other,     *)
(* under one namespace/name.  It reads them from an informer cache that    *)
(* lags behind the API server, writes them under optimistic concurrency,   *)
(* and talks HTTP to the backend, of which it sees BenchmarkLifecycle.     *)
(*                                                                         *)
(* Leader election is off by default, so two operator pods may work on the *)
(* same object while a Deployment rolls over: each o \in Operators has its *)
(* own cache, work queue and reconcile in progress.                        *)
(***************************************************************************)
EXTENDS Naturals, Sequences, FiniteSets

CONSTANTS
  Operators,          \* running operator pods
  Ids, Specs,         \* backend job ids; what a spec asks to be run
  Name,               \* the namespace/name of the objects
  NoId, NoObj, NoJob, \* the empty jobID; no such object; no such backend job
  RetryLimits,        \* values users give spec.maxRetries
  DefaultMaxRetries,  \* 3, in the CRD and in handleFailure
  MaxObjects, MaxEdits, MaxFaults  \* bounds on creations, edits and faults

VARIABLES
  obj,      \* the object in the API server
  rev,      \* the API server's revision counter
  cache,    \* each operator's cached copy
  events,   \* watch events on their way to each operator
  pending,  \* is the name in the operator's work queue?
  rpc,      \* the next call of the reconcile in progress
  loc,      \* its copy of the object
  job,      \* the backend's jobs
  cancels,  \* the job ids for which a DELETE was sent
  created, edits, faults  \* how often the bounded things have happened

k8sVars == <<obj, rev, events>>
opVars == <<cache, pending, rpc, loc>>
envVars == <<created, edits, faults>>
vars == <<k8sVars, opVars, job, cancels, envVars>>

\* The backends of this model acknowledge every commit that takes effect, so that no
\* completed job runs again.
Backend == INSTANCE BenchmarkLifecycle WITH Keys <- {Name}, ReRuns <- FALSE

Phases == {"", "Pending", "Submitted", "Running", "Completed", "Failed"}
TerminalPhases == {"Completed", "Failed"}
Calls == {"idle", "post", "get", "cancel", "status", "add_finalizer", "remove_finalizer"}

\* An object; results is the id of the job whose results are in the status.
Objects ==
  [uid : 1 .. MaxObjects, rv : Nat, spec : Specs, maxRetries : Nat,
   finalizer : BOOLEAN, deleting : BOOLEAN,
   phase : Phases, jobID : Ids \union {NoId}, retries : Nat, results : Ids \union {NoId}]

ASSUME Bounds == {MaxObjects, MaxEdits, MaxFaults} \subseteq Nat
ASSUME RetryValues == RetryLimits \subseteq Nat /\ DefaultMaxRetries \in Nat
ASSUME NoSuchObject == NoObj \notin Objects
ASSUME NoSuchId == NoId \notin Ids
ASSUME NoSuchJob == NoJob \notin Backend!Jobs

Init ==
  /\ obj = NoObj /\ rev = 0
  /\ cache = [o \in Operators |-> NoObj]
  /\ events = [o \in Operators |-> <<>>]
  /\ pending = [o \in Operators |-> FALSE]
  /\ rpc = [o \in Operators |-> "idle"]
  /\ loc = [o \in Operators |-> NoObj]
  /\ Backend!Init
  /\ cancels = {}
  /\ created = 0 /\ edits = 0 /\ faults = 0

-----------------------------------------------------------------------------
(* The API server and the users.                                           *)

\* A write gets a new revision, and every watcher will be told of it.
Store(new) ==
  /\ rev' = rev + 1
  /\ obj' = IF new = NoObj THEN NoObj ELSE [new EXCEPT !.rv = rev + 1]
  /\ events' = [o \in Operators |-> Append(events[o], obj')]

NewObject(s, m) ==
  [uid |-> created + 1, rv |-> 0, spec |-> s, maxRetries |-> m,
   finalizer |-> FALSE, deleting |-> FALSE,
   phase |-> "", jobID |-> NoId, retries |-> 0, results |-> NoId]

UserCreates ==
  /\ obj = NoObj /\ created < MaxObjects
  /\ \E s \in Specs, m \in RetryLimits : Store(NewObject(s, m))
  /\ created' = created + 1
  /\ UNCHANGED <<opVars, job, cancels, edits, faults>>

\* The CRD lets users change every field of the spec, at any time.
UserEditsSpec ==
  /\ obj # NoObj /\ edits < MaxEdits
  /\ \E new \in {[obj EXCEPT !.spec = s] : s \in Specs}
                 \union {[obj EXCEPT !.maxRetries = m] : m \in RetryLimits} :
       new # obj /\ Store(new)
  /\ edits' = edits + 1
  /\ UNCHANGED <<opVars, job, cancels, created, faults>>

\* An object with a finalizer is only marked; without one it is gone at once.
UserDeletes ==
  /\ obj # NoObj /\ ~obj.deleting
  /\ Store(IF obj.finalizer THEN [obj EXCEPT !.deleting = TRUE] ELSE NoObj)
  /\ UNCHANGED <<opVars, job, cancels, envVars>>

\* The informer delivers the next event, which also queues the name.
WatchEvent(o) ==
  /\ events[o] # <<>>
  /\ cache' = [cache EXCEPT ![o] = Head(events[o])]
  /\ events' = [events EXCEPT ![o] = Tail(@)]
  /\ pending' = [pending EXCEPT ![o] = TRUE]
  /\ UNCHANGED <<obj, rev, rpc, loc, job, cancels, envVars>>

-----------------------------------------------------------------------------
(* Reconcile.                                                              *)

\* The reconcile ends; requeue covers RequeueAfter, Requeue and a returned error.
Return(o, requeue) ==
  /\ rpc' = [rpc EXCEPT ![o] = "idle"]
  /\ loc' = [loc EXCEPT ![o] = NoObj]
  /\ pending' = [pending EXCEPT ![o] = requeue \/ @]
  /\ UNCHANGED cache

Call(o, call, copy) ==
  /\ rpc' = [rpc EXCEPT ![o] = call]
  /\ loc' = [loc EXCEPT ![o] = copy]
  /\ UNCHANGED <<cache, pending>>

\* Faulty variants of what Reconcile asks of the object: only a settled object is seen
\* to be deleted, and a new object needs no finalizer.
IgnoreDeletion(c) == c.deleting /\ c.phase \in TerminalPhases
SubmitBeforeFinalizer(c) == ~c.finalizer /\ c.phase # ""

UnderDeletion(c) == c.deleting
Cancellable(c) == c.jobID # NoId /\ c.phase \notin TerminalPhases
NeedsFinalizer(c) == ~c.finalizer

\* What Reconcile does first with the copy c of the object it finds in the cache;
\* "idle": nothing.
FirstCall(c) ==
  CASE c = NoObj -> "idle"
    [] c # NoObj /\ UnderDeletion(c) ->
         IF ~c.finalizer THEN "idle" ELSE IF Cancellable(c) THEN "cancel" ELSE "remove_finalizer"
    [] c # NoObj /\ ~UnderDeletion(c) /\ NeedsFinalizer(c) -> "add_finalizer"
    [] c # NoObj /\ ~UnderDeletion(c) /\ ~NeedsFinalizer(c) ->
         CASE c.phase \in {"", "Pending"} -> "post"
           [] c.phase \in {"Submitted", "Running"} -> "get"
           [] c.phase \in TerminalPhases -> "idle"

Reconcile(o) ==
  /\ rpc[o] = "idle" /\ pending[o]
  /\ pending' = [pending EXCEPT ![o] = FALSE]
  /\ rpc' = [rpc EXCEPT ![o] = FirstCall(cache[o])]
  /\ loc' = [loc EXCEPT ![o] = IF rpc'[o] = "idle" THEN NoObj ELSE cache[o]]
  /\ UNCHANGED <<k8sVars, cache, job, cancels, envVars>>

\* The idempotency key of a submission.
IdempotencyKey(c) == Name

\* POST /benchmarks at the backend: the job i that has the key, made if need be.
PostEffect(c, i) ==
  IF Backend!WithKey(IdempotencyKey(c)) = {}
    THEN Backend!Submit(i, IdempotencyKey(c), c.spec)
    ELSE i \in Backend!WithKey(IdempotencyKey(c)) /\ UNCHANGED job

\* handlePending, when the API answers.
HandlePending(o) ==
  /\ rpc[o] = "post"
  /\ \E i \in Ids :
       /\ PostEffect(loc[o], i)
       /\ Call(o, "status", [loc[o] EXCEPT !.jobID = i, !.phase = "Submitted"])
  /\ UNCHANGED <<k8sVars, cancels, envVars>>

\* Faulty variants: a retry too many, and a phase that the CRD does not have.
RetryTooOften(c) ==
  IF c.retries <= c.maxRetries
    THEN [c EXCEPT !.retries = @ + 1, !.jobID = NoId, !.phase = "Pending"]
    ELSE [c EXCEPT !.phase = "Failed"]

RetryingPhase(c) == [c EXCEPT !.retries = @ + 1, !.phase = "Retrying"]

\* handleFailure, on the operator's copy of the object.
HandleFailure(c) ==
  LET limit == IF c.maxRetries = 0 THEN DefaultMaxRetries ELSE c.maxRetries
  IN  IF c.retries < limit
        THEN [c EXCEPT !.retries = @ + 1, !.jobID = NoId, !.phase = "Pending"]
        ELSE [c EXCEPT !.phase = "Failed"]

\* GET /benchmarks/{id}; an unknown id is answered 404, which neither poll
\* checks for, so that its status reads as "".
PolledStatus(c) == IF c.jobID \in Ids /\ Backend!Exists(c.jobID) THEN job[c.jobID].status ELSE ""

\* Faulty variants: a queued job counts as running, and a failure is not looked for.
QueuedIsRunning(c) ==
  IF PolledStatus(c) = "failed" THEN HandleFailure(c) ELSE [c EXCEPT !.phase = "Running"]

SubmittedIgnoresFailure(c) ==
  IF PolledStatus(c) = "running" THEN [c EXCEPT !.phase = "Running"] ELSE c

\* handleSubmitted: what it writes for the status it polled, c itself if nothing.
HandleSubmitted(c) ==
  CASE PolledStatus(c) = "running" -> [c EXCEPT !.phase = "Running"]
    [] PolledStatus(c) = "failed" -> HandleFailure(c)
    [] OTHER -> c

\* Faulty variant: a running job that fails is polled for ever.
RunningIgnoresFailure(c) ==
  IF PolledStatus(c) = "completed" THEN [c EXCEPT !.phase = "Completed", !.results = c.jobID] ELSE c

\* handleRunning, likewise.
HandleRunning(c) ==
  CASE PolledStatus(c) = "completed" ->
         [c EXCEPT !.phase = "Completed", !.results = IF job[c.jobID].result THEN c.jobID ELSE @]
    [] PolledStatus(c) = "failed" -> HandleFailure(c)
    [] OTHER -> c

\* Faulty variant: a poll that changes nothing is not followed by another one.
PollOnce(o) == Return(o, FALSE)

PollAgain(o) == Return(o, TRUE)

\* The poll is answered: write the status, or poll again later.
HandlePoll(o) ==
  /\ rpc[o] = "get"
  /\ LET new == IF loc[o].phase = "Submitted" THEN HandleSubmitted(loc[o]) ELSE HandleRunning(loc[o])
     IN  IF new = loc[o] THEN PollAgain(o) ELSE Call(o, "status", new)
  /\ UNCHANGED <<k8sVars, job, cancels, envVars>>

\* Faulty variant: the 405 is an error, to be retried.
CancelUntilAccepted(o) == Return(o, TRUE)

\* The answer to the DELETE is ignored.
AfterCancel(o) == Call(o, "remove_finalizer", loc[o])

\* The best-effort DELETE of handleDeletion.  The backend has no such route: it
\* answers 405 and does nothing.
CancelBackendJob(o) ==
  /\ rpc[o] = "cancel"
  /\ cancels' = cancels \union {loc[o].jobID}
  /\ AfterCancel(o)
  /\ UNCHANGED <<k8sVars, job, envVars>>

-----------------------------------------------------------------------------
(* Writes to the API server: refused unless the copy is the latest one.    *)

Current(o) == obj # NoObj /\ obj.rv = loc[o].rv

\* maxRetries is omitempty: a 0 is left out of the PUT and defaulted again.
Defaulted(m) == IF m = 0 THEN DefaultMaxRetries ELSE m

\* The object after the pending write of operator o: Status().Update takes the
\* status alone, Update everything else; an object that is being deleted goes
\* with its last finalizer.
Written(o) ==
  CASE rpc[o] = "status" ->
         [obj EXCEPT !.phase = loc[o].phase, !.jobID = loc[o].jobID,
                     !.retries = loc[o].retries, !.results = loc[o].results]
    [] rpc[o] = "add_finalizer" ->
         [obj EXCEPT !.finalizer = TRUE, !.maxRetries = Defaulted(@)]
    [] rpc[o] = "remove_finalizer" -> NoObj

Writing(o) == rpc[o] \in {"status", "add_finalizer", "remove_finalizer"}

\* Faulty variant: setPhase repeats a refused write on top of the latest revision.
LastWriterWins(o) ==
  /\ Writing(o)
  /\ IF obj # NoObj
       THEN Store(Written(o)) /\ Return(o, rpc[o] = "add_finalizer")
       ELSE UNCHANGED k8sVars /\ Return(o, TRUE)
  /\ UNCHANGED <<job, cancels, envVars>>

\* setPhase and handleDeletion return without requeueing, the step that adds the
\* finalizer with Requeue; a conflict or a missing object is an error.
WriteObject(o) ==
  /\ Writing(o)
  /\ IF Current(o)
       THEN Store(Written(o)) /\ Return(o, rpc[o] = "add_finalizer")
       ELSE UNCHANGED k8sVars /\ Return(o, TRUE)
  /\ UNCHANGED <<job, cancels, envVars>>

-----------------------------------------------------------------------------
(* Faults.                                                                 *)

Fault == faults < MaxFaults /\ faults' = faults + 1

\* The POST or the poll fails; a POST may have been carried out all the same.
HttpFails(o) ==
  /\ Fault
  /\ \/ rpc[o] \in {"post", "get"} /\ UNCHANGED job
     \/ rpc[o] = "post" /\ \E i \in Ids : PostEffect(loc[o], i)
  /\ Return(o, TRUE)
  /\ UNCHANGED <<k8sVars, cancels, created, edits>>

\* The API server fails; it may have written the object all the same.
WriteFails(o) ==
  /\ Fault
  /\ Writing(o)
  /\ \/ UNCHANGED k8sVars
     \/ Current(o) /\ Store(Written(o))
  /\ Return(o, TRUE)
  /\ UNCHANGED <<job, cancels, created, edits>>

\* The pod restarts: a new informer lists the objects and queues them.
OperatorRestarts(o) ==
  /\ Fault
  /\ rpc' = [rpc EXCEPT ![o] = "idle"]
  /\ loc' = [loc EXCEPT ![o] = NoObj]
  /\ cache' = [cache EXCEPT ![o] = obj]
  /\ events' = [events EXCEPT ![o] = <<>>]
  /\ pending' = [pending EXCEPT ![o] = obj # NoObj]
  /\ UNCHANGED <<obj, rev, job, cancels, created, edits>>

-----------------------------------------------------------------------------

BackendAdvances ==
  /\ \E i \in Ids : Backend!Advance(i)
  /\ UNCHANGED <<k8sVars, opVars, cancels, envVars>>

\* A settled object that everybody knows about: nothing is left to do.
Settled ==
  /\ obj # NoObj => obj.phase \in TerminalPhases
  /\ \A o \in Operators : rpc[o] = "idle" /\ ~pending[o] /\ events[o] = <<>>
  /\ UNCHANGED vars

OperatorStep(o) ==
  \/ Reconcile(o)
  \/ HandlePending(o)
  \/ HandlePoll(o)
  \/ CancelBackendJob(o)
  \/ WriteObject(o)

Next ==
  \/ UserCreates \/ UserEditsSpec \/ UserDeletes
  \/ \E o \in Operators : WatchEvent(o) \/ OperatorStep(o)
  \/ \E o \in Operators : HttpFails(o) \/ WriteFails(o) \/ OperatorRestarts(o)
  \/ BackendAdvances
  \/ Settled

Spec == Init /\ [][Next]_vars

\* The informer delivers, the work queue is served, and the backend brings every
\* job to an end (EveryJobSettles of BenchmarkBackend).  Users and faults are free.
Fairness ==
  /\ \A o \in Operators : WF_vars(WatchEvent(o)) /\ WF_vars(OperatorStep(o))
  /\ \A i \in Ids : WF_vars((Backend!Finish(i) \/ Backend!Fail(i))
                              /\ UNCHANGED <<k8sVars, opVars, cancels, envVars>>)
  /\ \A i \in Ids : WF_vars(Backend!Start(i) /\ UNCHANGED <<k8sVars, opVars, cancels, envVars>>)

FairSpec == Spec /\ Fairness

-----------------------------------------------------------------------------
(* Safety.                                                                 *)

\* The object stays within the CRD's schema, and so do all copies of it.
TypeOK ==
  /\ obj \in Objects \union {NoObj}
  /\ rev \in Nat
  /\ cache \in [Operators -> Objects \union {NoObj}]
  /\ \A o \in Operators : events[o] \in Seq(Objects \union {NoObj})
  /\ pending \in [Operators -> BOOLEAN]
  /\ rpc \in [Operators -> Calls]
  /\ loc \in [Operators -> Objects \union {NoObj}]
  /\ job \in [Ids -> Backend!Jobs \union {NoJob}]
  /\ cancels \subseteq Ids
  /\ created \in 0 .. MaxObjects /\ edits \in 0 .. MaxEdits /\ faults \in 0 .. MaxFaults

\* The status of an object never claims more than its backend job has done,
\* whichever stale copy it was computed from: Running only once the job has been
\* started, Completed only for a completed job and with that job's results, Failed
\* only for a failed one.
PhaseNeverAhead ==
  obj # NoObj =>
    /\ obj.phase \in {"Submitted", "Running", "Completed", "Failed"} =>
         obj.jobID \in Ids /\ Backend!Exists(obj.jobID)
    /\ obj.phase = "Running" => job[obj.jobID].status # "queued"
    /\ obj.phase = "Completed" => job[obj.jobID].status = "completed" /\ obj.results = obj.jobID
    /\ obj.phase = "Failed" => job[obj.jobID].status = "failed"

\* No submission goes to the backend for an object that could vanish without
\* handleDeletion: the finalizer is in the API server before the POST is sent.
PostedUnderFinalizer ==
  \A o \in Operators :
    rpc[o] = "post" /\ obj # NoObj /\ obj.uid = loc[o].uid => obj.finalizer

\* An object with work left to do is never forgotten: although setPhase returns
\* without requeueing and relies on the watch event of its own write, every
\* operator has the name queued, is reconciling it, or has an event to come.
NoLostWakeUp ==
  obj # NoObj /\ (obj.deleting \/ obj.phase \notin TerminalPhases) =>
    \A o \in Operators : pending[o] \/ rpc[o] # "idle" \/ events[o] # <<>>

-----------------------------------------------------------------------------
(* What a step may never do, and what must happen.                         *)

\* The step changes the object in place: it is not deleted and created anew.
SameObject == obj # NoObj /\ obj' # NoObj /\ obj.uid = obj'.uid

StatusOf(c) == <<c.phase, c.jobID, c.retries, c.results>>

\* A status in a terminal phase never changes again, nor does the status of an
\* object under deletion: a reconcile that started from an older copy loses the
\* race for the write, in the same pod or in another one.
StatusSettles ==
  [][SameObject /\ (obj.phase \in TerminalPhases \/ obj.deleting)
       => StatusOf(obj') = StatusOf(obj)]_vars

\* From the empty phase handlePending goes to Submitted at once, and a job may fail
\* before it was seen running: two edges that the comment on Reconcile does not draw.
Edges ==
  {<<"", "Submitted">>, <<"Pending", "Submitted">>, <<"Submitted", "Running">>,
   <<"Running", "Completed">>, <<"Submitted", "Failed">>, <<"Running", "Failed">>,
   <<"Submitted", "Pending">>, <<"Running", "Pending">>}

\* The phase only moves forward along Edges, or back to Pending for a retry, whichever
\* stale copy the reconcile that writes it started from.
PhaseEdges ==
  [][SameObject /\ obj'.phase # obj.phase => <<obj.phase, obj'.phase>> \in Edges]_vars

\* A retry is counted once, and only below the limit that the object has when the count
\* is written; Failed is only written when that limit is used up.  Lost answers,
\* conflicts and restarts count nothing twice, and a limit that a user changes between
\* the read and the write decides no more.  A limit of 0 counts as not set.
RetriesFollowLimit ==
  [][SameObject =>
       /\ obj'.retries # obj.retries =>
            obj'.retries = obj.retries + 1 /\ obj.retries < Defaulted(obj.maxRetries)
       /\ obj'.phase = "Failed" /\ obj.phase # "Failed" =>
            obj.retries >= Defaulted(obj.maxRetries)]_vars

\* An object whose job is known and not finished leaves only after a DELETE for
\* that job was sent, although the deletion may start from a stale copy that
\* does not have the job id yet.
DeletionCancels ==
  [][obj # NoObj /\ obj' = NoObj /\ obj.jobID # NoId /\ obj.phase \notin TerminalPhases
       => obj.jobID \in cancels]_vars

\* The object c as users see it: without its revision.
View(c) ==
  IF c = NoObj THEN NoObj
  ELSE [uid |-> c.uid, spec |-> c.spec, maxRetries |-> c.maxRetries,
        finalizer |-> c.finalizer, deleting |-> c.deleting,
        phase |-> c.phase, jobID |-> c.jobID, retries |-> c.retries, results |-> c.results]

ObjView == View(obj)

Contract == INSTANCE BenchmarkJobContract WITH obj <- ObjView

ASSUME NoSuchView == NoObj \notin Contract!Objects

\* However many pods there are and however stale their copies, the object changes as
\* under one controller that acts on the object and the job as they are at that moment:
\* every status that is written is true of the latest state, where Running says that the
\* job has started.
ImplementsContract == Contract!Spec

Present(u) == obj # NoObj /\ obj.uid = u

\* A deletion ends, whatever the backend does: it is never blocked by the cancel.
DeletionEnds == \A u \in 1 .. MaxObjects : Present(u) /\ obj.deleting ~> ~Present(u)

\* An object whose job was seen running ends in Completed or Failed.
RunningSettles ==
  \A u \in 1 .. MaxObjects :
    Present(u) /\ obj.phase = "Running" ~> (Present(u) => obj.phase \in TerminalPhases)

\* A failed job makes its object Failed, through all the retries.
FailureReported ==
  \A u \in 1 .. MaxObjects :
    Present(u) /\ (\E i \in Backend!WithKey(Name) : job[i].status = "failed")
      ~> (Present(u) => obj.phase \in TerminalPhases)

-----------------------------------------------------------------------------
(* What comments, tests and documents say, and the code does not do.       *)

\* A completed job makes its object Completed: the operator drives a BenchmarkJob
\* from Pending to Completed.
CompletionReported ==
  \A u \in 1 .. MaxObjects :
    Present(u) /\ (\E i \in Backend!WithKey(Name) : job[i].status = "completed")
      ~> (Present(u) => obj.phase = "Completed")

\* maxRetries, 0 included, is the maximum number of times a failed job is retried: no
\* object is retried more often than the largest limit that users give.
RetriedAsAllowed == obj # NoObj => \E m \in RetryLimits : obj.retries <= m

\* Each retry is a re-submission under a new idempotency variant: it gets a job
\* of its own.
RetryIsNewJob ==
  obj # NoObj /\ obj.phase = "Submitted" =>
    Cardinality({i \in Ids : Backend!Exists(i)}) > obj.retries
=============================================================================
