------------------------ MODULE GPUBenchmarkProvider ------------------------
(***************************************************************************)
(* The Crossplane provider: the connector and the external client of       *)
(* provider/internal/controller/gpubenchmarkjob_controller.go, called by   *)
(* the managed reconciler of crossplane-runtime, on the GPUBenchmarkJob    *)
(* resources that users create, one after the other, under one name.       *)
(*                                                                         *)
(* The managed reconciler is external.  It brackets Create with writes of  *)
(* the annotations external-create-pending and -succeeded or -failed, and  *)
(* refuses to go on with a resource whose Create it started and never saw  *)
(* end.  Leader election is on, so there is one reconcile at a time.       *)
(***************************************************************************)
EXTENDS Naturals, FiniteSets

CONSTANTS
  Ids, Specs,         \* backend job ids; what a resource asks to be run
  Name,               \* the name of the resources, their idempotency key
  NoId, NoObj, NoJob, \* the empty jobID; no such resource; no such backend job
  KeepsStatus,        \* the values that keeps may have
  MaxObjects, MaxEdits, MaxFaults  \* bounds on creations, user edits and faults

ASSUME Bounds == MaxObjects \in Nat /\ MaxEdits \in Nat /\ MaxFaults \in Nat
ASSUME Regimes == KeepsStatus \subseteq BOOLEAN

\* A new id is left for the backend after every job that it loses.
ASSUME EnoughIds == NoId \notin Ids /\ Cardinality(Ids) > MaxFaults

VARIABLES
  obj,         \* the resource in the API server
  cache,       \* the provider's cached copy of it
  cacheFresh,  \* is that the latest revision?
  copy,        \* the copy of the reconcile in progress
  copyFresh,   \* is that the latest revision?
  rpc,         \* the next call of the reconcile in progress
  pending,     \* is the name in the work queue?
  config,      \* does the ProviderConfig exist?
  keeps,       \* does the status that Create sets survive the write of the annotations?
  job, lost,   \* the backend's jobs, and the ids it no longer knows
  created, edits, faults  \* how often the bounded things have happened

copyVars == <<cache, copy, copyFresh, rpc, pending>>
storeVars == <<obj, cacheFresh>>
backendVars == <<job, lost>>
envVars == <<config, keeps, created, edits>>
vars == <<storeVars, copyVars, backendVars, envVars, faults>>

\* The backend, as it is while the acknowledgement of no commit is lost: a job that has
\* ended is not run again.
Backend == INSTANCE BenchmarkLifecycle WITH Keys <- {Name}, ReRuns <- FALSE

\* create is the state of the three annotations, orphan the deletionPolicy, results
\* the id of the job whose numbers are in the status, ready the Ready condition.
\* maxRetries and retryCount are left out: nothing reads or writes them.
Resources ==
  [uid : 1 .. MaxObjects, spec : Specs, orphan : BOOLEAN, finalizer : BOOLEAN, deleting : BOOLEAN,
   create : {"none", "pending", "succeeded", "failed"},
   jobID : Ids \union {NoId}, phase : Backend!Statuses \union {""}, results : Ids \union {NoId},
   ready : {"none", "Creating", "Available", "Unavailable"}]

ASSUME NoSuchResource == NoObj \notin Resources
ASSUME NoSuchJob == NoJob \notin Backend!Jobs

Writes == {"add_finalizer", "remove_finalizer", "pending", "annotate", "status"}
Calls == {"idle", "connect", "get", "post", "delete"} \union Writes

Init ==
  /\ obj = NoObj /\ cache = NoObj /\ copy = NoObj
  /\ cacheFresh = TRUE /\ copyFresh = FALSE
  /\ rpc = "idle" /\ pending = FALSE
  /\ config = TRUE /\ keeps \in KeepsStatus
  /\ Backend!Init /\ lost = {}
  /\ created = 0 /\ edits = 0 /\ faults = 0

-----------------------------------------------------------------------------
(* The API server and the users.                                           *)

\* A write that changes nothing makes no new revision.
Store(new) == obj' = new /\ cacheFresh' = (cacheFresh /\ new = obj)

UserWrites(new) ==
  /\ Store(new)
  /\ copyFresh' = (copyFresh /\ new = obj)
  /\ UNCHANGED <<cache, copy, rpc, pending, backendVars, keeps, faults>>

Edit == edits < MaxEdits /\ edits' = edits + 1

NewResource(s, p) ==
  [uid |-> created + 1, spec |-> s, orphan |-> p, finalizer |-> FALSE, deleting |-> FALSE,
   create |-> "none", jobID |-> NoId, phase |-> "", results |-> NoId, ready |-> "none"]

UserCreates ==
  /\ obj = NoObj /\ created < MaxObjects
  /\ \E s \in Specs, p \in BOOLEAN : UserWrites(NewResource(s, p))
  /\ created' = created + 1
  /\ UNCHANGED <<config, edits>>

\* A resource with a finalizer is only marked; without one it is gone at once.
UserDeletes ==
  /\ obj # NoObj /\ ~obj.deleting
  /\ UserWrites(IF obj.finalizer THEN [obj EXCEPT !.deleting = TRUE] ELSE NoObj)
  /\ UNCHANGED <<config, created, edits>>

UserEditsSpec ==
  /\ Edit
  /\ obj # NoObj
  /\ \E s \in Specs \ {obj.spec} : UserWrites([obj EXCEPT !.spec = s])
  /\ UNCHANGED <<config, created>>

\* Somebody looks into an incomplete creation and removes the annotation.
UserRepairs ==
  /\ Edit
  /\ obj # NoObj /\ obj.create = "pending"
  /\ UserWrites([obj EXCEPT !.create = "none"])
  /\ UNCHANGED <<config, created>>

\* Connect tracks no ProviderConfigUsage, so nothing keeps a config that is in use.
UserRemovesConfig ==
  /\ Edit
  /\ config /\ config' = FALSE
  /\ UNCHANGED <<storeVars, copyVars, backendVars, keeps, created, faults>>

UserRestoresConfig ==
  /\ ~config /\ config' = TRUE
  /\ UNCHANGED <<storeVars, copyVars, backendVars, keeps, created, edits, faults>>

WatchEvent ==
  /\ ~cacheFresh
  /\ cache' = obj /\ cacheFresh' = TRUE /\ pending' = TRUE
  /\ UNCHANGED <<obj, copy, copyFresh, rpc, backendVars, envVars, faults>>

\* The cache repeats its contents to the controller every hour.
Resync ==
  /\ cache # NoObj /\ ~pending
  /\ pending' = TRUE
  /\ UNCHANGED <<storeVars, cache, copy, copyFresh, rpc, backendVars, envVars, faults>>

-----------------------------------------------------------------------------
(* A reconcile.                                                            *)

Return(requeue) ==
  /\ rpc' = "idle" /\ copy' = NoObj /\ copyFresh' = FALSE
  /\ pending' = (requeue \/ pending)
  /\ UNCHANGED cache

Call(call, c, latest) ==
  /\ rpc' = call /\ copy' = c /\ copyFresh' = latest
  /\ UNCHANGED <<cache, pending>>

\* An incomplete creation is reported, and nothing else is done, also under deletion.
FirstCall(c) ==
  CASE c = NoObj -> "idle"
    [] c # NoObj /\ c.deleting /\ c.orphan -> "remove_finalizer"
    [] c # NoObj /\ ~(c.deleting /\ c.orphan) ->
         IF c.create = "pending" THEN "status" ELSE "connect"

Reconcile ==
  /\ rpc = "idle" /\ pending
  /\ rpc' = FirstCall(cache) /\ pending' = FALSE
  /\ copy' = (IF rpc' = "status" THEN [cache EXCEPT !.ready = "Creating"] ELSE cache)
  /\ copyFresh' = (cacheFresh /\ rpc' # "idle")
  /\ UNCHANGED <<storeVars, cache, backendVars, envVars, faults>>

\* What follows an observation of the external resource.
Proceed(c, exists) ==
  Call(CASE c.deleting -> IF exists THEN "delete" ELSE "remove_finalizer"
         [] ~c.deleting /\ exists -> "status"
         [] ~c.deleting /\ ~exists -> IF c.finalizer THEN "pending" ELSE "add_finalizer",
       c, copyFresh)

\* Connect, and the part of Observe that needs no request: no job id, no resource.
Connect ==
  /\ rpc = "connect"
  /\ IF ~config THEN Return(TRUE)
     ELSE IF copy.jobID = NoId THEN Proceed(copy, FALSE)
     ELSE Call("get", copy, copyFresh)
  /\ UNCHANGED <<storeVars, backendVars, envVars, faults>>

\* Faulty variants: a job that is not finished is ready, and a failure does not show.
ReadyAtOnce(status) == "Available"

\* The Ready condition for the status that the backend reports.
ReadyCondition(status) ==
  CASE status = "completed" -> "Available"
    [] status = "failed" -> "Unavailable"
    [] OTHER -> "Creating"

\* The resource as Observe leaves it.
Observed(c, status, hasResult) ==
  [c EXCEPT !.phase = status, !.ready = ReadyCondition(status),
            !.results = IF status = "completed" /\ hasResult THEN c.jobID ELSE @]

\* Faulty variant: a job that nobody has started counts as not there yet.
QueuedIsAbsent(i) == Backend!Exists(i) /\ job[i].status # "queued"

\* A 404 is the one answer that says that there is no such job.
ResourceExists(i) == Backend!Exists(i)

\* Faulty variant: a 404 is an error like any other.
ObserveOr404(i) ==
  IF Backend!Exists(i) THEN Proceed(Observed(copy, job[i].status, job[i].result), TRUE) ELSE Return(TRUE)

\* What Observe makes of the answer to GET /benchmarks/{id}.
ObserveJob(i) ==
  IF ResourceExists(i)
    THEN Proceed(Observed(copy, job[i].status, job[i].result), TRUE)
    ELSE Proceed(copy, FALSE)

Observe ==
  /\ rpc = "get"
  /\ ObserveJob(copy.jobID)
  /\ UNCHANGED <<storeVars, backendVars, envVars, faults>>

\* Faulty variant: the key changes with the spec.
KeyOfSpec(c) == <<Name, c.spec>>

IdempotencyKey(c) == Name

\* POST /benchmarks at the backend: the job i that has the key, made if need be.
PostEffect(c, i) ==
  /\ IF Backend!WithKey(IdempotencyKey(c)) = {}
       THEN Backend!Submit(i, IdempotencyKey(c), c.spec)
       ELSE i \in Backend!WithKey(IdempotencyKey(c)) /\ UNCHANGED job
  /\ UNCHANGED lost

\* Faulty variants: a phase that the backend does not have, and a forgotten job id.
SubmittedPhase(c, i) == [c EXCEPT !.jobID = i, !.phase = "submitted", !.ready = "Creating"]
WithoutId(c, i) == [c EXCEPT !.phase = "queued", !.ready = "Creating"]

\* The status that Create leaves.
Submitted(c, i) == [c EXCEPT !.jobID = i, !.phase = "queued", !.ready = "Creating"]

Create ==
  /\ rpc = "post"
  /\ \E i \in Ids \ lost :
       /\ PostEffect(copy, i)
       /\ Call("annotate", [Submitted(copy, i) EXCEPT !.create = "succeeded"], copyFresh)
  /\ UNCHANGED <<storeVars, envVars, faults>>

\* The backend has no DELETE route, and Delete ignores its answer and its absence.
Delete ==
  /\ rpc = "delete"
  /\ Call("status", copy, copyFresh)
  /\ UNCHANGED <<storeVars, backendVars, envVars, faults>>

-----------------------------------------------------------------------------
(* Writes.                                                                 *)

WithStatus(c, s) ==
  [c EXCEPT !.jobID = s.jobID, !.phase = s.phase, !.results = s.results, !.ready = s.ready]

Written ==
  CASE rpc = "add_finalizer" -> [obj EXCEPT !.finalizer = TRUE]
    [] rpc = "remove_finalizer" -> NoObj
    [] rpc = "pending" -> [obj EXCEPT !.create = "pending"]
    [] rpc = "annotate" -> [obj EXCEPT !.create = copy.create]
    [] rpc = "status" -> WithStatus(obj, copy)

\* The annotations are written on top of what the cache has, again and again until
\* that is the latest revision; every other write is refused unless the copy is.
Accepted == rpc \in Writes /\ IF rpc = "annotate" THEN cacheFresh ELSE copyFresh

\* Faulty variant: a resource whose job has ended is not looked at again.
PollUntilEnd(c) == c.create # "pending" /\ c.ready \notin {"Available", "Unavailable"}

\* After its status is written a resource is looked at again when the poll interval
\* is over, but not one whose creation is incomplete.
PollAgain(c) == c.create # "pending"

AfterWrite ==
  CASE rpc = "add_finalizer" -> Call("pending", obj', TRUE)
    [] rpc = "remove_finalizer" -> Return(FALSE)
    [] rpc = "pending" -> Call("post", obj', TRUE)
    [] rpc = "annotate" ->
         Call("status", IF keeps THEN WithStatus(obj', copy) ELSE [obj' EXCEPT !.ready = "Creating"], TRUE)
    [] rpc = "status" -> Return(PollAgain(copy))

WriteObject ==
  /\ Accepted
  /\ Store(Written)
  /\ AfterWrite
  /\ UNCHANGED <<backendVars, envVars, faults>>

Conflict ==
  /\ rpc \in Writes \ {"annotate"} /\ ~copyFresh
  /\ Return(TRUE)
  /\ UNCHANGED <<storeVars, backendVars, envVars, faults>>

-----------------------------------------------------------------------------
(* Faults.                                                                 *)

Fault == faults < MaxFaults /\ faults' = faults + 1

\* The GET fails, or is answered by an error that decodes: Observe checks for a 404
\* and for no other status, so the phase becomes "".
ObserveFails ==
  /\ Fault
  /\ rpc = "get"
  /\ \/ Return(TRUE)
     \/ Proceed(Observed(copy, "", FALSE), TRUE)
  /\ UNCHANGED <<storeVars, backendVars, envVars>>

\* The POST fails, and may have been carried out all the same.
CreateFails ==
  /\ Fault
  /\ rpc = "post"
  /\ \/ UNCHANGED backendVars
     \/ \E i \in Ids \ lost : PostEffect(copy, i)
  /\ Call("annotate", [copy EXCEPT !.create = "failed", !.ready = "Creating"], copyFresh)
  /\ UNCHANGED <<storeVars, envVars>>

\* The API server fails, and may have written the object all the same.
WriteFails ==
  /\ Fault
  /\ rpc \in Writes
  /\ \/ UNCHANGED storeVars
     \/ Accepted /\ Store(Written)
  /\ Return(TRUE)
  /\ UNCHANGED <<backendVars, envVars>>

ProviderRestarts ==
  /\ Fault
  /\ cache' = obj /\ cacheFresh' = TRUE
  /\ rpc' = "idle" /\ copy' = NoObj /\ copyFresh' = FALSE
  /\ pending' = (obj # NoObj)
  /\ UNCHANGED <<obj, backendVars, envVars>>

\* The backend's database is restored without the job.
BackendForgets ==
  /\ Fault
  /\ \E i \in Ids :
       /\ Backend!Exists(i)
       /\ job' = [job EXCEPT ![i] = NoJob]
       /\ lost' = lost \union {i}
  /\ UNCHANGED <<storeVars, copyVars, envVars>>

-----------------------------------------------------------------------------

Advances(i) == Backend!Advance(i) /\ UNCHANGED <<storeVars, copyVars, lost, envVars, faults>>

\* Every resource is gone, and the provider knows it.
Settled == obj = NoObj /\ cacheFresh /\ rpc = "idle" /\ ~pending /\ UNCHANGED vars

ProviderStep ==
  \/ Reconcile \/ Connect \/ Observe \/ Create \/ Delete
  \/ WriteObject \/ Conflict

Next ==
  \/ UserCreates \/ UserDeletes \/ UserEditsSpec \/ UserRepairs \/ UserRemovesConfig \/ UserRestoresConfig
  \/ WatchEvent \/ Resync
  \/ ProviderStep
  \/ ObserveFails \/ CreateFails \/ WriteFails \/ ProviderRestarts \/ BackendForgets
  \/ \E i \in Ids : Advances(i)
  \/ Settled

Spec == Init /\ [][Next]_vars

\* The informer delivers, the work queue is served, and the backend brings every job
\* to an end.  Users and faults are free.
Fairness ==
  /\ WF_vars(WatchEvent) /\ WF_vars(ProviderStep)
  /\ \A i \in Ids : WF_vars(Advances(i))

FairSpec == Spec /\ Fairness

-----------------------------------------------------------------------------
(* Safety.                                                                 *)

\* The resource stays within the types of gpubenchmarkjob_types.go, and so do its copies.
TypeOK ==
  /\ {obj, cache, copy} \subseteq Resources \union {NoObj}
  /\ {cacheFresh, copyFresh, pending, config, keeps} \subseteq BOOLEAN
  /\ rpc \in Calls
  /\ job \in [Ids -> Backend!Jobs \union {NoJob}] /\ lost \subseteq Ids
  /\ created \in 0 .. MaxObjects /\ edits \in 0 .. MaxEdits /\ faults \in 0 .. MaxFaults

Known == obj # NoObj /\ obj.jobID \in Ids /\ Backend!Exists(obj.jobID)

\* The status of a resource never claims more than its job has done, whichever stale
\* copy Observe started from, and although answers, writes and jobs are lost: Available
\* only for a completed job and with that job's results, Unavailable only for a failed
\* one.  (A job that has ended stays so: see Backend.)
StatusNeverAhead ==
  Known =>
    /\ obj.phase = "running" => job[obj.jobID].status # "queued"
    /\ obj.phase = "completed" => job[obj.jobID].status = "completed"
    /\ obj.ready = "Available" => job[obj.jobID].status = "completed" /\ obj.results = obj.jobID
    /\ obj.ready = "Unavailable" => job[obj.jobID].status = "failed"

\* However often Create is repeated, after lost answers, lost status writes, edits of the
\* spec and repairs, the backend has one job for the name: the key makes it safe to retry.
OneJobPerName == Cardinality({i \in Ids : Backend!Exists(i)}) <= 1

\* Create is not called for a resource while the backend has its job and that has not
\* failed, although the reconcile may have read a copy from before the job id was stored.
\* (The types speak of re-submissions of a failed job; the code makes none.)
NoNeedlessSubmission == rpc = "post" /\ Known => job[obj.jobID].status = "failed"

\* A resource is never forgotten: while no reconcile is in progress or queued and no
\* event is on its way, there is no resource, or one whose creation is incomplete.
\* Neither conflicts, lost answers, restarts nor edits between read and write end the
\* polling that finds a job's outcome, or its loss, in the backend.
NoLostWakeUp ==
  rpc = "idle" /\ cacheFresh /\ ~pending => obj = NoObj \/ obj.create = "pending"

\* A resource never lets go of a job that the backend still has: no status write puts
\* another id, or none, in place of the one it knows, and the finalizer is removed
\* only when Observe has met a 404, or under the deletionPolicy Orphan.
KnownJobKept ==
  [][Known => \/ obj' # NoObj /\ obj'.jobID = obj.jobID
              \/ obj.deleting /\ obj.orphan]_vars

-----------------------------------------------------------------------------
(* Liveness.                                                               *)

Present(u) == obj # NoObj /\ obj.uid = u

\* The creation is pending and no reconcile is about to end it.
Incomplete == obj # NoObj /\ obj.create = "pending" /\ rpc \notin {"post", "annotate"}

\* A resource that is not deleted gets its job id, once the ProviderConfig stays and if
\* the status that Create sets survives (keeps), unless a Create was cut off: then it
\* waits for somebody to look into it.
SubmissionReached ==
  keeps /\ <>[]config =>
    \A u \in 1 .. MaxObjects :
      Present(u) ~> (Present(u) /\ ~obj.deleting => obj.jobID # NoId \/ Incomplete)


\* A resource whose job the backend has lost is submitted again, once the ProviderConfig
\* stays and if the new status survives (keeps), unless that Create was cut off.
LostJobReplaced ==
  keeps /\ <>[]config =>
    \A u \in 1 .. MaxObjects :
      Present(u) /\ obj.jobID \in lost ~> (Present(u) => obj.jobID \notin lost \/ Incomplete)

\* A deletion ends, once the ProviderConfig stays, unless the backend still has the job,
\* which it cannot cancel, or a Create was cut off.
DeletionEnds ==
  <>[]config =>
    \A u \in 1 .. MaxObjects : Present(u) /\ obj.deleting ~> (Present(u) => Known \/ Incomplete)

-----------------------------------------------------------------------------
(* What comments say, and the code does not do.                            *)

\* Crossplane removes the finalizer and deletes the resource whatever the backend
\* answers to the cancellation.
DeletionAlwaysEnds == \A u \in 1 .. MaxObjects : Present(u) /\ obj.deleting ~> ~Present(u)
=============================================================================
