--------------------- MODULE GPUBenchmarkProviderProofs ---------------------
(***************************************************************************)
(* The safety properties of GPUBenchmarkProvider, for any number of job    *)
(* ids, specs, resources, edits and faults.                                *)
(***************************************************************************)
EXTENDS GPUBenchmarkProvider, FiniteSetTheorems, TLAPS

\* What a resource c with job j may claim.
Claims(c, j) ==
  /\ c.phase = "running" => j.status # "queued"
  /\ c.phase = "completed" => j.status = "completed"
  /\ c.ready = "Available" => j.status = "completed" /\ c.results = c.jobID
  /\ c.ready = "Unavailable" => j.status = "failed"

\* The job id of a copy is of a job that the backend has or had, and while the
\* backend has it the copy claims no more than the job has done.
SoundFor(c, jobs, gone) ==
  c # NoObj =>
    /\ c \in Resources
    /\ c.jobID # NoId /\ c.jobID \notin gone => jobs[c.jobID] # NoJob /\ Claims(c, jobs[c.jobID])

Sound(c) == SoundFor(c, job, lost)

\* The backend has one job at most, under the name, and never again one that it lost.
JobInv ==
  /\ job \in [Ids -> Backend!Jobs \union {NoJob}] /\ lost \subseteq Ids
  /\ \A i \in Ids : Backend!Exists(i) =>
       /\ i \notin lost
       /\ job[i].status = "completed" => job[i].result
       /\ \A k \in Ids : Backend!Exists(k) => k = i

\* Counters and flags.
PlainInv ==
  /\ {cacheFresh, copyFresh, pending, config, keeps} \subseteq BOOLEAN
  /\ rpc \in Calls
  /\ created \in 0 .. MaxObjects /\ edits \in 0 .. MaxEdits /\ faults \in 0 .. MaxFaults

SameResource(c, d) == c.jobID = d.jobID /\ c.finalizer = d.finalizer

\* What the copies have to do with the object: a fresh one has its job id and its
\* finalizer, a reconcile is about to create, or creates, only if no job is known
\* under the object, and the object cannot vanish meanwhile.
CopyInv ==
  /\ cacheFresh => cache = obj
  /\ rpc # "idle" => copy # NoObj
  /\ copyFresh =>
       /\ obj # NoObj
       /\ rpc \in {"connect", "get", "add_finalizer", "pending"} => SameResource(copy, obj)
  /\ rpc = "get" => copy.jobID # NoId
  /\ rpc \in {"add_finalizer", "pending"} => copy.jobID \in lost \union {NoId}
  /\ rpc = "pending" => copy.finalizer
  /\ rpc = "post" => obj.jobID \in lost \union {NoId}
  /\ rpc \in {"post", "annotate"} => obj # NoObj /\ obj.finalizer

ProviderInv == JobInv /\ PlainInv /\ CopyInv /\ Sound(obj) /\ Sound(cache) /\ Sound(copy)

-----------------------------------------------------------------------------
(* What the backend does to the jobs.                                      *)

\* The jobs move on, and no copy claims more than before.
JobsMoveOn == JobInv' /\ lost \subseteq lost' /\ \A c : Sound(c) => SoundFor(c, job', lost')

\* A job only advances.
LEMMA AdvanceMoves ==
  ASSUME JobInv, NEW i \in Ids, Backend!Advance(i), UNCHANGED lost
  PROVE  JobsMoveOn
<1>1. Backend!Exists(i) /\ job[i] \in Backend!Jobs /\ job[i].status \in {"queued", "running"}
  BY DEF JobInv, Backend!Advance, Backend!Start, Backend!Finish, Backend!Fail, Backend!Open, Backend!Exists
<1>2. PICK n \in Backend!Jobs :
        job' = [job EXCEPT ![i] = n] /\ n.status # "queued" /\ (n.status = "completed" => n.result)
  <2>1. CASE Backend!Start(i)
    <3> DEFINE n == [job[i] EXCEPT !.status = "running"]
    <3>1. n \in Backend!Jobs /\ n.status # "queued" /\ (n.status = "completed" => n.result)
      BY <1>1 DEF Backend!Jobs, Backend!Statuses
    <3>2. job' = [job EXCEPT ![i] = n]
      BY <1>1, <2>1 DEF Backend!Start, JobInv, Backend!Jobs
    <3> QED
      BY <3>1, <3>2
  <2>2. CASE Backend!Finish(i)
    <3> DEFINE n == [job[i] EXCEPT !.status = "completed", !.result = TRUE]
    <3>1. n \in Backend!Jobs /\ n.status # "queued" /\ (n.status = "completed" => n.result)
      BY <1>1 DEF Backend!Jobs, Backend!Statuses
    <3>2. job' = [job EXCEPT ![i] = n]
      BY <1>1, <2>2 DEF Backend!Finish, JobInv, Backend!Jobs
    <3> QED
      BY <3>1, <3>2
  <2>3. CASE Backend!Fail(i)
    <3> DEFINE n == [job[i] EXCEPT !.status = "failed"]
    <3>1. n \in Backend!Jobs /\ n.status # "queued" /\ (n.status = "completed" => n.result)
      BY <1>1 DEF Backend!Jobs, Backend!Statuses
    <3>2. job' = [job EXCEPT ![i] = n]
      BY <1>1, <2>3 DEF Backend!Fail, JobInv, Backend!Jobs
    <3> QED
      BY <3>1, <3>2
  <2> QED
    BY <2>1, <2>2, <2>3 DEF Backend!Advance
<1>3. JobInv'
  BY <1>1, <1>2, NoSuchJob DEF JobInv, Backend!Exists
<1>4. ASSUME NEW c, Sound(c)
      PROVE  SoundFor(c, job', lost')
  BY <1>1, <1>2, <1>4, NoSuchJob DEF Sound, SoundFor, Claims, JobInv, Resources
<1> QED
  BY <1>3, <1>4 DEF JobsMoveOn

\* A POST returns a job that exists afterwards, new only if there was none.
LEMMA PostMoves ==
  ASSUME JobInv, NEW c \in Resources, NEW i \in Ids \ lost, PostEffect(c, i)
  PROVE  JobsMoveOn /\ job'[i] # NoJob /\ lost' = lost
<1>1. lost' = lost
  BY DEF PostEffect
<1>2. CASE UNCHANGED job /\ Backend!Exists(i)
  BY <1>1, <1>2 DEF JobsMoveOn, JobInv, Sound, Backend!Exists
<1>3. CASE Backend!WithKey(Name) = {} /\ Backend!Submit(i, Name, c.spec)
  <2> DEFINE n == [key |-> Name, spec |-> c.spec, status |-> "queued", result |-> FALSE]
  <2>1. n \in Backend!Jobs /\ n # NoJob
    <3>1. c.spec \in Specs
      BY DEF Resources
    <3>2. n \in Backend!Jobs
      BY <3>1 DEF Backend!Jobs, Backend!Statuses
    <3> QED
      BY <3>2, NoSuchJob
  <2>2. \A k \in Ids : job[k] = NoJob
    BY <1>3 DEF Backend!WithKey, Backend!Exists, JobInv, Backend!Jobs
  <2>3. job' = [job EXCEPT ![i] = n]
    BY <1>3 DEF Backend!Submit
  <2>4. n.status = "queued"
    OBVIOUS
  <2> HIDE DEF n
  <2>5. JobInv'
    BY <1>1, <2>1, <2>2, <2>3, <2>4 DEF JobInv, Backend!Exists
  <2>6. ASSUME NEW d, Sound(d)
        PROVE  SoundFor(d, job', lost')
    BY <1>1, <2>2, <2>6 DEF Sound, SoundFor, Resources
  <2> QED
    BY <1>1, <2>1, <2>3, <2>5, <2>6 DEF JobsMoveOn, JobInv
<1> QED
  BY <1>2, <1>3 DEF PostEffect, IdempotencyKey, Backend!WithKey

\* A lost job is remembered as lost.
LEMMA ForgetMoves ==
  ASSUME JobInv, BackendForgets
  PROVE  JobsMoveOn
<1>1. PICK i \in Ids : job' = [job EXCEPT ![i] = NoJob] /\ lost' = lost \union {i}
  BY DEF BackendForgets
<1>2. JobInv'
  BY <1>1 DEF JobInv, Backend!Exists
<1>3. ASSUME NEW c, Sound(c)
      PROVE  SoundFor(c, job', lost')
  BY <1>1, <1>3 DEF Sound, SoundFor, JobInv, Resources
<1> QED
  BY <1>1, <1>2, <1>3 DEF JobsMoveOn

-----------------------------------------------------------------------------
(* What the users and the reconcile do to the copies.                      *)

\* Steps that leave the jobs alone keep what is known of them.
LEMMA JobsStay ==
  ASSUME JobInv, UNCHANGED backendVars
  PROVE  JobsMoveOn
BY DEF JobsMoveOn, JobInv, Sound, backendVars, Backend!Exists

\* The object with another status is as sound as the status is.
LEMMA SoundStatus ==
  ASSUME NEW c \in Resources, NEW d \in Resources, Sound(d),
         c.jobID = d.jobID, c.phase = d.phase, c.results = d.results, c.ready = d.ready
  PROVE  Sound(c)
BY NoSuchResource DEF Sound, SoundFor, Claims

\* A user's write of a new resource, or of one that keeps its status, or a deletion.
LEMMA UserWritesKeep ==
  ASSUME ProviderInv, NEW new, UserWrites(new), new # NoObj => new \in Resources,
         new # NoObj /\ obj = NoObj => new.jobID = NoId,
         new # NoObj /\ obj # NoObj =>
           /\ SameResource(new, obj)
           /\ new.phase = obj.phase /\ new.results = obj.results /\ new.ready = obj.ready,
         new = NoObj => obj = NoObj \/ ~obj.finalizer
  PROVE  JobInv' /\ CopyInv' /\ Sound(obj)' /\ Sound(cache)' /\ Sound(copy)'
<1>1. UNCHANGED <<cache, copy, rpc, job, lost>> /\ obj' = new
  BY DEF UserWrites, Store, backendVars
<1>2. JobInv' /\ Sound(cache)' /\ Sound(copy)'
  BY <1>1, JobsStay DEF JobsMoveOn, ProviderInv, Sound, backendVars
<1>3. Sound(new)
  <2>1. CASE new # NoObj /\ obj # NoObj
    BY <2>1, SoundStatus DEF ProviderInv, Sound, SoundFor, SameResource
  <2> QED
    BY <2>1 DEF Sound, SoundFor
<1>4. Sound(obj)'
  BY <1>1, <1>3 DEF Sound
<1>5. (cacheFresh' => cacheFresh /\ obj' = obj) /\ (copyFresh' => copyFresh /\ obj' = obj)
  BY DEF UserWrites, Store
<1>6. CopyInv'
  BY <1>1, <1>5 DEF CopyInv, ProviderInv, SameResource
<1> QED
  BY <1>2, <1>4, <1>6

\* The users.
LEMMA UsersKeepInv ==
  ASSUME ProviderInv, UserCreates \/ UserDeletes \/ UserEditsSpec \/ UserRepairs
                      \/ UserRemovesConfig \/ UserRestoresConfig
  PROVE  ProviderInv'
<1>1. obj # NoObj => obj \in Resources
  BY DEF ProviderInv, Sound, SoundFor
<1>2. CASE UserCreates
  <2>1. PICK s \in Specs, p \in BOOLEAN : UserWrites(NewResource(s, p))
    BY <1>2 DEF UserCreates
  <2>2. created + 1 \in 1 .. MaxObjects
    BY <1>2, Bounds DEF UserCreates, ProviderInv, PlainInv
  <2>3. NewResource(s, p) \in Resources /\ NewResource(s, p).jobID = NoId
    BY <2>2 DEF NewResource, Resources
  <2>4. JobInv' /\ CopyInv' /\ Sound(obj)' /\ Sound(cache)' /\ Sound(copy)'
    BY <1>2, <2>1, <2>3, NoSuchResource, UserWritesKeep DEF UserCreates
  <2>5. PlainInv'
    BY <1>2, <2>1, <2>2 DEF UserCreates, ProviderInv, PlainInv, UserWrites, Store
  <2> QED
    BY <2>4, <2>5 DEF ProviderInv
<1>3. CASE UserDeletes
  <2> DEFINE new == IF obj.finalizer THEN [obj EXCEPT !.deleting = TRUE] ELSE NoObj
  <2>1. UserWrites(new) /\ obj # NoObj
    BY <1>3 DEF UserDeletes
  <2>2. /\ new = NoObj => ~obj.finalizer
        /\ new # NoObj =>
          /\ new \in Resources
          /\ SameResource(new, obj) /\ new.phase = obj.phase /\ new.results = obj.results /\ new.ready = obj.ready
    BY <1>1, <2>1, NoSuchResource DEF Resources, SameResource
  <2>3. PlainInv'
    BY <1>3 DEF UserDeletes, ProviderInv, PlainInv, UserWrites, Store
  <2> HIDE DEF new
  <2>4. JobInv' /\ CopyInv' /\ Sound(obj)' /\ Sound(cache)' /\ Sound(copy)'
    BY <2>1, <2>2, NoSuchResource, UserWritesKeep
  <2> QED
    BY <2>3, <2>4 DEF ProviderInv
<1>4. CASE UserEditsSpec
  <2>1. PICK s \in Specs : UserWrites([obj EXCEPT !.spec = s])
    BY <1>4 DEF UserEditsSpec
  <2> DEFINE new == [obj EXCEPT !.spec = s]
  <2>2. /\ obj # NoObj /\ new \in Resources
        /\ SameResource(new, obj) /\ new.phase = obj.phase /\ new.results = obj.results /\ new.ready = obj.ready
    BY <1>1, <1>4 DEF UserEditsSpec, Resources, SameResource
  <2>3. PlainInv'
    BY <1>4, <2>1, Bounds DEF UserEditsSpec, Edit, ProviderInv, PlainInv, UserWrites, Store
  <2>4. UserWrites(new)
    BY <2>1
  <2> HIDE DEF new
  <2>5. JobInv' /\ CopyInv' /\ Sound(obj)' /\ Sound(cache)' /\ Sound(copy)'
    BY <2>2, <2>4, NoSuchResource, UserWritesKeep
  <2> QED
    BY <2>3, <2>5 DEF ProviderInv
<1>5. CASE UserRepairs
  <2> DEFINE new == [obj EXCEPT !.create = "none"]
  <2>1. UserWrites(new) /\ obj # NoObj
    BY <1>5 DEF UserRepairs
  <2>2. /\ new \in Resources
        /\ SameResource(new, obj) /\ new.phase = obj.phase /\ new.results = obj.results /\ new.ready = obj.ready
    BY <1>1, <2>1 DEF Resources, SameResource
  <2>3. PlainInv'
    BY <1>5, Bounds DEF UserRepairs, Edit, ProviderInv, PlainInv, UserWrites, Store
  <2> HIDE DEF new
  <2>4. JobInv' /\ CopyInv' /\ Sound(obj)' /\ Sound(cache)' /\ Sound(copy)'
    BY <2>1, <2>2, NoSuchResource, UserWritesKeep
  <2> QED
    BY <2>3, <2>4 DEF ProviderInv
<1>6. CASE UserRemovesConfig \/ UserRestoresConfig
  <2>1. UNCHANGED <<storeVars, copyVars, backendVars>>
    BY <1>6 DEF UserRemovesConfig, UserRestoresConfig
  <2>2. JobInv' /\ CopyInv' /\ Sound(obj)' /\ Sound(cache)' /\ Sound(copy)'
    BY <2>1, JobsStay DEF JobsMoveOn, ProviderInv, CopyInv, Sound, storeVars, copyVars, backendVars
  <2>3. PlainInv'
    <3>1. edits' \in 0 .. MaxEdits
      BY <1>6, Bounds DEF UserRemovesConfig, UserRestoresConfig, Edit, ProviderInv, PlainInv
    <3>2. config' \in BOOLEAN /\ UNCHANGED <<keeps, created, faults>>
      BY <1>6 DEF UserRemovesConfig, UserRestoresConfig
    <3> QED
      BY <2>1, <3>1, <3>2 DEF ProviderInv, PlainInv, storeVars, copyVars
  <2> QED
    BY <2>2, <2>3 DEF ProviderInv
<1> QED
  BY <1>2, <1>3, <1>4, <1>5, <1>6

\* Events and the start of a reconcile copy the object or the cache.
LEMMA CopiesKeepInv ==
  ASSUME ProviderInv, WatchEvent \/ Resync \/ Reconcile
  PROVE  ProviderInv'
<1>1. UNCHANGED <<obj, job, lost>>
  BY DEF WatchEvent, Resync, Reconcile, storeVars, backendVars
<1>2. JobInv' /\ Sound(obj)'
  BY <1>1, JobsStay DEF JobsMoveOn, ProviderInv, Sound, backendVars
<1>3. CASE WatchEvent
  <2>1. Sound(cache)' /\ Sound(copy)' /\ CopyInv'
    BY <1>1, <1>3 DEF WatchEvent, ProviderInv, CopyInv, Sound
  <2>2. PlainInv'
    BY <1>3 DEF WatchEvent, ProviderInv, PlainInv, envVars
  <2> QED
    BY <1>2, <2>1, <2>2 DEF ProviderInv
<1>4. CASE Resync
  <2>1. Sound(cache)' /\ Sound(copy)' /\ CopyInv'
    BY <1>1, <1>4 DEF Resync, ProviderInv, CopyInv, Sound, storeVars
  <2>2. PlainInv'
    BY <1>4 DEF Resync, ProviderInv, PlainInv, envVars, storeVars
  <2> QED
    BY <1>2, <2>1, <2>2 DEF ProviderInv
<1>5. CASE Reconcile
  <2>1. UNCHANGED <<cache, cacheFresh>>
    BY <1>5 DEF Reconcile, storeVars
  <2>2. rpc' \in {"idle", "remove_finalizer", "status", "connect"} /\ (rpc' # "idle" => cache # NoObj)
    BY <1>5 DEF Reconcile, FirstCall
  <2>3. cache # NoObj => cache \in Resources
    BY DEF ProviderInv, Sound, SoundFor
  <2>4. /\ copy' # NoObj => cache # NoObj /\ copy' \in Resources
        /\ rpc' # "idle" => copy' # NoObj /\ SameResource(copy', cache)
    BY <1>5, <2>2, <2>3, NoSuchResource DEF Reconcile, Resources, SameResource
  <2>5. Sound(copy')
    <3>1. CASE rpc' = "status"
      BY <1>5, <2>2, <2>3, <3>1, ZenonT(30) DEF Reconcile, ProviderInv, Sound, SoundFor, Claims, Resources
    <3>2. CASE rpc' # "status"
      BY <1>5, <3>2 DEF Reconcile, ProviderInv, Sound
    <3> QED
      BY <3>1, <3>2
  <2>6. Sound(cache)' /\ Sound(copy)'
    BY <1>1, <2>1, <2>5 DEF ProviderInv, Sound
  <2>7. copyFresh' => cache = obj /\ rpc' # "idle"
    BY <1>5 DEF Reconcile, ProviderInv, CopyInv
  <2>8. CopyInv'
    BY <1>1, <2>1, <2>2, <2>4, <2>7 DEF ProviderInv, CopyInv
  <2>9. PlainInv'
    BY <1>5, <2>2 DEF Reconcile, ProviderInv, PlainInv, Calls, Writes, envVars, storeVars
  <2> QED
    BY <1>2, <2>6, <2>8, <2>9 DEF ProviderInv
<1> QED
  BY <1>3, <1>4, <1>5

\* Faults are counted up to their bound.
LEMMA FaultsBounded ==
  ASSUME PlainInv, Fault \/ UNCHANGED faults
  PROVE  faults' \in 0 .. MaxFaults
<1>1. CASE Fault
  BY <1>1, Bounds DEF Fault, PlainInv
<1>2. CASE UNCHANGED faults
  BY <1>2 DEF PlainInv
<1> QED
  BY <1>1, <1>2

\* Going on with a sound copy of the same resource.
LEMMA CallKeeps ==
  ASSUME ProviderInv, JobsMoveOn, UNCHANGED storeVars, NEW call \in Calls \ {"idle", "post"}, NEW c \in Resources,
         SoundFor(c, job', lost'), Call(call, c, copyFresh),
         copyFresh /\ call \in {"connect", "get", "add_finalizer", "pending"} => SameResource(c, obj),
         call = "pending" => c.finalizer,
         call = "annotate" => rpc \in {"post", "annotate"},
         call \in {"add_finalizer", "pending"} => c.jobID \in lost' \union {NoId},
         call = "get" => c.jobID # NoId
  PROVE  /\ JobInv' /\ CopyInv' /\ Sound(obj)' /\ Sound(cache)' /\ Sound(copy)'
         /\ UNCHANGED <<cacheFresh, copyFresh, pending>> /\ rpc' \in Calls
<1>1. JobInv' /\ Sound(obj)' /\ Sound(cache)' /\ Sound(copy)'
  BY DEF JobsMoveOn, ProviderInv, Sound, Call, storeVars
<1>2. CopyInv'
  BY NoSuchResource DEF ProviderInv, CopyInv, Call, storeVars
<1> QED
  BY <1>1, <1>2 DEF Call, storeVars

\* Ending the reconcile.
LEMMA ReturnKeeps ==
  ASSUME ProviderInv, JobsMoveOn, UNCHANGED storeVars, NEW b \in BOOLEAN, Return(b)
  PROVE  /\ JobInv' /\ CopyInv' /\ Sound(obj)' /\ Sound(cache)' /\ Sound(copy)'
         /\ UNCHANGED cacheFresh /\ copyFresh' = FALSE /\ pending' \in BOOLEAN /\ rpc' \in Calls
<1>1. JobInv' /\ Sound(obj)' /\ Sound(cache)' /\ Sound(copy)'
  BY DEF JobsMoveOn, ProviderInv, Sound, SoundFor, Return, storeVars
<1>2. CopyInv'
  BY DEF ProviderInv, CopyInv, Return, storeVars
<1> QED
  BY <1>1, <1>2 DEF Return, storeVars, ProviderInv, PlainInv, Calls

\* What follows an observation: only a resource without a job goes on to be created.
LEMMA ProceedKeeps ==
  ASSUME ProviderInv, UNCHANGED <<storeVars, backendVars>>, rpc \in {"connect", "get"},
         NEW c \in Resources, Sound(c), SameResource(c, copy), NEW exists \in BOOLEAN,
         ~exists => c.jobID \in lost \union {NoId}, Proceed(c, exists)
  PROVE  /\ JobInv' /\ CopyInv' /\ Sound(obj)' /\ Sound(cache)' /\ Sound(copy)'
         /\ UNCHANGED <<cacheFresh, copyFresh, pending>> /\ rpc' \in Calls
<1>1. JobsMoveOn
  BY JobsStay DEF ProviderInv
<1>2. PICK call \in {"delete", "remove_finalizer", "status", "pending", "add_finalizer"} :
        Call(call, c, copyFresh) /\ (call \in {"pending", "add_finalizer"} => ~exists)
          /\ (call = "pending" => c.finalizer)
  BY DEF Proceed, Resources
<1>3. call \in Calls \ {"idle", "post"}
  BY <1>2 DEF Calls, Writes
<1>4. copyFresh => SameResource(c, obj)
  BY DEF ProviderInv, CopyInv, SameResource
<1>5. SoundFor(c, job', lost') /\ lost' = lost
  BY DEF Sound, backendVars
<1> QED
  BY <1>1, <1>2, <1>3, <1>4, <1>5, CallKeeps

\* What Observe writes into the copy is what the job has done.
LEMMA ObservedSound ==
  ASSUME NEW c \in Resources, Sound(c), NEW status \in Backend!Statuses \union {""}, NEW b \in BOOLEAN,
         status = "" \/ (status = job[c.jobID].status /\ (status = "completed" => b))
  PROVE  /\ Observed(c, status, b) \in Resources /\ Sound(Observed(c, status, b))
         /\ SameResource(Observed(c, status, b), c)
<1> DEFINE d == Observed(c, status, b)
<1>1. /\ d \in Resources /\ SameResource(d, c) /\ d.phase = status /\ d.ready = ReadyCondition(status)
      /\ status = "completed" /\ b => d.results = c.jobID
  BY DEF Observed, ReadyCondition, Resources, SameResource
<1> HIDE DEF d
<1>2. Sound(d)
  BY <1>1, NoSuchResource DEF Sound, SoundFor, Claims, ReadyCondition, SameResource
<1> QED
  BY <1>1, <1>2 DEF d

\* Connect and the two outcomes of a GET.
LEMMA ObservingKeepsInv ==
  ASSUME ProviderInv, Connect \/ Observe \/ ObserveFails
  PROVE  ProviderInv'
<1> DEFINE Rest == JobInv /\ CopyInv /\ Sound(obj) /\ Sound(cache) /\ Sound(copy)
           Flags == cacheFresh' \in BOOLEAN /\ copyFresh' \in BOOLEAN /\ pending' \in BOOLEAN /\ rpc' \in Calls
<1>1. UNCHANGED <<storeVars, backendVars, envVars>> /\ rpc \in {"connect", "get"}
  BY DEF Connect, Observe, ObserveFails
<1>2. JobsMoveOn /\ copy \in Resources
  BY <1>1, JobsStay DEF ProviderInv, CopyInv, Sound, SoundFor
<1>3. ASSUME Return(TRUE)
      PROVE  Rest' /\ Flags
  BY <1>1, <1>2, <1>3, ReturnKeeps DEF ProviderInv, PlainInv
<1>4. ASSUME NEW c \in Resources, Sound(c), SameResource(c, copy), NEW exists \in BOOLEAN,
             ~exists => c.jobID \in lost \union {NoId}, Proceed(c, exists)
      PROVE  Rest' /\ Flags
  BY <1>1, <1>4, ProceedKeeps DEF ProviderInv, PlainInv
<1>5. ASSUME Connect
      PROVE  Rest' /\ Flags
  <2>1. ASSUME copy.jobID # NoId, Call("get", copy, copyFresh)
        PROVE  Rest' /\ Flags
    <3>1. "get" \in Calls \ {"idle", "post"}
      BY DEF Calls
    <3>2. SoundFor(copy, job', lost') /\ (copyFresh => SameResource(copy, obj))
      BY <1>1, <1>5 DEF Connect, ProviderInv, CopyInv, Sound, backendVars
    <3> QED
      BY <1>1, <1>2, <2>1, <3>1, <3>2, CallKeeps DEF ProviderInv, PlainInv
  <2>2. ASSUME copy.jobID = NoId, Proceed(copy, FALSE)
        PROVE  Rest' /\ Flags
    BY <1>2, <1>4, <2>2 DEF ProviderInv, SameResource
  <2> QED
    BY <1>3, <1>5, <2>1, <2>2 DEF Connect
<1>6. ASSUME Observe
      PROVE  Rest' /\ Flags
  <2> DEFINE j == job[copy.jobID]
             c == Observed(copy, j.status, j.result)
  <2>1. ASSUME Backend!Exists(copy.jobID), Proceed(c, TRUE)
        PROVE  Rest' /\ Flags
    <3>1. copy.jobID \in Ids
      BY <1>2, <1>6 DEF Observe, ProviderInv, CopyInv, Resources
    <3>2. j \in Backend!Jobs /\ (j.status = "completed" => j.result)
      BY <2>1, <3>1 DEF ProviderInv, JobInv, Backend!Exists
    <3>3. j.status \in Backend!Statuses \union {""} /\ j.result \in BOOLEAN
      BY <3>2 DEF Backend!Jobs
    <3>4. c \in Resources /\ Sound(c) /\ SameResource(c, copy)
      BY <1>2, <3>2, <3>3, ObservedSound DEF ProviderInv
    <3> QED
      BY <1>4, <2>1, <3>4
  <2>2. ASSUME ~Backend!Exists(copy.jobID), Proceed(copy, FALSE)
        PROVE  Rest' /\ Flags
    <3>1. copy.jobID \in lost \union {NoId}
      BY <1>2, <2>2, NoSuchResource DEF ProviderInv, Sound, SoundFor, Backend!Exists
    <3> QED
      BY <1>2, <1>4, <2>2, <3>1 DEF ProviderInv, SameResource
  <2> QED
    BY <1>6, <2>1, <2>2 DEF Observe, ObserveJob, ResourceExists
<1>7. ASSUME ObserveFails
      PROVE  Rest' /\ Flags
  <2>1. ASSUME Proceed(Observed(copy, "", FALSE), TRUE)
        PROVE  Rest' /\ Flags
    BY <1>2, <1>4, <2>1, ObservedSound DEF ProviderInv
  <2> QED
    BY <1>3, <1>7, <2>1 DEF ObserveFails
<1>8. Rest' /\ Flags
  BY <1>5, <1>6, <1>7
<1>9. faults' \in 0 .. MaxFaults
  <2>1. Fault \/ UNCHANGED faults
    BY DEF Connect, Observe, ObserveFails
  <2> QED
    BY <2>1, FaultsBounded DEF ProviderInv
<1>10. PlainInv'
  BY <1>1, <1>8, <1>9 DEF ProviderInv, PlainInv, envVars
<1> QED
  BY <1>8, <1>10 DEF ProviderInv

\* The calls that send a POST or a DELETE.
LEMMA SendingKeepsInv ==
  ASSUME ProviderInv, Create \/ CreateFails \/ Delete
  PROVE  ProviderInv'
<1>1. UNCHANGED <<storeVars, envVars>> /\ copy \in Resources
  BY DEF Create, CreateFails, Delete, ProviderInv, CopyInv, Sound, SoundFor
<1>2. ASSUME NEW call \in {"annotate", "status"}, NEW c \in Resources, SoundFor(c, job', lost'), JobsMoveOn,
             Call(call, c, copyFresh), call = "annotate" => rpc = "post"
      PROVE  ProviderInv'
  <2>1. call \in Calls \ {"idle", "post"}
    BY DEF Calls, Writes
  <2>2. /\ JobInv' /\ CopyInv' /\ Sound(obj)' /\ Sound(cache)' /\ Sound(copy)'
        /\ UNCHANGED <<cacheFresh, copyFresh, pending>> /\ rpc' \in Calls
    BY <1>1, <1>2, <2>1, CallKeeps
  <2>3. Fault \/ UNCHANGED faults
    BY DEF Create, CreateFails, Delete
  <2>4. faults' \in 0 .. MaxFaults
    BY <2>3, FaultsBounded DEF ProviderInv
  <2>5. PlainInv'
    BY <1>1, <2>2, <2>4 DEF ProviderInv, PlainInv, envVars
  <2> QED
    BY <2>2, <2>5 DEF ProviderInv
<1>3. CASE Create
  <2>1. PICK i \in Ids \ lost :
          /\ PostEffect(copy, i)
          /\ Call("annotate", [Submitted(copy, i) EXCEPT !.create = "succeeded"], copyFresh)
    BY <1>3 DEF Create
  <2>2. JobsMoveOn /\ job'[i] # NoJob
    BY <1>1, <2>1, PostMoves DEF ProviderInv
  <2> DEFINE c == [Submitted(copy, i) EXCEPT !.create = "succeeded"]
  <2>3. c \in Resources /\ c.jobID = i /\ c.phase = "queued" /\ c.ready = "Creating"
    BY <1>1 DEF Submitted, Resources, Backend!Statuses
  <2>4. Call("annotate", c, copyFresh)
    BY <2>1
  <2> HIDE DEF c
  <2>5. SoundFor(c, job', lost')
    BY <2>2, <2>3 DEF SoundFor, Claims
  <2> QED
    BY <1>2, <1>3, <2>2, <2>3, <2>4, <2>5 DEF Create
<1>4. CASE CreateFails
  <2>1. JobsMoveOn
    BY <1>1, <1>4, PostMoves, JobsStay DEF CreateFails, ProviderInv
  <2> DEFINE c == [copy EXCEPT !.create = "failed", !.ready = "Creating"]
  <2>2. /\ c \in Resources /\ c.jobID = copy.jobID /\ c.phase = copy.phase /\ c.ready = "Creating"
        /\ Call("annotate", c, copyFresh)
    BY <1>1, <1>4 DEF CreateFails, Resources
  <2>3. SoundFor(copy, job', lost')
    BY <2>1 DEF JobsMoveOn, ProviderInv
  <2> HIDE DEF c
  <2>4. SoundFor(c, job', lost')
    BY <1>1, <2>2, <2>3, NoSuchResource DEF SoundFor, Claims
  <2> QED
    BY <1>2, <1>4, <2>1, <2>2, <2>4 DEF CreateFails
<1>5. CASE Delete
  <2>1. JobsMoveOn /\ Call("status", copy, copyFresh)
    BY <1>5, JobsStay DEF Delete, ProviderInv
  <2> QED
    BY <1>1, <1>2, <2>1 DEF JobsMoveOn, ProviderInv
<1> QED
  BY <1>3, <1>4, <1>5

-----------------------------------------------------------------------------
(* Writes.                                                                 *)

\* What an accepted write leaves in the store.
LEMMA WrittenSound ==
  ASSUME ProviderInv, Accepted
  PROVE  /\ obj \in Resources /\ obj # NoObj /\ copy \in Resources
         /\ Sound(Written)
         /\ rpc \in {"add_finalizer", "pending", "annotate"} =>
              /\ Written \in Resources /\ Written.jobID = obj.jobID
              /\ Written.finalizer = (rpc = "add_finalizer" \/ obj.finalizer)
<1>1. copy \in Resources /\ Sound(copy)
  BY DEF ProviderInv, CopyInv, Sound, SoundFor, Accepted, Writes
<1>2. obj # NoObj /\ obj \in Resources /\ Sound(obj)
  BY DEF ProviderInv, CopyInv, Sound, SoundFor, Accepted
<1>3. rpc \in Writes
  BY DEF Accepted
<1>4. CASE rpc \in {"add_finalizer", "pending", "annotate"}
  <2>1. /\ Written \in Resources /\ Written.jobID = obj.jobID
        /\ Written.phase = obj.phase /\ Written.results = obj.results /\ Written.ready = obj.ready
        /\ Written.finalizer = (rpc = "add_finalizer" \/ obj.finalizer)
    BY <1>1, <1>2, <1>4, ZenonT(90) DEF Written, Resources
  <2> QED
    BY <1>1, <1>2, <2>1, SoundStatus
<1>5. CASE rpc = "remove_finalizer"
  BY <1>1, <1>2, <1>5 DEF Written, Sound, SoundFor
<1>6. CASE rpc = "status"
  <2>1. /\ Written \in Resources /\ Written.jobID = copy.jobID
        /\ Written.phase = copy.phase /\ Written.results = copy.results /\ Written.ready = copy.ready
    BY <1>1, <1>2, <1>6 DEF Written, WithStatus, Resources
  <2> QED
    BY <1>1, <1>2, <1>6, <2>1, SoundStatus
<1> QED
  BY <1>3, <1>4, <1>5, <1>6 DEF Writes

\* A write that ends the reconcile, with its answer or without.
LEMMA LastWriteKeeps ==
  ASSUME ProviderInv, Accepted, Store(Written), UNCHANGED backendVars, NEW b \in BOOLEAN, Return(b)
  PROVE  /\ JobInv' /\ CopyInv' /\ Sound(obj)' /\ Sound(cache)' /\ Sound(copy)'
         /\ cacheFresh' \in BOOLEAN /\ copyFresh' = FALSE /\ pending' \in BOOLEAN /\ rpc' \in Calls
<1>1. JobInv'
  BY JobsStay DEF JobsMoveOn, ProviderInv
<1>2. Sound(obj)' /\ Sound(cache)' /\ Sound(copy)'
  BY WrittenSound DEF ProviderInv, Sound, SoundFor, Store, Return, backendVars
<1>3. CopyInv'
  BY DEF ProviderInv, CopyInv, Store, Return
<1> QED
  BY <1>1, <1>2, <1>3 DEF Store, Return, ProviderInv, PlainInv, Calls

\* Accepted, refused and failed writes.
LEMMA WritingKeepsInv ==
  ASSUME ProviderInv, WriteObject \/ Conflict \/ WriteFails
  PROVE  ProviderInv'
<1> DEFINE Rest == JobInv /\ CopyInv /\ Sound(obj) /\ Sound(cache) /\ Sound(copy)
           Flags == cacheFresh' \in BOOLEAN /\ copyFresh' \in BOOLEAN /\ pending' \in BOOLEAN /\ rpc' \in Calls
<1>1. UNCHANGED <<backendVars, envVars>>
  BY DEF WriteObject, Conflict, WriteFails
<1>2. JobsMoveOn /\ JobInv'
  BY <1>1, JobsStay DEF JobsMoveOn, ProviderInv
<1>3. ASSUME UNCHANGED storeVars, Return(TRUE)
      PROVE  Rest' /\ Flags
  BY <1>2, <1>3, ReturnKeeps DEF ProviderInv, PlainInv
<1>4. ASSUME Accepted, Store(Written), NEW b \in BOOLEAN, Return(b)
      PROVE  Rest' /\ Flags
  BY <1>1, <1>4, LastWriteKeeps
<1>5. ASSUME Accepted, Store(Written), NEW call \in {"pending", "post", "status"}, NEW c \in Resources,
             Sound(c), Call(call, c, TRUE), rpc \in {"add_finalizer", "pending", "annotate"},
             call \in {"pending", "post"} =>
               c = obj' /\ obj'.jobID \in lost \union {NoId} /\ obj'.finalizer
      PROVE  Rest' /\ Flags
  <2>1. obj' = Written /\ obj' \in Resources /\ obj' # NoObj /\ UNCHANGED cache /\ (cacheFresh' => cache = obj')
    BY <1>5, WrittenSound, NoSuchResource DEF Store, Call, ProviderInv, CopyInv
  <2>2. Sound(obj)' /\ Sound(cache)' /\ Sound(copy)'
    BY <1>1, <1>5, <2>1, WrittenSound DEF ProviderInv, Sound, Call, backendVars
  <2>3. CopyInv'
    BY <1>1, <1>5, <2>1, NoSuchResource DEF CopyInv, Call, SameResource, backendVars
  <2> QED
    BY <1>2, <1>5, <2>2, <2>3 DEF Store, Call, Calls, Writes, ProviderInv, PlainInv
<1>6. ASSUME WriteObject
      PROVE  Rest' /\ Flags
  <2>1. Accepted /\ Store(Written) /\ AfterWrite /\ obj' = Written
    BY <1>6 DEF WriteObject, Store
  <2>2. CASE rpc = "add_finalizer"
    <3>1. copy.jobID \in lost \union {NoId} /\ SameResource(copy, obj)
      BY <2>1, <2>2 DEF ProviderInv, CopyInv, Accepted
    <3>2. Call("pending", obj', TRUE)
      BY <2>1, <2>2 DEF AfterWrite
    <3>3. obj' \in Resources /\ Sound(obj') /\ obj'.jobID \in lost \union {NoId} /\ obj'.finalizer
      BY <2>1, <2>2, <3>1, WrittenSound DEF SameResource
    <3> QED
      BY <1>5, <2>1, <2>2, <3>2, <3>3
  <2>3. CASE rpc = "pending"
    <3>1. copy.jobID \in lost \union {NoId} /\ SameResource(copy, obj) /\ copy.finalizer
      BY <2>1, <2>3 DEF ProviderInv, CopyInv, Accepted
    <3>2. Call("post", obj', TRUE)
      BY <2>1, <2>3 DEF AfterWrite
    <3>3. obj' \in Resources /\ Sound(obj') /\ obj'.jobID \in lost \union {NoId} /\ obj'.finalizer
      BY <2>1, <2>3, <3>1, WrittenSound DEF SameResource
    <3> QED
      BY <1>5, <2>1, <2>3, <3>2, <3>3
  <2>4. CASE rpc = "annotate"
    <3> DEFINE c == IF keeps THEN WithStatus(obj', copy) ELSE [obj' EXCEPT !.ready = "Creating"]
    <3>1. Call("status", c, TRUE)
      BY <2>1, <2>4 DEF AfterWrite
    <3>2. obj' \in Resources /\ Sound(obj') /\ copy \in Resources /\ Sound(copy)
      BY <2>1, <2>4, WrittenSound DEF ProviderInv
    <3>3. CASE keeps
      <4>1. c \in Resources /\ c.jobID = copy.jobID /\ c.phase = copy.phase /\ c.results = copy.results /\ c.ready = copy.ready
        BY <3>2, <3>3 DEF WithStatus, Resources
      <4> QED
        BY <1>5, <2>1, <2>4, <3>1, <3>2, <4>1, SoundStatus
    <3>4. CASE ~keeps
      <4>1. c \in Resources /\ c.jobID = obj'.jobID /\ c.phase = obj'.phase /\ c.ready = "Creating"
        BY <3>2, <3>4 DEF Resources
      <4> HIDE DEF c
      <4>2. Sound(c)
        BY <3>2, <4>1, NoSuchResource DEF Sound, SoundFor, Claims
      <4> QED
        BY <1>5, <2>1, <2>4, <3>1, <4>1, <4>2
    <3> QED
      BY <3>3, <3>4
  <2>5. CASE rpc = "remove_finalizer"
    BY <1>4, <2>1, <2>5 DEF AfterWrite
  <2>6. CASE rpc = "status"
    BY <1>4, <2>1, <2>6 DEF AfterWrite, PollAgain
  <2> QED
    BY <2>1, <2>2, <2>3, <2>4, <2>5, <2>6 DEF Accepted, Writes
<1>7. Rest' /\ Flags
  BY <1>3, <1>4, <1>6 DEF Conflict, WriteFails
<1>8. Fault \/ UNCHANGED faults
  BY DEF WriteObject, Conflict, WriteFails
<1>9. faults' \in 0 .. MaxFaults
  BY <1>8, FaultsBounded DEF ProviderInv
<1>10. PlainInv'
  BY <1>1, <1>7, <1>9 DEF ProviderInv, PlainInv, envVars
<1> QED
  BY <1>7, <1>10 DEF ProviderInv

\* A restart of the provider, and what happens in the backend by itself.
LEMMA OthersKeepInv ==
  ASSUME ProviderInv, ProviderRestarts \/ BackendForgets \/ \E i \in Ids : Advances(i)
  PROVE  ProviderInv'
<1>1. CASE ProviderRestarts
  <2>1. JobInv'
    BY <1>1, JobsStay DEF JobsMoveOn, ProviderInv, ProviderRestarts
  <2>2. CopyInv' /\ Sound(obj)' /\ Sound(cache)' /\ Sound(copy)'
    BY <1>1 DEF ProviderRestarts, ProviderInv, CopyInv, Sound, SoundFor, backendVars
  <2>3. faults' \in 0 .. MaxFaults
    BY <1>1, FaultsBounded DEF ProviderRestarts, ProviderInv
  <2>4. PlainInv'
    BY <1>1, <2>3 DEF ProviderRestarts, ProviderInv, PlainInv, Calls, envVars
  <2> QED
    BY <2>1, <2>2, <2>4 DEF ProviderInv
<1>2. ASSUME JobsMoveOn, UNCHANGED <<storeVars, copyVars, envVars>>, Fault \/ UNCHANGED faults
      PROVE  ProviderInv'
  <2>1. JobInv' /\ Sound(obj)' /\ Sound(cache)' /\ Sound(copy)'
    BY <1>2 DEF JobsMoveOn, ProviderInv, Sound, storeVars, copyVars
  <2>2. CopyInv'
    BY <1>2 DEF JobsMoveOn, ProviderInv, CopyInv, storeVars, copyVars
  <2>3. faults' \in 0 .. MaxFaults
    BY <1>2, FaultsBounded DEF ProviderInv
  <2>4. PlainInv'
    BY <1>2, <2>3 DEF ProviderInv, PlainInv, storeVars, copyVars, envVars
  <2> QED
    BY <2>1, <2>2, <2>4 DEF ProviderInv
<1>3. CASE BackendForgets
  BY <1>2, <1>3, ForgetMoves DEF BackendForgets, ProviderInv
<1>4. CASE \E i \in Ids : Advances(i)
  BY <1>2, <1>4, AdvanceMoves DEF Advances, ProviderInv
<1> QED
  BY <1>1, <1>3, <1>4

-----------------------------------------------------------------------------

\* The invariant holds initially and every step keeps it.
THEOREM ProviderInvariant == Spec => []ProviderInv
<1>1. Init => ProviderInv
  <2> SUFFICES ASSUME Init
               PROVE  ProviderInv
    OBVIOUS
  <2>1. JobInv
    BY DEF Init, JobInv, Backend!Init, Backend!Exists
  <2>2. PlainInv
    <3>1. keeps \in BOOLEAN
      BY Regimes DEF Init
    <3>2. {cacheFresh, copyFresh, pending, config, keeps} \subseteq BOOLEAN /\ rpc \in Calls
      BY <3>1, Zenon DEF Init, Calls
    <3>3. 0 \in 0 .. MaxObjects /\ 0 \in 0 .. MaxEdits /\ 0 \in 0 .. MaxFaults
      BY Bounds
    <3> QED
      BY <3>2, <3>3, Zenon DEF Init, PlainInv
  <2>3. CopyInv /\ Sound(obj) /\ Sound(cache) /\ Sound(copy)
    BY DEF Init, CopyInv, Sound, SoundFor
  <2> QED
    BY <2>1, <2>2, <2>3 DEF ProviderInv
<1>2. ProviderInv /\ [Next]_vars => ProviderInv'
  <2> SUFFICES ASSUME ProviderInv, [Next]_vars
               PROVE  ProviderInv'
    OBVIOUS
  <2>1. CASE UNCHANGED vars
    <3>1. UNCHANGED <<storeVars, copyVars, backendVars, envVars, faults>>
      BY <2>1 DEF vars
    <3>2. JobInv'
      BY <3>1, JobsStay DEF JobsMoveOn, ProviderInv
    <3>3. PlainInv' /\ CopyInv' /\ Sound(obj)' /\ Sound(cache)' /\ Sound(copy)'
      BY <3>1 DEF ProviderInv, PlainInv, CopyInv, Sound, storeVars, copyVars, backendVars, envVars
    <3> QED
      BY <3>2, <3>3 DEF ProviderInv
  <2>2. CASE Settled
    BY <2>1, <2>2 DEF Settled
  <2> QED
    BY <2>1, <2>2, UsersKeepInv, CopiesKeepInv, ObservingKeepsInv, SendingKeepsInv, WritingKeepsInv, OthersKeepInv
       DEF Next, ProviderStep
<1> QED
  BY <1>1, <1>2, PTL DEF Spec

\* Every copy of the resource stays within the types of the custom resource.
THEOREM ProviderTypeCorrect == Spec => []TypeOK
<1>1. ProviderInv => TypeOK
  BY DEF ProviderInv, JobInv, PlainInv, Sound, SoundFor, TypeOK
<1> QED
  BY <1>1, ProviderInvariant, PTL

\* The status never claims more than the job has done.
THEOREM StatusNeverAheadHolds == Spec => []StatusNeverAhead
<1>1. ProviderInv => StatusNeverAhead
  <2> SUFFICES ASSUME ProviderInv, Known
               PROVE  Claims(obj, job[obj.jobID])
    BY DEF StatusNeverAhead, Claims
  <2>1. obj.jobID \notin lost /\ obj.jobID # NoId /\ obj # NoObj
    BY EnoughIds DEF Known, ProviderInv, JobInv
  <2> QED
    BY <2>1 DEF ProviderInv, Sound, SoundFor
<1> QED
  BY <1>1, ProviderInvariant, PTL

\* Create is not called for a resource while the backend has its job, unless that has
\* failed.
THEOREM NoNeedlessSubmissionHolds == Spec => []NoNeedlessSubmission
<1>1. ProviderInv => NoNeedlessSubmission
  BY EnoughIds DEF ProviderInv, CopyInv, JobInv, NoNeedlessSubmission, Known
<1> QED
  BY <1>1, ProviderInvariant, PTL

\* The backend never has two jobs for the name.
THEOREM OneJobPerNameHolds == Spec => []OneJobPerName
<1>1. ProviderInv => OneJobPerName
  <2> SUFFICES ASSUME ProviderInv
               PROVE  OneJobPerName
    OBVIOUS
  <2> DEFINE J == {i \in Ids : Backend!Exists(i)}
  <2>1. CASE J = {}
    <3>1. Cardinality(J) = 0
      BY <2>1, FS_EmptySet
    <3> QED
      BY <3>1 DEF OneJobPerName
  <2>2. CASE J # {}
    <3>1. PICK i \in Ids : J = {i}
      BY <2>2 DEF ProviderInv, JobInv
    <3>2. Cardinality(J) = 1
      BY <3>1, FS_Singleton
    <3> QED
      BY <3>2 DEF OneJobPerName
  <2> QED
    BY <2>1, <2>2
<1> QED
  BY <1>1, ProviderInvariant, PTL

-----------------------------------------------------------------------------
(* Known jobs are kept, and resources are not forgotten.                   *)

\* No job of the backend has this id.
Gone(i) == i \in lost \union {NoId}

\* A resource has a job id only under its finalizer.
IdInv == obj # NoObj /\ obj.jobID # NoId => obj.finalizer

\* A fresh copy is that of the object, but for a creation that the object knows
\* nothing of yet: then there is no job that it could lose.
FreshCopyInv ==
  copyFresh =>
    /\ rpc # "idle" /\ copy.deleting = obj.deleting /\ copy.orphan = obj.orphan
    /\ rpc # "annotate" => copy.create = obj.create
    /\ copy.jobID = obj.jobID \/ (obj.finalizer /\ Gone(obj.jobID))

\* Creations and removals are about resources without a job.
CallInv ==
  /\ rpc \in {"post", "annotate"} => Gone(obj.jobID)
  /\ rpc = "remove_finalizer" => (copy.deleting /\ copy.orphan) \/ Gone(copy.jobID)

LinkInv == IdInv /\ FreshCopyInv /\ CallInv /\ NoLostWakeUp

\* Going on without a write.
LEMMA CallLinks ==
  ASSUME LinkInv, UNCHANGED storeVars, lost \subseteq lost', NEW call, call # "idle", NEW c,
         Call(call, c, copyFresh),
         copyFresh =>
           /\ c.deleting = obj.deleting /\ c.orphan = obj.orphan
           /\ call # "annotate" => c.create = obj.create
           /\ c.jobID = obj.jobID \/ (obj.finalizer /\ Gone(obj.jobID)),
         call \in {"post", "annotate"} => Gone(obj.jobID),
         call = "remove_finalizer" => (c.deleting /\ c.orphan) \/ Gone(c.jobID)
  PROVE  LinkInv'
<1>1. /\ obj' = obj /\ cacheFresh' = cacheFresh /\ rpc' = call /\ copy' = c
      /\ copyFresh' = copyFresh /\ pending' = pending
  BY DEF Call, storeVars
<1>2. \A i : Gone(i) => Gone(i)'
  BY DEF Gone
<1>3. IdInv' /\ NoLostWakeUp'
  BY <1>1 DEF LinkInv, IdInv, NoLostWakeUp
<1>4. FreshCopyInv' /\ CallInv'
  BY <1>1 DEF FreshCopyInv, CallInv, Gone
<1> QED
  BY <1>3, <1>4 DEF LinkInv

\* Giving up with a requeue.
LEMMA ReturnLinks ==
  ASSUME IdInv', Return(TRUE)
  PROVE  LinkInv'
BY DEF LinkInv, FreshCopyInv, CallInv, NoLostWakeUp, Return

\* A user's write makes every copy stale that does not have it.
LEMMA UserLinks ==
  ASSUME ProviderInv, LinkInv, NEW new, UserWrites(new),
         new # NoObj /\ obj = NoObj => new.jobID = NoId,
         new # NoObj /\ obj # NoObj => SameResource(new, obj),
         new = NoObj => obj = NoObj \/ ~obj.finalizer
  PROVE  LinkInv'
<1>1. /\ UNCHANGED <<cache, copy, rpc, pending, lost>> /\ obj' = new
      /\ (cacheFresh' => cacheFresh /\ obj' = obj) /\ (copyFresh' => copyFresh /\ obj' = obj)
  BY DEF UserWrites, Store, backendVars
<1>2. IdInv' /\ NoLostWakeUp'
  BY <1>1 DEF LinkInv, IdInv, NoLostWakeUp, SameResource
<1>3. rpc \in {"post", "annotate"} => obj # NoObj /\ obj.finalizer
  BY DEF ProviderInv, CopyInv
<1>4. FreshCopyInv' /\ CallInv'
  BY <1>1, <1>3 DEF LinkInv, FreshCopyInv, CallInv, Gone, SameResource
<1> QED
  BY <1>2, <1>4 DEF LinkInv

\* The users.
LEMMA UsersLink ==
  ASSUME ProviderInv, LinkInv, UserCreates \/ UserDeletes \/ UserEditsSpec \/ UserRepairs
                      \/ UserRemovesConfig \/ UserRestoresConfig
  PROVE  LinkInv'
<1>1. obj # NoObj => obj \in Resources
  BY DEF ProviderInv, Sound, SoundFor
<1>2. CASE UserCreates
  <2>1. PICK s \in Specs, p \in BOOLEAN : UserWrites(NewResource(s, p))
    BY <1>2 DEF UserCreates
  <2>2. NewResource(s, p).jobID = NoId /\ obj = NoObj
    BY <1>2 DEF NewResource, UserCreates
  <2> QED
    BY <2>1, <2>2, UserLinks
<1>3. CASE UserDeletes
  <2> DEFINE new == IF obj.finalizer THEN [obj EXCEPT !.deleting = TRUE] ELSE NoObj
  <2>1. UserWrites(new) /\ obj # NoObj
    BY <1>3 DEF UserDeletes
  <2>2. (new = NoObj => ~obj.finalizer) /\ (new # NoObj => SameResource(new, obj))
    <3>1. [obj EXCEPT !.deleting = TRUE] \in Resources /\ SameResource([obj EXCEPT !.deleting = TRUE], obj)
      BY <1>1, <2>1 DEF Resources, SameResource
    <3> QED
      BY <3>1, NoSuchResource
  <2> HIDE DEF new
  <2> QED
    BY <2>1, <2>2, UserLinks
<1>4. ASSUME NEW new, UserWrites(new), obj # NoObj, SameResource(new, obj), new # NoObj
      PROVE  LinkInv'
  BY <1>4, UserLinks
<1>5. CASE UserEditsSpec
  <2>1. PICK s \in Specs : UserWrites([obj EXCEPT !.spec = s])
    BY <1>5 DEF UserEditsSpec
  <2>2. [obj EXCEPT !.spec = s] \in Resources /\ SameResource([obj EXCEPT !.spec = s], obj) /\ obj # NoObj
    BY <1>1, <1>5 DEF UserEditsSpec, Resources, SameResource
  <2> QED
    BY <1>4, <2>1, <2>2, NoSuchResource
<1>6. CASE UserRepairs
  <2>1. UserWrites([obj EXCEPT !.create = "none"]) /\ obj # NoObj
    BY <1>6 DEF UserRepairs
  <2>2. [obj EXCEPT !.create = "none"] \in Resources /\ SameResource([obj EXCEPT !.create = "none"], obj)
    BY <1>1, <2>1 DEF Resources, SameResource
  <2> QED
    BY <1>4, <2>1, <2>2, NoSuchResource
<1>7. CASE UserRemovesConfig \/ UserRestoresConfig
  BY <1>7 DEF UserRemovesConfig, UserRestoresConfig, LinkInv, IdInv, FreshCopyInv, CallInv, NoLostWakeUp,
              Gone, storeVars, copyVars, backendVars
<1> QED
  BY <1>2, <1>3, <1>5, <1>6, <1>7

\* Events, restarts and the start of a reconcile.
LEMMA CopiesLink ==
  ASSUME ProviderInv, LinkInv, WatchEvent \/ Resync \/ Reconcile \/ ProviderRestarts
  PROVE  LinkInv'
<1>1. obj' = obj /\ lost' = lost
  BY DEF WatchEvent, Resync, Reconcile, ProviderRestarts, storeVars, backendVars
<1>2. IdInv'
  BY <1>1 DEF LinkInv, IdInv
<1>3. CASE WatchEvent
  BY <1>1, <1>2, <1>3 DEF WatchEvent, LinkInv, FreshCopyInv, CallInv, NoLostWakeUp, Gone
<1>4. CASE Resync
  BY <1>1, <1>2, <1>4 DEF Resync, LinkInv, FreshCopyInv, CallInv, NoLostWakeUp, Gone, storeVars
<1>5. CASE ProviderRestarts
  BY <1>1, <1>2, <1>5 DEF ProviderRestarts, LinkInv, FreshCopyInv, CallInv, NoLostWakeUp
<1>6. CASE Reconcile
  <2>1. /\ rpc' \in {"idle", "remove_finalizer", "status", "connect"}
        /\ rpc' # "idle" => cache # NoObj
        /\ rpc' = "idle" => cache = NoObj
        /\ rpc' = "remove_finalizer" => cache.deleting /\ cache.orphan
    BY <1>6 DEF Reconcile, FirstCall
  <2>2. cache # NoObj => cache \in Resources
    BY DEF ProviderInv, Sound, SoundFor
  <2>3. /\ copyFresh' => cacheFresh /\ cache = obj /\ rpc' # "idle"
        /\ cacheFresh' = cacheFresh /\ (cacheFresh => cache = obj)
    BY <1>6 DEF Reconcile, ProviderInv, CopyInv, storeVars
  <2>4. rpc' # "idle" =>
          /\ copy'.deleting = cache.deleting /\ copy'.orphan = cache.orphan
          /\ copy'.create = cache.create /\ copy'.jobID = cache.jobID
    BY <1>6, <2>1, <2>2 DEF Reconcile, Resources
  <2>5. FreshCopyInv' /\ CallInv'
    BY <1>1, <2>1, <2>3, <2>4 DEF FreshCopyInv, CallInv
  <2>6. NoLostWakeUp'
    BY <1>1, <2>1, <2>3 DEF NoLostWakeUp
  <2> QED
    BY <1>2, <2>5, <2>6 DEF LinkInv
<1> QED
  BY <1>3, <1>4, <1>5, <1>6

\* Observations: only a resource without a job is let go.
LEMMA ObservingLinks ==
  ASSUME ProviderInv, LinkInv, Connect \/ Observe \/ ObserveFails
  PROVE  LinkInv'
<1>1. UNCHANGED <<storeVars, backendVars>> /\ rpc \in {"connect", "get"}
  BY DEF Connect, Observe, ObserveFails
<1>2. copy \in Resources /\ lost' = lost /\ Sound(copy)
  BY <1>1 DEF ProviderInv, CopyInv, Sound, SoundFor, backendVars
<1>3. ASSUME Return(TRUE) PROVE LinkInv'
  <2>1. IdInv'
    BY <1>1 DEF LinkInv, IdInv, storeVars
  <2> QED
    BY <1>3, <2>1, ReturnLinks
<1>4. ASSUME NEW c \in Resources, c.jobID = copy.jobID, c.create = copy.create, c.deleting = copy.deleting,
             c.orphan = copy.orphan, NEW exists \in BOOLEAN, ~exists => Gone(c.jobID), Proceed(c, exists)
      PROVE  LinkInv'
  <2>1. PICK call \in {"delete", "remove_finalizer", "status", "pending", "add_finalizer"} :
          Call(call, c, copyFresh) /\ (call = "remove_finalizer" => ~exists)
    BY <1>4 DEF Proceed, Resources
  <2>2. copyFresh =>
           /\ c.deleting = obj.deleting /\ c.orphan = obj.orphan /\ c.create = obj.create
           /\ c.jobID = obj.jobID \/ (obj.finalizer /\ Gone(obj.jobID))
    BY <1>1, <1>4 DEF LinkInv, FreshCopyInv
  <2> QED
    BY <1>1, <1>2, <1>4, <2>1, <2>2, CallLinks
<1>5. ASSUME NEW status, NEW b \in BOOLEAN, status \in Backend!Statuses \union {""}
      PROVE  LET c == Observed(copy, status, b)
             IN  /\ c \in Resources /\ c.jobID = copy.jobID /\ c.create = copy.create
                 /\ c.deleting = copy.deleting /\ c.orphan = copy.orphan
  BY <1>2, <1>5 DEF Observed, ReadyCondition, Resources
<1>6. CASE Connect
  <2>1. ASSUME Call("get", copy, copyFresh) PROVE LinkInv'
    BY <1>1, <1>2, <2>1, CallLinks DEF LinkInv, FreshCopyInv
  <2>2. ASSUME copy.jobID = NoId, Proceed(copy, FALSE) PROVE LinkInv'
    BY <1>2, <1>4, <2>2 DEF Gone
  <2> QED
    BY <1>3, <1>6, <2>1, <2>2 DEF Connect
<1>7. CASE Observe
  <2>1. rpc = "get" /\ copy.jobID \in Ids
    BY <1>2, <1>7 DEF Observe, ProviderInv, CopyInv, Resources
  <2>2. CASE Backend!Exists(copy.jobID)
    <3>1. job[copy.jobID].status \in Backend!Statuses /\ job[copy.jobID].result \in BOOLEAN
      BY <2>1, <2>2 DEF ProviderInv, JobInv, Backend!Exists, Backend!Jobs
    <3>2. Proceed(Observed(copy, job[copy.jobID].status, job[copy.jobID].result), TRUE)
      BY <1>7, <2>2 DEF Observe, ObserveJob, ResourceExists
    <3> QED
      BY <1>4, <1>5, <3>1, <3>2
  <2>3. CASE ~Backend!Exists(copy.jobID)
    <3>1. Gone(copy.jobID)
      BY <1>2, <2>1, <2>3, NoSuchResource DEF Sound, SoundFor, Backend!Exists, Gone
    <3>2. Proceed(copy, FALSE)
      BY <1>7, <2>3 DEF Observe, ObserveJob, ResourceExists
    <3> QED
      BY <1>2, <1>4, <3>1, <3>2
  <2> QED
    BY <2>2, <2>3
<1>8. CASE ObserveFails
  <2>1. ASSUME Proceed(Observed(copy, "", FALSE), TRUE) PROVE LinkInv'
    BY <1>4, <1>5, <2>1
  <2> QED
    BY <1>3, <1>8, <2>1 DEF ObserveFails
<1> QED
  BY <1>6, <1>7, <1>8

\* Requests that write to the backend.
LEMMA SendingLinks ==
  ASSUME ProviderInv, LinkInv, Create \/ CreateFails \/ Delete
  PROVE  LinkInv'
<1>1. UNCHANGED storeVars /\ copy \in Resources /\ rpc \in {"post", "delete"}
  BY DEF Create, CreateFails, Delete, ProviderInv, CopyInv, Sound, SoundFor
<1>2. lost' = lost
  BY DEF Create, CreateFails, Delete, PostEffect, backendVars
<1>3. ASSUME NEW c \in Resources, c.deleting = copy.deleting, c.orphan = copy.orphan, rpc = "post",
             Call("annotate", c, copyFresh)
      PROVE  LinkInv'
  <2>1. Gone(obj.jobID) /\ obj.finalizer
    BY <1>3 DEF LinkInv, CallInv, ProviderInv, CopyInv
  <2>2. copyFresh => c.deleting = obj.deleting /\ c.orphan = obj.orphan
    BY <1>3 DEF LinkInv, FreshCopyInv
  <2> QED
    BY <1>1, <1>2, <1>3, <2>1, <2>2, CallLinks
<1>4. CASE Create
  <2>1. PICK i \in Ids : Call("annotate", [Submitted(copy, i) EXCEPT !.create = "succeeded"], copyFresh)
    BY <1>4 DEF Create
  <2> DEFINE c == [Submitted(copy, i) EXCEPT !.create = "succeeded"]
  <2>2. c \in Resources /\ c.deleting = copy.deleting /\ c.orphan = copy.orphan
    BY <1>1 DEF Submitted, Resources, Backend!Statuses
  <2>3. Call("annotate", c, copyFresh)
    BY <2>1
  <2> HIDE DEF c
  <2> QED
    BY <1>3, <1>4, <2>2, <2>3 DEF Create
<1>5. CASE CreateFails
  <2> DEFINE c == [copy EXCEPT !.create = "failed", !.ready = "Creating"]
  <2>1. c \in Resources /\ c.deleting = copy.deleting /\ c.orphan = copy.orphan
    BY <1>1 DEF Resources
  <2>2. Call("annotate", c, copyFresh)
    BY <1>5 DEF CreateFails
  <2> HIDE DEF c
  <2> QED
    BY <1>3, <1>5, <2>1, <2>2 DEF CreateFails
<1>6. CASE Delete
  <2>1. rpc = "delete" /\ Call("status", copy, copyFresh)
    BY <1>6 DEF Delete
  <2> QED
    BY <1>1, <1>2, <2>1, CallLinks DEF LinkInv, FreshCopyInv
<1> QED
  BY <1>4, <1>5, <1>6

\* What an accepted write does to the object: it goes only without a job, or orphaning
\* it, and it gets another id only if it has none of a job.
LEMMA WrittenLinks ==
  ASSUME ProviderInv, LinkInv, Accepted
  PROVE  /\ Written = NoObj => Gone(obj.jobID) \/ (obj.deleting /\ obj.orphan)
         /\ Written # NoObj =>
              /\ Written \in Resources
              /\ Written.deleting = obj.deleting /\ Written.orphan = obj.orphan
              /\ Written.jobID # NoId => Written.finalizer
              /\ Written.jobID = obj.jobID \/ Gone(obj.jobID)
         /\ rpc = "remove_finalizer" => Written = NoObj
         /\ rpc # "remove_finalizer" => Written # NoObj
         /\ rpc = "annotate" => Written.create = copy.create
         /\ rpc = "status" => Written.create = obj.create
<1>1. obj \in Resources /\ obj # NoObj /\ copy \in Resources /\ rpc \in Writes
  BY WrittenSound DEF Accepted
<1>2. rpc # "annotate" =>
        /\ copy.deleting = obj.deleting /\ copy.orphan = obj.orphan
        /\ copy.jobID = obj.jobID \/ (obj.finalizer /\ Gone(obj.jobID))
  BY DEF Accepted, LinkInv, FreshCopyInv
<1>3. obj.jobID # NoId => obj.finalizer
  BY <1>1 DEF LinkInv, IdInv
<1>4. CASE rpc = "remove_finalizer"
  <2>1. Written = NoObj
    BY <1>4 DEF Written
  <2>2. (copy.deleting /\ copy.orphan) \/ Gone(copy.jobID)
    BY <1>4 DEF LinkInv, CallInv
  <2> QED
    BY <1>2, <1>4, <2>1, <2>2
<1>5. CASE rpc = "add_finalizer"
  BY <1>1, <1>5, NoSuchResource, ZenonT(60) DEF Written, Resources
<1>6. CASE rpc = "pending"
  <2>1. Written = [obj EXCEPT !.create = "pending"]
    BY <1>6 DEF Written
  <2>2. /\ Written \in Resources /\ Written.jobID = obj.jobID /\ Written.finalizer = obj.finalizer
        /\ Written.deleting = obj.deleting /\ Written.orphan = obj.orphan /\ Written.create = "pending"
    BY <1>1, <2>1 DEF Resources
  <2> QED
    BY <1>3, <1>6, <2>2, NoSuchResource
<1>7. CASE rpc = "annotate"
  <2>1. Written = [obj EXCEPT !.create = copy.create]
    BY <1>7 DEF Written
  <2>2. /\ Written \in Resources /\ Written.jobID = obj.jobID /\ Written.finalizer = obj.finalizer
        /\ Written.deleting = obj.deleting /\ Written.orphan = obj.orphan /\ Written.create = copy.create
    BY <1>1, <2>1 DEF Resources
  <2> QED
    BY <1>3, <1>7, <2>2, NoSuchResource
<1>8. CASE rpc = "status"
  <2>1. /\ Written \in Resources /\ Written.jobID = copy.jobID /\ Written.finalizer = obj.finalizer
        /\ Written.deleting = obj.deleting /\ Written.orphan = obj.orphan /\ Written.create = obj.create
    BY <1>1, <1>8, ZenonT(60) DEF Written, WithStatus, Resources
  <2> QED
    BY <1>2, <1>3, <1>8, <2>1, NoSuchResource
<1> QED
  BY <1>1, <1>4, <1>5, <1>6, <1>7, <1>8 DEF Writes

\* Accepted, refused and failed writes.
LEMMA WritingLinks ==
  ASSUME ProviderInv, LinkInv, WriteObject \/ Conflict \/ WriteFails
  PROVE  LinkInv'
<1>0. lost' = lost
  BY DEF WriteObject, Conflict, WriteFails, backendVars
<1>1. ASSUME UNCHANGED storeVars PROVE IdInv'
  BY <1>1 DEF LinkInv, IdInv, storeVars
<1>2. ASSUME Accepted, Store(Written) PROVE IdInv'
  BY <1>2, WrittenLinks DEF IdInv, Store
<1>3. CASE Conflict \/ WriteFails
  BY <1>1, <1>2, <1>3, ReturnLinks DEF Conflict, WriteFails
<1>4. CASE WriteObject
  <2>1. /\ Accepted /\ AfterWrite /\ obj' = Written /\ IdInv' /\ rpc \in Writes
        /\ copy \in Resources /\ obj \in Resources /\ obj # NoObj
    BY <1>2, <1>4, WrittenSound DEF WriteObject, Store, Accepted
  <2>2. ASSUME NEW call \in {"pending", "post", "status"}, NEW c, Call(call, c, TRUE),
               c.deleting = obj'.deleting, c.orphan = obj'.orphan, c.create = obj'.create,
               c.jobID = obj'.jobID \/ (obj'.finalizer /\ Gone(obj'.jobID)),
               call = "post" => Gone(obj'.jobID)
        PROVE  LinkInv'
    BY <1>0, <2>1, <2>2 DEF LinkInv, FreshCopyInv, CallInv, NoLostWakeUp, Call, Gone
  <2>3. CASE rpc = "add_finalizer"
    <3>1. Call("pending", obj', TRUE)
      BY <2>1, <2>3 DEF AfterWrite
    <3> QED
      BY <2>2, <3>1
  <2>4. CASE rpc = "pending"
    <3>1. Call("post", obj', TRUE)
      BY <2>1, <2>4 DEF AfterWrite
    <3>2. obj'.jobID = obj.jobID
      BY <2>1, <2>4, WrittenSound
    <3>3. Gone(obj.jobID)
      BY <2>1, <2>4 DEF Accepted, ProviderInv, CopyInv, SameResource, Gone
    <3> QED
      BY <2>2, <3>1, <3>2, <3>3
  <2>5. CASE rpc = "annotate"
    <3> DEFINE c == IF keeps THEN WithStatus(obj', copy) ELSE [obj' EXCEPT !.ready = "Creating"]
    <3>1. Call("status", c, TRUE)
      BY <2>1, <2>5 DEF AfterWrite
    <3>2. Gone(obj.jobID) /\ obj.finalizer
      BY <2>5 DEF LinkInv, CallInv, ProviderInv, CopyInv
    <3>3. obj' \in Resources /\ obj'.jobID = obj.jobID /\ obj'.finalizer
      BY <2>1, <2>5, <3>2, WrittenSound
    <3>4. c.deleting = obj'.deleting /\ c.orphan = obj'.orphan /\ c.create = obj'.create
      BY <2>1, <3>3 DEF WithStatus, Resources
    <3> HIDE DEF c
    <3> QED
      BY <2>2, <3>1, <3>2, <3>3, <3>4
  <2>6. CASE rpc = "remove_finalizer"
    <3>1. Return(FALSE) /\ obj' = NoObj
      BY <2>1, <2>6, WrittenLinks DEF AfterWrite
    <3> QED
      BY <2>1, <3>1 DEF LinkInv, FreshCopyInv, CallInv, NoLostWakeUp, Return
  <2>7. CASE rpc = "status"
    <3>1. Return(copy.create # "pending")
      BY <2>1, <2>7 DEF AfterWrite, PollAgain
    <3>2. obj'.create = copy.create
      BY <2>1, <2>7, WrittenLinks DEF Accepted, LinkInv, FreshCopyInv
    <3> QED
      BY <2>1, <3>1, <3>2 DEF LinkInv, FreshCopyInv, CallInv, NoLostWakeUp, Return
  <2> QED
    BY <2>1, <2>3, <2>4, <2>5, <2>6, <2>7 DEF Writes
<1> QED
  BY <1>3, <1>4

\* What happens in the backend by itself.
LEMMA BackendLinks ==
  ASSUME LinkInv, BackendForgets \/ \E i \in Ids : Advances(i)
  PROVE  LinkInv'
<1>1. UNCHANGED <<storeVars, copyVars>> /\ lost \subseteq lost'
  BY DEF BackendForgets, Advances
<1> QED
  BY <1>1 DEF LinkInv, IdInv, FreshCopyInv, CallInv, NoLostWakeUp, Gone, storeVars, copyVars

\* The links between the object and its copies hold initially and every step keeps them.
THEOREM LinkInvariant == Spec => []LinkInv
<1>1. Init => LinkInv
  BY DEF Init, LinkInv, IdInv, FreshCopyInv, CallInv, NoLostWakeUp
<1>2. ProviderInv /\ LinkInv /\ [Next]_vars => LinkInv'
  <2> SUFFICES ASSUME ProviderInv, LinkInv, [Next]_vars
               PROVE  LinkInv'
    OBVIOUS
  <2>1. CASE UNCHANGED vars
    BY <2>1 DEF vars, storeVars, copyVars, backendVars, LinkInv, IdInv, FreshCopyInv, CallInv, NoLostWakeUp, Gone
  <2>2. CASE Settled
    BY <2>1, <2>2 DEF Settled
  <2> QED
    BY <2>1, <2>2, UsersLink, CopiesLink, ObservingLinks, SendingLinks, WritingLinks, BackendLinks
       DEF Next, ProviderStep
<1> QED
  BY <1>1, <1>2, ProviderInvariant, PTL DEF Spec

\* No resource is forgotten while it could still need the provider.
THEOREM NoLostWakeUpHolds == Spec => []NoLostWakeUp
<1>1. LinkInv => NoLostWakeUp
  BY DEF LinkInv
<1> QED
  BY <1>1, LinkInvariant, PTL

\* A known job is kept by its resource until the backend loses it or the resource is
\* deleted with the policy Orphan.
THEOREM KnownJobKeptHolds == Spec => KnownJobKept
<1>1. ProviderInv /\ LinkInv /\ [Next]_vars =>
        [Known => \/ obj' # NoObj /\ obj'.jobID = obj.jobID
                  \/ obj.deleting /\ obj.orphan]_vars
  <2> SUFFICES ASSUME ProviderInv, LinkInv, Next, Known
               PROVE  (obj' # NoObj /\ obj'.jobID = obj.jobID) \/ (obj.deleting /\ obj.orphan)
    OBVIOUS
  <2>1. obj \in Resources /\ obj # NoObj /\ ~Gone(obj.jobID) /\ obj.finalizer
    BY EnoughIds DEF Known, Gone, ProviderInv, JobInv, Sound, SoundFor, LinkInv, IdInv
  <2>2. CASE obj' = obj
    BY <2>1, <2>2
  <2>3. CASE UserCreates \/ UserDeletes \/ UserEditsSpec \/ UserRepairs
    <3>1. \/ obj' = [obj EXCEPT !.deleting = TRUE]
          \/ \E s \in Specs : obj' = [obj EXCEPT !.spec = s]
          \/ obj' = [obj EXCEPT !.create = "none"]
      BY <2>1, <2>3 DEF UserCreates, UserDeletes, UserEditsSpec, UserRepairs, UserWrites, Store
    <3>2. obj' \in Resources /\ obj'.jobID = obj.jobID
      BY <2>1, <3>1 DEF Resources
    <3> QED
      BY <3>2, NoSuchResource
  <2>4. CASE Accepted /\ Store(Written)
    BY <2>1, <2>4, WrittenLinks DEF Store
  <2>5. obj' = obj \/ (Accepted /\ Store(Written)) \/ UserCreates \/ UserDeletes \/ UserEditsSpec \/ UserRepairs
    BY DEF Next, ProviderStep, UserRemovesConfig, UserRestoresConfig, WatchEvent, Resync, Reconcile, Connect, Observe, Create,
           Delete, WriteObject, Conflict, ObserveFails, CreateFails, WriteFails, ProviderRestarts,
           BackendForgets, Advances, Settled, storeVars, vars
  <2> QED
    BY <2>2, <2>3, <2>4, <2>5
<1> QED
  BY <1>1, ProviderInvariant, LinkInvariant, PTL DEF Spec, KnownJobKept
=============================================================================
