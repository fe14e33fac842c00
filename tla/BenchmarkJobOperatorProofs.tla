---------------------- MODULE BenchmarkJobOperatorProofs --------------------
(***************************************************************************)
(* The safety properties of BenchmarkJobOperator, for any number of        *)
(* operator pods, objects, edits and faults, and any retry limits.         *)
(***************************************************************************)
EXTENDS BenchmarkJobOperator, TLAPS

\* What an object or copy c may claim about the job j that it names.
Claims(c, j) ==
  /\ c.phase = "Running" => j.status # "queued"
  /\ c.phase = "Completed" => j.status = "completed" /\ c.results = c.jobID
  /\ c.phase = "Failed" => j.status = "failed"

\* What is true of every copy by itself: it names a job that exists and claims no
\* more than the job has done, and it had its finalizer before it had a job.
SoundFor(c, jobs) ==
  c # NoObj =>
    /\ c \in Objects
    /\ c.phase \in {"Submitted", "Running", "Completed", "Failed"} => c.jobID # NoId
    /\ c.jobID # NoId => c.finalizer /\ jobs[c.jobID] # NoJob /\ Claims(c, jobs[c.jobID])

Sound(c) == SoundFor(c, job)

\* Where a copy c stands to the object x, at revision r and after n creations: it is
\* no newer, and a finalizer is never taken back while the object lives.
PlacedFor(c, x, r, n) ==
  c # NoObj =>
    /\ c.rv <= r /\ c.uid <= n
    /\ x # NoObj /\ c.rv = x.rv => c.uid = x.uid
    /\ x # NoObj /\ c.uid = x.uid => (c.finalizer => x.finalizer)

Placed(c) == PlacedFor(c, obj, rev, created)

\* A copy that came from the API server is the object if it has its revision.
ExactFor(c, x) == c # NoObj /\ x # NoObj /\ c.rv = x.rv => c = x

Published(c) == Sound(c) /\ Placed(c) /\ ExactFor(c, obj)

PlainInv ==
  /\ rev \in Nat /\ cancels \subseteq Ids
  /\ cache \in [Operators -> Objects \union {NoObj}]
  /\ events \in [Operators -> Seq(Objects \union {NoObj})]
  /\ pending \in [Operators -> BOOLEAN]
  /\ rpc \in [Operators -> Calls]
  /\ loc \in [Operators -> Objects \union {NoObj}]
  /\ created \in 0 .. MaxObjects /\ edits \in 0 .. MaxEdits /\ faults \in 0 .. MaxFaults

JobInv ==
  /\ job \in [Ids -> Backend!Jobs \union {NoJob}]
  /\ \A i \in Ids : job[i] # NoJob /\ job[i].status = "completed" => job[i].result

ObjInv == Published(obj) /\ (obj # NoObj /\ obj.deleting => obj.finalizer)

\* The copies of operator o.
ViewInv(o) ==
  /\ Published(cache[o])
  /\ Sound(loc[o]) /\ Placed(loc[o])
  /\ \A k \in 1 .. Len(events[o]) : Published(events[o][k])

\* What operator o knows of its own copy before its next call.
LocInv(o) ==
  /\ rpc[o] # "idle" => loc[o] # NoObj
  /\ rpc[o] = "post" => loc[o].finalizer /\ ~loc[o].deleting /\ loc[o].phase \in {"", "Pending"}
  /\ rpc[o] = "get" => loc[o].finalizer /\ ~loc[o].deleting /\ loc[o].phase \in {"Submitted", "Running"}
  /\ rpc[o] = "cancel" => Cancellable(loc[o])
  /\ rpc[o] = "remove_finalizer" => (Cancellable(loc[o]) => loc[o].jobID \in cancels)

\* What it knows of the object, if its copy is the latest one: before it has computed
\* a new status the copy is the object, afterwards the phase has moved along an edge.
BasedInv(o) ==
  rpc[o] # "idle" /\ Current(o) =>
    /\ rpc[o] # "status" => loc[o] = obj
    /\ rpc[o] = "status" => ~obj.deleting /\ obj.finalizer /\ <<obj.phase, loc[o].phase>> \in Edges

\* The last event on its way is the object; if there is none the cache is.
FeedInv(o) ==
  /\ events[o] = <<>> => cache[o] = obj
  /\ events[o] # <<>> => events[o][Len(events[o])] = obj

Awake(o) ==
  obj # NoObj /\ (obj.deleting \/ obj.phase \notin TerminalPhases) =>
    pending[o] \/ rpc[o] # "idle" \/ events[o] # <<>>

PodInv(o) == ViewInv(o) /\ LocInv(o) /\ BasedInv(o) /\ FeedInv(o) /\ Awake(o)

OperatorInv == PlainInv /\ JobInv /\ ObjInv /\ \A o \in Operators : PodInv(o)

-----------------------------------------------------------------------------
(* What the backend does to the jobs.                                      *)

\* The jobs move on, and no copy claims more than before.
JobsMoveOn == JobInv' /\ \A c : Sound(c) => SoundFor(c, job')

\* A job only advances.
LEMMA AdvanceMoves ==
  ASSUME JobInv, NEW i \in Ids, Backend!Advance(i)
  PROVE  JobsMoveOn
<1>1. job[i] # NoJob /\ job[i] \in Backend!Jobs /\ job[i].status \in {"queued", "running"}
  BY DEF JobInv, Backend!Advance, Backend!Start, Backend!Finish, Backend!Fail, Backend!Open, Backend!Exists
<1>2. PICK n \in Backend!Jobs :
        job' = [job EXCEPT ![i] = n] /\ n.status # "queued" /\ (n.status = "completed" => n.result)
  <2>1. CASE Backend!Start(i)
    <3> DEFINE n == [job[i] EXCEPT !.status = "running"]
    <3>1. n \in Backend!Jobs /\ n.status # "queued" /\ (n.status = "completed" => n.result)
      BY <1>1 DEF Backend!Jobs, Backend!Statuses
    <3>2. job' = [job EXCEPT ![i] = n]
      BY <1>1, <2>1 DEF Backend!Start, JobInv, Backend!Jobs
    <3> QED
      BY <3>1, <3>2
  <2>2. CASE Backend!Finish(i)
    <3> DEFINE n == [job[i] EXCEPT !.status = "completed", !.result = TRUE]
    <3>1. n \in Backend!Jobs /\ n.status # "queued" /\ (n.status = "completed" => n.result)
      BY <1>1 DEF Backend!Jobs, Backend!Statuses
    <3>2. job' = [job EXCEPT ![i] = n]
      BY <1>1, <2>2 DEF Backend!Finish, JobInv, Backend!Jobs
    <3> QED
      BY <3>1, <3>2
  <2>3. CASE Backend!Fail(i)
    <3> DEFINE n == [job[i] EXCEPT !.status = "failed"]
    <3>1. n \in Backend!Jobs /\ n.status # "queued" /\ (n.status = "completed" => n.result)
      BY <1>1 DEF Backend!Jobs, Backend!Statuses
    <3>2. job' = [job EXCEPT ![i] = n]
      BY <1>1, <2>3 DEF Backend!Fail, JobInv, Backend!Jobs
    <3> QED
      BY <3>1, <3>2
  <2> QED
    BY <2>1, <2>2, <2>3 DEF Backend!Advance
<1>3. JobInv'
  BY <1>1, <1>2, NoSuchJob DEF JobInv
<1>4. ASSUME NEW c, Sound(c)
      PROVE  SoundFor(c, job')
  BY <1>1, <1>2, <1>4, NoSuchJob DEF Sound, SoundFor, Claims, JobInv, Objects
<1> QED
  BY <1>3, <1>4 DEF JobsMoveOn

\* A POST returns a job that exists afterwards.
LEMMA PostMoves ==
  ASSUME JobInv, NEW c \in Objects, NEW i \in Ids, PostEffect(c, i)
  PROVE  JobsMoveOn /\ job'[i] # NoJob
<1>1. CASE UNCHANGED job /\ Backend!Exists(i)
  BY <1>1 DEF JobsMoveOn, JobInv, Sound, Backend!Exists
<1>2. CASE Backend!Submit(i, Name, c.spec)
  <2> DEFINE n == [key |-> Name, spec |-> c.spec, status |-> "queued", result |-> FALSE]
  <2>1. c.spec \in Specs
    BY DEF Objects
  <2>2. n \in Backend!Jobs
    BY <2>1 DEF Backend!Jobs, Backend!Statuses
  <2>3. n # NoJob /\ n.status = "queued"
    BY <2>2, NoSuchJob
  <2>4. job' = [job EXCEPT ![i] = n] /\ job[i] = NoJob
    BY <1>2 DEF Backend!Submit, Backend!Exists
  <2> HIDE DEF n
  <2>5. JobInv'
    BY <2>2, <2>3, <2>4 DEF JobInv
  <2>6. ASSUME NEW d, Sound(d)
        PROVE  SoundFor(d, job')
    BY <2>4, <2>6 DEF Sound, SoundFor, Objects
  <2> QED
    BY <2>3, <2>4, <2>5, <2>6 DEF JobsMoveOn, JobInv
<1> QED
  BY <1>1, <1>2 DEF PostEffect, IdempotencyKey, Backend!WithKey

\* Steps that leave the jobs alone keep what is known of them.
LEMMA JobsStay ==
  ASSUME JobInv, job' = job
  PROVE  JobsMoveOn
BY DEF JobsMoveOn, JobInv, Sound

-----------------------------------------------------------------------------
(* What a reconcile computes.                                              *)

\* The first call of a reconcile, and what it says of the copy.
LEMMA FirstCallFacts ==
  ASSUME NEW c \in Objects
  PROVE  /\ FirstCall(c) \in Calls \ {"status"}
         /\ FirstCall(c) = "post" => c.finalizer /\ ~c.deleting /\ c.phase \in {"", "Pending"}
         /\ FirstCall(c) = "get" => c.finalizer /\ ~c.deleting /\ c.phase \in {"Submitted", "Running"}
         /\ FirstCall(c) = "cancel" => Cancellable(c)
         /\ FirstCall(c) = "remove_finalizer" => ~Cancellable(c)
         /\ FirstCall(c) = "idle" =>
              (c.deleting /\ ~c.finalizer) \/ (~c.deleting /\ c.phase \in TerminalPhases)
BY NoSuchObject DEF FirstCall, Objects, Phases, TerminalPhases, Calls, UnderDeletion, NeedsFinalizer, Cancellable

\* c and d differ in their status at most.
SameButStatus(c, d) ==
  /\ c.rv = d.rv /\ c.uid = d.uid /\ c.maxRetries = d.maxRetries
  /\ c.finalizer = d.finalizer /\ c.deleting = d.deleting

\* The new status after a POST.
LEMMA SubmittedFacts ==
  ASSUME NEW c \in Objects, Sound(c), c.finalizer, c.phase \in {"", "Pending"}, NEW i \in Ids, NEW jobs, jobs[i] # NoJob
  PROVE  LET d == [c EXCEPT !.jobID = i, !.phase = "Submitted"]
         IN  d \in Objects /\ SoundFor(d, jobs) /\ SameButStatus(d, c) /\ <<c.phase, d.phase>> \in Edges
<1> DEFINE d == [c EXCEPT !.jobID = i, !.phase = "Submitted"]
<1>1. d \in Objects /\ SameButStatus(d, c) /\ d.jobID = i /\ d.phase = "Submitted" /\ d.retries = c.retries /\ d.finalizer
  BY DEF Objects, Phases, SameButStatus
<1> HIDE DEF d
<1>2. SoundFor(d, jobs)
  BY <1>1, NoSuchId DEF SoundFor, Claims
<1>3. <<c.phase, d.phase>> \in Edges
  BY <1>1 DEF Edges
<1> QED
  BY <1>1, <1>2, <1>3 DEF d

\* The new status after a failure of the job.
LEMMA FailureFacts ==
  ASSUME NEW c \in Objects, Sound(c), c.phase \in {"Submitted", "Running"}, job[c.jobID].status = "failed"
  PROVE  LET d == HandleFailure(c)
         IN  d \in Objects /\ Sound(d) /\ SameButStatus(d, c) /\ <<c.phase, d.phase>> \in Edges
<1>1. /\ c.jobID # NoId /\ c.finalizer /\ job[c.jobID] # NoJob
      /\ c.retries \in Nat /\ Defaulted(c.maxRetries) \in Nat /\ c.jobID \in Ids
  BY NoSuchObject, RetryValues DEF Sound, SoundFor, Objects, Defaulted
<1>2. CASE c.retries < Defaulted(c.maxRetries)
  <2> DEFINE d == [c EXCEPT !.retries = c.retries + 1, !.jobID = NoId, !.phase = "Pending"]
  <2>1. HandleFailure(c) = d
    BY <1>2 DEF HandleFailure, Defaulted
  <2>2. d \in Objects /\ SameButStatus(d, c) /\ d.jobID = NoId /\ d.phase = "Pending" /\ d.retries = c.retries + 1
    <3>1. c.retries + 1 \in Nat /\ "Pending" \in Phases
      BY <1>1 DEF Phases
    <3>2. d \in Objects
      BY <3>1 DEF Objects
    <3> QED
      BY <3>2 DEF Objects, SameButStatus
  <2> HIDE DEF d
  <2>3. Sound(d)
    BY <2>2 DEF Sound, SoundFor
  <2>4. <<c.phase, d.phase>> \in Edges
    BY <2>2 DEF Edges
  <2> QED
    BY <2>1, <2>2, <2>3, <2>4
<1>3. CASE ~(c.retries < Defaulted(c.maxRetries))
  <2> DEFINE d == [c EXCEPT !.phase = "Failed"]
  <2>1. HandleFailure(c) = d
    BY <1>3 DEF HandleFailure, Defaulted
  <2>2. /\ d \in Objects /\ SameButStatus(d, c) /\ d.jobID = c.jobID /\ d.phase = "Failed"
        /\ d.retries = c.retries
    BY <1>1 DEF Objects, Phases, SameButStatus
  <2> HIDE DEF d
  <2>3. Sound(d)
    BY <1>1, <2>2 DEF Sound, SoundFor, Claims, SameButStatus
  <2>4. <<c.phase, d.phase>> \in Edges
    BY <2>2 DEF Edges
  <2> QED
    BY <2>1, <2>2, <2>3, <2>4
<1> QED
  BY <1>2, <1>3

\* The new status after a poll, if there is one.
LEMMA PollFacts ==
  ASSUME JobInv, NEW c \in Objects, Sound(c), c.phase \in {"Submitted", "Running"}, NEW d,
         d = IF c.phase = "Submitted" THEN HandleSubmitted(c) ELSE HandleRunning(c), d # c
  PROVE  d \in Objects /\ Sound(d) /\ SameButStatus(d, c) /\ <<c.phase, d.phase>> \in Edges
<1>1. /\ c.jobID # NoId /\ c.finalizer /\ job[c.jobID] # NoJob /\ c.jobID \in Ids
      /\ PolledStatus(c) = job[c.jobID].status
  BY NoSuchObject DEF Sound, SoundFor, Objects, PolledStatus, Backend!Exists
<1>2. CASE PolledStatus(c) = "failed"
  <2>1. d = HandleFailure(c)
    BY <1>2 DEF HandleSubmitted, HandleRunning
  <2> QED
    BY <1>1, <1>2, <2>1, FailureFacts
<1>3. CASE c.phase = "Submitted" /\ PolledStatus(c) = "running"
  <2>1. d = [c EXCEPT !.phase = "Running"]
    BY <1>3 DEF HandleSubmitted
  <2>2. /\ d \in Objects /\ SameButStatus(d, c) /\ d.jobID = c.jobID /\ d.phase = "Running"
        /\ d.retries = c.retries
    BY <2>1 DEF Objects, Phases, SameButStatus
  <2>3. Sound(d)
    BY <1>1, <1>3, <2>2 DEF Sound, SoundFor, Claims, SameButStatus
  <2> QED
    BY <1>3, <2>2, <2>3 DEF Edges
<1>4. CASE c.phase = "Running" /\ PolledStatus(c) = "completed"
  <2>1. job[c.jobID].result
    BY <1>1, <1>4 DEF JobInv
  <2>2. d = [c EXCEPT !.phase = "Completed", !.results = c.jobID]
    BY <1>4, <2>1 DEF HandleRunning
  <2>3. /\ d \in Objects /\ SameButStatus(d, c) /\ d.jobID = c.jobID /\ d.phase = "Completed"
        /\ d.retries = c.retries /\ d.results = c.jobID
    BY <1>1, <2>2 DEF Objects, Phases, SameButStatus
  <2>4. Sound(d)
    BY <1>1, <1>4, <2>3 DEF Sound, SoundFor, Claims, SameButStatus
  <2> QED
    BY <1>4, <2>3, <2>4 DEF Edges
<1> QED
  BY <1>2, <1>3, <1>4 DEF HandleSubmitted, HandleRunning

-----------------------------------------------------------------------------
(* Steps that leave the API server alone.                                  *)

\* What such a step keeps for every operator that it does not touch.
LEMMA BystanderKept ==
  ASSUME OperatorInv, JobsMoveOn, UNCHANGED <<obj, rev, created>>, cancels \subseteq cancels',
         NEW o \in Operators, cache'[o] = cache[o], events'[o] = events[o], pending'[o] = pending[o],
         rpc'[o] = rpc[o], loc'[o] = loc[o]
  PROVE  PodInv(o)'
<1>1. ViewInv(o)'
  BY DEF OperatorInv, PodInv, ViewInv, Published, Sound, Placed, JobsMoveOn
<1>2. LocInv(o)' /\ BasedInv(o)' /\ FeedInv(o)' /\ Awake(o)'
  BY DEF OperatorInv, PodInv, LocInv, BasedInv, FeedInv, Awake, Current
<1> QED
  BY <1>1, <1>2 DEF PodInv

\* And for the operator that takes the step.
LEMMA ActorKept ==
  ASSUME OperatorInv, JobsMoveOn, UNCHANGED k8sVars, created' = created,
         NEW o \in Operators, cache'[o] = cache[o],
         SoundFor(loc'[o], job'), Placed(loc'[o]), LocInv(o)', BasedInv(o)', Awake(o)'
  PROVE  PodInv(o)'
<1>1. obj' = obj /\ rev' = rev /\ events' = events
  BY DEF k8sVars
<1>2. ViewInv(o)'
  BY <1>1 DEF OperatorInv, PodInv, ViewInv, Published, Sound, Placed, JobsMoveOn
<1>3. FeedInv(o)'
  BY <1>1 DEF OperatorInv, PodInv, FeedInv
<1> QED
  BY <1>2, <1>3 DEF PodInv

\* The object is kept as well.
LEMMA ObjectKept ==
  ASSUME OperatorInv, JobsMoveOn, UNCHANGED k8sVars, created' = created
  PROVE  ObjInv'
BY DEF OperatorInv, ObjInv, Published, Sound, Placed, JobsMoveOn, k8sVars

\* A reconcile that ends with the name queued again leaves nothing to know.
LEMMA ReturnKept ==
  ASSUME OperatorInv, JobsMoveOn, UNCHANGED k8sVars, created' = created, cancels \subseteq cancels',
         NEW o \in Operators, Return(o, TRUE)
  PROVE  \A q \in Operators : PodInv(q)'
<1>1. cache' = cache /\ rpc'[o] = "idle" /\ loc'[o] = NoObj /\ pending'[o] = TRUE
  BY DEF Return, OperatorInv, PlainInv
<1>2. PodInv(o)'
  <2>1. SoundFor(loc'[o], job') /\ Placed(loc'[o])
    BY <1>1 DEF SoundFor, Placed, PlacedFor
  <2>2. LocInv(o)' /\ BasedInv(o)' /\ Awake(o)'
    BY <1>1 DEF LocInv, BasedInv, Awake
  <2> QED
    BY <1>1, <2>1, <2>2, ActorKept
<1>3. ASSUME NEW q \in Operators, q # o
      PROVE  PodInv(q)'
  <2>1. cache'[q] = cache[q] /\ pending'[q] = pending[q] /\ rpc'[q] = rpc[q] /\ loc'[q] = loc[q]
    BY <1>3 DEF Return, OperatorInv, PlainInv
  <2> QED
    BY <2>1, BystanderKept DEF k8sVars
<1> QED
  BY <1>2, <1>3

\* A reconcile that goes on with call and copy c.
LEMMA CallKept ==
  ASSUME OperatorInv, JobsMoveOn, UNCHANGED k8sVars, created' = created, cancels \subseteq cancels',
         NEW o \in Operators, NEW call \in Calls \ {"idle"}, NEW c \in Objects, Call(o, call, c),
         SoundFor(c, job'), Placed(c), LocInv(o)', BasedInv(o)'
  PROVE  \A q \in Operators : PodInv(q)'
<1>1. cache' = cache /\ rpc'[o] = call /\ loc'[o] = c
  BY DEF Call, OperatorInv, PlainInv
<1>2. PodInv(o)'
  <2>1. Awake(o)'
    BY <1>1 DEF Awake
  <2> QED
    BY <1>1, <2>1, ActorKept
<1>3. ASSUME NEW q \in Operators, q # o
      PROVE  PodInv(q)'
  <2>1. cache'[q] = cache[q] /\ pending'[q] = pending[q] /\ rpc'[q] = rpc[q] /\ loc'[q] = loc[q]
    BY <1>3 DEF Call, OperatorInv, PlainInv
  <2> QED
    BY <2>1, BystanderKept DEF k8sVars
<1> QED
  BY <1>2, <1>3

\* Faults are counted up to their bound.
LEMMA FaultsBounded ==
  ASSUME PlainInv, Fault \/ UNCHANGED faults
  PROVE  faults' \in 0 .. MaxFaults
BY Bounds DEF Fault, PlainInv

\* The counters and the types of what an operator has.
LEMMA PlainKept ==
  ASSUME PlainInv, NEW o \in Operators, UNCHANGED <<k8sVars, created, edits>>, Fault \/ UNCHANGED faults,
         cancels' \subseteq Ids, cache' = cache,
         NEW call \in Calls, NEW c \in Objects \union {NoObj}, NEW b \in BOOLEAN,
         rpc' = [rpc EXCEPT ![o] = call], loc' = [loc EXCEPT ![o] = c], pending' = [pending EXCEPT ![o] = b]
  PROVE  PlainInv'
BY FaultsBounded DEF PlainInv, k8sVars

\* So when a reconcile ends.
LEMMA ReturnPlain ==
  ASSUME PlainInv, NEW o \in Operators, UNCHANGED <<k8sVars, created, edits>>, Fault \/ UNCHANGED faults,
         cancels' \subseteq Ids, NEW b \in BOOLEAN, Return(o, b)
  PROVE  PlainInv'
<1>1. (b \/ pending[o]) \in BOOLEAN
  OBVIOUS
<1>2. pending' = [pending EXCEPT ![o] = b \/ pending[o]]
  BY DEF Return
<1> QED
  BY <1>1, <1>2, PlainKept DEF Return, Calls

\* So when it goes on.
LEMMA CallPlain ==
  ASSUME PlainInv, NEW o \in Operators, UNCHANGED <<k8sVars, created, edits>>, Fault \/ UNCHANGED faults,
         cancels' \subseteq Ids, NEW call \in Calls, NEW c \in Objects, Call(o, call, c)
  PROVE  PlainInv'
<1>1. pending' = [pending EXCEPT ![o] = pending[o]] /\ pending[o] \in BOOLEAN
  BY DEF Call, PlainInv
<1> QED
  BY <1>1, PlainKept DEF Call

\* The start of a reconcile.
LEMMA ReconcileKeeps ==
  ASSUME OperatorInv, NEW o \in Operators, Reconcile(o)
  PROVE  OperatorInv'
<1>1. UNCHANGED <<k8sVars, cache, job, cancels, envVars>>
  BY DEF Reconcile
<1>2. JobsMoveOn /\ ObjInv'
  BY <1>1, JobsStay, ObjectKept DEF OperatorInv, envVars
<1>3. PodInv(o) /\ cache[o] \in Objects \union {NoObj}
  BY DEF OperatorInv, PlainInv
<1>4. /\ rpc'[o] = FirstCall(cache[o]) /\ pending'[o] = FALSE
      /\ loc'[o] = IF rpc'[o] = "idle" THEN NoObj ELSE cache[o]
  BY DEF Reconcile, OperatorInv, PlainInv
<1>5. FirstCall(NoObj) = "idle"
  BY DEF FirstCall
<1>6. FirstCall(cache[o]) \in Calls \ {"status"}
  BY <1>3, <1>5, FirstCallFacts DEF Calls
<1>7. PodInv(o)'
  <2>1. SoundFor(loc'[o], job') /\ Placed(loc'[o])
    BY <1>1, <1>3, <1>4 DEF PodInv, ViewInv, Published, Sound, SoundFor, Placed, PlacedFor
  <2>2. LocInv(o)'
    BY <1>3, <1>4, <1>5, FirstCallFacts DEF LocInv
  <2>3. BasedInv(o)'
    BY <1>1, <1>3, <1>4, <1>5, <1>6 DEF BasedInv, Current, PodInv, ViewInv, Published, ExactFor, k8sVars
  <2>4. Awake(o)'
    <3>1. SUFFICES ASSUME obj # NoObj, events[o] = <<>>, FirstCall(cache[o]) = "idle"
                   PROVE  ~obj.deleting /\ obj.phase \in TerminalPhases
      BY <1>1, <1>4 DEF Awake, k8sVars
    <3>2. cache[o] = obj /\ obj \in Objects
      BY <1>3, <3>1 DEF PodInv, FeedInv
    <3> QED
      BY <3>1, <3>2, FirstCallFacts DEF OperatorInv, ObjInv
  <2> QED
    BY <1>1, <1>2, <2>1, <2>2, <2>3, <2>4, ActorKept DEF envVars
<1>8. ASSUME NEW q \in Operators, q # o
      PROVE  PodInv(q)'
  <2>1. cache'[q] = cache[q] /\ pending'[q] = pending[q] /\ rpc'[q] = rpc[q] /\ loc'[q] = loc[q]
    BY <1>1, <1>8 DEF Reconcile, OperatorInv, PlainInv
  <2> QED
    BY <1>1, <1>2, <2>1, BystanderKept DEF k8sVars, envVars
<1>9. PlainInv'
  <2>1. loc'[o] \in Objects \union {NoObj}
    BY <1>3, <1>4
  <2>2. /\ rpc' = [rpc EXCEPT ![o] = FirstCall(cache[o])] /\ loc' = [loc EXCEPT ![o] = loc'[o]]
        /\ pending' = [pending EXCEPT ![o] = FALSE]
    BY <1>4 DEF Reconcile
  <2>3. PlainInv /\ UNCHANGED <<k8sVars, created, edits, faults>> /\ cache' = cache /\ cancels' \subseteq Ids
    BY <1>1 DEF OperatorInv, PlainInv, envVars
  <2> QED
    BY <1>6, <2>1, <2>2, <2>3, PlainKept
<1> QED
  BY <1>2, <1>7, <1>8, <1>9 DEF OperatorInv, JobsMoveOn

\* A copy that differs in its status only stands to the object as the first one does.
LEMMA PlacedCopy ==
  ASSUME NEW c \in Objects, NEW d \in Objects, Placed(c), SameButStatus(d, c)
  PROVE  Placed(d)
BY NoSuchObject DEF Placed, PlacedFor, SameButStatus

\* A POST that is answered.
LEMMA HandlePendingKeeps ==
  ASSUME OperatorInv, NEW o \in Operators, HandlePending(o)
  PROVE  OperatorInv'
<1> DEFINE c == loc[o]
<1>1. UNCHANGED <<k8sVars, cancels, envVars>> /\ rpc[o] = "post"
  BY DEF HandlePending
<1>2. PodInv(o) /\ c \in Objects /\ Sound(c) /\ Placed(c) /\ c.finalizer /\ ~c.deleting /\ c.phase \in {"", "Pending"}
  BY <1>1 DEF OperatorInv, PodInv, PlainInv, LocInv, ViewInv
<1>3. PICK i \in Ids : PostEffect(c, i) /\ Call(o, "status", [c EXCEPT !.jobID = i, !.phase = "Submitted"])
  BY DEF HandlePending
<1> DEFINE d == [c EXCEPT !.jobID = i, !.phase = "Submitted"]
<1>4. JobsMoveOn /\ job'[i] # NoJob
  BY <1>2, <1>3, PostMoves DEF OperatorInv
<1>5. d \in Objects /\ SoundFor(d, job') /\ SameButStatus(d, c) /\ <<c.phase, d.phase>> \in Edges
  BY <1>2, <1>4, SubmittedFacts
<1>6. Call(o, "status", d)
  BY <1>3
<1> HIDE DEF d
<1>7. Placed(d)
  BY <1>2, <1>5, PlacedCopy
<1>8. rpc'[o] = "status" /\ loc'[o] = d
  BY <1>6 DEF Call, OperatorInv, PlainInv
<1>9. LocInv(o)'
  BY <1>5, <1>8, NoSuchObject DEF LocInv
<1>10. BasedInv(o)'
  BY <1>1, <1>2, <1>5, <1>8 DEF BasedInv, Current, SameButStatus, PodInv, k8sVars
<1>11. \A q \in Operators : PodInv(q)'
  BY <1>1, <1>4, <1>5, <1>6, <1>7, <1>9, <1>10, CallKept DEF Calls, envVars
<1>12. PlainInv'
  BY <1>1, <1>5, <1>6, CallPlain DEF OperatorInv, PlainInv, Calls, envVars
<1>13. ObjInv'
  BY <1>1, <1>4, ObjectKept DEF envVars
<1> QED
  BY <1>4, <1>11, <1>12, <1>13 DEF OperatorInv, JobsMoveOn

\* A poll that is answered.
LEMMA HandlePollKeeps ==
  ASSUME OperatorInv, NEW o \in Operators, HandlePoll(o)
  PROVE  OperatorInv'
<1> DEFINE c == loc[o]
<1> DEFINE d == IF c.phase = "Submitted" THEN HandleSubmitted(c) ELSE HandleRunning(c)
<1>1. UNCHANGED <<k8sVars, job, cancels, envVars>> /\ rpc[o] = "get"
  BY DEF HandlePoll
<1>2. PodInv(o) /\ c \in Objects /\ Sound(c) /\ Placed(c) /\ c.finalizer /\ ~c.deleting /\ c.phase \in {"Submitted", "Running"}
  BY <1>1 DEF OperatorInv, PodInv, PlainInv, LocInv, ViewInv
<1>3. JobsMoveOn /\ ObjInv'
  BY <1>1, JobsStay, ObjectKept DEF OperatorInv, envVars
<1>4. IF d = c THEN Return(o, TRUE) ELSE Call(o, "status", d)
  BY DEF HandlePoll, PollAgain
<1>5. d # c => d \in Objects /\ Sound(d) /\ SameButStatus(d, c) /\ <<c.phase, d.phase>> \in Edges
  BY <1>2, PollFacts DEF OperatorInv
<1> HIDE DEF d
<1>6. CASE d = c
  <2>1. \A q \in Operators : PodInv(q)'
    BY <1>1, <1>3, <1>4, <1>6, ReturnKept DEF envVars
  <2>2. PlainInv'
    BY <1>1, <1>4, <1>6, ReturnPlain DEF OperatorInv, PlainInv, envVars
  <2> QED
    BY <1>3, <2>1, <2>2 DEF OperatorInv, JobsMoveOn
<1>7. CASE d # c
  <2>1. Placed(d) /\ SoundFor(d, job')
    BY <1>1, <1>2, <1>5, <1>7, PlacedCopy DEF Sound
  <2>2. rpc'[o] = "status" /\ loc'[o] = d
    BY <1>4, <1>7 DEF Call, OperatorInv, PlainInv
  <2>3. LocInv(o)'
    BY <1>5, <1>7, <2>2, NoSuchObject DEF LocInv
  <2>4. BasedInv(o)'
    BY <1>1, <1>2, <1>5, <1>7, <2>2 DEF BasedInv, Current, SameButStatus, PodInv, k8sVars
  <2>5. \A q \in Operators : PodInv(q)'
    BY <1>1, <1>3, <1>4, <1>5, <1>7, <2>1, <2>3, <2>4, CallKept DEF Calls, envVars
  <2>6. PlainInv'
    BY <1>1, <1>4, <1>5, <1>7, CallPlain DEF OperatorInv, PlainInv, Calls, envVars
  <2> QED
    BY <1>3, <2>5, <2>6 DEF OperatorInv, JobsMoveOn
<1> QED
  BY <1>6, <1>7

\* The best-effort DELETE.
LEMMA CancelKeeps ==
  ASSUME OperatorInv, NEW o \in Operators, CancelBackendJob(o)
  PROVE  OperatorInv'
<1> DEFINE c == loc[o]
<1>1. UNCHANGED <<k8sVars, job, envVars>> /\ rpc[o] = "cancel" /\ cancels' = cancels \union {c.jobID}
      /\ Call(o, "remove_finalizer", c)
  BY DEF CancelBackendJob, AfterCancel
<1>2. PodInv(o) /\ c \in Objects /\ Sound(c) /\ Placed(c) /\ Cancellable(c)
  BY <1>1 DEF OperatorInv, PodInv, PlainInv, LocInv, ViewInv
<1>3. JobsMoveOn /\ ObjInv'
  BY <1>1, JobsStay, ObjectKept DEF OperatorInv, envVars
<1>4. rpc'[o] = "remove_finalizer" /\ loc'[o] = c
  BY <1>1 DEF Call, OperatorInv, PlainInv
<1>5. LocInv(o)'
  BY <1>1, <1>2, <1>4, NoSuchObject DEF LocInv
<1>6. BasedInv(o)'
  BY <1>1, <1>2, <1>4 DEF BasedInv, Current, PodInv, k8sVars
<1>7. cancels' \subseteq Ids
  BY <1>1, <1>2 DEF Cancellable, Objects, OperatorInv, PlainInv
<1>8. SoundFor(c, job')
  BY <1>1, <1>2 DEF Sound
<1>9. \A q \in Operators : PodInv(q)'
  BY <1>1, <1>2, <1>3, <1>5, <1>6, <1>8, CallKept DEF Calls, envVars
<1>10. PlainInv'
  BY <1>1, <1>2, <1>7, CallPlain DEF OperatorInv, Calls, envVars
<1> QED
  BY <1>3, <1>9, <1>10 DEF OperatorInv, JobsMoveOn

\* A reconcile that gives up and queues the name again.
LEMMA GivesUpKeeps ==
  ASSUME OperatorInv, JobsMoveOn, NEW o \in Operators, Return(o, TRUE), Fault \/ UNCHANGED faults,
         UNCHANGED <<k8sVars, cancels, created, edits>>
  PROVE  OperatorInv'
<1>1. ObjInv' /\ \A q \in Operators : PodInv(q)'
  BY ObjectKept, ReturnKept
<1>2. PlainInv'
  BY ReturnPlain DEF OperatorInv, PlainInv
<1> QED
  BY <1>1, <1>2 DEF OperatorInv, JobsMoveOn

\* A POST or a poll that fails.
LEMMA HttpFailsKeeps ==
  ASSUME OperatorInv, NEW o \in Operators, HttpFails(o)
  PROVE  OperatorInv'
<1>1. JobsMoveOn
  <2>1. CASE UNCHANGED job
    BY <2>1, JobsStay DEF OperatorInv
  <2>2. CASE rpc[o] = "post" /\ \E i \in Ids : PostEffect(loc[o], i)
    <3>1. loc[o] \in Objects
      BY <2>2 DEF OperatorInv, PodInv, PlainInv, LocInv
    <3> QED
      BY <2>2, <3>1, PostMoves DEF OperatorInv
  <2> QED
    BY <2>1, <2>2 DEF HttpFails
<1> QED
  BY <1>1, GivesUpKeeps DEF HttpFails

\* The backend goes on.
LEMMA BackendKeeps ==
  ASSUME OperatorInv, BackendAdvances
  PROVE  OperatorInv'
<1>1. UNCHANGED <<k8sVars, opVars, cancels, envVars>>
  BY DEF BackendAdvances
<1>2. JobsMoveOn
  BY AdvanceMoves DEF BackendAdvances, OperatorInv
<1>3. ObjInv'
  BY <1>1, <1>2, ObjectKept DEF envVars
<1>4. \A q \in Operators : PodInv(q)'
  BY <1>1, <1>2, BystanderKept DEF k8sVars, opVars, envVars
<1>5. PlainInv'
  BY <1>1 DEF OperatorInv, PlainInv, k8sVars, opVars, envVars
<1> QED
  BY <1>2, <1>3, <1>4, <1>5 DEF OperatorInv, JobsMoveOn

-----------------------------------------------------------------------------
(* Events, restarts and writes.                                            *)

\* An event is delivered.
LEMMA WatchEventKeeps ==
  ASSUME OperatorInv, NEW o \in Operators, WatchEvent(o)
  PROVE  OperatorInv'
<1> DEFINE S == Objects \union {NoObj}
<1> DEFINE e == events[o]
<1>1. UNCHANGED <<obj, rev, rpc, loc, job, cancels, created, edits, faults>>
  BY DEF WatchEvent, envVars
<1>2. JobsMoveOn
  BY <1>1, JobsStay DEF OperatorInv
<1>3. e \in Seq(S) /\ e # <<>>
  BY DEF WatchEvent, OperatorInv, PlainInv
<1>4. /\ Len(e) \in Nat \ {0} /\ Head(e) = e[1] /\ Head(e) \in S /\ Tail(e) \in Seq(S)
      /\ Len(Tail(e)) = Len(e) - 1 /\ \A k \in 1 .. Len(Tail(e)) : Tail(e)[k] = e[k + 1]
  BY <1>3
<1>5. cache'[o] = e[1] /\ events'[o] = Tail(e) /\ pending'[o] = TRUE
  BY <1>4 DEF WatchEvent, OperatorInv, PlainInv
<1>6. PodInv(o)
  BY DEF OperatorInv
<1>7. PodInv(o)'
  <2>1. \A k \in 1 .. Len(e) : Published(e[k])
    BY <1>6 DEF PodInv, ViewInv
  <2>2. ViewInv(o)'
    <3>1. \A k \in 1 .. Len(Tail(e)) : Published(Tail(e)[k])
      BY <1>4, <2>1
    <3>2. Published(e[1])
      BY <1>4, <2>1
    <3> QED
      BY <1>1, <1>5, <1>6, <3>1, <3>2 DEF PodInv, ViewInv, Published, Sound, Placed
  <2>3. FeedInv(o)'
    <3>1. e[Len(e)] = obj
      BY <1>3, <1>6 DEF PodInv, FeedInv
    <3>2. CASE Tail(e) = <<>>
      <4>1. Len(e) = 1
        <5>1. \A s : s = <<>> => Len(s) = 0
          OBVIOUS
        <5>2. Len(Tail(e)) = 0
          BY <3>2, <5>1, Zenon
        <5> QED
          BY <1>4, <5>2
      <4> QED
        BY <1>1, <1>5, <3>1, <3>2, <4>1 DEF FeedInv
    <3>3. CASE Tail(e) # <<>>
      <4>1. Len(Tail(e)) \in 1 .. Len(Tail(e))
        BY <1>4, <3>3
      <4> QED
        BY <1>1, <1>4, <1>5, <3>1, <3>3, <4>1 DEF FeedInv
    <3> QED
      BY <3>2, <3>3
  <2>4. LocInv(o)' /\ BasedInv(o)' /\ Awake(o)'
    BY <1>1, <1>5, <1>6 DEF PodInv, LocInv, BasedInv, Current, Awake
  <2> QED
    BY <2>2, <2>3, <2>4 DEF PodInv
<1>8. ASSUME NEW q \in Operators, q # o
      PROVE  PodInv(q)'
  <2>1. cache'[q] = cache[q] /\ events'[q] = events[q] /\ pending'[q] = pending[q]
    BY <1>8 DEF WatchEvent, OperatorInv, PlainInv
  <2> QED
    BY <1>1, <1>2, <2>1, BystanderKept
<1>9. PlainInv'
  BY <1>1, <1>4 DEF WatchEvent, OperatorInv, PlainInv
<1>10. ObjInv'
  BY <1>1 DEF OperatorInv, ObjInv, Published, Sound, Placed
<1> QED
  BY <1>2, <1>7, <1>8, <1>9, <1>10 DEF OperatorInv, JobsMoveOn

\* A pod restarts.
LEMMA RestartKeeps ==
  ASSUME OperatorInv, NEW o \in Operators, OperatorRestarts(o)
  PROVE  OperatorInv'
<1>1. UNCHANGED <<obj, rev, job, cancels, created, edits>>
  BY DEF OperatorRestarts
<1>2. JobsMoveOn
  BY <1>1, JobsStay DEF OperatorInv
<1>3. /\ cache'[o] = obj /\ events'[o] = <<>> /\ rpc'[o] = "idle" /\ loc'[o] = NoObj
      /\ pending'[o] = (obj # NoObj)
  BY DEF OperatorRestarts, OperatorInv, PlainInv
<1>4. PodInv(o)'
  <2>1. ViewInv(o)'
    <3>1. Published(cache[o])'
      BY <1>1, <1>3 DEF OperatorInv, ObjInv, Published, Sound, Placed
    <3>2. Sound(loc[o])' /\ Placed(loc[o])'
      BY <1>3 DEF Sound, SoundFor, Placed, PlacedFor
    <3>3. Len(events'[o]) = 0
      BY <1>3
    <3> QED
      BY <3>1, <3>2, <3>3 DEF ViewInv
  <2>2. LocInv(o)' /\ BasedInv(o)' /\ FeedInv(o)' /\ Awake(o)'
    BY <1>1, <1>3 DEF LocInv, BasedInv, FeedInv, Awake
  <2> QED
    BY <2>1, <2>2 DEF PodInv
<1>5. ASSUME NEW q \in Operators, q # o
      PROVE  PodInv(q)'
  <2>1. /\ cache'[q] = cache[q] /\ events'[q] = events[q] /\ pending'[q] = pending[q]
        /\ rpc'[q] = rpc[q] /\ loc'[q] = loc[q]
    BY <1>5 DEF OperatorRestarts, OperatorInv, PlainInv
  <2> QED
    BY <1>1, <1>2, <2>1, BystanderKept
<1>6. obj \in Objects \union {NoObj} /\ <<>> \in Seq(Objects \union {NoObj}) /\ (obj # NoObj) \in BOOLEAN
  BY SMTT(30) DEF OperatorInv, ObjInv, Published, Sound, SoundFor
<1>7. faults' \in 0 .. MaxFaults
  BY FaultsBounded DEF OperatorRestarts, OperatorInv
<1>8. PlainInv'
  BY <1>1, <1>6, <1>7 DEF OperatorRestarts, OperatorInv, PlainInv, Calls
<1>9. ObjInv'
  BY <1>1 DEF OperatorInv, ObjInv, Published, Sound, Placed
<1> QED
  BY <1>2, <1>4, <1>5, <1>8, <1>9 DEF OperatorInv, JobsMoveOn

\* The object may be replaced by new, n objects having been created then.
Successor(new, n) ==
  new # NoObj =>
    /\ new \in Objects /\ new.uid <= n /\ (new.deleting => new.finalizer)
    /\ obj = NoObj => new.uid > created
    /\ obj # NoObj => new.uid = obj.uid /\ (obj.finalizer => new.finalizer)

\* A write to the API server: nobody has the new revision yet, and everybody will be
\* told of it.
LEMMA StoreKeeps ==
  ASSUME OperatorInv, UNCHANGED <<job, cancels, cache>>, NEW new, Store(new),
         created' \in Nat, created' >= created, Sound(new), Successor(new, created')
  PROVE  /\ ObjInv' /\ rev' \in Nat /\ events' \in [Operators -> Seq(Objects \union {NoObj})]
         /\ \A o \in Operators :
              (loc'[o] = NoObj /\ rpc'[o] = "idle") \/ (loc'[o] = loc[o] /\ rpc'[o] = rpc[o]) => PodInv(o)'
<1>1. rev \in Nat /\ rev' = rev + 1 /\ created \in Nat
  BY DEF OperatorInv, PlainInv, Store
<1>2. new = NoObj => obj' = NoObj
  BY DEF Store
<1>3. new # NoObj =>
        /\ obj' \in Objects /\ obj'.rv = rev + 1 /\ SoundFor(obj', job)
        /\ obj'.uid = new.uid
        /\ obj'.finalizer = new.finalizer /\ obj'.deleting = new.deleting
  <2>1. SUFFICES ASSUME new # NoObj
                 PROVE  /\ obj' \in Objects /\ obj'.rv = rev + 1 /\ SoundFor(obj', job)
                        /\ obj'.uid = new.uid
                        /\ obj'.finalizer = new.finalizer /\ obj'.deleting = new.deleting
    OBVIOUS
  <2>2. new \in Objects /\ obj' = [new EXCEPT !.rv = rev + 1]
    BY <2>1 DEF Successor, Store
  <2>3. /\ obj' \in Objects /\ obj'.rv = rev + 1
        /\ obj'.uid = new.uid
        /\ obj'.finalizer = new.finalizer /\ obj'.deleting = new.deleting
        /\ obj'.phase = new.phase /\ obj'.jobID = new.jobID /\ obj'.retries = new.retries /\ obj'.results = new.results
    BY <1>1, <2>2 DEF Objects
  <2>4. SoundFor(obj', job)
    BY <2>1, <2>3 DEF Sound, SoundFor, Claims
  <2> QED
    BY <2>3, <2>4
<1>4. ASSUME NEW c, Sound(c), Placed(c), c # NoObj
      PROVE  /\ c \in Objects /\ PlacedFor(c, obj', rev', created')
             /\ obj' # NoObj => c.rv # obj'.rv
  <2>1. c \in Objects /\ c.rv \in Nat /\ c.uid \in Nat /\ c.rv <= rev /\ c.uid <= created
    BY <1>4 DEF Sound, SoundFor, Placed, PlacedFor, Objects
  <2>2. obj' # NoObj => c.rv # obj'.rv
    BY <1>1, <1>2, <1>3, <2>1
  <2>3. c.rv <= rev' /\ c.uid <= created'
    BY <1>1, <2>1
  <2>4. ASSUME obj' # NoObj, c.uid = obj'.uid
        PROVE  c.finalizer => obj'.finalizer
    <3>1. new # NoObj /\ obj'.uid = new.uid /\ obj'.finalizer = new.finalizer
      BY <1>2, <1>3, <2>4
    <3>2. obj # NoObj
      BY <2>1, <2>4, <3>1, <1>1 DEF Successor
    <3>3. new.uid = obj.uid /\ (obj.finalizer => new.finalizer)
      BY <3>1, <3>2 DEF Successor
    <3> QED
      BY <1>4, <2>4, <3>1, <3>2, <3>3 DEF Placed, PlacedFor
  <2> QED
    BY <2>1, <2>2, <2>3, <2>4 DEF PlacedFor
<1>5. ObjInv'
  <2>1. CASE new = NoObj
    BY <1>2, <2>1 DEF ObjInv, Published, Sound, SoundFor, Placed, PlacedFor, ExactFor
  <2>2. CASE new # NoObj
    <3>1. obj'.uid <= created' /\ obj'.rv <= rev'
      BY <1>1, <1>3, <2>2 DEF Successor
    <3>2. Placed(obj)' /\ Sound(obj)' /\ ExactFor(obj, obj)'
      BY <1>3, <2>2, <3>1 DEF Placed, PlacedFor, Sound, ExactFor
    <3> QED
      BY <1>3, <2>2, <3>2 DEF ObjInv, Published, Successor
  <2> QED
    BY <2>1, <2>2
<1>6. obj' \in Objects \union {NoObj}
  BY <1>2, <1>3
<1>7. events' \in [Operators -> Seq(Objects \union {NoObj})]
  BY <1>6 DEF Store, OperatorInv, PlainInv
<1>8. ASSUME NEW o \in Operators,
             (loc'[o] = NoObj /\ rpc'[o] = "idle") \/ (loc'[o] = loc[o] /\ rpc'[o] = rpc[o])
      PROVE  PodInv(o)'
  <2> DEFINE e == events[o]
  <2>1. e \in Seq(Objects \union {NoObj}) /\ events'[o] = Append(e, obj')
    BY DEF Store, OperatorInv, PlainInv
  <2>2. /\ Len(events'[o]) = Len(e) + 1 /\ Len(e) \in Nat /\ events'[o] # <<>>
        /\ \A k \in 1 .. Len(e) : events'[o][k] = e[k]
        /\ events'[o][Len(e) + 1] = obj'
    BY <1>6, <2>1
  <2> HIDE DEF e
  <2>3. PodInv(o)
    BY DEF OperatorInv
  <2>4. ASSUME NEW c, Published(c)
        PROVE  SoundFor(c, job') /\ PlacedFor(c, obj', rev', created') /\ ExactFor(c, obj')
    <3>1. CASE c = NoObj
      BY <3>1 DEF SoundFor, PlacedFor, ExactFor
    <3>2. CASE c # NoObj
      BY <1>4, <2>4, <3>2 DEF Published, Sound, ExactFor
    <3> QED
      BY <3>1, <3>2
  <2>5. Published(cache[o])'
    BY <2>3, <2>4 DEF PodInv, ViewInv, Published, Sound, Placed
  <2>6. Sound(loc[o])' /\ Placed(loc[o])'
    <3>1. CASE loc'[o] = NoObj
      BY <3>1 DEF Sound, SoundFor, Placed, PlacedFor
    <3>2. CASE loc'[o] # NoObj
      BY <1>4, <1>8, <2>3, <3>2 DEF PodInv, ViewInv, Sound, Placed
    <3> QED
      BY <3>1, <3>2
  <2>7. ASSUME NEW k \in 1 .. Len(events'[o])
        PROVE  SoundFor(events'[o][k], job') /\ PlacedFor(events'[o][k], obj', rev', created') /\ ExactFor(events'[o][k], obj')
    <3>1. CASE k \in 1 .. Len(e)
      <4>1. Published(e[k])
        BY <2>3, <3>1 DEF PodInv, ViewInv, e
      <4> QED
        BY <2>2, <2>4, <3>1, <4>1
    <3>2. CASE k = Len(e) + 1
      BY <1>5, <2>2, <3>2 DEF ObjInv, Published, Sound, Placed
    <3>3. k \in 1 .. Len(e) \/ k = Len(e) + 1
      BY <2>2, <2>7
    <3> QED
      BY <3>1, <3>2, <3>3
  <2>8. ViewInv(o)'
    BY <2>5, <2>6, <2>7 DEF ViewInv, Published, Sound, Placed
  <2>9. LocInv(o)'
    BY <1>8, <2>3 DEF PodInv, LocInv
  <2>10. BasedInv(o)'
    <3>1. CASE rpc'[o] = "idle"
      BY <3>1 DEF BasedInv
    <3>2. CASE rpc'[o] # "idle"
      <4>1. loc'[o] = loc[o] /\ loc[o] # NoObj /\ Sound(loc[o]) /\ Placed(loc[o])
        BY <1>8, <2>3, <3>2 DEF PodInv, LocInv, ViewInv
      <4>2. obj' # NoObj => loc[o].rv # obj'.rv
        BY <1>4, <4>1
      <4> QED
        BY <4>1, <4>2 DEF BasedInv, Current
    <3> QED
      BY <3>1, <3>2
  <2>11. FeedInv(o)' /\ Awake(o)'
    BY <2>2 DEF FeedInv, Awake
  <2> QED
    BY <2>8, <2>9, <2>10, <2>11 DEF PodInv
<1> QED
  BY <1>1, <1>5, <1>7, <1>8

\* The rest of the invariant after a write by a user, who touches no operator.
LEMMA UserWriteKeeps ==
  ASSUME OperatorInv, UNCHANGED <<opVars, job, cancels, faults>>, NEW new, Store(new),
         created' \in 0 .. MaxObjects, created' >= created, edits' \in 0 .. MaxEdits,
         Sound(new), Successor(new, created')
  PROVE  OperatorInv'
<1>1. created' \in Nat
  OBVIOUS
<1>2. UNCHANGED <<cache, pending, rpc, loc>>
  BY DEF opVars
<1>3. /\ ObjInv' /\ rev' \in Nat /\ events' \in [Operators -> Seq(Objects \union {NoObj})]
      /\ \A o \in Operators : PodInv(o)'
  BY <1>1, <1>2, StoreKeeps
<1>4. PlainInv' /\ JobInv'
  BY <1>2, <1>3 DEF OperatorInv, PlainInv, JobInv
<1> QED
  BY <1>3, <1>4 DEF OperatorInv

\* d is c after a user has edited it: the metadata and the status are the same.
EditOf(d, c) ==
  /\ d.uid = c.uid /\ d.finalizer = c.finalizer /\ d.deleting = c.deleting
  /\ d.phase = c.phase /\ d.jobID = c.jobID /\ d.retries = c.retries /\ d.results = c.results

\* An edit changes the job's spec or the limit on retries.
LEMMA EditFacts ==
  ASSUME obj \in Objects, UserEditsSpec
  PROVE  \E new \in Objects : Store(new) /\ EditOf(new, obj)
<1>1. PICK new \in {[obj EXCEPT !.spec = s] : s \in Specs}
                     \union {[obj EXCEPT !.maxRetries = m] : m \in RetryLimits} : Store(new)
  BY DEF UserEditsSpec
<1>2. ASSUME NEW s \in Specs, new = [obj EXCEPT !.spec = s]
      PROVE  new \in Objects /\ EditOf(new, obj)
  BY <1>2 DEF Objects, EditOf
<1>3. ASSUME NEW m \in RetryLimits, new = [obj EXCEPT !.maxRetries = m]
      PROVE  new \in Objects /\ EditOf(new, obj)
  <2>1. m \in Nat
    BY RetryValues
  <2> QED
    BY <1>3, <2>1 DEF Objects, EditOf
<1> QED
  BY <1>1, <1>2, <1>3

\* The users.
LEMMA UsersKeep ==
  ASSUME OperatorInv, UserCreates \/ UserEditsSpec \/ UserDeletes
  PROVE  OperatorInv'
<1>1. obj # NoObj => /\ obj \in Objects /\ Sound(obj) /\ obj.uid <= created
                     /\ obj.deleting => obj.finalizer
  BY DEF OperatorInv, ObjInv, Published, Sound, SoundFor, Placed, PlacedFor
<1>2. created \in 0 .. MaxObjects /\ edits \in 0 .. MaxEdits /\ MaxObjects \in Nat /\ MaxEdits \in Nat
  BY Bounds DEF OperatorInv, PlainInv
<1>3. CASE UserCreates
  <2>1. PICK s \in Specs, m \in RetryLimits : Store(NewObject(s, m))
    BY <1>3 DEF UserCreates
  <2>2. m \in Nat /\ created + 1 \in 1 .. MaxObjects /\ created' = created + 1 /\ obj = NoObj
    BY <1>2, <1>3, RetryValues DEF UserCreates
  <2> DEFINE new == NewObject(s, m)
  <2>3. /\ new \in Objects /\ new.uid = created + 1 /\ ~new.deleting /\ new.jobID = NoId
        /\ new.phase \notin {"Submitted", "Running", "Completed", "Failed"} /\ new.retries = 0 /\ new.maxRetries = m
    <3>1. new.phase = "" /\ new.retries = 0 /\ new.maxRetries = m /\ ~new.deleting /\ new.jobID = NoId /\ new.uid = created + 1
      BY DEF NewObject
    <3>2. new \in Objects
      BY <2>2 DEF NewObject, Objects, Phases
    <3> QED
      BY <3>1, <3>2, Zenon
  <2> HIDE DEF new
  <2>4. Sound(new)
    BY <2>3 DEF Sound, SoundFor
  <2>5. Successor(new, created')
    <3>1. new.uid <= created' /\ new.uid > created
      BY <1>2, <2>2, <2>3
    <3> QED
      BY <2>2, <2>3, <3>1 DEF Successor
  <2>6. Store(new)
    BY <2>1 DEF new
  <2>7. created' \in 0 .. MaxObjects /\ created' >= created /\ edits' \in 0 .. MaxEdits
    BY <1>2, <1>3, <2>2 DEF UserCreates
  <2> QED
    BY <1>3, <2>4, <2>5, <2>6, <2>7, UserWriteKeeps DEF UserCreates
<1>4. CASE UserEditsSpec
  <2>1. obj \in Objects /\ Sound(obj) /\ obj # NoObj
    BY <1>1, <1>4 DEF UserEditsSpec
  <2>2. PICK new \in Objects : Store(new) /\ EditOf(new, obj)
    BY <1>4, <2>1, EditFacts
  <2>3. Sound(new)
    BY <2>1, <2>2 DEF Sound, SoundFor, Claims, EditOf
  <2>4. Successor(new, created') /\ created' = created
    BY <1>1, <1>4, <2>1, <2>2 DEF Successor, UserEditsSpec, EditOf
  <2>5. edits' \in 0 .. MaxEdits
    BY <1>2, <1>4 DEF UserEditsSpec
  <2> QED
    BY <1>2, <1>4, <2>2, <2>3, <2>4, <2>5, UserWriteKeeps DEF UserEditsSpec
<1>5. CASE UserDeletes
  <2> DEFINE new == IF obj.finalizer THEN [obj EXCEPT !.deleting = TRUE] ELSE NoObj
  <2>1. Store(new) /\ obj # NoObj /\ UNCHANGED <<opVars, job, cancels, created, edits, faults>>
    BY <1>5 DEF UserDeletes, envVars
  <2>2. obj \in Objects /\ Sound(obj)
    BY <1>1, <2>1
  <2>3. new # NoObj =>
        /\ obj.finalizer /\ new \in Objects /\ new.uid = obj.uid /\ new.finalizer = obj.finalizer
        /\ new.jobID = obj.jobID /\ new.phase = obj.phase /\ new.retries = obj.retries
        /\ new.maxRetries = obj.maxRetries /\ new.results = obj.results
    BY <2>2 DEF Objects
  <2> HIDE DEF new
  <2>4. Sound(new)
    BY <2>1, <2>2, <2>3 DEF Sound, SoundFor, Claims
  <2>5. Successor(new, created')
    BY <1>1, <2>1, <2>3 DEF Successor
  <2> QED
    BY <1>2, <2>1, <2>4, <2>5, UserWriteKeeps
<1> QED
  BY <1>3, <1>4, <1>5

\* What an operator writes when its copy is the latest one.
LEMMA WrittenFacts ==
  ASSUME OperatorInv, NEW o \in Operators, Writing(o), Current(o)
  PROVE  /\ Sound(Written(o)) /\ Successor(Written(o), created)
         /\ Written(o) # NoObj =>
              \/ StatusOf(Written(o)) = StatusOf(obj)
              \/ ~obj.deleting /\ <<obj.phase, Written(o).phase>> \in Edges
         /\ Written(o) = NoObj => (Cancellable(obj) => obj.jobID \in cancels)
<1> DEFINE c == loc[o]
<1>1. obj # NoObj /\ obj.rv = c.rv /\ rpc[o] # "idle" /\ PodInv(o)
  BY DEF Current, Writing, OperatorInv
<1>2. /\ obj \in Objects /\ Sound(obj) /\ obj.uid <= created /\ (obj.deleting => obj.finalizer)
      /\ Defaulted(obj.maxRetries) \in Nat
  BY <1>1, RetryValues DEF OperatorInv, ObjInv, Published, Sound, SoundFor, Placed, PlacedFor, Defaulted, Objects
<1>3. c \in Objects /\ Sound(c) /\ Placed(c)
  BY <1>1 DEF PodInv, LocInv, ViewInv, OperatorInv, PlainInv
<1>4. CASE rpc[o] = "status"
  <2> DEFINE n == [obj EXCEPT !.phase = c.phase, !.jobID = c.jobID, !.retries = c.retries, !.results = c.results]
  <2>1. Written(o) = n
    BY <1>4 DEF Written
  <2>2. /\ n \in Objects /\ n.uid = obj.uid /\ n.maxRetries = obj.maxRetries
        /\ n.finalizer = obj.finalizer /\ n.deleting = obj.deleting
        /\ n.phase = c.phase /\ n.jobID = c.jobID /\ n.retries = c.retries /\ n.results = c.results
    BY <1>2, <1>3 DEF Objects
  <2> HIDE DEF n
  <2>3. ~obj.deleting /\ obj.finalizer /\ <<obj.phase, c.phase>> \in Edges
    BY <1>1, <1>4 DEF PodInv, BasedInv
  <2>4. Sound(n)
    BY <1>3, <2>2, <2>3, NoSuchObject DEF Sound, SoundFor, Claims
  <2>5. Successor(n, created) /\ n # NoObj
    BY <1>1, <1>2, <2>2, NoSuchObject DEF Successor
  <2> QED
    BY <2>1, <2>2, <2>3, <2>4, <2>5
<1>5. CASE rpc[o] = "add_finalizer"
  <2> DEFINE n == [obj EXCEPT !.finalizer = TRUE, !.maxRetries = Defaulted(obj.maxRetries)]
  <2>1. Written(o) = n
    BY <1>5 DEF Written
  <2>2. /\ n \in Objects /\ n.uid = obj.uid /\ n.maxRetries = Defaulted(obj.maxRetries) /\ n.finalizer
        /\ n.phase = obj.phase /\ n.jobID = obj.jobID /\ n.retries = obj.retries /\ n.results = obj.results
    BY <1>2 DEF Objects
  <2> HIDE DEF n
  <2>3. Sound(n)
    BY <1>1, <1>2, <2>2 DEF Sound, SoundFor, Claims
  <2>4. Successor(n, created) /\ n # NoObj
    BY <1>1, <1>2, <2>2, NoSuchObject DEF Successor
  <2>5. StatusOf(n) = StatusOf(obj)
    BY <2>2 DEF StatusOf
  <2> QED
    BY <2>1, <2>3, <2>4, <2>5
<1>6. CASE rpc[o] = "remove_finalizer"
  <2>1. Written(o) = NoObj
    BY <1>6 DEF Written
  <2>2. c = obj /\ (Cancellable(c) => c.jobID \in cancels)
    BY <1>1, <1>6 DEF PodInv, BasedInv, LocInv
  <2> QED
    BY <2>1, <2>2 DEF Sound, SoundFor, Successor
<1> QED
  BY <1>4, <1>5, <1>6 DEF Writing

\* A write of an operator that is carried out, whether it learns of it or not.
LEMMA OperatorWriteKeeps ==
  ASSUME OperatorInv, NEW o \in Operators, Writing(o), Current(o), Store(Written(o)),
         NEW b \in BOOLEAN, Return(o, b), UNCHANGED <<job, cancels, created, edits>>, Fault \/ UNCHANGED faults
  PROVE  OperatorInv'
<1>1. Sound(Written(o)) /\ Successor(Written(o), created')
  BY WrittenFacts
<1>2. created' \in Nat /\ created' >= created
  BY DEF OperatorInv, PlainInv
<1>3. cache' = cache
  BY DEF Return
<1>4. \A q \in Operators : (loc'[q] = NoObj /\ rpc'[q] = "idle") \/ (loc'[q] = loc[q] /\ rpc'[q] = rpc[q])
  BY DEF Return, OperatorInv, PlainInv
<1>5. /\ ObjInv' /\ rev' \in Nat /\ events' \in [Operators -> Seq(Objects \union {NoObj})]
      /\ \A q \in Operators : PodInv(q)'
  BY <1>1, <1>2, <1>3, <1>4, StoreKeeps
<1>6. (b \/ pending[o]) \in BOOLEAN /\ faults' \in 0 .. MaxFaults
  BY FaultsBounded DEF OperatorInv
<1>7. pending' = [pending EXCEPT ![o] = b \/ pending[o]]
  BY DEF Return
<1>8. PlainInv' /\ JobInv'
  BY <1>3, <1>5, <1>6, <1>7 DEF Return, OperatorInv, PlainInv, JobInv, Calls
<1> QED
  BY <1>5, <1>8 DEF OperatorInv

\* The writes of the operators.
LEMMA WritesKeep ==
  ASSUME OperatorInv, NEW o \in Operators, WriteObject(o) \/ WriteFails(o)
  PROVE  OperatorInv'
<1>1. UNCHANGED <<job, cancels, created, edits>> /\ (Fault \/ UNCHANGED faults) /\ Writing(o)
  BY DEF WriteObject, WriteFails, envVars
<1>2. CASE UNCHANGED k8sVars /\ Return(o, TRUE)
  BY <1>1, <1>2, JobsStay, GivesUpKeeps DEF OperatorInv
<1>3. CASE Current(o) /\ Store(Written(o)) /\ (Return(o, rpc[o] = "add_finalizer") \/ Return(o, TRUE))
  <2>1. PICK b \in BOOLEAN : Return(o, b)
    BY <1>3
  <2> QED
    BY <1>1, <1>3, <2>1, OperatorWriteKeeps
<1> QED
  BY <1>2, <1>3 DEF WriteObject, WriteFails

-----------------------------------------------------------------------------
(* The theorems.                                                           *)

\* Stuttering keeps everything.
LEMMA StutterKeeps ==
  ASSUME OperatorInv, UNCHANGED vars
  PROVE  OperatorInv'
<1>1. /\ obj' = obj /\ rev' = rev /\ events' = events /\ cache' = cache /\ pending' = pending
      /\ rpc' = rpc /\ loc' = loc /\ job' = job /\ cancels' = cancels
      /\ created' = created /\ edits' = edits /\ faults' = faults
  BY DEF vars, k8sVars, opVars, envVars
<1>2. JobsMoveOn
  BY <1>1, JobsStay DEF OperatorInv
<1>3. \A o \in Operators : PodInv(o)'
  BY <1>1, <1>2, BystanderKept
<1>4. ObjInv'
  BY <1>1, <1>2, ObjectKept DEF k8sVars
<1>5. PlainInv'
  BY <1>1 DEF OperatorInv, PlainInv
<1> QED
  BY <1>2, <1>3, <1>4, <1>5 DEF OperatorInv, JobsMoveOn

\* One step keeps the invariant.
LEMMA StepKeeps ==
  ASSUME OperatorInv, [Next]_vars
  PROVE  OperatorInv'
<1>1. CASE UserCreates \/ UserEditsSpec \/ UserDeletes
  BY <1>1, UsersKeep
<1>2. ASSUME NEW o \in Operators, WatchEvent(o)
      PROVE  OperatorInv'
  BY <1>2, WatchEventKeeps
<1>3. ASSUME NEW o \in Operators, OperatorStep(o)
      PROVE  OperatorInv'
  BY <1>3, ReconcileKeeps, HandlePendingKeeps, HandlePollKeeps, CancelKeeps, WritesKeep DEF OperatorStep
<1>4. ASSUME NEW o \in Operators, HttpFails(o) \/ WriteFails(o) \/ OperatorRestarts(o)
      PROVE  OperatorInv'
  BY <1>4, HttpFailsKeeps, WritesKeep, RestartKeeps
<1>5. CASE BackendAdvances
  BY <1>5, BackendKeeps
<1>6. CASE Settled \/ UNCHANGED vars
  BY <1>6, StutterKeeps DEF Settled
<1> QED
  BY <1>1, <1>2, <1>3, <1>4, <1>5, <1>6 DEF Next

\* The invariant holds at the start.
LEMMA InitHolds == Init => OperatorInv
<1> SUFFICES ASSUME Init PROVE OperatorInv
  OBVIOUS
<1>1. PlainInv
  BY Bounds DEF Init, PlainInv, Calls
<1>2. JobInv
  BY DEF Init, Backend!Init, JobInv
<1>3. ObjInv
  BY DEF Init, ObjInv, Published, Sound, SoundFor, Placed, PlacedFor, ExactFor
<1>4. ASSUME NEW o \in Operators
      PROVE  PodInv(o)
  <2>1. obj = NoObj /\ cache[o] = NoObj /\ loc[o] = NoObj /\ rpc[o] = "idle" /\ events[o] = <<>>
    BY DEF Init
  <2>2. Len(events[o]) = 0
    BY <2>1, SMTT(30)
  <2>3. ViewInv(o)
    <3>1. Published(cache[o]) /\ Sound(loc[o]) /\ Placed(loc[o])
      BY <2>1 DEF Published, Sound, SoundFor, Placed, PlacedFor, ExactFor
    <3> QED
      BY <2>2, <3>1 DEF ViewInv
  <2> QED
    BY <2>1, <2>3 DEF PodInv, LocInv, BasedInv, FeedInv, Awake
<1> QED
  BY <1>1, <1>2, <1>3, <1>4 DEF OperatorInv

\* The inductive invariant of the operator: what every copy of the object may claim,
\* where it stands to the object, and what a reconcile knows before its next call.
THEOREM OperatorInvariant == Spec => []OperatorInv
BY InitHolds, StepKeeps, PTL DEF Spec

\* The object and all copies stay within the CRD's schema.
THEOREM OperatorTypeCorrect == Spec => []TypeOK
<1>1. OperatorInv => TypeOK
  BY DEF OperatorInv, PlainInv, JobInv, ObjInv, Published, Sound, SoundFor, TypeOK
<1> QED
  BY <1>1, OperatorInvariant, PTL

\* The status never claims more than the job has done, for any number of pods that
\* work on one object with stale copies.
THEOREM PhaseNeverAheadHolds == Spec => []PhaseNeverAhead
<1>1. OperatorInv => PhaseNeverAhead
  BY DEF OperatorInv, ObjInv, Published, Sound, SoundFor, Claims, Objects, PhaseNeverAhead, Backend!Exists
<1> QED
  BY <1>1, OperatorInvariant, PTL

\* handlePending never submits for an object that has no finalizer.
THEOREM PostedUnderFinalizerHolds == Spec => []PostedUnderFinalizer
<1>1. OperatorInv => PostedUnderFinalizer
  <2> SUFFICES ASSUME OperatorInv, NEW o \in Operators, rpc[o] = "post", obj # NoObj, obj.uid = loc[o].uid
               PROVE  obj.finalizer
    BY DEF PostedUnderFinalizer
  <2> QED
    BY DEF OperatorInv, PodInv, LocInv, ViewInv, Placed, PlacedFor
<1> QED
  BY <1>1, OperatorInvariant, PTL

\* An object with work left is never forgotten by any pod.
THEOREM NoLostWakeUpHolds == Spec => []NoLostWakeUp
<1>1. OperatorInv => NoLostWakeUp
  BY DEF OperatorInv, PodInv, Awake, NoLostWakeUp
<1> QED
  BY <1>1, OperatorInvariant, PTL

\* How a step may change the object: a status moves along an edge, if the object is not
\* being deleted, and an object leaves after its job was cancelled.
LEMMA ObjectSteps ==
  ASSUME OperatorInv, [Next]_vars
  PROVE  /\ SameObject =>
              \/ StatusOf(obj') = StatusOf(obj)
              \/ ~obj.deleting /\ <<obj.phase, obj'.phase>> \in Edges
         /\ obj # NoObj /\ obj' = NoObj => (Cancellable(obj) => obj.jobID \in cancels)
<1>1. obj # NoObj => obj \in Objects /\ (obj.jobID # NoId => obj.finalizer)
  BY DEF OperatorInv, ObjInv, Published, Sound, SoundFor
<1>2. CASE obj' = obj
  BY <1>2
<1>3. CASE UserCreates
  BY <1>3 DEF UserCreates, SameObject
<1>4. CASE UserEditsSpec
  <2>1. obj \in Objects
    BY <1>1, <1>4 DEF UserEditsSpec
  <2>2. PICK n \in Objects : Store(n) /\ EditOf(n, obj)
    BY <1>4, <2>1, EditFacts
  <2>3. StatusOf(n) = StatusOf(obj)
    BY <2>2 DEF EditOf, StatusOf
  <2>4. n # NoObj /\ obj' = [n EXCEPT !.rv = rev + 1]
    BY <2>2, NoSuchObject DEF Store
  <2>5. rev + 1 \in Nat
    BY DEF OperatorInv, PlainInv
  <2>6. obj' \in Objects /\ StatusOf(obj') = StatusOf(n)
    BY <2>4, <2>5 DEF Objects, StatusOf
  <2> QED
    BY <2>3, <2>6, NoSuchObject
<1>5. CASE UserDeletes
  <2>1. obj \in Objects /\ obj # NoObj
    BY <1>1, <1>5 DEF UserDeletes
  <2>2. CASE obj.finalizer
    <3> DEFINE n == [obj EXCEPT !.deleting = TRUE]
    <3>1. n \in Objects /\ StatusOf(n) = StatusOf(obj)
      BY <2>1 DEF Objects, StatusOf
    <3>2. n # NoObj /\ obj' = [n EXCEPT !.rv = rev + 1]
      BY <1>5, <2>2, <3>1, NoSuchObject DEF Store, UserDeletes
    <3> HIDE DEF n
    <3>3. rev + 1 \in Nat
      BY DEF OperatorInv, PlainInv
    <3>4. obj' \in Objects /\ StatusOf(obj') = StatusOf(n)
      BY <3>1, <3>2, <3>3 DEF Objects, StatusOf
    <3> QED
      BY <3>1, <3>4, NoSuchObject
  <2>3. CASE ~obj.finalizer
    BY <1>1, <1>5, <2>1, <2>3 DEF UserDeletes, Store, SameObject, Cancellable
  <2> QED
    BY <2>2, <2>3
<1>6. ASSUME NEW o \in Operators, Writing(o), Current(o), Store(Written(o))
      PROVE  /\ SameObject =>
                  \/ StatusOf(obj') = StatusOf(obj)
                  \/ ~obj.deleting /\ <<obj.phase, obj'.phase>> \in Edges
             /\ obj # NoObj /\ obj' = NoObj => (Cancellable(obj) => obj.jobID \in cancels)
  <2> DEFINE n == Written(o)
  <2>1. /\ n # NoObj =>
             n \in Objects /\ (StatusOf(n) = StatusOf(obj) \/ (~obj.deleting /\ <<obj.phase, n.phase>> \in Edges))
        /\ n = NoObj => (Cancellable(obj) => obj.jobID \in cancels)
    BY <1>6, WrittenFacts DEF Successor
  <2>2. rev + 1 \in Nat
    BY DEF OperatorInv, PlainInv
  <2>3. obj' = IF n = NoObj THEN NoObj ELSE [n EXCEPT !.rv = rev + 1]
    BY <1>6 DEF Store
  <2> HIDE DEF n
  <2>4. n # NoObj => obj' \in Objects /\ StatusOf(obj') = StatusOf(n) /\ obj'.phase = n.phase
    BY <2>1, <2>2, <2>3 DEF Objects, StatusOf
  <2> QED
    BY <2>1, <2>3, <2>4, NoSuchObject DEF SameObject
<1>7. ASSUME NEW o \in Operators
      PROVE  /\ WriteObject(o) => obj' = obj \/ (Writing(o) /\ Current(o) /\ Store(Written(o)))
             /\ WriteFails(o) => obj' = obj \/ (Writing(o) /\ Current(o) /\ Store(Written(o)))
             /\ WatchEvent(o) \/ Reconcile(o) \/ HandlePending(o) \/ HandlePoll(o) \/ CancelBackendJob(o)
                  \/ HttpFails(o) \/ OperatorRestarts(o) => obj' = obj
  BY DEF WriteObject, WriteFails, WatchEvent, Reconcile, HandlePending, HandlePoll, CancelBackendJob,
         HttpFails, OperatorRestarts, k8sVars
<1>8. CASE BackendAdvances \/ Settled \/ UNCHANGED vars
  BY <1>2, <1>8 DEF BackendAdvances, Settled, vars, k8sVars
<1> QED
  BY <1>2, <1>3, <1>4, <1>5, <1>6, <1>7, <1>8 DEF Next, OperatorStep

\* Settled statuses, and those of objects under deletion, never change.
THEOREM StatusSettlesHolds == Spec => StatusSettles
<1>1. OperatorInv /\ [Next]_vars =>
        [SameObject /\ (obj.phase \in TerminalPhases \/ obj.deleting) => StatusOf(obj') = StatusOf(obj)]_vars
  BY ObjectSteps DEF Edges, TerminalPhases
<1> QED
  BY <1>1, OperatorInvariant, PTL DEF Spec, StatusSettles

\* The phase moves along the state machine of Reconcile.
THEOREM PhaseEdgesHolds == Spec => PhaseEdges
<1>1. OperatorInv /\ [Next]_vars =>
        [SameObject /\ obj'.phase # obj.phase => <<obj.phase, obj'.phase>> \in Edges]_vars
  BY ObjectSteps DEF StatusOf
<1> QED
  BY <1>1, OperatorInvariant, PTL DEF Spec, PhaseEdges

\* An object with a known, unfinished job leaves after a DELETE for it.
THEOREM DeletionCancelsHolds == Spec => DeletionCancels
<1>1. OperatorInv /\ [Next]_vars =>
        [obj # NoObj /\ obj' = NoObj /\ obj.jobID # NoId /\ obj.phase \notin TerminalPhases
           => obj.jobID \in cancels]_vars
  BY ObjectSteps DEF Cancellable
<1> QED
  BY <1>1, OperatorInvariant, PTL DEF Spec, DeletionCancels
=============================================================================
