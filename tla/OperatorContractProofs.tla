----------------------- MODULE OperatorContractProofs -----------------------
(***************************************************************************)
(* The operator implements BenchmarkJobContract: any number of pods with   *)
(* stale caches change the object as one controller would that sees the    *)
(* object and its job as they are.                                         *)
(***************************************************************************)
EXTENDS BenchmarkJobOperatorProofs

Unsubmitted(c) == c.phase \in {"", "Pending"}

\* The status of d is one that a controller may give the object c, seeing c itself and
\* the jobs (and given that d is sound).
ReportFor(c, d, jobs) ==
  \/ /\ Unsubmitted(c) /\ d.phase = "Submitted"
     /\ d.retries = c.retries /\ d.results = c.results
  \/ /\ c.phase = "Submitted" /\ d.phase = "Running"
     /\ d.jobID = c.jobID /\ d.retries = c.retries /\ d.results = c.results
  \/ /\ c.phase = "Running" /\ d.phase = "Completed"
     /\ d.jobID = c.jobID /\ d.retries = c.retries
  \/ /\ c.phase \in {"Submitted", "Running"} /\ jobs[c.jobID].status = "failed"
     /\ c.retries < Defaulted(c.maxRetries)
     /\ d.phase = "Pending"
     /\ d.jobID = NoId /\ d.retries = c.retries + 1 /\ d.results = c.results
  \/ /\ c.phase \in {"Submitted", "Running"} /\ d.phase = "Failed"
     /\ c.retries >= Defaulted(c.maxRetries)
     /\ d.jobID = c.jobID /\ d.retries = c.retries /\ d.results = c.results

\* A status that will be accepted is such a status for the object as it is now, although
\* it was computed before.
Justified(o) == rpc[o] = "status" /\ Current(o) => ReportFor(obj, loc[o], job)

\* A copy that is being deleted is a copy of an object that still is, or is gone.
DoomedFor(c, x) == c # NoObj /\ c.deleting /\ x # NoObj /\ c.uid = x.uid => x.deleting

\* What operator o knows of the deletion of its copy before its next call.
AimInv(o) ==
  /\ rpc[o] = "add_finalizer" => ~loc[o].finalizer /\ ~loc[o].deleting
  /\ rpc[o] \in {"cancel", "remove_finalizer"} => loc[o].deleting
  /\ rpc[o] = "cancel" => loc[o].jobID # NoId

PodContract(o) ==
  /\ Justified(o) /\ AimInv(o)
  /\ DoomedFor(cache[o], obj) /\ DoomedFor(loc[o], obj)
  /\ \A k \in 1 .. Len(events[o]) : DoomedFor(events[o][k], obj)

ContractInv ==
  /\ obj # NoObj => obj.uid = created
  /\ \A o \in Operators : PodContract(o)

-----------------------------------------------------------------------------
(* What a reconcile computes.                                              *)

\* The first call, and what it says of a deletion.
LEMMA FirstCallAims ==
  ASSUME NEW c \in Objects
  PROVE  /\ FirstCall(c) = "add_finalizer" => ~c.finalizer /\ ~c.deleting
         /\ FirstCall(c) \in {"cancel", "remove_finalizer"} => c.deleting
         /\ FirstCall(c) = "cancel" => c.jobID # NoId
BY NoSuchObject DEF FirstCall, Objects, Phases, TerminalPhases, UnderDeletion, NeedsFinalizer, Cancellable

\* The status after a POST.
LEMMA SubmittedReports ==
  ASSUME NEW c \in Objects, c.phase \in {"", "Pending"}, NEW i \in Ids, NEW jobs
  PROVE  ReportFor(c, [c EXCEPT !.jobID = i, !.phase = "Submitted"], jobs)
<1> DEFINE d == [c EXCEPT !.jobID = i, !.phase = "Submitted"]
<1>1. d.phase = "Submitted" /\ d.retries = c.retries /\ d.results = c.results
  BY DEF Objects
<1>2. Unsubmitted(c)
  BY DEF Unsubmitted
<1> HIDE DEF d
<1>3. ReportFor(c, d, jobs)
  BY <1>1, <1>2 DEF ReportFor
<1> QED
  BY <1>3 DEF d

\* The status after a failure of the job.
LEMMA FailureReports ==
  ASSUME NEW c \in Objects, c.phase \in {"Submitted", "Running"}, job[c.jobID].status = "failed"
  PROVE  ReportFor(c, HandleFailure(c), job)
<1>1. c.retries \in Nat /\ Defaulted(c.maxRetries) \in Nat
  BY RetryValues DEF Objects, Defaulted
<1>2. CASE c.retries < Defaulted(c.maxRetries)
  <2> DEFINE d == [c EXCEPT !.retries = c.retries + 1, !.jobID = NoId, !.phase = "Pending"]
  <2>1. HandleFailure(c) = d
    BY <1>2 DEF HandleFailure, Defaulted
  <2>2. d.phase = "Pending" /\ d.jobID = NoId /\ d.retries = c.retries + 1 /\ d.results = c.results
    BY DEF Objects
  <2> HIDE DEF d
  <2> QED
    BY <1>2, <2>1, <2>2 DEF ReportFor
<1>3. CASE ~(c.retries < Defaulted(c.maxRetries))
  <2> DEFINE d == [c EXCEPT !.phase = "Failed"]
  <2>1. HandleFailure(c) = d
    BY <1>3 DEF HandleFailure, Defaulted
  <2>2. d.phase = "Failed" /\ d.jobID = c.jobID /\ d.retries = c.retries /\ d.results = c.results
    BY DEF Objects
  <2>3. c.retries >= Defaulted(c.maxRetries)
    BY <1>1, <1>3
  <2> HIDE DEF d
  <2> QED
    BY <2>1, <2>2, <2>3 DEF ReportFor
<1> QED
  BY <1>2, <1>3

\* The status after a poll, if there is a new one.
LEMMA PollReports ==
  ASSUME JobInv, NEW c \in Objects, Sound(c), c.phase \in {"Submitted", "Running"}, NEW d,
         d = IF c.phase = "Submitted" THEN HandleSubmitted(c) ELSE HandleRunning(c), d # c
  PROVE  ReportFor(c, d, job)
<1>1. c.jobID # NoId /\ job[c.jobID] # NoJob /\ c.jobID \in Ids /\ PolledStatus(c) = job[c.jobID].status
  BY NoSuchObject DEF Sound, SoundFor, Objects, PolledStatus, Backend!Exists
<1>2. CASE PolledStatus(c) = "failed"
  <2>1. d = HandleFailure(c)
    BY <1>2 DEF HandleSubmitted, HandleRunning
  <2> QED
    BY <1>1, <1>2, <2>1, FailureReports
<1>3. CASE c.phase = "Submitted" /\ PolledStatus(c) = "running"
  <2>1. d = [c EXCEPT !.phase = "Running"]
    BY <1>3 DEF HandleSubmitted
  <2>2. d.phase = "Running" /\ d.jobID = c.jobID /\ d.retries = c.retries /\ d.results = c.results
    BY <2>1 DEF Objects
  <2> QED
    BY <1>3, <2>2 DEF ReportFor
<1>4. CASE c.phase = "Running" /\ PolledStatus(c) = "completed"
  <2>1. job[c.jobID].result
    BY <1>1, <1>4 DEF JobInv
  <2>2. d = [c EXCEPT !.phase = "Completed", !.results = c.jobID]
    BY <1>4, <2>1 DEF HandleRunning
  <2>3. d.phase = "Completed" /\ d.jobID = c.jobID /\ d.retries = c.retries
    BY <2>2 DEF Objects
  <2> QED
    BY <1>4, <2>3 DEF ReportFor
<1> QED
  BY <1>2, <1>3, <1>4 DEF HandleSubmitted, HandleRunning

\* A job that has failed stays as it is, whatever happens to the jobs.
FailedStays == \A i \in Ids : job[i] # NoJob /\ job[i].status = "failed" => job'[i] = job[i]

\* A step of a worker.
LEMMA AdvanceSparesFailed ==
  ASSUME JobInv, NEW i \in Ids, Backend!Advance(i)
  PROVE  FailedStays
<1>1. job[i].status \in {"queued", "running"}
  BY DEF Backend!Advance, Backend!Start, Backend!Finish, Backend!Fail, Backend!Open
<1>2. \A j \in Ids : j # i => job'[j] = job[j]
  BY DEF JobInv, Backend!Advance, Backend!Start, Backend!Finish, Backend!Fail
<1> QED
  BY <1>1, <1>2 DEF FailedStays

\* A POST.
LEMMA PostSparesFailed ==
  ASSUME JobInv, NEW c, NEW i \in Ids, PostEffect(c, i)
  PROVE  FailedStays
BY DEF FailedStays, JobInv, PostEffect, Backend!Submit, Backend!Exists

-----------------------------------------------------------------------------
(* Steps that leave the API server alone.                                  *)

\* A justified status stays justified while the jobs move on.
LEMMA ReportStays ==
  ASSUME OperatorInv, obj # NoObj, FailedStays, NEW d, ReportFor(obj, d, job)
  PROVE  ReportFor(obj, d, job')
<1>1. obj.phase \in {"Submitted", "Running"} => obj.jobID \in Ids /\ job[obj.jobID] # NoJob
  BY DEF OperatorInv, ObjInv, Published, Sound, SoundFor, Objects
<1>2. obj.phase \in {"Submitted", "Running"} /\ job[obj.jobID].status = "failed" => job'[obj.jobID].status = "failed"
  BY <1>1 DEF FailedStays
<1> QED
  BY <1>2 DEF ReportFor

\* The operators that a step does not touch.
LEMMA BystanderContract ==
  ASSUME OperatorInv, obj' = obj, FailedStays, NEW q \in Operators, PodContract(q),
         cache'[q] = cache[q], events'[q] = events[q], loc'[q] = loc[q], rpc'[q] = rpc[q]
  PROVE  PodContract(q)'
<1>1. Justified(q)'
  BY ReportStays DEF PodContract, Justified, Current
<1>2. AimInv(q)'
  BY DEF PodContract, AimInv
<1> QED
  BY <1>1, <1>2 DEF PodContract

\* A step of operator o that does not write.
LEMMA QuietContract ==
  ASSUME OperatorInv, ContractInv, UNCHANGED <<obj, created>>, FailedStays, NEW o \in Operators,
         \A q \in Operators \ {o} :
           cache'[q] = cache[q] /\ events'[q] = events[q] /\ loc'[q] = loc[q] /\ rpc'[q] = rpc[q],
         PodContract(o)'
  PROVE  ContractInv'
<1>1. ASSUME NEW q \in Operators PROVE PodContract(q)'
  <2>1. CASE q = o
    BY <2>1
  <2>2. CASE q # o
    <3>1. PodContract(q)
      BY DEF ContractInv
    <3> QED
      BY <2>2, <3>1, BystanderContract
  <2> QED
    BY <2>1, <2>2
<1> QED
  BY <1>1 DEF ContractInv

\* The reconcile of o ends.
LEMMA ReturnContract ==
  ASSUME OperatorInv, ContractInv, UNCHANGED <<obj, created, events>>, FailedStays, NEW o \in Operators,
         NEW b \in BOOLEAN, Return(o, b)
  PROVE  ContractInv'
<1>1. /\ rpc'[o] = "idle" /\ loc'[o] = NoObj /\ cache' = cache
      /\ \A q \in Operators \ {o} : loc'[q] = loc[q] /\ rpc'[q] = rpc[q]
  BY DEF Return, OperatorInv, PlainInv
<1>2. PodContract(o)
  BY DEF ContractInv
<1>3. PodContract(o)'
  BY <1>1, <1>2 DEF PodContract, Justified, AimInv, DoomedFor
<1> QED
  BY <1>1, <1>3, QuietContract

\* The reconcile of o goes on with its next call.
LEMMA CallContract ==
  ASSUME OperatorInv, ContractInv, UNCHANGED <<obj, created, events>>, FailedStays, NEW o \in Operators,
         NEW c, NEW d, Call(o, c, d),
         c = "status" /\ obj # NoObj /\ obj.rv = d.rv => ReportFor(obj, d, job'),
         c \in {"status", "remove_finalizer"}, c = "remove_finalizer" => d.deleting,
         DoomedFor(d, obj)
  PROVE  ContractInv'
<1>1. /\ rpc'[o] = c /\ loc'[o] = d /\ cache' = cache
      /\ \A q \in Operators \ {o} : loc'[q] = loc[q] /\ rpc'[q] = rpc[q]
  BY DEF Call, OperatorInv, PlainInv
<1>2. PodContract(o)
  BY DEF ContractInv
<1>3. Justified(o)'
  BY <1>1 DEF Justified, Current
<1>4. AimInv(o)'
  BY <1>1 DEF AimInv
<1>5. PodContract(o)'
  BY <1>1, <1>2, <1>3, <1>4 DEF PodContract
<1> QED
  BY <1>1, <1>5, QuietContract

\* Reconcile takes the copy in the cache.
LEMMA ReconcileContract ==
  ASSUME OperatorInv, ContractInv, NEW o \in Operators, Reconcile(o)
  PROVE  ContractInv'
<1>1. /\ obj' = obj /\ created' = created /\ events' = events /\ cache' = cache /\ job' = job
      /\ rpc'[o] = FirstCall(cache[o])
      /\ loc'[o] = IF rpc'[o] = "idle" THEN NoObj ELSE cache[o]
      /\ \A q \in Operators \ {o} : loc'[q] = loc[q] /\ rpc'[q] = rpc[q]
  BY DEF Reconcile, k8sVars, envVars, OperatorInv, PlainInv
<1>2. PodContract(o) /\ cache[o] \in Objects \union {NoObj}
  BY DEF ContractInv, OperatorInv, PlainInv
<1>3. FailedStays
  BY <1>1 DEF FailedStays
<1>4. CASE rpc'[o] = "idle"
  <2>1. PodContract(o)'
    BY <1>1, <1>2, <1>4 DEF PodContract, Justified, AimInv, DoomedFor
  <2> QED
    BY <1>1, <1>3, <2>1, QuietContract
<1>5. CASE rpc'[o] # "idle"
  <2>1. cache[o] \in Objects
    BY <1>1, <1>2, <1>5 DEF FirstCall
  <2>2. rpc'[o] # "status" /\ AimInv(o)'
    BY <1>1, <1>5, <2>1, FirstCallAims, FirstCallFacts DEF AimInv
  <2>3. PodContract(o)'
    BY <1>1, <1>2, <1>5, <2>2 DEF PodContract, Justified
  <2> QED
    BY <1>1, <1>3, <2>3, QuietContract
<1> QED
  BY <1>4, <1>5

\* handlePending: the copy is the object, if it is the latest one.
LEMMA HandlePendingContract ==
  ASSUME OperatorInv, ContractInv, NEW o \in Operators, HandlePending(o)
  PROVE  ContractInv'
<1> DEFINE c == loc[o]
<1>1. obj' = obj /\ created' = created /\ events' = events /\ rpc[o] = "post"
  BY DEF HandlePending, k8sVars, envVars
<1>2. PodInv(o) /\ PodContract(o) /\ c \in Objects /\ c.phase \in {"", "Pending"}
  BY <1>1 DEF OperatorInv, PodInv, PlainInv, LocInv, ContractInv
<1>3. PICK i \in Ids : PostEffect(c, i) /\ Call(o, "status", [c EXCEPT !.jobID = i, !.phase = "Submitted"])
  BY DEF HandlePending
<1> DEFINE d == [c EXCEPT !.jobID = i, !.phase = "Submitted"]
<1>4. FailedStays
  BY <1>3, PostSparesFailed DEF OperatorInv
<1>5. ReportFor(c, d, job')
  BY <1>2, SubmittedReports
<1>6. d \in Objects /\ d.rv = c.rv /\ d.uid = c.uid /\ d.deleting = c.deleting
  BY <1>2 DEF Objects, Phases
<1>7. Call(o, "status", d)
  BY <1>3
<1> HIDE DEF d
<1>8. obj # NoObj /\ obj.rv = d.rv => ReportFor(obj, d, job')
  BY <1>1, <1>2, <1>5, <1>6 DEF PodInv, BasedInv, Current
<1>9. DoomedFor(d, obj)
  BY <1>2, <1>6, NoSuchObject DEF PodContract, DoomedFor
<1> QED
  BY <1>1, <1>4, <1>7, <1>8, <1>9, CallContract

\* A poll that is answered, likewise.
LEMMA HandlePollContract ==
  ASSUME OperatorInv, ContractInv, NEW o \in Operators, HandlePoll(o)
  PROVE  ContractInv'
<1> DEFINE c == loc[o]
<1> DEFINE d == IF c.phase = "Submitted" THEN HandleSubmitted(c) ELSE HandleRunning(c)
<1>1. obj' = obj /\ created' = created /\ events' = events /\ job' = job /\ rpc[o] = "get"
  BY DEF HandlePoll, k8sVars, envVars
<1>2. PodInv(o) /\ PodContract(o) /\ c \in Objects /\ Sound(c) /\ c.phase \in {"Submitted", "Running"}
  BY <1>1 DEF OperatorInv, PodInv, PlainInv, LocInv, ViewInv, ContractInv
<1>3. FailedStays
  BY <1>1 DEF FailedStays
<1>4. IF d = c THEN Return(o, TRUE) ELSE Call(o, "status", d)
  BY DEF HandlePoll, PollAgain
<1>5. d # c => d \in Objects /\ SameButStatus(d, c) /\ ReportFor(c, d, job)
  BY <1>2, PollFacts, PollReports DEF OperatorInv
<1> HIDE DEF d
<1>6. CASE d = c
  BY <1>1, <1>3, <1>4, <1>6, ReturnContract
<1>7. CASE d # c
  <2>1. obj # NoObj /\ obj.rv = d.rv => ReportFor(obj, d, job')
    BY <1>1, <1>2, <1>5, <1>7 DEF PodInv, BasedInv, Current, SameButStatus
  <2>2. DoomedFor(d, obj)
    BY <1>2, <1>5, <1>7, NoSuchObject DEF PodContract, DoomedFor, SameButStatus
  <2> QED
    BY <1>1, <1>3, <1>4, <1>7, <2>1, <2>2, CallContract
<1> QED
  BY <1>6, <1>7

\* The DELETE is sent for a copy that is being deleted.
LEMMA CancelContract ==
  ASSUME OperatorInv, ContractInv, NEW o \in Operators, CancelBackendJob(o)
  PROVE  ContractInv'
<1>1. /\ obj' = obj /\ created' = created /\ events' = events /\ job' = job /\ rpc[o] = "cancel"
      /\ Call(o, "remove_finalizer", loc[o])
  BY DEF CancelBackendJob, AfterCancel, k8sVars, envVars
<1>2. PodContract(o)
  BY DEF ContractInv
<1>3. FailedStays
  BY <1>1 DEF FailedStays
<1>4. loc[o].deleting /\ DoomedFor(loc[o], obj)
  BY <1>1, <1>2 DEF PodContract, AimInv
<1> QED
  BY <1>1, <1>3, <1>4, CallContract

\* A POST or a poll that fails.
LEMMA HttpFailsContract ==
  ASSUME OperatorInv, ContractInv, NEW o \in Operators, HttpFails(o)
  PROVE  ContractInv'
<1>1. obj' = obj /\ created' = created /\ events' = events /\ Return(o, TRUE)
  BY DEF HttpFails, k8sVars
<1>2. CASE UNCHANGED job
  BY <1>1, <1>2, ReturnContract DEF FailedStays
<1>3. CASE \E i \in Ids : PostEffect(loc[o], i)
  <2>1. FailedStays
    BY <1>3, PostSparesFailed DEF OperatorInv
  <2> QED
    BY <1>1, <2>1, ReturnContract
<1> QED
  BY <1>2, <1>3 DEF HttpFails

\* The informer delivers an event.
LEMMA WatchEventContract ==
  ASSUME OperatorInv, ContractInv, NEW o \in Operators, WatchEvent(o)
  PROVE  ContractInv'
<1> DEFINE S == Objects \union {NoObj}
<1> DEFINE e == events[o]
<1>1. UNCHANGED <<obj, rpc, loc, job, created>>
  BY DEF WatchEvent, envVars
<1>2. e \in Seq(S) /\ e # <<>>
  BY DEF WatchEvent, OperatorInv, PlainInv
<1>3. /\ Len(e) \in Nat \ {0} /\ Head(e) = e[1] /\ Len(Tail(e)) = Len(e) - 1
      /\ \A k \in 1 .. Len(Tail(e)) : Tail(e)[k] = e[k + 1]
  BY <1>2
<1>4. cache'[o] = e[1] /\ events'[o] = Tail(e)
  BY <1>3 DEF WatchEvent, OperatorInv, PlainInv
<1>5. \A q \in Operators \ {o} : cache'[q] = cache[q] /\ events'[q] = events[q]
  BY DEF WatchEvent, OperatorInv, PlainInv
<1>6. PodContract(o)
  BY DEF ContractInv
<1>7. \A k \in 1 .. Len(e) : DoomedFor(e[k], obj)
  BY <1>6 DEF PodContract
<1>8. DoomedFor(e[1], obj) /\ \A k \in 1 .. Len(Tail(e)) : DoomedFor(Tail(e)[k], obj)
  BY <1>3, <1>7
<1>9. Justified(o)' /\ AimInv(o)' /\ DoomedFor(loc[o], obj)'
  BY <1>1, <1>6 DEF PodContract, Justified, Current, AimInv
<1>10. PodContract(o)'
  BY <1>1, <1>4, <1>8, <1>9 DEF PodContract
<1>11. FailedStays
  BY <1>1 DEF FailedStays
<1> QED
  BY <1>1, <1>5, <1>10, <1>11, QuietContract

\* A pod restarts.
LEMMA RestartContract ==
  ASSUME OperatorInv, ContractInv, NEW o \in Operators, OperatorRestarts(o)
  PROVE  ContractInv'
<1>1. UNCHANGED <<obj, job, created>>
  BY DEF OperatorRestarts
<1>2. cache'[o] = obj /\ events'[o] = <<>> /\ rpc'[o] = "idle" /\ loc'[o] = NoObj
  BY DEF OperatorRestarts, OperatorInv, PlainInv
<1>3. \A q \in Operators \ {o} :
        cache'[q] = cache[q] /\ events'[q] = events[q] /\ loc'[q] = loc[q] /\ rpc'[q] = rpc[q]
  BY DEF OperatorRestarts, OperatorInv, PlainInv
<1>4. Len(events'[o]) = 0
  BY <1>2
<1>5. PodContract(o)'
  BY <1>1, <1>2, <1>4 DEF PodContract, Justified, AimInv, DoomedFor
<1>6. FailedStays
  BY <1>1 DEF FailedStays
<1> QED
  BY <1>1, <1>3, <1>5, <1>6, QuietContract

\* The backend goes on, or nothing happens.
LEMMA OthersContract ==
  ASSUME OperatorInv, ContractInv, BackendAdvances \/ UNCHANGED vars
  PROVE  ContractInv'
<1>1. UNCHANGED <<obj, created, cache, events, loc, rpc>>
  BY DEF BackendAdvances, vars, k8sVars, opVars, envVars
<1>2. FailedStays
  <2>1. CASE UNCHANGED vars
    BY <2>1 DEF vars, FailedStays
  <2>2. CASE BackendAdvances
    BY <2>2, AdvanceSparesFailed DEF BackendAdvances, OperatorInv
  <2> QED
    BY <2>1, <2>2
<1>3. ASSUME NEW q \in Operators PROVE PodContract(q)'
  <2>1. PodContract(q)
    BY DEF ContractInv
  <2> QED
    BY <1>1, <1>2, <2>1, BystanderContract
<1> QED
  BY <1>1, <1>3 DEF ContractInv

-----------------------------------------------------------------------------
(* Writes to the API server.                                               *)

\* The object may be replaced by new: by nothing, by a new object, or by itself in a
\* state that is being deleted if it was.
Heir(new) ==
  new # NoObj =>
    /\ new \in Objects
    /\ obj = NoObj => new.uid = created + 1 /\ created' = created + 1
    /\ obj # NoObj => new.uid = obj.uid /\ (obj.deleting => new.deleting) /\ created' = created

\* No copy has the new revision, so no status that was computed will be accepted.
LEMMA StoreContract ==
  ASSUME OperatorInv, ContractInv, UNCHANGED <<job, cache>>, NEW new, Store(new), Heir(new),
         \A q \in Operators :
           (loc'[q] = NoObj /\ rpc'[q] = "idle") \/ (loc'[q] = loc[q] /\ rpc'[q] = rpc[q])
  PROVE  ContractInv'
<1>1. rev \in Nat /\ created \in Nat
  BY DEF OperatorInv, PlainInv
<1>2. new = NoObj => obj' = NoObj
  BY DEF Store
<1>3. new # NoObj =>
        obj' # NoObj /\ obj'.rv = rev + 1 /\ obj'.uid = new.uid /\ obj'.deleting = new.deleting
  <2>1. SUFFICES ASSUME new # NoObj
                 PROVE  obj' # NoObj /\ obj'.rv = rev + 1 /\ obj'.uid = new.uid /\ obj'.deleting = new.deleting
    OBVIOUS
  <2>2. obj' = [new EXCEPT !.rv = rev + 1] /\ new \in Objects /\ rev + 1 \in Nat
    BY <1>1, <2>1 DEF Store, Heir
  <2>3. obj' \in Objects
    BY <2>2 DEF Objects
  <2> QED
    BY <2>2, <2>3, NoSuchObject DEF Objects
<1>4. ASSUME NEW c, DoomedFor(c, obj), Placed(c), c # NoObj => c.uid \in Nat
      PROVE  DoomedFor(c, obj')
  BY <1>1, <1>2, <1>3, <1>4 DEF DoomedFor, Placed, PlacedFor, Heir
<1>5. obj' # NoObj => obj'.uid = created'
  BY <1>2, <1>3 DEF Heir, ContractInv
<1>6. ASSUME NEW c \in Objects PROVE c.uid \in Nat
  BY <1>6, Bounds DEF Objects
<1>7. ASSUME NEW q \in Operators PROVE PodContract(q)'
  <2>1. PodInv(q) /\ PodContract(q)
    BY DEF OperatorInv, ContractInv
  <2>2. DoomedFor(cache[q], obj)'
    <3>1. Placed(cache[q]) /\ DoomedFor(cache[q], obj) /\ cache[q] \in Objects \union {NoObj}
      BY <2>1 DEF PodInv, ViewInv, Published, PodContract, OperatorInv, PlainInv
    <3> QED
      BY <1>4, <1>6, <3>1
  <2>3. Placed(loc[q]) /\ DoomedFor(loc[q], obj) /\ loc[q] \in Objects \union {NoObj}
    BY <2>1 DEF PodInv, ViewInv, PodContract, OperatorInv, PlainInv
  <2>4. DoomedFor(loc[q], obj)'
    <3>1. DoomedFor(loc[q], obj')
      BY <1>4, <1>6, <2>3
    <3> QED
      BY <3>1 DEF DoomedFor
  <2>5. \A k \in 1 .. Len(events'[q]) : DoomedFor(events'[q][k], obj')
    <3> DEFINE e == events[q]
    <3>1. e \in Seq(Objects \union {NoObj})
      BY DEF OperatorInv, PlainInv
    <3>2. events'[q] = Append(e, obj')
      BY DEF Store
    <3>3. /\ Len(events'[q]) = Len(e) + 1 /\ Len(e) \in Nat
          /\ events'[q][Len(e) + 1] = obj'
          /\ \A k \in 1 .. Len(e) : events'[q][k] = e[k] /\ e[k] \in Objects \union {NoObj}
      BY <3>1, <3>2
    <3>4. ASSUME NEW k \in 1 .. Len(e) PROVE DoomedFor(e[k], obj')
      <4>1. Placed(e[k]) /\ DoomedFor(e[k], obj)
        BY <2>1 DEF PodInv, ViewInv, Published, PodContract
      <4> QED
        BY <1>4, <1>6, <3>3, <4>1
    <3>5. DoomedFor(obj', obj')
      BY DEF DoomedFor
    <3> QED
      BY <3>3, <3>4, <3>5
  <2>6. Justified(q)'
    <3>1. rpc'[q] = "status" => loc'[q] # NoObj /\ loc'[q].rv <= rev /\ loc'[q].rv \in Nat
      BY <2>1, <2>3 DEF PodInv, LocInv, Placed, PlacedFor, Objects
    <3> QED
      BY <1>1, <1>2, <1>3, <3>1 DEF Justified, Current
  <2>7. AimInv(q)'
    BY <2>1 DEF PodContract, AimInv
  <2> QED
    BY <2>2, <2>4, <2>5, <2>6, <2>7 DEF PodContract
<1> QED
  BY <1>5, <1>7 DEF ContractInv

-----------------------------------------------------------------------------
(* The object as the contract sees it.                                     *)

Record(u, s, m, f, d, p, j, r, x) ==
  [uid |-> u, spec |-> s, maxRetries |-> m, finalizer |-> f, deleting |-> d,
   phase |-> p, jobID |-> j, retries |-> r, results |-> x]

\* The view of an object.
LEMMA ViewFacts ==
  ASSUME NEW c \in Objects
  PROVE  /\ View(c) \in Contract!Objects /\ View(c) # NoObj
         /\ View(c) = Record(c.uid, c.spec, c.maxRetries, c.finalizer, c.deleting, c.phase, c.jobID, c.retries, c.results)
<1> DEFINE v == Record(c.uid, c.spec, c.maxRetries, c.finalizer, c.deleting, c.phase, c.jobID, c.retries, c.results)
<1>1. View(c) = v
  BY NoSuchObject DEF View, Record
<1>2. c.uid \in Nat
  BY Bounds DEF Objects
<1>3. v \in Contract!Objects
  BY <1>2 DEF Objects, Contract!Objects, Phases, Contract!Phases, Record
<1> QED
  BY <1>1, <1>3, NoSuchView

\* The fields of a view, and what the contract makes of it by one change.
LEMMA ViewUpdates ==
  ASSUME NEW c \in Objects, NEW a
  PROVE  LET v == View(c)
         IN  /\ v.uid = c.uid /\ v.maxRetries = c.maxRetries /\ v.finalizer = c.finalizer /\ v.deleting = c.deleting
             /\ v.phase = c.phase /\ v.jobID = c.jobID /\ v.retries = c.retries /\ v.results = c.results
             /\ [v EXCEPT !.spec = a] =
                  Record(c.uid, a, c.maxRetries, c.finalizer, c.deleting, c.phase, c.jobID, c.retries, c.results)
             /\ [v EXCEPT !.maxRetries = a] =
                  Record(c.uid, c.spec, a, c.finalizer, c.deleting, c.phase, c.jobID, c.retries, c.results)
             /\ [v EXCEPT !.deleting = a] =
                  Record(c.uid, c.spec, c.maxRetries, c.finalizer, a, c.phase, c.jobID, c.retries, c.results)
             /\ [v EXCEPT !.phase = a] =
                  Record(c.uid, c.spec, c.maxRetries, c.finalizer, c.deleting, a, c.jobID, c.retries, c.results)
<1> DEFINE v == View(c)
<1>1. v = Record(c.uid, c.spec, c.maxRetries, c.finalizer, c.deleting, c.phase, c.jobID, c.retries, c.results)
  BY ViewFacts
<1> HIDE DEF v
<1>2. /\ v.uid = c.uid /\ v.maxRetries = c.maxRetries /\ v.finalizer = c.finalizer /\ v.deleting = c.deleting
      /\ v.phase = c.phase /\ v.jobID = c.jobID /\ v.retries = c.retries /\ v.results = c.results
  BY <1>1 DEF Record
<1>3. [v EXCEPT !.spec = a] =
        Record(c.uid, a, c.maxRetries, c.finalizer, c.deleting, c.phase, c.jobID, c.retries, c.results)
  BY <1>1 DEF Record
<1>4. [v EXCEPT !.maxRetries = a] =
        Record(c.uid, c.spec, a, c.finalizer, c.deleting, c.phase, c.jobID, c.retries, c.results)
  BY <1>1 DEF Record
<1>5. [v EXCEPT !.deleting = a] =
        Record(c.uid, c.spec, c.maxRetries, c.finalizer, a, c.phase, c.jobID, c.retries, c.results)
  BY <1>1 DEF Record
<1>6. [v EXCEPT !.phase = a] =
        Record(c.uid, c.spec, c.maxRetries, c.finalizer, c.deleting, a, c.jobID, c.retries, c.results)
  BY <1>1 DEF Record
<1> QED
  BY <1>2, <1>3, <1>4, <1>5, <1>6 DEF v

\* The object with its finalizer.
LEMMA AdoptedView ==
  ASSUME NEW c \in Objects, NEW a, NEW b
  PROVE  [View(c) EXCEPT !.finalizer = a, !.maxRetries = b] =
           Record(c.uid, c.spec, b, a, c.deleting, c.phase, c.jobID, c.retries, c.results)
<1> DEFINE v == View(c)
<1>1. v = Record(c.uid, c.spec, c.maxRetries, c.finalizer, c.deleting, c.phase, c.jobID, c.retries, c.results)
  BY ViewFacts
<1> HIDE DEF v
<1>2. [v EXCEPT !.finalizer = a] =
        Record(c.uid, c.spec, c.maxRetries, a, c.deleting, c.phase, c.jobID, c.retries, c.results)
  BY <1>1 DEF Record
<1>3. [Record(c.uid, c.spec, c.maxRetries, a, c.deleting, c.phase, c.jobID, c.retries, c.results) EXCEPT !.maxRetries = b] =
        Record(c.uid, c.spec, b, a, c.deleting, c.phase, c.jobID, c.retries, c.results)
  BY DEF Record
<1>4. [v EXCEPT !.finalizer = a, !.maxRetries = b] = [[v EXCEPT !.finalizer = a] EXCEPT !.maxRetries = b]
  OBVIOUS
<1>5. [v EXCEPT !.finalizer = a, !.maxRetries = b] =
        Record(c.uid, c.spec, b, a, c.deleting, c.phase, c.jobID, c.retries, c.results)
  BY <1>2, <1>3, <1>4, Zenon
<1> QED
  BY <1>5 DEF v

\* The object with its job.
LEMMA SubmittedView ==
  ASSUME NEW c \in Objects, NEW a
  PROVE  [View(c) EXCEPT !.jobID = a, !.phase = "Submitted"] =
           Record(c.uid, c.spec, c.maxRetries, c.finalizer, c.deleting, "Submitted", a, c.retries, c.results)
<1> DEFINE v == View(c)
<1>1. v = Record(c.uid, c.spec, c.maxRetries, c.finalizer, c.deleting, c.phase, c.jobID, c.retries, c.results)
  BY ViewFacts
<1> HIDE DEF v
<1>2. [v EXCEPT !.jobID = a] =
        Record(c.uid, c.spec, c.maxRetries, c.finalizer, c.deleting, c.phase, a, c.retries, c.results)
  BY <1>1 DEF Record
<1>3. [Record(c.uid, c.spec, c.maxRetries, c.finalizer, c.deleting, c.phase, a, c.retries, c.results) EXCEPT !.phase = "Submitted"] =
        Record(c.uid, c.spec, c.maxRetries, c.finalizer, c.deleting, "Submitted", a, c.retries, c.results)
  BY DEF Record
<1>4. [v EXCEPT !.jobID = a, !.phase = "Submitted"] = [[v EXCEPT !.jobID = a] EXCEPT !.phase = "Submitted"]
  OBVIOUS
<1>5. [v EXCEPT !.jobID = a, !.phase = "Submitted"] =
        Record(c.uid, c.spec, c.maxRetries, c.finalizer, c.deleting, "Submitted", a, c.retries, c.results)
  BY <1>2, <1>3, <1>4, Zenon
<1> QED
  BY <1>5 DEF v

\* The object with its results.
LEMMA CompletedView ==
  ASSUME NEW c \in Objects, NEW a
  PROVE  [View(c) EXCEPT !.phase = "Completed", !.results = a] =
           Record(c.uid, c.spec, c.maxRetries, c.finalizer, c.deleting, "Completed", c.jobID, c.retries, a)
<1> DEFINE v == View(c)
<1>1. v = Record(c.uid, c.spec, c.maxRetries, c.finalizer, c.deleting, c.phase, c.jobID, c.retries, c.results)
  BY ViewFacts
<1> HIDE DEF v
<1>2. [v EXCEPT !.phase = "Completed"] =
        Record(c.uid, c.spec, c.maxRetries, c.finalizer, c.deleting, "Completed", c.jobID, c.retries, c.results)
  BY <1>1 DEF Record
<1>3. [Record(c.uid, c.spec, c.maxRetries, c.finalizer, c.deleting, "Completed", c.jobID, c.retries, c.results) EXCEPT !.results = a] =
        Record(c.uid, c.spec, c.maxRetries, c.finalizer, c.deleting, "Completed", c.jobID, c.retries, a)
  BY DEF Record
<1>4. [v EXCEPT !.phase = "Completed", !.results = a] = [[v EXCEPT !.phase = "Completed"] EXCEPT !.results = a]
  OBVIOUS
<1>5. [v EXCEPT !.phase = "Completed", !.results = a] =
        Record(c.uid, c.spec, c.maxRetries, c.finalizer, c.deleting, "Completed", c.jobID, c.retries, a)
  BY <1>2, <1>3, <1>4, Zenon
<1> QED
  BY <1>5 DEF v

\* The object before it is submitted again.
LEMMA RetriedView ==
  ASSUME NEW c \in Objects, NEW a
  PROVE  [View(c) EXCEPT !.retries = a, !.jobID = NoId, !.phase = "Pending"] =
           Record(c.uid, c.spec, c.maxRetries, c.finalizer, c.deleting, "Pending", NoId, a, c.results)
<1> DEFINE v == View(c)
<1>1. v = Record(c.uid, c.spec, c.maxRetries, c.finalizer, c.deleting, c.phase, c.jobID, c.retries, c.results)
  BY ViewFacts
<1> HIDE DEF v
<1>2. [v EXCEPT !.retries = a] =
        Record(c.uid, c.spec, c.maxRetries, c.finalizer, c.deleting, c.phase, c.jobID, a, c.results)
  BY <1>1 DEF Record
<1>3. [Record(c.uid, c.spec, c.maxRetries, c.finalizer, c.deleting, c.phase, c.jobID, a, c.results) EXCEPT !.jobID = NoId] =
        Record(c.uid, c.spec, c.maxRetries, c.finalizer, c.deleting, c.phase, NoId, a, c.results)
  BY DEF Record
<1>4. [Record(c.uid, c.spec, c.maxRetries, c.finalizer, c.deleting, c.phase, NoId, a, c.results) EXCEPT !.phase = "Pending"] =
        Record(c.uid, c.spec, c.maxRetries, c.finalizer, c.deleting, "Pending", NoId, a, c.results)
  BY DEF Record
<1>5. [v EXCEPT !.retries = a, !.jobID = NoId, !.phase = "Pending"] = [[[v EXCEPT !.retries = a] EXCEPT !.jobID = NoId] EXCEPT !.phase = "Pending"]
  OBVIOUS
<1>6. [v EXCEPT !.retries = a, !.jobID = NoId, !.phase = "Pending"] =
        Record(c.uid, c.spec, c.maxRetries, c.finalizer, c.deleting, "Pending", NoId, a, c.results)
  BY <1>2, <1>3, <1>4, <1>5, Zenon
<1> QED
  BY <1>6 DEF v

\* A new revision is not seen.
LEMMA StoredView ==
  ASSUME OperatorInv, NEW new, new # NoObj => new \in Objects, Store(new)
  PROVE  ObjView' = View(new)
<1>1. CASE new = NoObj
  BY <1>1 DEF Store, ObjView, View
<1>2. CASE new # NoObj
  <2>1. obj' = [new EXCEPT !.rv = rev + 1] /\ rev + 1 \in Nat /\ new \in Objects
    BY <1>2 DEF Store, OperatorInv, PlainInv
  <2>2. /\ obj' \in Objects
        /\ obj'.uid = new.uid /\ obj'.spec = new.spec /\ obj'.maxRetries = new.maxRetries
        /\ obj'.finalizer = new.finalizer /\ obj'.deleting = new.deleting /\ obj'.phase = new.phase
        /\ obj'.jobID = new.jobID /\ obj'.retries = new.retries /\ obj'.results = new.results
    BY <2>1 DEF Objects
  <2> DEFINE x == obj'
  <2>3. ObjView' = View(x)
    BY DEF ObjView, View
  <2> HIDE DEF x
  <2>4. x \in Objects /\ new \in Objects
    BY <2>1, <2>2 DEF x
  <2>5. View(x) = View(new)
    BY <2>2, <2>4, ViewFacts DEF x
  <2> QED
    BY <2>3, <2>5
<1> QED
  BY <1>1, <1>2

\* The users act on the object as in the contract.
LEMMA UsersContract ==
  ASSUME OperatorInv, ContractInv, UserCreates \/ UserEditsSpec \/ UserDeletes
  PROVE  ContractInv' /\ Contract!Next
<1>1. obj # NoObj => obj \in Objects
  BY DEF OperatorInv, ObjInv, Published, Sound, SoundFor
<1>2. created \in 0 .. MaxObjects /\ MaxObjects \in Nat
  BY Bounds DEF OperatorInv, PlainInv
<1>3. UNCHANGED <<job, cache, loc, rpc, cancels>>
  BY DEF UserCreates, UserEditsSpec, UserDeletes, opVars
<1>4. CASE UserCreates
  <2>1. PICK s \in Specs, m \in RetryLimits : Store(NewObject(s, m))
    BY <1>4 DEF UserCreates
  <2>2. m \in Nat /\ created + 1 \in 1 .. MaxObjects /\ created' = created + 1 /\ obj = NoObj
    BY <1>2, <1>4, RetryValues DEF UserCreates
  <2> DEFINE new == NewObject(s, m)
  <2>3. new \in Objects /\ new.uid = created + 1
    BY <2>2 DEF NewObject, Objects, Phases
  <2>4. View(new) = [uid |-> created + 1, spec |-> s, maxRetries |-> m,
                     finalizer |-> FALSE, deleting |-> FALSE,
                     phase |-> "", jobID |-> NoId, retries |-> 0, results |-> NoId]
    BY <2>3, ViewFacts DEF NewObject, Record
  <2>5. Store(new)
    BY <2>1
  <2> HIDE DEF new
  <2>6. ContractInv'
    BY <1>3, <2>2, <2>3, <2>5, StoreContract DEF Heir
  <2>7. ObjView = NoObj /\ ObjView' = View(new)
    BY <2>2, <2>3, <2>5, StoredView DEF ObjView, View
  <2>8. Contract!Create(s, m)
    BY <1>3, <2>2, <2>4, <2>7 DEF Contract!Create
  <2> QED
    BY <2>6, <2>8 DEF Contract!Next
<1>5. CASE UserEditsSpec
  <2>1. PICK new \in {[obj EXCEPT !.spec = s] : s \in Specs}
                       \union {[obj EXCEPT !.maxRetries = m] : m \in RetryLimits} : Store(new)
    BY <1>5 DEF UserEditsSpec
  <2>2. obj \in Objects /\ obj # NoObj /\ created' = created
    BY <1>1, <1>5 DEF UserEditsSpec
  <2>3. /\ new \in Objects /\ new.uid = obj.uid /\ new.deleting = obj.deleting
        /\ \/ \E s \in Specs : View(new) = [View(obj) EXCEPT !.spec = s]
           \/ \E m \in RetryLimits : View(new) = [View(obj) EXCEPT !.maxRetries = m]
    <3>1. ASSUME NEW s \in Specs, new = [obj EXCEPT !.spec = s]
          PROVE  /\ new \in Objects /\ new.uid = obj.uid /\ new.deleting = obj.deleting
                 /\ View(new) = [View(obj) EXCEPT !.spec = s]
      <4>1. /\ new \in Objects /\ new.uid = obj.uid /\ new.deleting = obj.deleting
            /\ new.maxRetries = obj.maxRetries /\ new.finalizer = obj.finalizer /\ new.phase = obj.phase
            /\ new.spec = s /\ new.jobID = obj.jobID /\ new.retries = obj.retries /\ new.results = obj.results
        BY <2>2, <3>1 DEF Objects
      <4>2. [View(obj) EXCEPT !.spec = s] =
              Record(obj.uid, s, obj.maxRetries, obj.finalizer, obj.deleting, obj.phase, obj.jobID, obj.retries, obj.results)
        BY <2>2, ViewUpdates
      <4>3. View(new) =
              Record(obj.uid, s, obj.maxRetries, obj.finalizer, obj.deleting, obj.phase, obj.jobID, obj.retries, obj.results)
        BY <4>1, ViewFacts, Zenon
      <4> QED
        BY <4>1, <4>2, <4>3
    <3>2. ASSUME NEW m \in RetryLimits, new = [obj EXCEPT !.maxRetries = m]
          PROVE  /\ new \in Objects /\ new.uid = obj.uid /\ new.deleting = obj.deleting
                 /\ View(new) = [View(obj) EXCEPT !.maxRetries = m]
      <4>1. m \in Nat
        BY RetryValues
      <4>2. /\ new \in Objects /\ new.uid = obj.uid /\ new.deleting = obj.deleting
            /\ new.maxRetries = m /\ new.finalizer = obj.finalizer /\ new.phase = obj.phase
            /\ new.spec = obj.spec /\ new.jobID = obj.jobID /\ new.retries = obj.retries /\ new.results = obj.results
        BY <2>2, <3>2, <4>1 DEF Objects
      <4>3. [View(obj) EXCEPT !.maxRetries = m] =
              Record(obj.uid, obj.spec, m, obj.finalizer, obj.deleting, obj.phase, obj.jobID, obj.retries, obj.results)
        BY <2>2, ViewUpdates
      <4>4. View(new) =
              Record(obj.uid, obj.spec, m, obj.finalizer, obj.deleting, obj.phase, obj.jobID, obj.retries, obj.results)
        BY <4>2, ViewFacts, Zenon
      <4> QED
        BY <4>2, <4>3, <4>4
    <3> QED
      BY <2>1, <3>1, <3>2
  <2>4. ContractInv'
    BY <1>3, <2>1, <2>2, <2>3, StoreContract DEF Heir
  <2>5. ObjView = View(obj) /\ View(obj) # NoObj /\ ObjView' = View(new)
    BY <2>1, <2>2, <2>3, StoredView, ViewFacts DEF ObjView
  <2>6. (\E s \in Specs : Contract!Edit(s)) \/ (\E m \in RetryLimits : Contract!EditLimit(m))
    BY <1>3, <2>2, <2>3, <2>5 DEF Contract!Edit, Contract!EditLimit, Contract!Becomes
  <2> QED
    BY <2>4, <2>6 DEF Contract!Next
<1>6. CASE UserDeletes
  <2> DEFINE new == IF obj.finalizer THEN [obj EXCEPT !.deleting = TRUE] ELSE NoObj
  <2>1. Store(new) /\ obj # NoObj /\ ~obj.deleting /\ created' = created /\ obj \in Objects
    BY <1>1, <1>6 DEF UserDeletes, envVars
  <2>2. new # NoObj => new \in Objects /\ new.uid = obj.uid /\ new.deleting
    BY <2>1 DEF Objects
  <2>3. ~obj.finalizer => View(new) = NoObj
    BY DEF View
  <2>4. obj.finalizer => View(new) = [View(obj) EXCEPT !.deleting = TRUE]
    <3>1. SUFFICES ASSUME obj.finalizer PROVE View(new) = [View(obj) EXCEPT !.deleting = TRUE]
      OBVIOUS
    <3>2. new = [obj EXCEPT !.deleting = TRUE] /\ new \in Objects
      BY <2>1, <3>1 DEF Objects
    <3> HIDE DEF new
    <3>3. /\ new.uid = obj.uid /\ new.spec = obj.spec /\ new.maxRetries = obj.maxRetries
          /\ new.finalizer = obj.finalizer /\ new.deleting = TRUE /\ new.phase = obj.phase
          /\ new.jobID = obj.jobID /\ new.retries = obj.retries /\ new.results = obj.results
      BY <2>1, <3>2 DEF Objects
    <3>4. [View(obj) EXCEPT !.deleting = TRUE] =
            Record(obj.uid, obj.spec, obj.maxRetries, obj.finalizer, TRUE, obj.phase, obj.jobID, obj.retries, obj.results)
      BY <2>1, ViewUpdates
    <3>5. View(new) =
            Record(obj.uid, obj.spec, obj.maxRetries, obj.finalizer, TRUE, obj.phase, obj.jobID, obj.retries, obj.results)
      BY <3>2, <3>3, ViewFacts, Zenon
    <3> QED
      BY <3>4, <3>5
  <2> HIDE DEF new
  <2>5. ContractInv'
    BY <1>3, <2>1, <2>2, StoreContract DEF Heir
  <2>6. /\ ObjView = View(obj) /\ View(obj) # NoObj /\ ObjView' = View(new)
        /\ View(obj).deleting = obj.deleting /\ View(obj).finalizer = obj.finalizer
    BY <2>1, <2>2, StoredView, ViewFacts, ViewUpdates DEF ObjView
  <2>7. Contract!Delete
    BY <1>3, <2>1, <2>3, <2>4, <2>6 DEF Contract!Delete, Contract!Becomes
  <2> QED
    BY <2>5, <2>7 DEF Contract!Next
<1> QED
  BY <1>4, <1>5, <1>6

-----------------------------------------------------------------------------
(* The writes of the operators.                                            *)

\* What the contract sees of an object that names a job.
LEMMA ViewHas ==
  ASSUME NEW P, NEW i \in Ids, obj \in Objects, ~obj.deleting, obj.finalizer, obj.phase \in P, obj.jobID = i,
         job[i] # NoJob
  PROVE  Contract!Has(i, P)
<1>1. ObjView = View(obj) /\ ObjView # NoObj
  BY ViewFacts DEF ObjView
<1>2. ~ObjView.deleting /\ ObjView.finalizer /\ ObjView.phase \in P /\ ObjView.jobID = i
  BY <1>1, ViewUpdates
<1> QED
  BY <1>1, <1>2 DEF Contract!Has, Contract!Alive, Contract!Backend!Exists

\* A status that is written is a step of the contract.
LEMMA StatusContract ==
  ASSUME OperatorInv, ContractInv, NEW o \in Operators, rpc[o] = "status", Current(o), Store(Written(o)),
         UNCHANGED <<job, cancels, created>>
  PROVE  Heir(Written(o)) /\ Contract!Next
<1> DEFINE d == loc[o]
<1> DEFINE n == [obj EXCEPT !.phase = d.phase, !.jobID = d.jobID, !.retries = d.retries, !.results = d.results]
<1>1. obj # NoObj /\ obj.rv = d.rv /\ PodInv(o) /\ PodContract(o)
  BY DEF Current, OperatorInv, ContractInv
<1>2. obj \in Objects /\ Sound(obj)
  BY <1>1 DEF OperatorInv, ObjInv, Published, Sound, SoundFor
<1>3. d \in Objects /\ Sound(d) /\ Placed(d) /\ d # NoObj
  BY <1>1 DEF PodInv, LocInv, ViewInv, OperatorInv, PlainInv
<1>4. ~obj.deleting /\ obj.finalizer /\ ReportFor(obj, d, job)
  BY <1>1 DEF PodInv, BasedInv, PodContract, Justified
<1>5. Written(o) = n
  BY DEF Written
<1>6. /\ n \in Objects /\ n.uid = obj.uid /\ n.spec = obj.spec /\ n.maxRetries = obj.maxRetries
      /\ n.finalizer = obj.finalizer /\ n.deleting = obj.deleting
      /\ n.phase = d.phase /\ n.jobID = d.jobID /\ n.retries = d.retries /\ n.results = d.results
  BY <1>2, <1>3 DEF Objects
<1> HIDE DEF n
<1>7. Heir(Written(o))
  BY <1>1, <1>5, <1>6 DEF Heir
<1>8. ObjView' = View(n) /\ ObjView = View(obj)
  BY <1>5, <1>6, StoredView DEF ObjView
<1>9. View(n) = Record(obj.uid, obj.spec, obj.maxRetries, obj.finalizer, obj.deleting,
                       d.phase, d.jobID, d.retries, d.results)
  BY <1>6, ViewFacts, Zenon
<1>10. ASSUME NEW x, x = View(n) PROVE Contract!Becomes(x)
  BY <1>8, <1>10 DEF Contract!Becomes
<1>11. obj.phase \in {"Submitted", "Running"} => obj.jobID \in Ids /\ job[obj.jobID] # NoJob
  BY <1>1, <1>2 DEF Sound, SoundFor, Objects
<1>12. d.jobID # NoId => d.jobID \in Ids /\ job[d.jobID] # NoJob /\ Claims(d, job[d.jobID])
  BY <1>3 DEF Sound, SoundFor, Objects
<1>13. d.phase \in {"Submitted", "Running", "Completed", "Failed"} => d.jobID # NoId
  BY <1>3 DEF Sound, SoundFor
<1>14. View(obj).maxRetries = obj.maxRetries /\ View(obj).retries = obj.retries
  BY <1>2, ViewUpdates
<1>15. Contract!Limit(View(obj).maxRetries) = Defaulted(obj.maxRetries)
  BY <1>14 DEF Contract!Limit, Defaulted
<1>16. CASE Unsubmitted(obj) /\ d.phase = "Submitted" /\ d.retries = obj.retries /\ d.results = obj.results
  <2> DEFINE i == d.jobID
  <2>1. i \in Ids /\ job[i] # NoJob
    BY <1>12, <1>13, <1>16
  <2>2. job[i] \in Backend!Jobs
    BY <2>1 DEF OperatorInv, JobInv
  <2>3. i \in Contract!Backend!WithKey(Name)
    BY <2>1, <2>2 DEF Contract!Backend!WithKey, Contract!Backend!Exists, Backend!Jobs
  <2> HIDE DEF i
  <2>4. [View(obj) EXCEPT !.jobID = i, !.phase = "Submitted"] = View(n)
    <3>1. [View(obj) EXCEPT !.jobID = i, !.phase = "Submitted"] =
            Record(obj.uid, obj.spec, obj.maxRetries, obj.finalizer, obj.deleting,
                   "Submitted", i, obj.retries, obj.results)
      BY <1>2, SubmittedView
    <3> QED
      BY <1>9, <1>16, <3>1, Zenon DEF i
  <2>5. Contract!Becomes([ObjView EXCEPT !.jobID = i, !.phase = "Submitted"])
    BY <1>8, <1>10, <2>4
  <2>6. /\ ObjView # NoObj /\ ~ObjView.deleting /\ ObjView.finalizer
        /\ ObjView.phase \in {"", "Pending"}
    BY <1>2, <1>4, <1>8, <1>16, ViewFacts, ViewUpdates DEF Unsubmitted
  <2>7. Contract!RecordJob(i)
    BY <2>3, <2>5, <2>6 DEF Contract!RecordJob, Contract!Alive
  <2> QED
    BY <1>7, <2>1, <2>7 DEF Contract!Next, i
<1>17. CASE /\ obj.phase = "Submitted" /\ d.phase = "Running"
            /\ d.jobID = obj.jobID /\ d.retries = obj.retries /\ d.results = obj.results
  <2> DEFINE i == obj.jobID
  <2>1. i \in Ids /\ job[i] # NoJob /\ job[i].status # "queued"
    BY <1>11, <1>12, <1>13, <1>17 DEF Claims
  <2>2. Contract!Has(i, {"Submitted"})
    BY <1>2, <1>4, <1>17, <2>1, ViewHas
  <2>3. [View(obj) EXCEPT !.phase = "Running"] = View(n)
    <3>1. [View(obj) EXCEPT !.phase = "Running"] =
            Record(obj.uid, obj.spec, obj.maxRetries, obj.finalizer, obj.deleting,
                   "Running", obj.jobID, obj.retries, obj.results)
      BY <1>2, ViewUpdates
    <3> QED
      BY <1>9, <1>17, <3>1, Zenon
  <2>4. Contract!Becomes([ObjView EXCEPT !.phase = "Running"])
    BY <1>8, <1>10, <2>3
  <2>5. Contract!ReportRunning(i)
    BY <2>1, <2>2, <2>4 DEF Contract!ReportRunning
  <2> QED
    BY <1>7, <2>1, <2>5 DEF Contract!Next
<1>18. CASE obj.phase = "Running" /\ d.phase = "Completed" /\ d.jobID = obj.jobID /\ d.retries = obj.retries
  <2> DEFINE i == obj.jobID
  <2>1. i \in Ids /\ job[i] # NoJob /\ job[i].status = "completed" /\ d.results = i
    BY <1>11, <1>12, <1>13, <1>18 DEF Claims
  <2>2. Contract!Has(i, {"Running"})
    BY <1>2, <1>4, <1>18, <2>1, ViewHas
  <2>3. [View(obj) EXCEPT !.phase = "Completed", !.results = i] = View(n)
    <3>1. [View(obj) EXCEPT !.phase = "Completed", !.results = i] =
            Record(obj.uid, obj.spec, obj.maxRetries, obj.finalizer, obj.deleting,
                   "Completed", obj.jobID, obj.retries, i)
      BY <1>2, CompletedView
    <3> QED
      BY <1>9, <1>18, <2>1, <3>1, Zenon
  <2>4. Contract!Becomes([ObjView EXCEPT !.phase = "Completed", !.results = i])
    BY <1>8, <1>10, <2>3
  <2>5. Contract!ReportCompleted(i)
    BY <2>1, <2>2, <2>4 DEF Contract!ReportCompleted
  <2> QED
    BY <1>7, <2>1, <2>5 DEF Contract!Next
<1>19. CASE /\ obj.phase \in {"Submitted", "Running"} /\ job[obj.jobID].status = "failed"
            /\ obj.retries < Defaulted(obj.maxRetries)
            /\ d.phase = "Pending"
            /\ d.jobID = NoId /\ d.retries = obj.retries + 1 /\ d.results = obj.results
  <2> DEFINE i == obj.jobID
  <2>1. i \in Ids /\ job[i] # NoJob
    BY <1>11, <1>19
  <2>2. Contract!Has(i, {"Submitted", "Running"})
    BY <1>2, <1>4, <1>19, <2>1, ViewHas
  <2>3. [View(obj) EXCEPT !.retries = obj.retries + 1, !.jobID = NoId, !.phase = "Pending"] = View(n)
    <3>1. [View(obj) EXCEPT !.retries = obj.retries + 1, !.jobID = NoId, !.phase = "Pending"] =
            Record(obj.uid, obj.spec, obj.maxRetries, obj.finalizer, obj.deleting,
                   "Pending", NoId, obj.retries + 1, obj.results)
      <4> DEFINE r == obj.retries + 1
      <4> HIDE DEF r
      <4>1. [View(obj) EXCEPT !.retries = r, !.jobID = NoId, !.phase = "Pending"] =
              Record(obj.uid, obj.spec, obj.maxRetries, obj.finalizer, obj.deleting,
                     "Pending", NoId, r, obj.results)
        BY <1>2, RetriedView
      <4> QED
        BY <4>1 DEF r
    <3> QED
      BY <1>9, <1>19, <3>1, Zenon
  <2>4. Contract!Becomes([ObjView EXCEPT !.retries = ObjView.retries + 1, !.jobID = NoId, !.phase = "Pending"])
    BY <1>8, <1>10, <1>14, <2>3
  <2>5. Contract!Retry(i)
    BY <1>8, <1>14, <1>15, <1>19, <2>2, <2>4 DEF Contract!Retry
  <2> QED
    BY <1>7, <2>1, <2>5 DEF Contract!Next
<1>20. CASE /\ obj.phase \in {"Submitted", "Running"} /\ d.phase = "Failed"
            /\ obj.retries >= Defaulted(obj.maxRetries)
            /\ d.jobID = obj.jobID /\ d.retries = obj.retries /\ d.results = obj.results
  <2> DEFINE i == obj.jobID
  <2>1. i \in Ids /\ job[i] # NoJob /\ job[i].status = "failed"
    BY <1>11, <1>12, <1>13, <1>20 DEF Claims
  <2>2. Contract!Has(i, {"Submitted", "Running"})
    BY <1>2, <1>4, <1>20, <2>1, ViewHas
  <2>3. [View(obj) EXCEPT !.phase = "Failed"] = View(n)
    <3>1. [View(obj) EXCEPT !.phase = "Failed"] =
            Record(obj.uid, obj.spec, obj.maxRetries, obj.finalizer, obj.deleting,
                   "Failed", obj.jobID, obj.retries, obj.results)
      BY <1>2, ViewUpdates
    <3> QED
      BY <1>9, <1>20, <3>1, Zenon
  <2>4. Contract!Becomes([ObjView EXCEPT !.phase = "Failed"])
    BY <1>8, <1>10, <2>3
  <2>5. Contract!ReportFailed(i)
    BY <1>8, <1>14, <1>15, <1>20, <2>1, <2>2, <2>4 DEF Contract!ReportFailed
  <2> QED
    BY <1>7, <2>1, <2>5 DEF Contract!Next
<1> QED
  BY <1>4, <1>16, <1>17, <1>18, <1>19, <1>20 DEF ReportFor

\* Any write of an operator that is carried out.
LEMMA WriteContract ==
  ASSUME OperatorInv, ContractInv, NEW o \in Operators, Writing(o), Current(o), Store(Written(o)),
         UNCHANGED <<job, cancels, created>>
  PROVE  Heir(Written(o)) /\ Contract!Next
<1>1. obj # NoObj /\ rpc[o] # "idle" /\ PodInv(o) /\ PodContract(o)
  BY DEF Current, Writing, OperatorInv, ContractInv
<1>2. obj \in Objects /\ ObjView = View(obj) /\ ObjView # NoObj
  BY <1>1, ViewFacts DEF OperatorInv, ObjInv, Published, Sound, SoundFor, ObjView
<1>3. CASE rpc[o] = "status"
  BY <1>3, StatusContract
<1>4. CASE rpc[o] = "add_finalizer"
  <2> DEFINE m == Defaulted(obj.maxRetries)
  <2> DEFINE n == [obj EXCEPT !.finalizer = TRUE, !.maxRetries = m]
  <2>1. ~obj.finalizer /\ ~obj.deleting
    BY <1>1, <1>4 DEF PodInv, BasedInv, PodContract, AimInv
  <2>2. m \in Nat
    BY <1>2, RetryValues DEF Defaulted, Objects
  <2>3. Written(o) = n
    BY <1>4 DEF Written
  <2> HIDE DEF m
  <2>4. /\ n \in Objects /\ n.uid = obj.uid /\ n.spec = obj.spec /\ n.maxRetries = m
        /\ n.finalizer = TRUE /\ n.deleting = obj.deleting /\ n.phase = obj.phase
        /\ n.jobID = obj.jobID /\ n.retries = obj.retries /\ n.results = obj.results
    BY <1>2, <2>2 DEF Objects
  <2> HIDE DEF n
  <2>5. Heir(Written(o))
    BY <1>1, <2>1, <2>3, <2>4 DEF Heir
  <2>6. ObjView' = View(n)
    BY <2>3, <2>4, StoredView
  <2>7. View(n) = Record(obj.uid, obj.spec, m, TRUE, obj.deleting, obj.phase, obj.jobID, obj.retries, obj.results)
    BY <2>4, ViewFacts, ZenonT(60)
  <2>8. [View(obj) EXCEPT !.finalizer = TRUE, !.maxRetries = m] =
          Record(obj.uid, obj.spec, m, TRUE, obj.deleting, obj.phase, obj.jobID, obj.retries, obj.results)
    BY <1>2, AdoptedView
  <2>9. Contract!Limit(View(obj).maxRetries) = m
    BY <1>2, ViewUpdates DEF Contract!Limit, Defaulted, m
  <2>10. ~View(obj).finalizer /\ ~View(obj).deleting
    BY <1>2, <2>1, ViewUpdates
  <2>11. Contract!Becomes([ObjView EXCEPT !.finalizer = TRUE, !.maxRetries = Contract!Limit(ObjView.maxRetries)])
    BY <1>2, <2>6, <2>7, <2>8, <2>9 DEF Contract!Becomes
  <2>12. Contract!Adopt
    BY <1>2, <2>10, <2>11 DEF Contract!Adopt, Contract!Alive
  <2> QED
    BY <2>5, <2>12 DEF Contract!Next
<1>5. CASE rpc[o] = "remove_finalizer"
  <2>1. Written(o) = NoObj
    BY <1>5 DEF Written
  <2>2. obj.deleting /\ (Cancellable(obj) => obj.jobID \in cancels)
    BY <1>1, <1>5 DEF PodInv, BasedInv, LocInv, PodContract, AimInv
  <2>3. ObjView' = NoObj
    BY <2>1, StoredView DEF View
  <2>4. /\ ObjView.deleting
        /\ ObjView.jobID # NoId /\ ObjView.phase \notin {"Completed", "Failed"} => ObjView.jobID \in cancels
    BY <1>2, <2>2, ViewUpdates DEF Cancellable, TerminalPhases
  <2>5. Contract!Release
    BY <1>2, <2>3, <2>4 DEF Contract!Release, Contract!Becomes
  <2> QED
    BY <2>1, <2>5 DEF Contract!Next, Heir
<1> QED
  BY <1>3, <1>4, <1>5 DEF Writing

\* The operator learns of its write, or not.
LEMMA WritesContract ==
  ASSUME OperatorInv, ContractInv, NEW o \in Operators, WriteObject(o) \/ WriteFails(o)
  PROVE  ContractInv' /\ [Contract!Next]_Contract!vars
<1>1. UNCHANGED <<job, cancels, created>> /\ Writing(o)
  BY DEF WriteObject, WriteFails, envVars
<1>2. PICK b \in BOOLEAN : Return(o, b)
  <2>1. (rpc[o] = "add_finalizer") \in BOOLEAN /\ TRUE \in BOOLEAN
    OBVIOUS
  <2> QED
    BY <2>1 DEF WriteObject, WriteFails
<1>3. /\ cache' = cache
      /\ \A q \in Operators :
           (loc'[q] = NoObj /\ rpc'[q] = "idle") \/ (loc'[q] = loc[q] /\ rpc'[q] = rpc[q])
  BY <1>2 DEF Return, OperatorInv, PlainInv
<1>4. CASE UNCHANGED k8sVars
  <2>1. FailedStays /\ UNCHANGED <<obj, events>>
    BY <1>1, <1>4 DEF FailedStays, k8sVars
  <2>2. ContractInv'
    BY <1>1, <1>2, <2>1, ReturnContract
  <2>3. UNCHANGED Contract!vars
    BY <1>1, <2>1 DEF Contract!vars, ObjView, View
  <2> QED
    BY <2>2, <2>3
<1>5. CASE Current(o) /\ Store(Written(o))
  <2>1. Heir(Written(o)) /\ Contract!Next
    BY <1>1, <1>5, WriteContract
  <2>2. ContractInv'
    BY <1>1, <1>3, <1>5, <2>1, StoreContract
  <2> QED
    BY <2>1, <2>2
<1> QED
  BY <1>4, <1>5 DEF WriteObject, WriteFails

-----------------------------------------------------------------------------
(* Steps that the contract sees of the backend, and the result.            *)

\* A POST is a submission, or nothing.
LEMMA PostStep ==
  ASSUME UNCHANGED <<obj, created, cancels>>, NEW c \in Objects, NEW i \in Ids, PostEffect(c, i)
  PROVE  [Contract!Next]_Contract!vars
<1>1. ObjView' = ObjView
  BY DEF ObjView, View
<1>2. CASE UNCHANGED job
  BY <1>1, <1>2 DEF Contract!vars
<1>3. CASE Backend!Submit(i, Name, c.spec)
  <2>1. c.spec \in Specs
    BY DEF Objects
  <2>2. Contract!Submit(i, c.spec)
    BY <1>1, <1>3 DEF Contract!Submit, Backend!Submit, Contract!Backend!Submit,
                      Backend!Exists, Contract!Backend!Exists, Backend!WithKey, Contract!Backend!WithKey
  <2> QED
    BY <2>1, <2>2 DEF Contract!Next
<1> QED
  BY <1>2, <1>3 DEF PostEffect, IdempotencyKey

\* A DELETE is sent once an object is being deleted.
LEMMA CancelStep ==
  ASSUME OperatorInv, ContractInv, NEW o \in Operators, CancelBackendJob(o)
  PROVE  Contract!Next
<1> DEFINE c == loc[o]
<1>1. UNCHANGED <<obj, job, created>> /\ rpc[o] = "cancel" /\ cancels' = cancels \union {c.jobID}
  BY DEF CancelBackendJob, k8sVars, envVars
<1>2. /\ c \in Objects /\ Sound(c) /\ Placed(c) /\ c # NoObj /\ c.deleting /\ DoomedFor(c, obj)
      /\ c.jobID # NoId
  BY <1>1 DEF OperatorInv, PodInv, PlainInv, LocInv, ViewInv, ContractInv, PodContract, AimInv
<1>3. c.jobID \in Ids /\ job[c.jobID] # NoJob
  BY <1>2 DEF Sound, SoundFor, Objects
<1>4. Contract!Alive => ObjView.uid > 1
  <2>1. SUFFICES ASSUME Contract!Alive PROVE ObjView.uid > 1
    OBVIOUS
  <2>2. obj # NoObj /\ ObjView = View(obj)
    BY <2>1 DEF Contract!Alive, ObjView, View
  <2>3. obj \in Objects
    BY <2>2 DEF OperatorInv, ObjInv, Published, Sound, SoundFor
  <2>4. ~obj.deleting /\ ObjView.uid = obj.uid
    BY <2>1, <2>2, <2>3, ViewUpdates DEF Contract!Alive
  <2>5. c.uid # obj.uid
    BY <1>2, <2>2, <2>4 DEF DoomedFor
  <2>6. obj.uid = created /\ c.uid <= created
    BY <1>2, <2>2 DEF ContractInv, Placed, PlacedFor
  <2>7. c.uid \in 1 .. MaxObjects /\ created \in 0 .. MaxObjects /\ MaxObjects \in Nat
    BY <1>2, Bounds DEF Objects, OperatorInv, PlainInv
  <2>8. \A u, v, n, m : u # v /\ v = n /\ u <= n /\ u \in 1 .. m /\ n \in 0 .. m /\ m \in Nat => v > 1
    OBVIOUS
  <2>9. obj.uid > 1
    BY <2>5, <2>6, <2>7, <2>8, Zenon
  <2> QED
    BY <2>4, <2>9, Zenon
<1>5. ObjView' = ObjView
  BY <1>1 DEF ObjView, View
<1>6. Contract!Cancel(c.jobID)
  BY <1>1, <1>3, <1>4, <1>5 DEF Contract!Cancel, Contract!Backend!Exists
<1> QED
  BY <1>3, <1>6 DEF Contract!Next

\* The backend takes its jobs on.
LEMMA BackendStep ==
  ASSUME BackendAdvances
  PROVE  Contract!Next
<1>1. PICK i \in Ids : Backend!Advance(i)
  BY DEF BackendAdvances
<1>2. UNCHANGED <<obj, created, cancels>>
  BY DEF BackendAdvances, k8sVars, envVars
<1>3. ObjView' = ObjView
  BY <1>2 DEF ObjView, View
<1>4. Contract!Backend!Advance(i)
  BY <1>1 DEF Backend!Advance, Contract!Backend!Advance, Backend!Start, Contract!Backend!Start,
              Backend!Finish, Contract!Backend!Finish, Backend!Fail, Contract!Backend!Fail,
              Backend!Open, Contract!Backend!Open, Backend!Exists, Contract!Backend!Exists
<1>5. Contract!BackendAdvances(i)
  BY <1>2, <1>3, <1>4 DEF Contract!BackendAdvances
<1> QED
  BY <1>5 DEF Contract!Next

\* Every step keeps the invariant, and is a step of the contract or not seen by it.
LEMMA ContractSteps ==
  ASSUME OperatorInv, ContractInv, [Next]_vars
  PROVE  ContractInv' /\ [Contract!Next]_Contract!vars
<1>1. ASSUME UNCHANGED <<obj, created, job, cancels>> PROVE UNCHANGED Contract!vars
  BY <1>1 DEF Contract!vars, ObjView, View
<1>2. CASE UserCreates \/ UserEditsSpec \/ UserDeletes
  BY <1>2, UsersContract
<1>3. ASSUME NEW o \in Operators, WatchEvent(o) \/ OperatorStep(o)
      PROVE  ContractInv' /\ [Contract!Next]_Contract!vars
  <2>1. CASE WatchEvent(o)
    BY <1>1, <2>1, WatchEventContract DEF WatchEvent, envVars
  <2>2. CASE Reconcile(o)
    BY <1>1, <2>2, ReconcileContract DEF Reconcile, k8sVars, envVars
  <2>3. CASE HandlePending(o)
    <3>1. loc[o] \in Objects
      BY <2>3 DEF HandlePending, OperatorInv, PodInv, PlainInv, LocInv
    <3>2. \E i \in Ids : PostEffect(loc[o], i)
      BY <2>3 DEF HandlePending
    <3>3. UNCHANGED <<obj, created, cancels>>
      BY <2>3 DEF HandlePending, k8sVars, envVars
    <3> QED
      BY <2>3, <3>1, <3>2, <3>3, HandlePendingContract, PostStep
  <2>4. CASE HandlePoll(o)
    BY <1>1, <2>4, HandlePollContract DEF HandlePoll, k8sVars, envVars
  <2>5. CASE CancelBackendJob(o)
    BY <2>5, CancelContract, CancelStep
  <2>6. CASE WriteObject(o)
    BY <2>6, WritesContract
  <2> QED
    BY <1>3, <2>1, <2>2, <2>3, <2>4, <2>5, <2>6 DEF OperatorStep
<1>4. ASSUME NEW o \in Operators, HttpFails(o) \/ WriteFails(o) \/ OperatorRestarts(o)
      PROVE  ContractInv' /\ [Contract!Next]_Contract!vars
  <2>1. CASE HttpFails(o)
    <3>1. UNCHANGED <<obj, created, cancels>>
      BY <2>1 DEF HttpFails, k8sVars
    <3>2. [Contract!Next]_Contract!vars
      <4>1. CASE UNCHANGED job
        BY <1>1, <3>1, <4>1
      <4>2. CASE rpc[o] = "post" /\ \E i \in Ids : PostEffect(loc[o], i)
        <5>1. loc[o] \in Objects
          BY <4>2 DEF OperatorInv, PodInv, PlainInv, LocInv
        <5> QED
          BY <3>1, <4>2, <5>1, PostStep
      <4> QED
        BY <2>1, <4>1, <4>2 DEF HttpFails
    <3> QED
      BY <2>1, <3>2, HttpFailsContract
  <2>2. CASE WriteFails(o)
    BY <2>2, WritesContract
  <2>3. CASE OperatorRestarts(o)
    BY <1>1, <2>3, RestartContract DEF OperatorRestarts
  <2> QED
    BY <1>4, <2>1, <2>2, <2>3
<1>5. CASE BackendAdvances
  BY <1>5, OthersContract, BackendStep
<1>6. CASE Settled \/ UNCHANGED vars
  <2>1. UNCHANGED vars
    BY <1>6 DEF Settled
  <2> QED
    BY <1>1, <2>1, OthersContract DEF vars, k8sVars, envVars
<1> QED
  BY <1>2, <1>3, <1>4, <1>5, <1>6 DEF Next

\* The initial state.
LEMMA ContractInit ==
  ASSUME Init
  PROVE  ContractInv /\ Contract!Init
<1>1. obj = NoObj /\ ObjView = NoObj
  BY DEF Init, ObjView, View
<1>2. ASSUME NEW o \in Operators PROVE PodContract(o)
  <2>1. rpc[o] = "idle" /\ loc[o] = NoObj /\ cache[o] = NoObj /\ events[o] = <<>>
    BY DEF Init
  <2>2. Len(events[o]) = 0
    BY <2>1
  <2> QED
    BY <2>1, <2>2, SMTT(30) DEF PodContract, Justified, AimInv, DoomedFor
<1> QED
  BY <1>1, <1>2 DEF ContractInv, Init, Contract!Init, Backend!Init, Contract!Backend!Init

\* What a pending write is based on: a status that will be accepted is justified by the
\* object and the job as they are now, and a deletion that was seen is not taken back.
THEOREM ContractInvariant == Spec => []ContractInv
<1>1. Init => ContractInv
  BY ContractInit
<1>2. OperatorInv /\ ContractInv /\ [Next]_vars => ContractInv'
  BY ContractSteps
<1> QED
  BY <1>1, <1>2, OperatorInvariant, PTL DEF Spec

\* How d, the object after c, follows the limit of c.
FollowsLimit(c, d) ==
  /\ d.retries # c.retries => d.retries = c.retries + 1 /\ c.retries < Defaulted(c.maxRetries)
  /\ d.phase = "Failed" /\ c.phase # "Failed" => c.retries >= Defaulted(c.maxRetries)

\* A revision with a status that a controller may give the object, or with its own.
LEMMA ReportFollows ==
  ASSUME NEW c \in Objects, NEW d, StatusOf(d) = StatusOf(c) \/ ReportFor(c, d, job)
  PROVE  FollowsLimit(c, d)
<1>1. CASE StatusOf(d) = StatusOf(c)
  BY <1>1 DEF StatusOf, FollowsLimit
<1>2. CASE ReportFor(c, d, job)
  BY <1>2 DEF ReportFor, FollowsLimit
<1> QED
  BY <1>1, <1>2

\* A write of an operator that is carried out gives the object such a status.
LEMMA WriteFollows ==
  ASSUME OperatorInv, ContractInv, NEW o \in Operators, Writing(o), Current(o), Store(Written(o)), SameObject
  PROVE  StatusOf(obj') = StatusOf(obj) \/ ReportFor(obj, obj', job)
<1> DEFINE d == loc[o]
<1>1. obj # NoObj /\ PodInv(o) /\ PodContract(o) /\ rev + 1 \in Nat
  BY DEF Current, OperatorInv, ContractInv, PlainInv
<1>2. obj \in Objects /\ d \in Objects
  BY <1>1 DEF OperatorInv, ObjInv, Published, Sound, SoundFor, PodInv, LocInv, Writing, PlainInv
<1>3. CASE rpc[o] = "status"
  <2> DEFINE n == [obj EXCEPT !.phase = d.phase, !.jobID = d.jobID, !.retries = d.retries, !.results = d.results]
  <2>1. n \in Objects /\ n.phase = d.phase /\ n.jobID = d.jobID /\ n.retries = d.retries /\ n.results = d.results
    BY <1>2 DEF Objects
  <2>2. Written(o) = n
    BY <1>3 DEF Written
  <2> HIDE DEF n
  <2>3. obj' = [n EXCEPT !.rv = rev + 1]
    BY <2>1, <2>2, NoSuchObject DEF Store
  <2>4. obj'.phase = d.phase /\ obj'.jobID = d.jobID /\ obj'.retries = d.retries /\ obj'.results = d.results
    BY <1>1, <2>1, <2>3 DEF Objects
  <2>5. ReportFor(obj, d, job)
    BY <1>1, <1>3 DEF PodContract, Justified
  <2>6. ASSUME NEW x, x.phase = d.phase, x.jobID = d.jobID, x.retries = d.retries, x.results = d.results
        PROVE  ReportFor(obj, x, job)
    BY <2>5, <2>6, Zenon DEF ReportFor
  <2> QED
    BY <2>4, <2>6
<1>4. CASE rpc[o] = "add_finalizer"
  <2> DEFINE m == Defaulted(obj.maxRetries)
  <2>1. m \in Nat
    BY <1>2, RetryValues DEF Defaulted, Objects
  <2> HIDE DEF m
  <2> DEFINE n == [obj EXCEPT !.finalizer = TRUE, !.maxRetries = m]
  <2>2. n \in Objects /\ StatusOf(n) = StatusOf(obj)
    BY <1>2, <2>1 DEF Objects, StatusOf
  <2>3. Written(o) = n
    BY <1>4 DEF Written, m
  <2> HIDE DEF n
  <2>4. obj' = [n EXCEPT !.rv = rev + 1]
    BY <2>2, <2>3, NoSuchObject DEF Store
  <2> QED
    BY <1>1, <2>2, <2>4 DEF Objects, StatusOf
<1>5. CASE rpc[o] = "remove_finalizer"
  BY <1>5 DEF Written, Store, SameObject
<1> QED
  BY <1>3, <1>4, <1>5 DEF Writing

\* Steps of the users leave the status alone.
LEMMA UsersFollow ==
  ASSUME OperatorInv, UserCreates \/ UserEditsSpec \/ UserDeletes, SameObject
  PROVE  StatusOf(obj') = StatusOf(obj)
<1>1. obj \in Objects /\ obj # NoObj /\ rev + 1 \in Nat
  BY DEF OperatorInv, ObjInv, Published, Sound, SoundFor, SameObject, PlainInv
<1>2. PICK n \in Objects : Store(n) /\ StatusOf(n) = StatusOf(obj)
  <2>1. CASE UserCreates
    BY <1>1, <2>1 DEF UserCreates
  <2>2. CASE UserEditsSpec
    BY <1>1, <2>2, EditFacts DEF EditOf, StatusOf
  <2>3. CASE UserDeletes
    <3>1. obj.finalizer
      BY <2>3 DEF UserDeletes, Store, SameObject
    <3> DEFINE n == [obj EXCEPT !.deleting = TRUE]
    <3>2. n \in Objects /\ StatusOf(n) = StatusOf(obj)
      BY <1>1 DEF Objects, StatusOf
    <3>3. Store(n)
      BY <2>3, <3>1 DEF UserDeletes
    <3> QED
      BY <3>2, <3>3
  <2> QED
    BY <2>1, <2>2, <2>3
<1>3. obj' = [n EXCEPT !.rv = rev + 1]
  BY <1>2, NoSuchObject DEF Store
<1> QED
  BY <1>1, <1>2, <1>3 DEF Objects, StatusOf

\* Every retry is counted once and below the limit of the object at the time of the
\* write, and Failed is written when that limit is used up, for any limits and edits of
\* them between the read of a reconcile and its write.
THEOREM RetriesFollowLimitHolds == Spec => RetriesFollowLimit
<1>1. ASSUME OperatorInv, ContractInv, [Next]_vars, SameObject
      PROVE  FollowsLimit(obj, obj')
  <2>1. obj \in Objects
    BY <1>1 DEF OperatorInv, ObjInv, Published, Sound, SoundFor, SameObject
  <2>2. CASE obj' = obj
    BY <2>1, <2>2, ReportFollows
  <2>3. CASE UserCreates \/ UserEditsSpec \/ UserDeletes
    BY <1>1, <2>1, <2>3, UsersFollow, ReportFollows
  <2>4. ASSUME NEW o \in Operators, Writing(o), Current(o), Store(Written(o))
        PROVE  FollowsLimit(obj, obj')
    BY <1>1, <2>1, <2>4, WriteFollows, ReportFollows
  <2>5. ASSUME NEW o \in Operators
        PROVE  /\ WriteObject(o) \/ WriteFails(o) =>
                    obj' = obj \/ (Writing(o) /\ Current(o) /\ Store(Written(o)))
               /\ WatchEvent(o) \/ Reconcile(o) \/ HandlePending(o) \/ HandlePoll(o) \/ CancelBackendJob(o)
                    \/ HttpFails(o) \/ OperatorRestarts(o) => obj' = obj
    BY DEF WriteObject, WriteFails, WatchEvent, Reconcile, HandlePending, HandlePoll, CancelBackendJob,
           HttpFails, OperatorRestarts, k8sVars
  <2>6. CASE BackendAdvances \/ Settled \/ UNCHANGED vars
    BY <2>2, <2>6 DEF BackendAdvances, Settled, vars, k8sVars
  <2> QED
    BY <1>1, <2>2, <2>3, <2>4, <2>5, <2>6 DEF Next, OperatorStep
<1>2. OperatorInv /\ ContractInv /\ [Next]_vars =>
        [SameObject =>
           /\ obj'.retries # obj.retries =>
                obj'.retries = obj.retries + 1 /\ obj.retries < Defaulted(obj.maxRetries)
           /\ obj'.phase = "Failed" /\ obj.phase # "Failed" =>
                obj.retries >= Defaulted(obj.maxRetries)]_vars
  BY <1>1 DEF FollowsLimit
<1> QED
  BY <1>2, OperatorInvariant, ContractInvariant, PTL DEF Spec, RetriesFollowLimit

\* Any number of pods with stale caches, conflicts, faults and restarts implement the
\* one controller of BenchmarkJobContract.
THEOREM OperatorImplementsContract == Spec => ImplementsContract
<1>1. Init => Contract!Init
  BY ContractInit
<1>2. OperatorInv /\ ContractInv /\ [Next]_vars => [Contract!Next]_Contract!vars
  BY ContractSteps
<1> QED
  BY <1>1, <1>2, OperatorInvariant, ContractInvariant, PTL DEF Spec, ImplementsContract, Contract!Spec
=============================================================================
