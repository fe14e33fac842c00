--------------------------- MODULE LifecycleProofs ---------------------------
(***************************************************************************)
(* The backend implements BenchmarkLifecycle under the mapping JobView:    *)
(* every step of a handler or a worker is a step of the abstract backend   *)
(* or changes nothing that a client can see.                               *)
(***************************************************************************)
EXTENDS SettlementProofs, IdempotencyProofs

USE NullAssumption

-----------------------------------------------------------------------------
(* The rows as clients see them.                                           *)

\* What the view shows of a row is a job.
LEMMA JobRecord ==
  ASSUME NEW k \in Keys, NEW s \in Models, NEW t \in Lifecycle!Statuses, NEW f \in BOOLEAN
  PROVE  [key |-> k, spec |-> s, status |-> t, result |-> f] \in Lifecycle!Jobs
BY DEF Lifecycle!Jobs

\* A row that exists is a job of the abstract backend, and any other is none.
LEMMA ViewFacts ==
  ASSUME TypeOK, HandlerInv
  PROVE  /\ \A b \in Requests : status[b] = "none" => JobView[b] = Null
         /\ \A b \in Requests : status[b] # "none" =>
              /\ JobView[b] # Null
              /\ JobView[b].key = payload[b].key /\ JobView[b].spec = payload[b].gpu
              /\ JobView[b].status = status[b] /\ JobView[b].result = (result[b] # 0)
<1>1. \A b \in Requests : status[b] = "none" => JobView[b] = Null
  BY DEF JobView, RowExists
<1>2. ASSUME NEW b \in Requests, status[b] # "none"
      PROVE  JobView[b] = [key |-> payload[b].key, spec |-> payload[b].gpu,
                           status |-> status[b], result |-> result[b] # 0]
  BY <1>2 DEF JobView, RowExists
<1>3. ASSUME NEW b \in Requests, status[b] # "none"
      PROVE  /\ payload[b].key \in Keys /\ payload[b].gpu \in Models
             /\ status[b] \in Lifecycle!Statuses /\ (result[b] # 0) \in BOOLEAN
  <2>1. hpc[b] # "new"
    BY <1>3 DEF HandlerInv
  <2>2. payload[b] \in Payloads
    BY <2>1 DEF HandlerInv
  <2> QED
    BY <1>3, <2>2 DEF Payloads, TypeOK, BenchmarkStatus, Lifecycle!Statuses
<1>4. ASSUME NEW b \in Requests, status[b] # "none"
      PROVE  /\ JobView[b] # Null
             /\ JobView[b].key = payload[b].key /\ JobView[b].spec = payload[b].gpu
             /\ JobView[b].status = status[b] /\ JobView[b].result = (result[b] # 0)
  <2> DEFINE found == (result[b] # 0)
  <2>1. JobView[b] = [key |-> payload[b].key, spec |-> payload[b].gpu, status |-> status[b], result |-> found]
    BY <1>2, <1>4
  <2>2. /\ payload[b].key \in Keys /\ payload[b].gpu \in Models
        /\ status[b] \in Lifecycle!Statuses /\ found \in BOOLEAN
    BY <1>3, <1>4
  <2> HIDE DEF found
  <2>3. JobView[b] \in Lifecycle!Jobs
    BY <2>1, <2>2, JobRecord
  <2>4. /\ JobView[b].key = payload[b].key /\ JobView[b].spec = payload[b].gpu
        /\ JobView[b].status = status[b] /\ JobView[b].result = found
    BY <2>1
  <2> QED
    BY <2>3, <2>4, NullIsNoJob, Zenon DEF found
<1> QED
  BY <1>1, <1>4, Zenon

\* Two states show a row alike when they agree on its four columns.
LEMMA SameView ==
  ASSUME \A b \in Requests : /\ status'[b] = status[b]
                             /\ status[b] # "none" => payload'[b] = payload[b] /\ (result'[b] = result[b])
  PROVE  JobView' = JobView
BY DEF JobView, RowExists

-----------------------------------------------------------------------------
(* Handlers.                                                               *)

\* A commit is a Submit under a free key; every other step of a handler is invisible.
LEMMA ApiRefines ==
  ASSUME CarrierInv, KeyInv, SettledInv, NEW r \in Requests,
         PostBenchmark(r) \/ HandlerStep(r) \/ HandlerFails(r) \/ EnqueueUnacknowledged(r)
  PROVE  [Lifecycle!Next]_JobView
<1>0. /\ TypeOK /\ HandlerInv /\ RecheckInv /\ FreshInv
      /\ status \in [Requests -> BenchmarkStatus \union {"none"}]
      /\ payload \in [Requests -> Payloads \union {Null}]
  BY DEF CarrierInv, KeyInv, SettledInv, TypeOK
<1>1. Arrives(r) \/ Commits(r) \/ KeepsRows(r)
  BY <1>0, HandlerKinds
<1>2. result' = result
  BY <1>0, ApiTables DEF SameTables
<1>3. CASE Arrives(r)
  <2>1. status[r] = "none"
    BY <1>0, <1>3 DEF Arrives, HandlerInv
  <2>2. JobView' = JobView
    BY <1>0, <1>2, <1>3, <2>1, SameView DEF Arrives
  <2> QED
    BY <2>2
<1>4. CASE KeepsRows(r)
  BY <1>2, <1>4, SameView DEF KeepsRows
<1>5. CASE Commits(r)
  <2> DEFINE k == payload[r].key
             s == payload[r].gpu
  <2>1. status[r] = "none" /\ result[r] = 0 /\ payload[r] \in Payloads
    BY <1>0, <1>5 DEF Commits, HandlerInv, FreshInv
  <2>2. k \in Keys /\ s \in Models
    BY <2>1 DEF Payloads
  <2>3. JobView' = [JobView EXCEPT ![r] = [key |-> k, spec |-> s, status |-> "queued", result |-> FALSE]]
    <3>1. \A b \in Requests \ {r} : status'[b] = status[b]
      BY <1>0, <1>5 DEF Commits
    <3>2. status'[r] = "queued" /\ payload' = payload
      BY <1>0, <1>5 DEF Commits
    <3> QED
      BY <1>2, <2>1, <3>1, <3>2 DEF JobView, RowExists
  <2>4. ~Lifecycle!Exists(r)
    BY <1>0, <2>1, ViewFacts DEF Lifecycle!Exists
  <2>5. Lifecycle!WithKey(k) = {}
    <3>1. ASSUME NEW b \in Requests, Lifecycle!Exists(b) PROVE JobView[b].key # k
      <4>1. status[b] # "none"
        BY <1>0, <3>1, ViewFacts DEF Lifecycle!Exists
      <4> QED
        BY <1>0, <1>5, <4>1, ViewFacts DEF Commits
    <3> QED
      BY <3>1 DEF Lifecycle!WithKey
  <2>6. Lifecycle!Submit(r, k, s)
    BY <2>3, <2>4, <2>5 DEF Lifecycle!Submit
  <2> QED
    BY <2>2, <2>6 DEF Lifecycle!Next
<1> QED
  BY <1>1, <1>3, <1>4, <1>5

-----------------------------------------------------------------------------
(* Workers.                                                                *)

\* A record of the view after one of its last two fields changes.
LEMMA JobUpdate ==
  ASSUME NEW old, NEW k, NEW s, NEW t, NEW f, NEW u,
         old = [key |-> k, spec |-> s, status |-> t, result |-> f]
  PROVE  /\ [old EXCEPT !.status = u] = [key |-> k, spec |-> s, status |-> u, result |-> f]
         /\ [old EXCEPT !.result = u] = [key |-> k, spec |-> s, status |-> t, result |-> u]
OBVIOUS

\* A write to the status of a row is a write to the status of its view.
LEMMA StatusView ==
  ASSUME TypeOK, NEW b \in Requests, NEW v, v # "none", status[b] # "none",
         status' = [status EXCEPT ![b] = v], result' = result, payload' = payload
  PROVE  JobView' = [JobView EXCEPT ![b].status = v]
<1> DEFINE Row(x) == [key |-> payload[x].key, spec |-> payload[x].gpu,
                      status |-> status[x], result |-> result[x] # 0]
           new == [key |-> payload[b].key, spec |-> payload[b].gpu, status |-> v, result |-> result[b] # 0]
<1>1. \A x \in Requests : status'[x] = IF x = b THEN v ELSE status[x]
  BY DEF TypeOK
<1>2. JobView' = [x \in Requests |-> IF x = b THEN new ELSE JobView[x]]
  BY <1>1 DEF JobView, RowExists
<1>3. [JobView[b] EXCEPT !.status = v] = new
  <2>1. JobView[b] = Row(b)
    BY DEF JobView, RowExists
  <2> QED
    BY <2>1, JobUpdate
<1>4. JobView = [x \in Requests |-> JobView[x]]
  BY DEF JobView
<1> HIDE DEF new
<1> QED
  BY <1>2, <1>3, <1>4

\* A result appears in the view together with the status.
LEMMA ResultView ==
  ASSUME TypeOK, NEW b \in Requests, NEW a, a # 0, status[b] # "none",
         status' = [status EXCEPT ![b] = "completed"], result' = [result EXCEPT ![b] = a],
         payload' = payload
  PROVE  JobView' = [JobView EXCEPT ![b].status = "completed", ![b].result = TRUE]
<1> DEFINE Row(x) == [key |-> payload[x].key, spec |-> payload[x].gpu,
                      status |-> status[x], result |-> result[x] # 0]
           found == (a # 0)
           new == [key |-> payload[b].key, spec |-> payload[b].gpu, status |-> "completed", result |-> found]
<1>1. \A x \in Requests : /\ status'[x] = IF x = b THEN "completed" ELSE status[x]
                          /\ result'[x] = IF x = b THEN a ELSE result[x]
  BY DEF TypeOK
<1>2. JobView' = [x \in Requests |-> IF x = b THEN new ELSE JobView[x]]
  BY <1>1 DEF JobView, RowExists
<1>3. JobView[b] = Row(b)
  BY DEF JobView, RowExists
<1>4. found = TRUE
  OBVIOUS
<1> HIDE DEF found
<1> DEFINE before == (result[b] # 0)
           started == [JobView[b] EXCEPT !.status = "completed"]
<1>5. [started EXCEPT !.result = found] = new
  <2>1. JobView[b] = [key |-> payload[b].key, spec |-> payload[b].gpu, status |-> status[b], result |-> before]
    BY <1>3
  <2> HIDE DEF before
  <2>2. started = [key |-> payload[b].key, spec |-> payload[b].gpu, status |-> "completed", result |-> before]
    BY <2>1, JobUpdate
  <2> HIDE DEF started
  <2> QED
    BY <2>2, JobUpdate
<1>6. JobView = [x \in Requests |-> JobView[x]]
  BY DEF JobView
<1> HIDE DEF new
<1>7. [JobView EXCEPT ![b].status = "completed", ![b].result = found]
        = [JobView EXCEPT ![b] = [started EXCEPT !.result = found]]
  BY <1>6
<1>8. JobView' = [JobView EXCEPT ![b].status = "completed", ![b].result = found]
  BY <1>2, <1>5, <1>6, <1>7
<1> QED
  BY <1>4, <1>8, Zenon

\* The three writes of a worker are the three steps of a job; all else is invisible.
LEMMA WorkerRefines ==
  ASSUME CarrierInv, SettledInv, NEW w \in Workers, Dequeue(w) \/ WorkerStep(w) \/ WorkerDies(w)
  PROVE  [Lifecycle!Next]_JobView
<1>0. TypeOK /\ HandlerInv /\ MessageInv /\ RowInv /\ Exclusive /\ EndInv /\ RunInv
  BY DEF CarrierInv, SettledInv
<1>1. Starts(w) \/ Completes(w) \/ Fails(w) \/ (SameTables /\ Moves(w))
  BY <1>0, WorkerTables
<1>2. payload' = payload
  BY DEF WorkerStep, Dequeue, WorkerMarksRunning, MarkRunningFails, SelectEngine, RunEngine,
         NvidiaFails, WorkerCompletes, CompleteFails, HandleException, WorkerMarksFailed,
         WorkerDies, storeVars
<1>3. CASE SameTables
  BY <1>2, <1>3, SameView DEF SameTables
<1> DEFINE b == msg[w].id
<1>4. wpc[w] # "idle" => b \in Requests /\ msg[w].attempt \in Nat /\ status[b] # "none"
  BY <1>0, MessageFacts DEF RowInv
<1>5. wpc[w] # "idle" => JobView[b] # Null /\ JobView[b].status = status[b]
  BY <1>0, <1>4, ViewFacts
<1>6. wpc[w] # "idle" => status[b] \in {"queued", "running", "completed", "failed"}
  BY <1>0, <1>4 DEF TypeOK, BenchmarkStatus
\* A job that somebody holds or gives up is completed only if a commit was lost.
<1>7. wpc[w] # "idle" /\ status[b] = "completed" => ~Acknowledged
  BY <1>0, <1>4 DEF EndInv, NoWork, DeadLettered, Holding
<1>8. Holding(w) => status[b] # "failed"
  BY <1>0, <1>4 DEF EndInv, DeadLettered, Exclusive, Holding
<1>9. wpc[w] # "idle" /\ status[b] # "failed" => Lifecycle!Open(b)
  BY <1>5, <1>6, <1>7 DEF Lifecycle!Open, Lifecycle!Exists, Acknowledged
<1>10. CASE Starts(w)
  <2>1. wpc[w] # "idle" /\ Holding(w) /\ b \in Requests
    BY <1>4, <1>10 DEF Starts, Holding
  <2>2. JobView' = [JobView EXCEPT ![b].status = "running"]
    BY <1>0, <1>2, <1>4, <1>10, <2>1, StatusView DEF Starts
  <2>3. Lifecycle!Start(b)
    BY <1>8, <1>9, <2>1, <2>2 DEF Lifecycle!Start
  <2> QED
    BY <2>1, <2>3 DEF Lifecycle!Next, Lifecycle!Advance
<1>11. CASE Completes(w)
  <2>1. wpc[w] = "complete" /\ b \in Requests /\ status[b] = "running" /\ result[b] = 0
    BY <1>0, <1>4, <1>11 DEF Completes, RunInv
  <2>2. msg[w].attempt + 1 # 0
    BY <1>4, <2>1
  <2>3. JobView' = [JobView EXCEPT ![b].status = "completed", ![b].result = TRUE]
    BY <1>0, <1>2, <1>11, <2>1, <2>2, ResultView DEF Completes
  <2>4. JobView[b] # Null /\ JobView[b].status = "running" /\ ~JobView[b].result
    BY <1>0, <2>1, ViewFacts
  <2>5. Lifecycle!Finish(b)
    BY <2>3, <2>4 DEF Lifecycle!Finish, Lifecycle!Exists
  <2> QED
    BY <2>1, <2>5 DEF Lifecycle!Next, Lifecycle!Advance
<1>12. CASE Fails(w)
  <2>1. wpc[w] # "idle" /\ b \in Requests
    BY <1>4, <1>12 DEF Fails
  <2>2. JobView' = [JobView EXCEPT ![b].status = "failed"]
    BY <1>0, <1>2, <1>4, <1>12, <2>1, StatusView DEF Fails
  <2>3. CASE status[b] # "failed"
    <3>1. Lifecycle!Fail(b)
      BY <1>9, <2>1, <2>2, <2>3 DEF Lifecycle!Fail
    <3> QED
      BY <2>1, <3>1 DEF Lifecycle!Next, Lifecycle!Advance
  <2>4. CASE status[b] = "failed"
    <3>1. status' = status /\ result' = result
      BY <1>0, <1>12, <2>4 DEF Fails, TypeOK
    <3> QED
      BY <1>2, <3>1, SameView
  <2> QED
    BY <2>3, <2>4
<1> QED
  BY <1>1, <1>3, <1>10, <1>11, <1>12

-----------------------------------------------------------------------------

\* The backend implements the abstract job store that its clients rely on.
THEOREM BackendImplementsLifecycle == Spec => ImplementsLifecycle
<1>1. Init => Lifecycle!Init
  BY DEF Init, StoreInit, Lifecycle!Init, JobView, RowExists
<1>2. CarrierInv /\ KeyInv /\ SettledInv /\ [Next]_vars => [Lifecycle!Next]_JobView
  <2> SUFFICES ASSUME CarrierInv, KeyInv, SettledInv, [Next]_vars PROVE [Lifecycle!Next]_JobView
    OBVIOUS
  <2>1. ASSUME ApiNext PROVE [Lifecycle!Next]_JobView
    BY <2>1, ApiRefines DEF ApiNext
  <2>2. ASSUME WorkerNext PROVE [Lifecycle!Next]_JobView
    BY <2>2, WorkerRefines DEF WorkerNext
  <2>3. ASSUME UNCHANGED vars PROVE JobView' = JobView
    BY <2>3, SameView DEF vars, storeVars
  <2> QED
    BY <2>1, <2>2, <2>3 DEF Next, Quiescent
<1> QED
  BY <1>1, <1>2, CarrierInvariant, KeyInvariant, SettledInvariant, PTL DEF Spec, ImplementsLifecycle, Lifecycle!Spec
=============================================================================
