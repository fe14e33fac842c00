-------------------------- MODULE SettlementProofs --------------------------
(***************************************************************************)
(* How jobs end, for any number of requests and workers: the final states, *)
(* the retry limit, and that no job is lost while only engines fail.       *)
(***************************************************************************)
EXTENDS BenchmarkBackendProofs

USE MaxRetriesAssumption, NullAssumption
USE DEF ModelConflict, KeyTaken, InsertBenchmark, EndTransaction, KeyConflict, Pop, Retry, GiveUp

Acknowledged == "commit_lost" \notin Faults

\* Nobody will touch row b again.
NoWork(b) ==
  /\ hpc[b] # "enqueue"
  /\ \A i \in DOMAIN queue : queue[i].id # b
  /\ \A i \in DOMAIN dlq : dlq[i].id # b
  /\ \A w \in Workers : Holding(w) => msg[w].id # b

\* A row is failed only after its dead letter, and completed only with its result.
\* When commits are acknowledged, nothing of a row with a result is left anywhere.
EndInv ==
  /\ \A w \in Workers : wpc[w] = "mark_failed" => DeadLettered(msg[w].id)
  /\ \A b \in Requests : status[b] = "failed" => DeadLettered(b)
  /\ \A b \in Requests : status[b] = "completed" => result[b] # 0
  /\ Acknowledged => \A b \in Requests : result[b] # 0 => status[b] = "completed" /\ NoWork(b)

\* Between mark_running and complete_benchmark the row says so.
RunInv ==
  \A w \in Workers :
    wpc[w] \in {"select", "nvidia", "simulated", "complete"} => status[msg[w].id] = "running"

Within(n) == n <= MaxRetries \/ n <= 1

\* The attempt in a message is never behind the count in its row.
AttemptInv ==
  /\ \A b \in Requests : Within(attempts[b])
  /\ \A b \in Requests : status[b] = "none" \/ hpc[b] = "enqueue" => attempts[b] = 0
  /\ \A i \in DOMAIN queue :
       Within(queue[i].attempt + 1) /\ attempts[queue[i].id] <= queue[i].attempt
  /\ \A w \in Workers : Holding(w) =>
       Within(msg[w].attempt + 1) /\ attempts[msg[w].id] <= msg[w].attempt + 1
  /\ \A w \in Workers : wpc[w] = "mark_running" => attempts[msg[w].id] <= msg[w].attempt
  /\ Acknowledged => \A b \in Requests : result[b] # 0 => attempts[b] <= result[b]

FreshInv == \A b \in Requests : status[b] = "none" => result[b] = 0

SettledInv == EndInv /\ RunInv /\ AttemptInv /\ FreshInv

-----------------------------------------------------------------------------
(* What a step does to the tables.                                         *)

SameTables == status' = status /\ attempts' = attempts /\ result' = result

\* The step of a handler commits a row and does nothing else to the tables.
LEMMA ApiTables ==
  ASSUME TypeOK, HandlerInv, NEW r \in Requests,
         PostBenchmark(r) \/ HandlerStep(r) \/ HandlerFails(r) \/ EnqueueUnacknowledged(r)
  PROVE  \/ SameTables /\ (ApiKeeps(r) \/ ApiPushes(r))
         \/ /\ ApiCommits(r) /\ attempts' = attempts /\ result' = result
            /\ status' = [status EXCEPT ![r] = "queued"]
<1> USE DEF TypeOK, HandlerSteps, SameTables, SameLists, ApiKeeps, ApiCommits, ApiPushes
<1>1. CASE PostBenchmark(r)
  BY <1>1 DEF PostBenchmark, Answer, Goto, dbVars, redisVars
<1>2. CASE SelectGpuModel(r)
  BY <1>2 DEF SelectGpuModel, Goto, storeVars
<1>3. CASE FlushGpuModel(r)
  BY <1>3 DEF FlushGpuModel, Goto, storeVars
<1>4. CASE CommitBenchmark(r)
  <2>1. status[r] = "none"
    BY <1>4 DEF CommitBenchmark, HandlerInv
  <2> QED
    BY <1>4, <2>1 DEF CommitBenchmark, Goto, redisVars
<1>5. CASE RecheckKey(r)
  BY <1>5 DEF RecheckKey, Goto, Answer, storeVars
<1>6. CASE EnqueueBenchmark(r)
  BY <1>6 DEF EnqueueBenchmark, Enqueue, Goto, Answer, dbVars
<1>7. CASE HandlerFails(r)
  BY <1>7 DEF HandlerFails, Goto, storeVars
<1>8. CASE EnqueueUnacknowledged(r)
  BY <1>8 DEF EnqueueUnacknowledged, Enqueue, Goto, dbVars
<1>9. CASE RefuseValue(r)
  BY <1>9 DEF RefuseValue, Goto, storeVars
<1> QED
  BY <1>1, <1>2, <1>3, <1>4, <1>5, <1>6, <1>7, <1>8, <1>9 DEF HandlerStep

\* The three writes of a worker to the row of its job.
Starts(w) ==
  /\ wpc[w] = "mark_running" /\ SameLists /\ msg' = msg /\ result' = result
  /\ status' = [status EXCEPT ![msg[w].id] = "running"]
  /\ attempts' = [attempts EXCEPT ![msg[w].id] = @ + 1]
  /\ \E s \in {"select", "except"} : wpc' = [wpc EXCEPT ![w] = s]
Completes(w) ==
  /\ wpc[w] = "complete" /\ SameLists /\ attempts' = attempts
  /\ result[msg[w].id] = 0
  /\ status' = [status EXCEPT ![msg[w].id] = "completed"]
  /\ result' = [result EXCEPT ![msg[w].id] = msg[w].attempt + 1]
  /\ \/ Idle(w)
     \/ ~Acknowledged /\ msg' = msg /\ wpc' = [wpc EXCEPT ![w] = "except"]
Fails(w) ==
  /\ wpc[w] = "mark_failed" /\ WorkerLetsGo(w)
  /\ status' = [status EXCEPT ![msg[w].id] = "failed"]
  /\ attempts' = attempts /\ result' = result

\* Steps of a worker that write no row.
Proceeds(w) ==
  /\ SameLists /\ msg' = msg /\ Holding(w)
  /\ \/ wpc' = [wpc EXCEPT ![w] = "except"]
     \/ /\ wpc[w] \in {"select", "nvidia", "simulated"}
        /\ \E s \in {"nvidia", "simulated", "complete"} : wpc' = [wpc EXCEPT ![w] = s]
Moves(w) ==
  \/ Dequeue(w) \/ WorkerLetsGo(w) \/ WorkerGivesUp(w) \/ Proceeds(w)
  \/ WorkerRetries(w) /\ Retryable(msg[w])

\* Every step of a worker is one of these.
LEMMA WorkerTables ==
  ASSUME TypeOK, MessageInv, RowInv, NEW w \in Workers,
         Dequeue(w) \/ WorkerStep(w) \/ WorkerDies(w)
  PROVE  Starts(w) \/ Completes(w) \/ Fails(w) \/ (SameTables /\ Moves(w))
<1>0. /\ wpc \in [Workers -> WorkerSteps]
      /\ wpc[w] # "idle" => msg[w].id \in Requests /\ RowExists(msg[w].id)
  BY DEF TypeOK, MessageInv, RowInv, RowExists, Message
<1> USE DEF SameTables, SameLists, Moves, Holding
<1>1. CASE Dequeue(w)
  BY <1>1 DEF Dequeue, dbVars
<1>2. CASE WorkerMarksRunning(w)
  BY <1>0, <1>2 DEF WorkerMarksRunning, Step, MarkRunning, redisVars, Starts
<1>3. CASE MarkRunningFails(w)
  BY <1>0, <1>3 DEF MarkRunningFails, MarkRunning, Raise, redisVars, dbVars, Starts, Proceeds
<1>4. CASE SelectEngine(w)
  BY <1>4 DEF SelectEngine, storeVars, Proceeds
<1>5. CASE RunEngine(w)
  BY <1>5 DEF RunEngine, storeVars, Proceeds
<1>6. CASE NvidiaFails(w)
  BY <1>6 DEF NvidiaFails, Raise, storeVars, Proceeds
<1>7. CASE WorkerCompletes(w)
  BY <1>0, <1>7 DEF WorkerCompletes, CompleteBenchmark, Raise, redisVars, dbVars, Completes, Proceeds
<1>8. CASE CompleteFails(w)
  BY <1>0, <1>8 DEF CompleteFails, CompleteBenchmark, Raise, redisVars, dbVars, Completes, Proceeds, Acknowledged
<1>9. CASE HandleException(w)
  BY <1>9 DEF HandleException, WorkerRetries, WorkerGivesUp, dbVars
<1>10. CASE WorkerMarksFailed(w)
  BY <1>0, <1>10 DEF WorkerMarksFailed, MarkFailed, redisVars, dbVars, Fails, WorkerLetsGo
<1>11. CASE WorkerDies(w)
  BY <1>11 DEF WorkerDies, storeVars, WorkerLetsGo
<1> QED
  BY <1>1, <1>2, <1>3, <1>4, <1>5, <1>6, <1>7, <1>8, <1>9, <1>10, <1>11 DEF WorkerStep

-----------------------------------------------------------------------------
(* Handlers keep the invariant.                                            *)

\* Messages name requests and count attempts.
LEMMA MessageFacts ==
  ASSUME TypeOK, MessageInv
  PROVE  /\ \A i \in DOMAIN queue : queue[i].id \in Requests /\ queue[i].attempt \in Nat
         /\ \A i \in DOMAIN dlq : dlq[i].id \in Requests
         /\ \A w \in Workers : wpc[w] # "idle" => msg[w].id \in Requests /\ msg[w].attempt \in Nat
BY EntryFacts DEF TypeOK, MessageInv, Message

\* A commit starts a row with no attempts and no result, and a push its first message.
LEMMA ApiSettled ==
  ASSUME CarrierInv, SettledInv, UNCHANGED workerVars, NEW r \in Requests,
         PostBenchmark(r) \/ HandlerStep(r) \/ HandlerFails(r) \/ EnqueueUnacknowledged(r)
  PROVE  SettledInv'
<1>0. TypeOK /\ HandlerInv /\ MessageInv /\ RowInv /\ EndInv /\ RunInv /\ AttemptInv /\ FreshInv
  BY DEF CarrierInv, SettledInv
<1>e. EndInv
  BY <1>0
<1>r. RunInv /\ FreshInv
  BY <1>0
<1>t. AttemptInv
  BY <1>0
<1>1. /\ hpc \in [Requests -> HandlerSteps] /\ attempts \in [Requests -> Nat]
      /\ status \in [Requests -> BenchmarkStatus \union {"none"}]
      /\ queue \in Seq(Message)
      /\ wpc' = wpc /\ msg' = msg
  BY <1>0 DEF TypeOK, workerVars
<1>2. /\ \A i \in DOMAIN queue : queue[i].id \in Requests /\ queue[i].attempt \in Nat
      /\ \A i \in DOMAIN dlq : dlq[i].id \in Requests
      /\ \A w \in Workers : wpc[w] # "idle" => msg[w].id \in Requests /\ msg[w].attempt \in Nat
  BY <1>0, MessageFacts
<1> USE DEF EndInv, RunInv, AttemptInv, FreshInv, Holding, NoWork, DeadLettered, Within
<1>3. CASE SameTables /\ ApiKeeps(r)
  <2>1. EndInv'
    BY <1>e, <1>1, <1>3, SMTT(30) DEF SameTables, ApiKeeps, SameLists
  <2>2. RunInv' /\ FreshInv'
    BY <1>r, <1>1, <1>3, SMTT(30) DEF SameTables, ApiKeeps, SameLists
  <2>3. AttemptInv'
    BY <1>t, <1>1, <1>3, SMTT(30) DEF SameTables, ApiKeeps, SameLists
  <2> QED
    BY <2>1, <2>2, <2>3 DEF SettledInv
<1>4. CASE /\ ApiCommits(r) /\ attempts' = attempts /\ result' = result
           /\ status' = [status EXCEPT ![r] = "queued"]
  <2>1. SameLists /\ status[r] = "none" /\ result[r] = 0 /\ attempts[r] = 0
    BY <1>0, <1>4 DEF ApiCommits
  <2>2. EndInv'
    BY <1>e, <1>1, <1>4, <2>1 DEF ApiCommits, SameLists
  <2>3. RunInv'
    BY <1>0, <1>1, <1>2, <1>4, <2>1 DEF RowInv
  <2>4. AttemptInv' /\ FreshInv'
    BY <1>r, <1>t, <1>1, <1>4, <2>1 DEF ApiCommits, SameLists
  <2> QED
    BY <2>2, <2>3, <2>4 DEF SettledInv
<1>5. CASE SameTables /\ ApiPushes(r)
  <2> DEFINE m == [id |-> r, attempt |-> 0]
  <2>1. m \in Message /\ m.id = r /\ m.attempt = 0
    BY DEF Message
  <2>2. \A i \in DOMAIN queue' : \/ i \in DOMAIN queue /\ queue'[i] = queue[i]
                                 \/ i = Len(queue) + 1 /\ queue'[i] = m
    BY <1>1, <1>5, <2>1, PushCases DEF ApiPushes
  <2>3. /\ dlq' = dlq /\ hpc[r] = "enqueue" /\ hpc'[r] # "enqueue" /\ attempts[r] = 0
        /\ \A q \in Requests \ {r} : hpc'[q] = hpc[q]
    BY <1>0, <1>1, <1>5 DEF ApiPushes
  <2> HIDE DEF m
  <2>4. EndInv'
    BY <1>e, <1>1, <1>5, <2>1, <2>2, <2>3 DEF SameTables
  <2>5. RunInv' /\ FreshInv'
    BY <1>r, <1>1, <1>5 DEF SameTables
  <2>6. AttemptInv'
    BY <1>t, <1>1, <1>2, <1>5, <2>1, <2>2, <2>3, SMTT(30) DEF SameTables
  <2> QED
    BY <2>4, <2>5, <2>6 DEF SettledInv
<1> QED
  BY <1>0, <1>3, <1>4, <1>5, ApiTables

-----------------------------------------------------------------------------
(* Workers keep it.                                                        *)

\* A write to the row of its job: nobody else has that job, so nothing that is known
\* of another message is about this row.
LEMMA WorkerWritesSettled ==
  ASSUME CarrierInv, SettledInv, UNCHANGED apiVars, NEW w \in Workers,
         Starts(w) \/ Completes(w) \/ Fails(w)
  PROVE  SettledInv'
<1>0. /\ TypeOK /\ MessageInv /\ RowInv /\ Exclusive /\ EndInv /\ RunInv /\ AttemptInv /\ FreshInv
      /\ hpc' = hpc
  BY DEF CarrierInv, SettledInv, apiVars
<1>e. EndInv
  BY <1>0
<1>r. RunInv
  BY <1>0
<1>t. AttemptInv
  BY <1>0
<1>f. FreshInv
  BY <1>0
<1>x. Exclusive
  BY <1>0
<1>h. hpc' = hpc
  BY <1>0
<1>1. /\ attempts \in [Requests -> Nat] /\ result \in [Requests -> Nat]
      /\ status \in [Requests -> BenchmarkStatus \union {"none"}]
      /\ wpc \in [Workers -> WorkerSteps] /\ msg \in [Workers -> Message \union {Null}]
  BY <1>0 DEF TypeOK
<1>2. /\ \A i \in DOMAIN queue : queue[i].id \in Requests /\ queue[i].attempt \in Nat
      /\ \A i \in DOMAIN dlq : dlq[i].id \in Requests
      /\ \A v \in Workers : wpc[v] # "idle" => msg[v].id \in Requests /\ msg[v].attempt \in Nat
  BY <1>0, MessageFacts
<1> DEFINE b == msg[w].id
<1>3. b \in Requests /\ msg[w].attempt \in Nat /\ wpc[w] # "idle" /\ queue' = queue /\ dlq' = dlq
  BY <1>2 DEF Starts, Completes, Fails, WorkerLetsGo, SameLists
<1>4. status[b] # "none"
  BY <1>0, <1>3 DEF RowInv
<1>5. Holding(w) => /\ \A i \in DOMAIN queue : queue[i].id # b
                    /\ \A i \in DOMAIN dlq : dlq[i].id # b
                    /\ \A v \in Workers : Holding(v) /\ msg[v].id = b => v = w
                    /\ hpc[b] # "enqueue"
  BY <1>0 DEF Exclusive
<1> USE DEF EndInv, RunInv, AttemptInv, FreshInv, Holding, NoWork, DeadLettered, Within
<1>6. CASE Starts(w)
  <2>1. /\ Holding(w) /\ msg' = msg /\ result' = result
        /\ status'[b] = "running" /\ attempts'[b] = attempts[b] + 1
        /\ \A x \in Requests \ {b} : status'[x] = status[x] /\ attempts'[x] = attempts[x]
        /\ wpc'[w] \in {"select", "except"} /\ \A v \in Workers \ {w} : wpc'[v] = wpc[v]
        /\ attempts[b] <= msg[w].attempt /\ Within(msg[w].attempt + 1)
    BY <1>t, <1>1, <1>3, <1>6 DEF Starts
  <2>2. Acknowledged => result[b] = 0
    BY <1>e, <1>3, <2>1
  <2> HIDE DEF b
  <2>3. EndInv'
    <3>1. \A x \in Requests : DeadLettered(x)' <=> DeadLettered(x)
      BY <1>3
    <3>2. \A v \in Workers : wpc'[v] = "mark_failed" => wpc[v] = "mark_failed" /\ msg'[v] = msg[v]
      BY <2>1
    <3>3. \A v \in Workers : wpc'[v] = "mark_failed" => DeadLettered(msg[v].id)'
      BY <1>e, <1>3, <3>2
    <3>4. \A x \in Requests : status'[x] = "failed" => DeadLettered(x)'
      BY <1>e, <2>1, <3>1
    <3>5. \A x \in Requests : status'[x] = "completed" => result'[x] # 0
      BY <1>e, <2>1
    <3>6. ASSUME Acknowledged, NEW x \in Requests, result'[x] # 0
          PROVE  status'[x] = "completed" /\ NoWork(x)'
      <4>1. x # b /\ status[x] = "completed" /\ NoWork(x)
        BY <1>e, <2>1, <2>2, <3>6
      <4>2. \A v \in Workers : Holding(v)' => Holding(v)
        BY <2>1
      <4> QED
        BY <1>h, <1>3, <2>1, <4>1, <4>2
    <3> QED
      BY <3>3, <3>4, <3>5, <3>6
  <2>4. RunInv' /\ FreshInv'
    BY <1>r, <1>f, <1>2, <1>3, <1>4, <2>1 DEF b
  <2>5. AttemptInv'
    <3>1. Within(attempts'[b])
      BY <1>1, <1>3, <2>1
    <3>2. /\ \A x \in Requests : Within(attempts'[x])
          /\ \A x \in Requests : status'[x] = "none" \/ hpc'[x] = "enqueue" => attempts'[x] = 0
      BY <1>t, <1>h, <1>5, <2>1, <3>1
    <3>3. \A i \in DOMAIN queue' :
            Within(queue'[i].attempt + 1) /\ attempts'[queue'[i].id] <= queue'[i].attempt
      BY <1>t, <1>2, <1>3, <1>5, <2>1
    <3>4. \A v \in Workers : Holding(v)' =>
            Within(msg'[v].attempt + 1) /\ attempts'[msg'[v].id] <= msg'[v].attempt + 1
      <4> SUFFICES ASSUME NEW v \in Workers, Holding(v)'
                   PROVE  Within(msg'[v].attempt + 1) /\ attempts'[msg'[v].id] <= msg'[v].attempt + 1
        OBVIOUS
      <4>1. CASE v = w
        BY <1>1, <1>3, <2>1, <4>1 DEF b
      <4>2. CASE v # w
        BY <1>t, <1>2, <1>5, <2>1, <4>2
      <4> QED
        BY <4>1, <4>2
    <3>5. \A v \in Workers : wpc'[v] = "mark_running" => attempts'[msg'[v].id] <= msg'[v].attempt
      BY <1>t, <1>2, <1>5, <2>1
    <3>6. Acknowledged => \A x \in Requests : result'[x] # 0 => attempts'[x] <= result'[x]
      BY <1>t, <2>1, <2>2
    <3> QED
      BY <3>2, <3>3, <3>4, <3>5, <3>6
  <2> QED
    BY <2>3, <2>4, <2>5 DEF SettledInv
<1>7. CASE Completes(w)
  <2>1. /\ Holding(w) /\ attempts' = attempts /\ (msg'[w] = msg[w] \/ wpc'[w] = "idle")
        /\ status'[b] = "completed" /\ result'[b] = msg[w].attempt + 1
        /\ \A x \in Requests \ {b} : status'[x] = status[x] /\ result'[x] = result[x]
        /\ wpc'[w] \in {"idle", "except"} /\ (Acknowledged => wpc'[w] = "idle")
        /\ \A v \in Workers \ {w} : wpc'[v] = wpc[v] /\ msg'[v] = msg[v]
    BY <1>1, <1>3, <1>7 DEF Completes, Idle
  <2>2. result'[b] # 0
    <3>1. result'[b] = msg[w].attempt + 1
      BY <2>1
    <3>2. msg[w].attempt \in Nat
      BY <1>3
    <3>3. \A n \in Nat : n + 1 # 0
      OBVIOUS
    <3> QED
      BY <3>1, <3>2, <3>3, Zenon
  <2> HIDE DEF b
  <2>3. EndInv'
    <3>1. \A x \in Requests : DeadLettered(x)' <=> DeadLettered(x)
      BY <1>3
    <3>2. \A v \in Workers : wpc'[v] = "mark_failed" => v # w /\ wpc[v] = "mark_failed" /\ msg'[v] = msg[v]
      BY <2>1
    <3>3. ASSUME NEW v \in Workers, wpc'[v] = "mark_failed"
          PROVE  DeadLettered(msg[v].id)'
      BY <1>e, <1>3, <3>2, <3>3
    <3>4. \A x \in Requests : status'[x] = "failed" => DeadLettered(x)'
      BY <1>e, <2>1, <3>1
    <3>5. \A x \in Requests : status'[x] = "completed" => result'[x] # 0
      BY <1>e, <2>1, <2>2
    <3>6. ASSUME Acknowledged, NEW x \in Requests, result'[x] # 0
          PROVE  status'[x] = "completed" /\ NoWork(x)'
      <4>1. CASE x = b
        BY <1>h, <1>3, <1>5, <2>1, <3>6, <4>1
      <4>2. CASE x # b
        <5>1. status'[x] = "completed" /\ NoWork(x)
          BY <1>e, <2>1, <3>6, <4>2
        <5>2. \A v \in Workers : Holding(v)' => v # w
          BY <2>1, <3>6
        <5> QED
          BY <1>h, <1>3, <2>1, <5>1, <5>2
      <4> QED
        BY <4>1, <4>2
    <3> QED
      BY <3>3, <3>4, <3>5, <3>6
  <2>4. RunInv' /\ FreshInv'
    <3>1. RunInv'
      <4> SUFFICES ASSUME NEW v \in Workers, wpc'[v] \in {"select", "nvidia", "simulated", "complete"}
                   PROVE  status'[msg'[v].id] = "running"
        OBVIOUS
      <4>1. v # w /\ wpc[v] = wpc'[v] /\ msg'[v] = msg[v]
        BY <2>1
      <4>2. Holding(v) /\ status[msg[v].id] = "running" /\ msg[v].id \in Requests
        BY <1>r, <1>2, <4>1
      <4>3. msg[v].id # b
        BY <1>5, <2>1, <4>1, <4>2
      <4> QED
        BY <2>1, <4>1, <4>2, <4>3
    <3>2. FreshInv'
      BY <1>f, <1>4, <2>1
    <3> QED
      BY <3>1, <3>2
  <2>5. AttemptInv'
    <3>1. \A v \in Workers : Holding(v)' => Holding(v) /\ msg'[v] = msg[v]
      BY <2>1
    <3>2. \A v \in Workers : wpc'[v] = "mark_running" => wpc[v] = "mark_running" /\ msg'[v] = msg[v]
      BY <2>1
    <3>3. attempts[b] <= msg[w].attempt + 1
      BY <1>t, <2>1 DEF b
    <3>4. Acknowledged => \A x \in Requests : result'[x] # 0 => attempts[x] <= result'[x]
      BY <1>t, <2>1, <3>3
    <3>5. \A x \in Requests : status'[x] = "none" => status[x] = "none"
      BY <2>1
    <3>6. \A i \in DOMAIN queue' : Within(queue'[i].attempt + 1) /\ attempts'[queue'[i].id] <= queue'[i].attempt
      BY <1>t, <1>3, <2>1
    <3>7. \A v \in Workers : Holding(v)' =>
            Within(msg'[v].attempt + 1) /\ attempts'[msg'[v].id] <= msg'[v].attempt + 1
      BY <1>t, <2>1, <3>1
    <3>8. \A v \in Workers : wpc'[v] = "mark_running" => attempts'[msg'[v].id] <= msg'[v].attempt
      BY <1>t, <2>1, <3>2
    <3>9. /\ \A x \in Requests : Within(attempts'[x])
          /\ \A x \in Requests : status'[x] = "none" \/ hpc'[x] = "enqueue" => attempts'[x] = 0
      BY <1>t, <1>h, <2>1, <3>5
    <3> QED
      BY <2>1, <3>4, <3>6, <3>7, <3>8, <3>9
  <2> QED
    BY <2>3, <2>4, <2>5 DEF SettledInv
<1>8. CASE Fails(w)
  <2>1. /\ attempts' = attempts /\ result' = result /\ DeadLettered(b)
        /\ status'[b] = "failed" /\ \A x \in Requests \ {b} : status'[x] = status[x]
        /\ wpc'[w] = "idle" /\ \A v \in Workers \ {w} : wpc'[v] = wpc[v] /\ msg'[v] = msg[v]
    <3>1. wpc[w] = "mark_failed" => DeadLettered(b)
      BY <1>e
    <3>2. DeadLettered(b)
      BY <1>8, <3>1 DEF Fails
    <3>3. /\ attempts' = attempts /\ result' = result
          /\ status'[b] = "failed" /\ \A x \in Requests \ {b} : status'[x] = status[x]
      BY <1>1, <1>3, <1>8 DEF Fails
    <3>4. wpc'[w] = "idle" /\ \A v \in Workers \ {w} : wpc'[v] = wpc[v] /\ msg'[v] = msg[v]
      BY <1>1, <1>8 DEF Fails, WorkerLetsGo, Idle
    <3> QED
      BY <3>2, <3>3, <3>4
  <2>2. Acknowledged => result[b] = 0
    BY <1>e, <1>3, <2>1
  <2>x. \A j \in DOMAIN dlq, v \in Workers : Holding(v) => dlq[j].id # msg[v].id
    BY <1>x DEF Exclusive
  <2>3. \A v \in Workers : Holding(v) => msg[v].id # b
    <3>1. PICK j \in DOMAIN dlq : dlq[j].id = b
      BY <2>1
    <3> HIDE DEF b, Holding
    <3> QED
      BY <2>x, <3>1
  <2> HIDE DEF b
  <2>4. EndInv'
    <3>1. \A x \in Requests : DeadLettered(x)' <=> DeadLettered(x)
      BY <1>3
    <3>2. \A v \in Workers : wpc'[v] = "mark_failed" => wpc[v] = "mark_failed" /\ msg'[v] = msg[v]
      BY <2>1
    <3>3. \A v \in Workers : wpc'[v] = "mark_failed" => DeadLettered(msg[v].id)'
      BY <1>e, <1>3, <3>2
    <3>4. ASSUME NEW x \in Requests, status'[x] = "failed"
          PROVE  DeadLettered(x)'
      <4>1. DeadLettered(x)
        BY <1>e, <2>1, <3>4, SMTT(30)
      <4> QED
        BY <3>1, <4>1
    <3>5. \A x \in Requests : status'[x] = "completed" => result'[x] # 0
      BY <1>e, <2>1
    <3>6. ASSUME Acknowledged, NEW x \in Requests, result'[x] # 0
          PROVE  status'[x] = "completed" /\ NoWork(x)'
      <4>1. x # b /\ status[x] = "completed" /\ NoWork(x)
        BY <1>e, <2>1, <2>2, <3>6
      <4>2. \A v \in Workers : Holding(v)' => Holding(v) /\ msg'[v] = msg[v]
        BY <2>1
      <4> QED
        BY <1>h, <1>3, <2>1, <4>1, <4>2
    <3> QED
      BY <3>3, <3>4, <3>5, <3>6
  <2>5. RunInv' /\ FreshInv'
    <3>1. RunInv'
      <4> SUFFICES ASSUME NEW v \in Workers, wpc'[v] \in {"select", "nvidia", "simulated", "complete"}
                   PROVE  status'[msg'[v].id] = "running"
        OBVIOUS
      <4>1. wpc[v] = wpc'[v] /\ msg'[v] = msg[v]
        BY <2>1
      <4>2. msg[v].id # b /\ status[msg[v].id] = "running" /\ msg[v].id \in Requests
        BY <1>r, <1>2, <2>3, <4>1
      <4> QED
        BY <2>1, <4>1, <4>2
    <3>2. FreshInv'
      BY <1>f, <2>1
    <3> QED
      BY <3>1, <3>2
  <2>6. AttemptInv'
    BY <1>t, <1>h, <1>3, <1>4, <2>1
  <2> QED
    BY <2>4, <2>5, <2>6 DEF SettledInv
<1> QED
  BY <1>6, <1>7, <1>8

\* A move of its job: the next message counts one attempt more, within the limit, and
\* a dead letter is pushed before the row can be failed.
LEMMA WorkerMovesSettled ==
  ASSUME CarrierInv, SettledInv, UNCHANGED apiVars, NEW w \in Workers, SameTables, Moves(w)
  PROVE  SettledInv'
<1>0. /\ TypeOK /\ MessageInv /\ RowInv /\ EndInv /\ RunInv /\ AttemptInv /\ FreshInv
      /\ hpc' = hpc /\ status' = status /\ attempts' = attempts /\ result' = result
  BY DEF CarrierInv, SettledInv, apiVars, SameTables
<1>1. /\ attempts \in [Requests -> Nat] /\ queue \in Seq(Message) /\ dlq \in Seq(Message)
      /\ wpc \in [Workers -> WorkerSteps] /\ msg \in [Workers -> Message \union {Null}]
  BY <1>0 DEF TypeOK
<1>2. /\ \A i \in DOMAIN queue : queue[i].id \in Requests /\ queue[i].attempt \in Nat
      /\ \A v \in Workers : wpc[v] # "idle" => msg[v].id \in Requests /\ msg[v].attempt \in Nat
  BY <1>0, MessageFacts
<1>3. FreshInv'
  BY <1>0 DEF FreshInv
<1>e. \A v \in Workers : wpc[v] = "mark_failed" => DeadLettered(msg[v].id)
  BY <1>0 DEF EndInv
<1>r. \A v \in Workers : wpc[v] \in {"select", "nvidia", "simulated", "complete"} =>
        status'[msg[v].id] = "running"
  BY <1>0 DEF RunInv
<1>q. \A i \in DOMAIN queue : Within(queue[i].attempt + 1) /\ attempts[queue[i].id] <= queue[i].attempt
  BY <1>0 DEF AttemptInv
<1>m. \A v \in Workers : Holding(v) =>
        Within(msg[v].attempt + 1) /\ attempts[msg[v].id] <= msg[v].attempt + 1
  BY <1>0 DEF AttemptInv
<1>n. \A v \in Workers : wpc[v] = "mark_running" => attempts[msg[v].id] <= msg[v].attempt
  BY <1>0 DEF AttemptInv
<1>E. ASSUME \A v \in Workers : wpc'[v] = "mark_failed" => DeadLettered(msg[v].id)',
             \A x \in Requests : DeadLettered(x) => DeadLettered(x)',
             \A x \in Requests : NoWork(x) => NoWork(x)'
      PROVE  EndInv'
  <2>1. /\ \A x \in Requests : status'[x] = "failed" => DeadLettered(x)
        /\ \A x \in Requests : status'[x] = "completed" => result'[x] # 0
        /\ Acknowledged => \A x \in Requests : result'[x] # 0 => status'[x] = "completed" /\ NoWork(x)
    BY <1>0 DEF EndInv
  <2> QED
    BY <1>E, <2>1 DEF EndInv
<1>A. ASSUME \A i \in DOMAIN queue' : Within(queue'[i].attempt + 1) /\ attempts[queue'[i].id] <= queue'[i].attempt,
             \A v \in Workers : Holding(v)' =>
               Within(msg'[v].attempt + 1) /\ attempts[msg'[v].id] <= msg'[v].attempt + 1,
             \A v \in Workers : wpc'[v] = "mark_running" => attempts[msg'[v].id] <= msg'[v].attempt
      PROVE  AttemptInv'
  <2>1. /\ \A x \in Requests : Within(attempts[x])
        /\ \A x \in Requests : status'[x] = "none" \/ hpc'[x] = "enqueue" => attempts[x] = 0
        /\ Acknowledged => \A x \in Requests : result'[x] # 0 => attempts[x] <= result'[x]
    BY <1>0 DEF AttemptInv
  <2>2. attempts' = attempts
    BY <1>0
  <2> QED
    BY <1>A, <2>1, <2>2 DEF AttemptInv, Within
<1>h. hpc' = hpc
  BY <1>0
<1>4. CASE WorkerLetsGo(w)
  <2>1. /\ queue' = queue /\ dlq' = dlq /\ wpc'[w] = "idle"
        /\ \A v \in Workers \ {w} : wpc'[v] = wpc[v] /\ msg'[v] = msg[v]
    BY <1>1, <1>4 DEF WorkerLetsGo, SameLists, Idle
  <2>2. \A v \in Workers : wpc'[v] # "idle" => wpc'[v] = wpc[v] /\ msg'[v] = msg[v]
    BY <2>1
  <2>3. \A v \in Workers : Holding(v)' => Holding(v) /\ msg'[v] = msg[v]
    BY <2>2 DEF Holding
  <2>4. EndInv'
    <3>1. \A v \in Workers : wpc'[v] = "mark_failed" => DeadLettered(msg[v].id)'
      BY <1>e, <2>1, <2>2 DEF DeadLettered
    <3>2. \A x \in Requests : DeadLettered(x) => DeadLettered(x)'
      BY <2>1 DEF DeadLettered
    <3>3. \A x \in Requests : NoWork(x) => NoWork(x)'
      BY <1>h, <2>1, <2>3 DEF NoWork
    <3> QED
      BY <1>E, <3>1, <3>2, <3>3
  <2>5. RunInv'
    BY <1>r, <2>2 DEF RunInv
  <2>6. AttemptInv'
    <3>1. \A i \in DOMAIN queue' : Within(queue'[i].attempt + 1) /\ attempts[queue'[i].id] <= queue'[i].attempt
      BY <1>q, <2>1
    <3>2. \A v \in Workers : Holding(v)' =>
            Within(msg'[v].attempt + 1) /\ attempts[msg'[v].id] <= msg'[v].attempt + 1
      BY <1>m, <2>3
    <3>3. \A v \in Workers : wpc'[v] = "mark_running" => attempts[msg'[v].id] <= msg'[v].attempt
      BY <1>n, <2>2
    <3> QED
      BY <1>A, <3>1, <3>2, <3>3
  <2> QED
    BY <1>3, <2>4, <2>5, <2>6 DEF SettledInv
<1>5. CASE Proceeds(w)
  <2>1. /\ queue' = queue /\ dlq' = dlq /\ msg' = msg /\ Holding(w)
        /\ wpc'[w] \in {"nvidia", "simulated", "complete", "except"}
        /\ wpc'[w] # "except" => wpc[w] \in {"select", "nvidia", "simulated"}
        /\ \A v \in Workers \ {w} : wpc'[v] = wpc[v]
    BY <1>1, <1>5 DEF Proceeds, SameLists
  <2>2. /\ \A v \in Workers : wpc'[v] = "mark_failed" => wpc[v] = "mark_failed"
        /\ \A v \in Workers : wpc'[v] = "mark_running" => wpc[v] = "mark_running"
        /\ \A v \in Workers : wpc'[v] \in {"select", "nvidia", "simulated", "complete"} =>
             wpc[v] \in {"select", "nvidia", "simulated", "complete"}
    BY <2>1
  <2>3. \A v \in Workers : Holding(v)' => Holding(v)
    BY <2>1 DEF Holding
  <2>4. EndInv'
    <3>1. \A v \in Workers : wpc'[v] = "mark_failed" => DeadLettered(msg[v].id)'
      BY <1>e, <2>1, <2>2 DEF DeadLettered
    <3>2. \A x \in Requests : DeadLettered(x) => DeadLettered(x)'
      BY <2>1 DEF DeadLettered
    <3>3. \A x \in Requests : NoWork(x) => NoWork(x)'
      BY <1>h, <2>1, <2>3 DEF NoWork
    <3> QED
      BY <1>E, <3>1, <3>2, <3>3
  <2>5. RunInv'
    BY <1>r, <2>1, <2>2 DEF RunInv
  <2>6. AttemptInv'
    <3>1. \A i \in DOMAIN queue' : Within(queue'[i].attempt + 1) /\ attempts[queue'[i].id] <= queue'[i].attempt
      BY <1>q, <2>1
    <3>2. \A v \in Workers : Holding(v)' =>
            Within(msg'[v].attempt + 1) /\ attempts[msg'[v].id] <= msg'[v].attempt + 1
      BY <1>m, <2>1, <2>3
    <3>3. \A v \in Workers : wpc'[v] = "mark_running" => attempts[msg'[v].id] <= msg'[v].attempt
      BY <1>n, <2>1, <2>2
    <3> QED
      BY <1>A, <3>1, <3>2, <3>3
  <2> QED
    BY <1>3, <2>4, <2>5, <2>6 DEF SettledInv
<1>6. CASE Dequeue(w)
  <2>1. /\ 1 \in DOMAIN queue /\ msg'[w] = queue[1] /\ wpc'[w] = "mark_running" /\ dlq' = dlq
        /\ \A i \in DOMAIN queue' : i + 1 \in DOMAIN queue /\ queue'[i] = queue[i + 1]
        /\ \A v \in Workers \ {w} : wpc'[v] = wpc[v] /\ msg'[v] = msg[v]
    BY <1>1, <1>6, TailFacts DEF Dequeue, Step
  <2>2. \A v \in Workers : wpc'[v] # "mark_running" => wpc'[v] = wpc[v] /\ msg'[v] = msg[v]
    BY <2>1
  <2>3. \A v \in Workers : v = w \/ (Holding(v)' => Holding(v) /\ msg'[v] = msg[v])
    BY <2>1 DEF Holding
  <2>4. EndInv'
    <3>1. \A v \in Workers : wpc'[v] = "mark_failed" => DeadLettered(msg[v].id)'
      BY <1>e, <2>1, <2>2 DEF DeadLettered
    <3>2. \A x \in Requests : DeadLettered(x) => DeadLettered(x)'
      BY <2>1 DEF DeadLettered
    <3>3. ASSUME NEW x \in Requests, NoWork(x)
          PROVE  NoWork(x)'
      <4>1. \A v \in Workers : Holding(v)' => msg'[v].id # x
        BY <2>1, <2>3, <3>3 DEF NoWork
      <4>2. \A i \in DOMAIN queue' : queue'[i].id # x
        BY <2>1, <3>3 DEF NoWork
      <4> QED
        BY <1>h, <2>1, <3>3, <4>1, <4>2 DEF NoWork
    <3> QED
      BY <1>E, <3>1, <3>2, <3>3
  <2>5. RunInv'
    BY <1>r, <2>2 DEF RunInv
  <2>6. AttemptInv'
    <3>1. Within(msg'[w].attempt + 1) /\ attempts[msg'[w].id] <= msg'[w].attempt
      BY <1>q, <2>1
    <3>2. attempts[msg'[w].id] <= msg'[w].attempt + 1
      BY <1>1, <1>2, <2>1, <3>1, SMTT(30)
    <3>3. \A i \in DOMAIN queue' : Within(queue'[i].attempt + 1) /\ attempts[queue'[i].id] <= queue'[i].attempt
      BY <1>q, <2>1
    <3>4. \A v \in Workers : Holding(v)' =>
            Within(msg'[v].attempt + 1) /\ attempts[msg'[v].id] <= msg'[v].attempt + 1
      BY <1>m, <2>3, <3>1, <3>2
    <3>5. \A v \in Workers : wpc'[v] = "mark_running" => attempts[msg'[v].id] <= msg'[v].attempt
      BY <1>n, <2>1, <3>1
    <3> QED
      BY <1>A, <3>3, <3>4, <3>5
  <2> QED
    BY <1>3, <2>4, <2>5, <2>6 DEF SettledInv
<1>7. CASE WorkerGivesUp(w)
  <2>1. /\ Holding(w) /\ msg[w] \in Message /\ queue' = queue /\ msg' = msg
        /\ dlq' = Append(dlq, msg[w])
        /\ wpc'[w] = "mark_failed" /\ \A v \in Workers \ {w} : wpc'[v] = wpc[v]
    <3>1. MessageInv
      BY <1>0
    <3> QED
      BY <1>1, <1>7, <3>1 DEF WorkerGivesUp, MoveToDlq, MessageInv, Holding
  <2>2. /\ \A i \in DOMAIN dlq : i \in DOMAIN dlq' /\ dlq'[i] = dlq[i]
        /\ \E i \in DOMAIN dlq' : dlq'[i] = msg[w]
        /\ \A i \in DOMAIN dlq' : (i \in DOMAIN dlq /\ dlq'[i] = dlq[i]) \/ dlq'[i] = msg[w]
    <3>1. dlq \in Seq(Message) /\ msg[w] \in Message /\ dlq' = Append(dlq, msg[w])
      BY <1>1, <2>1
    <3> QED
      BY <3>1, AppendFacts, SMTT(30)
  <2>3. \A v \in Workers : wpc'[v] # "mark_failed" => wpc'[v] = wpc[v]
    BY <2>1
  <2>4. \A v \in Workers : Holding(v)' => Holding(v)
    BY <2>3 DEF Holding
  <2>5. EndInv'
    <3>1. \A x : DeadLettered(x) => DeadLettered(x)'
      BY <2>2 DEF DeadLettered
    <3>2. DeadLettered(msg[w].id)'
      BY <2>1, <2>2 DEF DeadLettered
    <3>3. \A v \in Workers : wpc'[v] = "mark_failed" => DeadLettered(msg[v].id)'
      <4>1. ASSUME NEW v \in Workers, v # w, wpc'[v] = "mark_failed"
            PROVE  DeadLettered(msg[v].id)'
        <5>1. DeadLettered(msg[v].id)
          BY <1>e, <2>1, <4>1
        <5> QED
          BY <2>1, <2>2, <5>1 DEF DeadLettered
      <4> QED
        BY <3>2, <4>1
    <3>4. ASSUME NEW x \in Requests, NoWork(x)
          PROVE  NoWork(x)'
      <4>1. \A i \in DOMAIN dlq' : dlq'[i].id # x
        BY <2>1, <2>2, <3>4 DEF NoWork
      <4> QED
        BY <1>h, <2>1, <2>4, <3>4, <4>1 DEF NoWork
    <3> QED
      BY <1>E, <3>1, <3>3, <3>4
  <2>6. RunInv'
    BY <1>r, <2>1, <2>3 DEF RunInv
  <2>7. AttemptInv'
    <3>1. \A i \in DOMAIN queue' : Within(queue'[i].attempt + 1) /\ attempts[queue'[i].id] <= queue'[i].attempt
      BY <1>q, <2>1
    <3>2. \A v \in Workers : Holding(v)' =>
            Within(msg'[v].attempt + 1) /\ attempts[msg'[v].id] <= msg'[v].attempt + 1
      BY <1>m, <2>1, <2>4
    <3>3. \A v \in Workers : wpc'[v] = "mark_running" => attempts[msg'[v].id] <= msg'[v].attempt
      BY <1>n, <2>1, <2>3
    <3> QED
      BY <1>A, <3>1, <3>2, <3>3
  <2> QED
    BY <1>3, <2>5, <2>6, <2>7 DEF SettledInv
<1>8. CASE WorkerRetries(w) /\ Retryable(msg[w])
  <2> DEFINE m == [msg[w] EXCEPT !.attempt = @ + 1]
  <2>0. Holding(w) /\ wpc[w] # "idle"
    BY <1>8 DEF WorkerRetries, Holding
  <2>1. /\ msg[w] \in Message /\ m \in Message /\ m.id = msg[w].id /\ m.attempt = msg[w].attempt + 1
        /\ msg[w].attempt \in Nat /\ msg[w].id \in Requests
    BY <1>0, <2>0 DEF MessageInv, Message
  <2>2. \A i \in DOMAIN queue' : \/ i \in DOMAIN queue /\ queue'[i] = queue[i]
                                 \/ i = Len(queue) + 1 /\ queue'[i] = m
    BY <1>1, <1>8, <2>1, PushCases DEF WorkerRetries, EnqueueRetry
  <2>3. /\ dlq' = dlq /\ wpc'[w] = "idle"
        /\ \A v \in Workers \ {w} : wpc'[v] = wpc[v] /\ msg'[v] = msg[v]
    BY <1>1, <1>8 DEF WorkerRetries, Idle
  <2>4. Within(m.attempt + 1)
    BY <1>8, <2>1 DEF Retryable, Within
  <2>5. attempts[m.id] <= m.attempt
    BY <1>m, <2>0, <2>1
  <2> HIDE DEF m
  <2>6. \A v \in Workers : wpc'[v] # "idle" => wpc'[v] = wpc[v] /\ msg'[v] = msg[v]
    BY <2>3
  <2>7. \A v \in Workers : Holding(v)' => Holding(v) /\ msg'[v] = msg[v]
    BY <2>6 DEF Holding
  <2>8. EndInv'
    <3>1. \A v \in Workers : wpc'[v] = "mark_failed" => DeadLettered(msg[v].id)'
      BY <1>e, <2>3, <2>6 DEF DeadLettered
    <3>2. \A x \in Requests : DeadLettered(x) => DeadLettered(x)'
      BY <2>3 DEF DeadLettered
    <3>3. ASSUME NEW x \in Requests, NoWork(x)
          PROVE  NoWork(x)'
      <4>1. m.id # x
        BY <2>0, <2>1, <3>3 DEF NoWork
      <4>2. \A i \in DOMAIN queue' : queue'[i].id # x
        BY <2>2, <3>3, <4>1 DEF NoWork
      <4> QED
        BY <1>h, <2>3, <2>7, <3>3, <4>2 DEF NoWork
    <3> QED
      BY <1>E, <3>1, <3>2, <3>3
  <2>9. RunInv'
    BY <1>r, <2>6 DEF RunInv
  <2>10. AttemptInv'
    <3>1. \A i \in DOMAIN queue' : Within(queue'[i].attempt + 1) /\ attempts[queue'[i].id] <= queue'[i].attempt
      BY <1>q, <2>2, <2>4, <2>5
    <3>2. \A v \in Workers : Holding(v)' =>
            Within(msg'[v].attempt + 1) /\ attempts[msg'[v].id] <= msg'[v].attempt + 1
      BY <1>m, <2>7
    <3>3. \A v \in Workers : wpc'[v] = "mark_running" => attempts[msg'[v].id] <= msg'[v].attempt
      BY <1>n, <2>6
    <3> QED
      BY <1>A, <3>1, <3>2, <3>3
  <2> QED
    BY <1>3, <2>8, <2>9, <2>10 DEF SettledInv
<1> QED
  BY <1>4, <1>5, <1>6, <1>7, <1>8 DEF Moves

-----------------------------------------------------------------------------
(* The theorems.                                                           *)

\* The invariant holds initially and every step of the backend keeps it.
THEOREM SettledInvariant == Spec => []SettledInv
<1>1. ASSUME Init PROVE SettledInv
  <2>1. /\ status = [b \in Requests |-> "none"] /\ attempts = [b \in Requests |-> 0]
        /\ result = [b \in Requests |-> 0] /\ queue = <<>> /\ wpc = [w \in Workers |-> "idle"]
    BY <1>1 DEF Init, StoreInit, ApiInit, WorkerInit
  <2>2. EndInv
    BY <2>1 DEF EndInv
  <2>3. RunInv /\ FreshInv
    BY <2>1 DEF RunInv, FreshInv
  <2>4. AttemptInv
    BY <2>1 DEF AttemptInv, Holding, Within
  <2> QED
    BY <2>2, <2>3, <2>4 DEF SettledInv
<1>2. CarrierInv /\ SettledInv /\ [Next]_vars => SettledInv'
  <2> SUFFICES ASSUME CarrierInv, SettledInv, [Next]_vars PROVE SettledInv'
    OBVIOUS
  <2>0. TypeOK /\ MessageInv /\ RowInv
    BY DEF CarrierInv
  <2>1. ASSUME ApiNext, UNCHANGED workerVars PROVE SettledInv'
    BY <2>1, ApiSettled DEF ApiNext
  <2>2. ASSUME WorkerNext, UNCHANGED apiVars PROVE SettledInv'
    <3>1. PICK w \in Workers : Dequeue(w) \/ WorkerStep(w) \/ WorkerDies(w)
      BY <2>2 DEF WorkerNext
    <3>2. Starts(w) \/ Completes(w) \/ Fails(w) \/ (SameTables /\ Moves(w))
      BY <2>0, <3>1, WorkerTables
    <3> QED
      BY <2>2, <3>2, WorkerWritesSettled, WorkerMovesSettled
  <2>3. ASSUME UNCHANGED vars PROVE SettledInv'
    <3>1. /\ status' = status /\ attempts' = attempts /\ result' = result /\ queue' = queue
          /\ dlq' = dlq /\ hpc' = hpc /\ wpc' = wpc /\ msg' = msg
      BY <2>3 DEF vars, storeVars, apiVars, workerVars
    <3>2. EndInv'
      BY <3>1 DEF SettledInv, EndInv, DeadLettered, NoWork, Holding
    <3>3. RunInv' /\ FreshInv'
      BY <3>1 DEF SettledInv, RunInv, FreshInv
    <3>4. AttemptInv'
      BY <3>1 DEF SettledInv, AttemptInv, Holding
    <3> QED
      BY <3>2, <3>3, <3>4 DEF SettledInv
  <2> QED
    BY <2>1, <2>2, <2>3 DEF Next, Quiescent
<1> QED
  BY <1>1, <1>2, CarrierInvariant, PTL DEF Spec

\* worker_max_retries bounds the runs of a benchmark.
THEOREM AttemptsBoundedHolds == Spec => []AttemptsBounded
<1>1. SettledInv => AttemptsBounded
  BY DEF SettledInv, AttemptInv, AttemptsBounded, Within
<1> QED
  BY <1>1, SettledInvariant, PTL

\* A result never claims fewer attempts than mark_running counted.
THEOREM ResultCountsAttemptsHolds == Spec => []ResultCountsAttempts
<1>1. SettledInv => ResultCountsAttempts
  BY DEF SettledInv, AttemptInv, ResultCountsAttempts, Acknowledged
<1> QED
  BY <1>1, SettledInvariant, PTL

\* "completed" is never shown without the result.
THEOREM CompletedHasResultHolds == Spec => []CompletedHasResult
<1>1. SettledInv => CompletedHasResult
  BY DEF SettledInv, EndInv, CompletedHasResult
<1> QED
  BY <1>1, SettledInvariant, PTL

\* "failed" is never shown before the job is in the dead-letter list.
THEOREM FailedIsDeadLetteredHolds == Spec => []FailedIsDeadLettered
<1>1. SettledInv => FailedIsDeadLettered
  BY DEF SettledInv, EndInv, FailedIsDeadLettered
<1> QED
  BY <1>1, SettledInvariant, PTL

\* A row is rewritten by nobody once it is failed, nor, with acknowledged commits,
\* once it is completed: no message for it is left, and mark_running would need one.
LEMMA FinalStep ==
  ASSUME CarrierInv, SettledInv, [Next]_vars
  PROVE  \A b \in Requests :
           /\ status[b] = "failed" => status'[b] = "failed"
           /\ status[b] = "completed" /\ Acknowledged => status'[b] = "completed"
<1>0. /\ TypeOK /\ HandlerInv /\ MessageInv /\ RowInv /\ Exclusive /\ EndInv
      /\ status \in [Requests -> BenchmarkStatus \union {"none"}]
  BY DEF CarrierInv, SettledInv, TypeOK
<1>1. ASSUME ApiNext PROVE \A b \in Requests : status[b] # "none" => status'[b] = status[b]
  BY <1>0, <1>1, ApiCases DEF ApiNext
<1>2. ASSUME WorkerNext
      PROVE  \A b \in Requests :
               /\ status[b] = "failed" => status'[b] = "failed"
               /\ status[b] = "completed" /\ Acknowledged => status'[b] = "completed"
  <2>1. PICK w \in Workers : Dequeue(w) \/ WorkerStep(w) \/ WorkerDies(w)
    BY <1>2 DEF WorkerNext
  <2>2. Starts(w) \/ Completes(w) \/ Fails(w) \/ (SameTables /\ Moves(w))
    BY <1>0, <2>1, WorkerTables
  <2>3. Holding(w) => status[msg[w].id] # "failed" /\ (Acknowledged => status[msg[w].id] # "completed")
    <3>1. wpc[w] # "idle" => msg[w].id \in Requests
      BY <1>0, MessageFacts
    <3>2. /\ \A b \in Requests : status[b] = "failed" => DeadLettered(b)
          /\ Acknowledged => \A b \in Requests : result[b] # 0 => NoWork(b)
          /\ \A b \in Requests : status[b] = "completed" => result[b] # 0
      BY <1>0 DEF EndInv
    <3>3. \A j \in DOMAIN dlq : Holding(w) => dlq[j].id # msg[w].id
      BY <1>0 DEF Exclusive
    <3>4. Holding(w) => msg[w].id \in Requests
      BY <3>1 DEF Holding
    <3> QED
      BY <3>2, <3>3, <3>4 DEF DeadLettered, NoWork
  <2>4. wpc[w] = "mark_failed" /\ Acknowledged => status[msg[w].id] # "completed"
    <3>1. wpc[w] # "idle" => msg[w].id \in Requests
      BY <1>0, MessageFacts
    <3>2. /\ wpc[w] = "mark_failed" => DeadLettered(msg[w].id)
          /\ Acknowledged => \A b \in Requests : result[b] # 0 => NoWork(b)
          /\ \A b \in Requests : status[b] = "completed" => result[b] # 0
      BY <1>0 DEF EndInv
    <3> QED
      BY <3>1, <3>2 DEF DeadLettered, NoWork
  <2>5. Starts(w) \/ Completes(w) => Holding(w)
    BY DEF Starts, Completes, Holding
  <2> QED
    BY <1>0, <2>2, <2>3, <2>4, <2>5 DEF Starts, Completes, Fails, SameTables
<1>3. ASSUME UNCHANGED vars PROVE status' = status
  BY <1>3 DEF vars, storeVars
<1> QED
  BY <1>1, <1>2, <1>3 DEF Next, Quiescent

\* Final states are final.
THEOREM TerminalIsFinalHolds == Spec => TerminalIsFinal
<1>1. CarrierInv /\ SettledInv /\ [Next]_vars =>
        [\A b \in Requests :
           /\ status[b] = "failed" => status'[b] = "failed"
           /\ status[b] = "completed" /\ "commit_lost" \notin Faults => status'[b] = "completed"]_vars
  BY FinalStep DEF Acknowledged
<1> QED
  BY <1>1, CarrierInvariant, SettledInvariant, PTL DEF Spec, TerminalIsFinal

-----------------------------------------------------------------------------
(* No job is lost while only engines fail.                                 *)

\* Somebody will still deal with the job of row b.
Kept(b) ==
  \/ hpc[b] = "enqueue"
  \/ \E i \in DOMAIN queue : queue[i].id = b
  \/ \E w \in Workers : wpc[w] # "idle" /\ msg[w].id = b

\* NoJobLost with its places spelled out, and why it lasts: no session is ever left
\* to be rolled back, so that mark_failed always reaches the row.
KeptInv ==
  OnlyEngines =>
    /\ \A w \in Workers : ~broken[w]
    /\ \A b \in Requests : status[b] \notin {"none", "completed", "failed"} => Kept(b)

\* A handler that has committed a row does not leave it before the push.
LEMMA ApiKept ==
  ASSUME CarrierInv, KeptInv, OnlyEngines, UNCHANGED workerVars, NEW r \in Requests,
         PostBenchmark(r) \/ HandlerStep(r)
  PROVE  KeptInv'
<1>0. /\ TypeOK /\ HandlerInv
      /\ hpc \in [Requests -> HandlerSteps] /\ status \in [Requests -> BenchmarkStatus \union {"none"}]
      /\ queue \in Seq(Message) /\ wpc' = wpc /\ msg' = msg /\ broken' = broken
  BY DEF CarrierInv, TypeOK, workerVars
<1>1. \A b \in Requests : status[b] \notin {"none", "completed", "failed"} => Kept(b)
  BY DEF KeptInv
<1>2. hpc[r] = "enqueue" => ApiPushes(r)
  BY <1>0 DEF PostBenchmark, HandlerStep, SelectGpuModel, FlushGpuModel, CommitBenchmark, RefuseValue,
              RecheckKey, EnqueueBenchmark, Enqueue, Answer, Goto, ApiPushes
<1>3. \A b \in Requests : status'[b] \notin {"none", "completed", "failed"} => Kept(b)'
  <2>1. CASE SameTables /\ ApiKeeps(r) /\ hpc[r] # "enqueue"
    BY <1>0, <1>1, <2>1 DEF Kept, SameTables, ApiKeeps, SameLists
  <2>2. CASE ApiCommits(r) /\ status' = [status EXCEPT ![r] = "queued"]
    BY <1>0, <1>1, <2>2 DEF Kept, ApiCommits, SameLists
  <2>3. CASE SameTables /\ ApiPushes(r)
    <3> DEFINE m == [id |-> r, attempt |-> 0]
    <3>1. m \in Message /\ m.id = r
      BY DEF Message
    <3>2. queue' = Append(queue, m) /\ \A q \in Requests \ {r} : hpc'[q] = hpc[q]
      BY <1>0, <2>3 DEF ApiPushes
    <3> HIDE DEF m
    <3>3. /\ \A i \in DOMAIN queue : i \in DOMAIN queue' /\ queue'[i] = queue[i]
          /\ Len(queue) + 1 \in DOMAIN queue' /\ queue'[Len(queue) + 1] = m
      <4>1. queue \in Seq(Message) /\ m \in Message
        BY <1>0, <3>1
      <4> QED
        BY <3>2, <4>1, PushKeeps
    <3>4. Kept(r)'
      BY <3>1, <3>3 DEF Kept
    <3>5. ASSUME NEW b \in Requests \ {r}, Kept(b) PROVE Kept(b)'
      <4>1. CASE hpc[b] = "enqueue"
        BY <3>2, <4>1 DEF Kept
      <4>2. CASE \E i \in DOMAIN queue : queue[i].id = b
        BY <3>3, <4>2 DEF Kept
      <4>3. CASE \E w \in Workers : wpc[w] # "idle" /\ msg[w].id = b
        BY <1>0, <4>3 DEF Kept
      <4> QED
        BY <3>5, <4>1, <4>2, <4>3 DEF Kept
    <3> QED
      BY <1>1, <2>3, <3>4, <3>5 DEF SameTables
  <2> QED
    BY <1>0, <1>2, <2>1, <2>2, <2>3, ApiTables
<1> QED
  BY <1>0, <1>3 DEF KeptInv

\* A worker that lets go of a job has pushed it again or has shown how it ended.
LEMMA WorkerKept ==
  ASSUME CarrierInv, SettledInv, KeptInv, OnlyEngines, UNCHANGED apiVars, NEW w \in Workers,
         Dequeue(w) \/ WorkerStep(w)
  PROVE  KeptInv'
<1>0. /\ TypeOK /\ MessageInv /\ RowInv /\ EndInv
      /\ status \in [Requests -> BenchmarkStatus \union {"none"}]
      /\ queue \in Seq(Message) /\ hpc' = hpc
      /\ wpc \in [Workers -> WorkerSteps] /\ msg \in [Workers -> Message \union {Null}]
      /\ broken \in [Workers -> BOOLEAN]
  BY DEF CarrierInv, SettledInv, TypeOK, apiVars
<1>1. /\ \A v \in Workers : ~broken[v]
      /\ \A b \in Requests : status[b] \notin {"none", "completed", "failed"} => Kept(b)
  BY DEF KeptInv
<1>2. wpc[w] # "idle" => msg[w].id \in Requests /\ msg[w] \in Message /\ status[msg[w].id] # "none"
  BY <1>0, MessageFacts DEF MessageInv, RowInv
\* the result of a job that somebody holds is not there yet
<1>3. Holding(w) => result[msg[w].id] = 0
  BY <1>0, <1>2 DEF EndInv, NoWork, Acknowledged, OnlyEngines, Holding
<1>4. /\ \A v \in Workers \ {w} : wpc'[v] = wpc[v] /\ msg'[v] = msg[v]
      /\ \A v \in Workers : ~broken'[v]
  <2>1. CASE wpc[w] = "complete"
    BY <1>0, <1>1, <1>3, <2>1, NobodyDies DEF Dequeue, WorkerStep, WorkerMarksRunning, SelectEngine, RunEngine, NvidiaFails,
           WorkerCompletes, HandleException, WorkerMarksFailed, Step, Idle, Raise, Holding
  <2>2. CASE wpc[w] # "complete"
    BY <1>0, <1>1, <2>2, NobodyDies DEF Dequeue, WorkerStep, WorkerMarksRunning, SelectEngine, RunEngine, NvidiaFails,
           WorkerCompletes, HandleException, WorkerMarksFailed, Step, Idle, Raise
  <2> QED
    BY <2>1, <2>2
\* where a job is kept after the step, and what it takes to keep one
<1>5. /\ \A b : wpc'[w] # "idle" /\ msg'[w].id = b => Kept(b)'
      /\ \A b : \A i \in DOMAIN queue' : queue'[i].id = b => Kept(b)'
  BY DEF Kept
<1>6. ASSUME NEW b, Kept(b), wpc[w] # "idle" /\ msg[w].id = b => Kept(b)',
             \A i \in DOMAIN queue : queue[i].id = b => Kept(b)'
      PROVE  Kept(b)'
  <2>1. CASE hpc[b] = "enqueue"
    BY <1>0, <2>1 DEF Kept
  <2>2. ASSUME NEW v \in Workers \ {w}, wpc[v] # "idle" /\ msg[v].id = b PROVE Kept(b)'
    BY <1>4, <2>2 DEF Kept
  <2> QED
    BY <1>6, <2>1, <2>2 DEF Kept
<1>7. \A b \in Requests : status'[b] \notin {"none", "completed", "failed"} => Kept(b)'
  <2>1. CASE /\ queue' = queue /\ msg' = msg /\ wpc[w] # "idle" /\ wpc'[w] # "idle"
             /\ \A b \in Requests : b # msg[w].id => status'[b] = status[b]
    <3>1. Kept(msg[w].id)'
      BY <1>5, <2>1
    <3>2. ASSUME NEW b \in Requests, Kept(b) PROVE Kept(b)'
      BY <1>5, <1>6, <2>1, <3>1, <3>2
    <3> QED
      BY <1>1, <2>1, <3>1, <3>2
  <2>2. CASE Dequeue(w)
    <3>1. /\ queue # <<>> /\ wpc[w] = "idle" /\ wpc'[w] = "mark_running" /\ msg'[w] = queue[1]
          /\ queue' = Tail(queue) /\ status' = status
      BY <1>0, <2>2, TailFacts DEF Dequeue, Step, dbVars
    <3>2. \A i \in DOMAIN queue : i = 1 \/ \E j \in DOMAIN queue' : queue'[j] = queue[i]
      <4>1. /\ DOMAIN queue = 1 .. Len(queue) /\ Len(queue) \in Nat
            /\ DOMAIN queue' = 1 .. Len(queue) - 1
            /\ \A j \in 1 .. Len(queue) - 1 : queue'[j] = queue[j + 1]
        BY <1>0, <3>1
      <4>2. \A i \in 1 .. Len(queue) : i # 1 => i - 1 \in 1 .. Len(queue) - 1 /\ (i - 1) + 1 = i
        BY <4>1
      <4> QED
        BY <4>1, <4>2
    <3>3. ASSUME NEW b \in Requests, NEW i \in DOMAIN queue, queue[i].id = b PROVE Kept(b)'
      BY <1>5, <3>1, <3>2, <3>3
    <3>4. ASSUME NEW b \in Requests, Kept(b) PROVE Kept(b)'
      BY <1>6, <3>1, <3>3, <3>4
    <3> QED
      BY <1>1, <3>1, <3>4
  <2>3. ASSUME NEW s \in {"completed", "failed"}, status' = [status EXCEPT ![msg[w].id] = s],
               queue' = queue, wpc[w] # "idle"
        PROVE  \A b \in Requests : status'[b] \notin {"none", "completed", "failed"} => Kept(b)'
    <3>1. \A b \in Requests : status'[b] \notin {"none", "completed", "failed"} =>
            b # msg[w].id /\ status'[b] = status[b]
      BY <1>0, <1>2, <2>3
    <3>2. ASSUME NEW b \in Requests, Kept(b), b # msg[w].id PROVE Kept(b)'
      BY <1>5, <1>6, <2>3, <3>2
    <3> QED
      BY <1>1, <3>1, <3>2
  <2>4. CASE WorkerCompletes(w)
    <3>1. /\ status' = [status EXCEPT ![msg[w].id] = "completed"] /\ queue' = queue /\ wpc[w] # "idle"
      BY <1>2, <1>3, <2>4 DEF WorkerCompletes, CompleteBenchmark, RowExists, Holding, redisVars
    <3> QED
      BY <2>3, <3>1
  <2>5. CASE WorkerMarksFailed(w)
    <3>1. /\ status' = [status EXCEPT ![msg[w].id] = "failed"] /\ queue' = queue /\ wpc[w] # "idle"
      BY <1>1, <1>2, <2>5 DEF WorkerMarksFailed, MarkFailed, RowExists, redisVars
    <3> QED
      BY <2>3, <3>1
  <2>6. CASE HandleException(w) /\ Retryable(msg[w])
    <3> DEFINE m == [msg[w] EXCEPT !.attempt = @ + 1]
    <3>0. status' = status /\ wpc[w] # "idle" /\ queue' = Append(queue, m)
      BY <2>6 DEF HandleException, EnqueueRetry, dbVars
    <3>1. m \in Message /\ m.id = msg[w].id
      BY <1>2, <3>0 DEF Message
    <3> HIDE DEF m
    <3>2. /\ \A i \in DOMAIN queue : i \in DOMAIN queue' /\ queue'[i] = queue[i]
          /\ Len(queue) + 1 \in DOMAIN queue' /\ queue'[Len(queue) + 1] = m
      <4>1. queue \in Seq(Message) /\ m \in Message
        BY <1>0, <3>1
      <4> QED
        BY <3>0, <4>1, PushKeeps
    <3>3. ASSUME NEW b \in Requests, Kept(b) PROVE Kept(b)'
      BY <1>5, <1>6, <3>1, <3>2, <3>3
    <3> QED
      BY <1>1, <3>0, <3>3
  <2>7. CASE HandleException(w) /\ ~Retryable(msg[w])
    BY <1>0, <2>1, <2>7 DEF HandleException, dbVars
  <2>8. CASE WorkerMarksRunning(w)
    BY <1>0, <1>2, <2>1, <2>8 DEF WorkerMarksRunning, Step, MarkRunning, redisVars
  <2>9. CASE SelectEngine(w) \/ RunEngine(w) \/ NvidiaFails(w)
    BY <1>0, <2>1, <2>9 DEF SelectEngine, RunEngine, NvidiaFails, Raise, storeVars
  <2> QED
    BY <2>2, <2>4, <2>5, <2>6, <2>7, <2>8, <2>9, NobodyDies DEF WorkerStep
<1> QED
  BY <1>4, <1>7 DEF KeptInv

\* While only engines fail, every job that has not ended is kept.
THEOREM KeptInvariant == Spec => []KeptInv
<1>1. Init => KeptInv
  BY DEF Init, StoreInit, WorkerInit, KeptInv
<1>2. CarrierInv /\ SettledInv /\ KeptInv /\ [Next]_vars => KeptInv'
  <2> SUFFICES ASSUME CarrierInv, SettledInv, KeptInv, [Next]_vars, OnlyEngines PROVE KeptInv'
    BY DEF KeptInv, OnlyEngines
  <2>1. ASSUME ApiNext, UNCHANGED workerVars PROVE KeptInv'
    BY <2>1, ApiKept, NobodyDies DEF ApiNext
  <2>2. ASSUME WorkerNext, UNCHANGED apiVars PROVE KeptInv'
    BY <2>2, WorkerKept, NobodyDies DEF WorkerNext
  <2>3. ASSUME UNCHANGED vars PROVE KeptInv'
    BY <2>3 DEF vars, storeVars, apiVars, workerVars, KeptInv, Kept
  <2> QED
    BY <2>1, <2>2, <2>3 DEF Next, Quiescent
<1> QED
  BY <1>1, <1>2, CarrierInvariant, SettledInvariant, PTL DEF Spec

\* A benchmark that has not ended waits for its push, is in the work list or with a
\* worker, and is in the dead-letter list only while a worker is about to say so.
THEOREM NoJobLostHolds == Spec => []NoJobLost
<1>1. CarrierInv /\ KeptInv => NoJobLost
  <2> SUFFICES ASSUME CarrierInv, KeptInv, OnlyEngines, NEW b \in Requests, RowExists(b), ~Terminal(b),
                      ~ \E w \in Workers : wpc[w] = "mark_failed" /\ msg[w].id = b
               PROVE  Carriers(b) # {} /\ ~DeadLettered(b)
    BY DEF NoJobLost, OnlyEngines
  <2>1. \/ hpc[b] = "enqueue"
        \/ \E i \in DOMAIN queue : queue[i].id = b
        \/ \E w \in Workers : Holding(w) /\ msg[w].id = b
    BY DEF KeptInv, Kept, RowExists, Terminal, Holding
  <2>2. ~DeadLettered(b)
    BY <2>1 DEF CarrierInv, Exclusive, DeadLettered
  <2>3. Carriers(b) # {}
    BY <2>1 DEF Carriers
  <2> QED
    BY <2>2, <2>3
<1> QED
  BY <1>1, CarrierInvariant, KeptInvariant, PTL
=============================================================================
