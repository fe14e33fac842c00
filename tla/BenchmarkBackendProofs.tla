----------------------- MODULE BenchmarkBackendProofs -----------------------
(***************************************************************************)
(* Proofs about the backend, for any number of requests, keys, GPU models  *)
(* and workers, any retry limit and any set of faults.                     *)
(***************************************************************************)
EXTENDS BenchmarkBackend, TLAPS

USE MaxRetriesAssumption, NullAssumption
USE DEF ModelConflict, KeyTaken, InsertBenchmark, EndTransaction, KeyConflict, Pop, Retry, GiveUp

-----------------------------------------------------------------------------
(* The inductive invariant.                                                *)

\* What is known of request r and its row at each await of its handler.
HandlerInv ==
  \A r \in Requests :
    /\ hpc[r] # "new" => payload[r] \in Payloads
    /\ hpc[r] \in {"new", "gpu_model", "flush", "commit", "recheck"} => status[r] = "none"
    /\ hpc[r] = "enqueue" => status[r] # "none"

\* A worker that is not idle has a message.
MessageInv == \A w \in Workers : wpc[w] # "idle" => msg[w] \in Message

\* Every job that waits or runs has a row, and so has every dead letter.
RowInv ==
  /\ \A i \in DOMAIN queue : status[queue[i].id] # "none"
  /\ \A i \in DOMAIN dlq : status[dlq[i].id] # "none"
  /\ \A w \in Workers : wpc[w] # "idle" => status[msg[w].id] # "none"

\* OneCarrier, pair by pair of the places a job can be in.
Exclusive ==
  /\ \A i, j \in DOMAIN queue : queue[i].id = queue[j].id => i = j
  /\ \A i, j \in DOMAIN dlq : dlq[i].id = dlq[j].id => i = j
  /\ \A v, w \in Workers : Holding(v) /\ Holding(w) /\ msg[v].id = msg[w].id => v = w
  /\ \A i \in DOMAIN queue, j \in DOMAIN dlq : queue[i].id # dlq[j].id
  /\ \A i \in DOMAIN queue, w \in Workers : Holding(w) => queue[i].id # msg[w].id
  /\ \A j \in DOMAIN dlq, w \in Workers : Holding(w) => dlq[j].id # msg[w].id
  /\ \A i \in DOMAIN queue : hpc[queue[i].id] # "enqueue"
  /\ \A j \in DOMAIN dlq : hpc[dlq[j].id] # "enqueue"
  /\ \A w \in Workers : Holding(w) => hpc[msg[w].id] # "enqueue"

CarrierInv == TypeOK /\ HandlerInv /\ MessageInv /\ RowInv /\ Exclusive

-----------------------------------------------------------------------------
(* Facts about sequences and lookups.                                      *)

\* LPUSH: the old entries keep their places and the new one gets a new place.
LEMMA AppendFacts ==
  ASSUME NEW S, NEW s \in Seq(S), NEW e \in S
  PROVE  /\ Append(s, e) \in Seq(S)
         /\ DOMAIN Append(s, e) = DOMAIN s \union {Len(s) + 1}
         /\ Len(s) + 1 \notin DOMAIN s
         /\ \A i \in DOMAIN s : Append(s, e)[i] = s[i]
         /\ Append(s, e)[Len(s) + 1] = e
<1>1. DOMAIN s = 1 .. Len(s) /\ Len(s) \in Nat
  OBVIOUS
<1> QED
  BY <1>1

\* BRPOP: the first entry leaves, each other entry moves down one place.
LEMMA TailFacts ==
  ASSUME NEW S, NEW s \in Seq(S), s # <<>>
  PROVE  /\ Tail(s) \in Seq(S)
         /\ 1 \in DOMAIN s /\ Head(s) = s[1] /\ Head(s) \in S
         /\ \A i \in DOMAIN Tail(s) : i \in Nat /\ i + 1 \in DOMAIN s /\ i + 1 # 1 /\ Tail(s)[i] = s[i + 1]
<1>1. DOMAIN s = 1 .. Len(s) /\ Len(s) \in Nat /\ Len(s) # 0
  OBVIOUS
<1>2. Tail(s) \in Seq(S) /\ DOMAIN Tail(s) = 1 .. Len(s) - 1
  BY <1>1
<1> QED
  BY <1>1, <1>2

\* An entry of a list is a message, so it names a request.
LEMMA EntryFacts ==
  ASSUME NEW s \in Seq(Message), NEW i \in DOMAIN s
  PROVE  s[i] \in Message /\ s[i].id \in Requests /\ s[i].attempt \in Nat
<1>1. s[i] \in Message
  OBVIOUS
<1> QED
  BY <1>1 DEF Message

\* A row that a lookup finds is the row of a request.
LEMMA FoundIsRequest == ASSUME NEW k PROVE FindByIdempotencyKey(k) \subseteq Requests
BY DEF FindByIdempotencyKey

-----------------------------------------------------------------------------
(* Runs in which only engines fail.                                        *)

OnlyEngines == Faults \subseteq {"engine"}

\* No handler and no worker is ended by a fault.
LEMMA NobodyDies ==
  ASSUME OnlyEngines
  PROVE  /\ \A r \in Requests : ~HandlerFails(r) /\ ~EnqueueUnacknowledged(r)
         /\ \A w \in Workers : ~WorkerDies(w) /\ ~MarkRunningFails(w) /\ ~CompleteFails(w)
<1>1. "db" \notin Faults /\ "crash" \notin Faults /\ "redis" \notin Faults /\ "commit_lost" \notin Faults
  BY DEF OnlyEngines
<1>2. \A s : HandlerFaults(s) \subseteq {"db", "crash", "redis"}
  BY DEF HandlerFaults
<1>3. \A s : FatalFaults(s) \subseteq {"db", "crash", "redis"}
  BY DEF FatalFaults
<1> QED
  BY <1>1, <1>2, <1>3 DEF HandlerFails, EnqueueUnacknowledged, WorkerDies, MarkRunningFails, CompleteFails

-----------------------------------------------------------------------------
(* Typing.                                                                 *)

\* Every step of a handler writes values of the right types.
LEMMA ApiTypeOK ==
  ASSUME TypeOK, HandlerInv, UNCHANGED workerVars, NEW r \in Requests,
         PostBenchmark(r) \/ HandlerStep(r) \/ HandlerFails(r) \/ EnqueueUnacknowledged(r)
  PROVE  TypeOK'
<1> USE DEF TypeOK, workerVars, HandlerSteps, BenchmarkStatus
<1>1. CASE PostBenchmark(r)
  <2>1. PICK p \in Payloads :
          /\ payload' = [payload EXCEPT ![r] = p]
          /\ \/ \E b \in FindByIdempotencyKey(p.key) : Answer(r, b)
             \/ FindByIdempotencyKey(p.key) = {} /\ Goto(r, "gpu_model") /\ UNCHANGED reply
    BY <1>1 DEF PostBenchmark
  <2>2. payload' \in [Requests -> Payloads \union {Null}]
    BY <2>1
  <2>3. CASE \E b \in FindByIdempotencyKey(p.key) : Answer(r, b)
    BY <1>1, <2>2, <2>3, FoundIsRequest DEF PostBenchmark, Answer, Goto, dbVars, redisVars
  <2>4. CASE Goto(r, "gpu_model") /\ UNCHANGED reply
    BY <1>1, <2>2, <2>4 DEF PostBenchmark, Goto, dbVars, redisVars
  <2> QED
    BY <2>1, <2>3, <2>4
<1>2. CASE SelectGpuModel(r)
  BY <1>2 DEF SelectGpuModel, Goto, storeVars
<1>3. CASE FlushGpuModel(r)
  BY <1>3 DEF FlushGpuModel, Goto, storeVars
<1>4. CASE CommitBenchmark(r)
  <2>1. payload[r].gpu \in Models
    BY <1>4 DEF CommitBenchmark, HandlerInv, Payloads
  <2>2. models' \in SUBSET Models
    BY <1>4, <2>1 DEF CommitBenchmark
  <2> QED
    BY <1>4, <2>2 DEF CommitBenchmark, Goto, redisVars
<1>5. CASE RecheckKey(r)
  <2>1. CASE \E b \in FindByIdempotencyKey(payload[r].key) : Answer(r, b)
    BY <1>5, <2>1, FoundIsRequest DEF RecheckKey, Answer, Goto, storeVars
  <2>2. CASE Goto(r, "error") /\ UNCHANGED reply
    BY <1>5, <2>2 DEF RecheckKey, Goto, storeVars
  <2> QED
    BY <1>5, <2>1, <2>2 DEF RecheckKey
<1>6. CASE EnqueueBenchmark(r)
  BY <1>6 DEF EnqueueBenchmark, Enqueue, Goto, Answer, dbVars, Message
<1>7. CASE HandlerFails(r)
  BY <1>7 DEF HandlerFails, Goto, storeVars
<1>8. CASE EnqueueUnacknowledged(r)
  BY <1>8 DEF EnqueueUnacknowledged, Enqueue, Goto, dbVars, Message
<1>9. CASE RefuseValue(r)
  BY <1>9 DEF RefuseValue, Goto, storeVars
<1> QED
  BY <1>1, <1>2, <1>3, <1>4, <1>5, <1>6, <1>7, <1>8, <1>9 DEF HandlerStep

\* The part of TypeOK that is about the tables.
DbTypeOK ==
  /\ status \in [Requests -> BenchmarkStatus \union {"none"}]
  /\ attempts \in [Requests -> Nat]
  /\ result \in [Requests -> Nat]
  /\ models \in SUBSET Models

\* The three writes of benchmark_service keep the tables well typed.
LEMMA DbWrites ==
  ASSUME DbTypeOK, NEW b \in Requests, NEW a \in Nat,
         MarkRunning(b) \/ CompleteBenchmark(b, a) \/ MarkFailed(b)
  PROVE  DbTypeOK'
<1>1. CASE MarkRunning(b)
  BY <1>1 DEF DbTypeOK, MarkRunning, BenchmarkStatus
<1>2. CASE CompleteBenchmark(b, a)
  BY <1>2 DEF DbTypeOK, CompleteBenchmark, BenchmarkStatus
<1>3. CASE MarkFailed(b)
  BY <1>3 DEF DbTypeOK, MarkFailed, BenchmarkStatus
<1> QED
  BY <1>1, <1>2, <1>3

\* Every step of a worker writes values of the right types.
LEMMA WorkerTypeOK ==
  ASSUME TypeOK, MessageInv, UNCHANGED apiVars, NEW w \in Workers,
         Dequeue(w) \/ WorkerStep(w) \/ WorkerDies(w)
  PROVE  TypeOK'
<1> DEFINE ProcTypeOK == /\ wpc \in [Workers -> WorkerSteps]
                         /\ msg \in [Workers -> Message \union {Null}]
                         /\ broken \in [Workers -> BOOLEAN]
<1> USE DEF WorkerSteps
<1>0. wpc[w] # "idle" => msg[w] \in Message /\ msg[w].id \in Requests /\ msg[w].attempt \in Nat
  BY DEF MessageInv, Message
<1>a. DbTypeOK /\ ProcTypeOK /\ queue \in Seq(Message) /\ dlq \in Seq(Message)
  BY DEF TypeOK, DbTypeOK
<1>b. SUFFICES /\ DbTypeOK' /\ ProcTypeOK' /\ payload' = payload
               /\ queue' \in Seq(Message) /\ dlq' \in Seq(Message)
  BY DEF TypeOK, DbTypeOK, apiVars
<1>c. UNCHANGED dbVars => DbTypeOK'
  BY <1>a DEF DbTypeOK, dbVars
<1>1. CASE Dequeue(w)
  <2>1. Head(queue) \in Message /\ Tail(queue) \in Seq(Message)
    BY <1>1, <1>a, TailFacts DEF Dequeue
  <2> QED
    BY <1>1, <1>a, <1>c, <2>1 DEF Dequeue, Step
<1>2. CASE WorkerMarksRunning(w)
  <2>1. DbTypeOK'
    BY <1>0, <1>2, <1>a, DbWrites DEF WorkerMarksRunning, Step
  <2> QED
    BY <1>2, <1>a, <2>1 DEF WorkerMarksRunning, Step, redisVars
<1>3. CASE MarkRunningFails(w)
  <2>1. DbTypeOK'
    BY <1>0, <1>3, <1>a, <1>c, DbWrites DEF MarkRunningFails
  <2> QED
    BY <1>3, <1>a, <2>1 DEF MarkRunningFails, Raise, redisVars
<1>4. CASE SelectEngine(w)
  BY <1>4, <1>a, <1>c DEF SelectEngine, storeVars, dbVars
<1>5. CASE RunEngine(w)
  BY <1>5, <1>a, <1>c DEF RunEngine, storeVars, dbVars
<1>6. CASE NvidiaFails(w)
  BY <1>6, <1>a, <1>c DEF NvidiaFails, Raise, storeVars, dbVars
<1>7. CASE WorkerCompletes(w)
  <2>0. msg[w].id \in Requests /\ msg[w].attempt + 1 \in Nat
    BY <1>0, <1>7 DEF WorkerCompletes
  <2>1. DbTypeOK'
    <3>1. UNCHANGED dbVars \/ CompleteBenchmark(msg[w].id, msg[w].attempt + 1)
      BY <1>7 DEF WorkerCompletes
    <3> QED
      BY <1>a, <1>c, <2>0, <3>1, DbWrites
  <2>2. ProcTypeOK'
    BY <1>7, <1>a DEF WorkerCompletes, Raise, Idle
  <2> QED
    BY <1>7, <1>a, <2>1, <2>2 DEF WorkerCompletes, redisVars
<1>8. CASE CompleteFails(w)
  <2>1. DbTypeOK'
    BY <1>0, <1>8, <1>a, <1>c, DbWrites DEF CompleteFails
  <2> QED
    BY <1>8, <1>a, <2>1 DEF CompleteFails, Raise, redisVars
<1>9. CASE HandleException(w)
  <2>1. msg[w] \in Message /\ [msg[w] EXCEPT !.attempt = @ + 1] \in Message
    <3>1. wpc[w] # "idle"
      BY <1>9 DEF HandleException
    <3> QED
      BY <1>0, <3>1 DEF Message
  <2>2. CASE EnqueueRetry(msg[w]) /\ Idle(w) /\ UNCHANGED dlq
    BY <1>9, <1>a, <1>c, <2>1, <2>2, AppendFacts DEF HandleException, EnqueueRetry, Idle
  <2>3. CASE MoveToDlq(msg[w]) /\ wpc' = [wpc EXCEPT ![w] = "mark_failed"]
             /\ UNCHANGED <<queue, msg, broken>>
    BY <1>9, <1>a, <1>c, <2>1, <2>3, AppendFacts DEF HandleException, MoveToDlq
  <2> QED
    BY <1>9, <2>2, <2>3 DEF HandleException
<1>10. CASE WorkerMarksFailed(w)
  <2>1. DbTypeOK'
    BY <1>0, <1>10, <1>a, <1>c, DbWrites DEF WorkerMarksFailed
  <2> QED
    BY <1>10, <1>a, <2>1 DEF WorkerMarksFailed, Idle, redisVars
<1>11. CASE WorkerDies(w)
  BY <1>11, <1>a, <1>c DEF WorkerDies, Idle, storeVars, dbVars
<1> QED
  BY <1>1, <1>2, <1>3, <1>4, <1>5, <1>6, <1>7, <1>8, <1>9, <1>10, <1>11 DEF WorkerStep

-----------------------------------------------------------------------------
(* Handlers, messages and rows.                                            *)

\* No step of a worker creates or removes a row.
LEMMA WorkersKeepRows ==
  ASSUME TypeOK, MessageInv, NEW w \in Workers, Dequeue(w) \/ WorkerStep(w) \/ WorkerDies(w)
  PROVE  \A b \in Requests : status'[b] = "none" <=> status[b] = "none"
<1>0. wpc[w] # "idle" => msg[w].id \in Requests
  BY DEF MessageInv, Message
<1>1. \/ UNCHANGED status
      \/ /\ msg[w].id \in Requests
         /\ \/ MarkRunning(msg[w].id)
            \/ CompleteBenchmark(msg[w].id, msg[w].attempt + 1)
            \/ MarkFailed(msg[w].id)
  BY <1>0 DEF WorkerStep, Dequeue, WorkerMarksRunning, Step, MarkRunningFails, SelectEngine, RunEngine,
              NvidiaFails, WorkerCompletes, CompleteFails, HandleException, WorkerMarksFailed,
              WorkerDies, dbVars, storeVars
<1> QED
  BY <1>1 DEF TypeOK, MarkRunning, CompleteBenchmark, MarkFailed, RowExists

\* A handler's request has a body, and a row from its commit on.
LEMMA ApiHandlerInv ==
  ASSUME TypeOK, HandlerInv, NEW r \in Requests,
         PostBenchmark(r) \/ HandlerStep(r) \/ HandlerFails(r) \/ EnqueueUnacknowledged(r)
  PROVE  HandlerInv'
<1> USE DEF TypeOK, HandlerInv
<1>1. CASE PostBenchmark(r)
  <2>1. PICK p \in Payloads :
          /\ payload' = [payload EXCEPT ![r] = p]
          /\ hpc' = [hpc EXCEPT ![r] = "done"] \/ hpc' = [hpc EXCEPT ![r] = "gpu_model"]
    BY <1>1 DEF PostBenchmark, Answer, Goto
  <2>2. status' = status
    BY <1>1 DEF PostBenchmark, dbVars
  <2>3. hpc[r] = "new"
    BY <1>1 DEF PostBenchmark
  <2> QED
    BY <2>1, <2>2, <2>3
<1>2. CASE SelectGpuModel(r)
  BY <1>2 DEF SelectGpuModel, Goto, storeVars
<1>3. CASE FlushGpuModel(r)
  BY <1>3 DEF FlushGpuModel, Goto, storeVars
<1>4. CASE CommitBenchmark(r)
  BY <1>4 DEF CommitBenchmark, Goto
<1>5. CASE RecheckKey(r)
  BY <1>5 DEF RecheckKey, Goto, Answer, storeVars
<1>6. CASE EnqueueBenchmark(r)
  BY <1>6 DEF EnqueueBenchmark, Goto, Answer, dbVars
<1>7. CASE HandlerFails(r)
  <2>1. hpc[r] # "new"
    BY <1>7 DEF HandlerFails, HandlerFaults
  <2> QED
    BY <1>7, <2>1 DEF HandlerFails, Goto, storeVars
<1>8. CASE EnqueueUnacknowledged(r)
  BY <1>8 DEF EnqueueUnacknowledged, Goto, dbVars
<1>9. CASE RefuseValue(r)
  BY <1>9 DEF RefuseValue, Goto, storeVars
<1> QED
  BY <1>1, <1>2, <1>3, <1>4, <1>5, <1>6, <1>7, <1>8, <1>9 DEF HandlerStep

\* Workers leave alone what is known of the handlers' requests: they never add a row.
LEMMA WorkerHandlerInv ==
  ASSUME TypeOK, HandlerInv, MessageInv, UNCHANGED apiVars, NEW w \in Workers,
         Dequeue(w) \/ WorkerStep(w) \/ WorkerDies(w)
  PROVE  HandlerInv'
<1>1. payload' = payload
  BY DEF WorkerStep, Dequeue, WorkerMarksRunning, MarkRunningFails, SelectEngine, RunEngine,
         NvidiaFails, WorkerCompletes, CompleteFails, HandleException, WorkerMarksFailed,
         WorkerDies, storeVars
<1> QED
  BY <1>1, WorkersKeepRows DEF HandlerInv, apiVars

-----------------------------------------------------------------------------
(* What a step does to the places that jobs can be in.                     *)

SameLists == queue' = queue /\ dlq' = dlq

\* The step of a handler leaves the lists alone, commits a row, or pushes its job.
ApiKeeps(r) == SameLists /\ \E s \in HandlerSteps \ {"enqueue"} : hpc' = [hpc EXCEPT ![r] = s]
ApiCommits(r) == SameLists /\ hpc' = [hpc EXCEPT ![r] = "enqueue"] /\ status[r] = "none"
ApiPushes(r) ==
  /\ hpc[r] = "enqueue"
  /\ \E s \in {"done", "error"} : hpc' = [hpc EXCEPT ![r] = s]
  /\ queue' = Append(queue, [id |-> r, attempt |-> 0])
  /\ dlq' = dlq

\* Every step of a handler is one of these three.
LEMMA ApiCases ==
  ASSUME TypeOK, HandlerInv, NEW r \in Requests,
         PostBenchmark(r) \/ HandlerStep(r) \/ HandlerFails(r) \/ EnqueueUnacknowledged(r)
  PROVE  /\ ApiKeeps(r) \/ ApiCommits(r) \/ ApiPushes(r)
         /\ \A b \in Requests : status[b] # "none" => status'[b] = status[b]
         /\ ApiCommits(r) => status'[r] # "none"
<1> USE DEF TypeOK, HandlerSteps, SameLists, ApiKeeps, ApiCommits, ApiPushes
<1>1. CASE PostBenchmark(r)
  BY <1>1 DEF PostBenchmark, Answer, Goto, dbVars, redisVars
<1>2. CASE SelectGpuModel(r)
  BY <1>2 DEF SelectGpuModel, Goto, storeVars
<1>3. CASE FlushGpuModel(r)
  BY <1>3 DEF FlushGpuModel, Goto, storeVars
<1>4. CASE CommitBenchmark(r)
  <2>1. status[r] = "none"
    BY <1>4 DEF CommitBenchmark, HandlerInv
  <2> QED
    BY <1>4, <2>1 DEF CommitBenchmark, Goto, redisVars
<1>5. CASE RecheckKey(r)
  BY <1>5 DEF RecheckKey, Goto, Answer, storeVars
<1>6. CASE EnqueueBenchmark(r)
  BY <1>6 DEF EnqueueBenchmark, Enqueue, Goto, Answer, dbVars
<1>7. CASE HandlerFails(r)
  BY <1>7 DEF HandlerFails, Goto, storeVars
<1>8. CASE EnqueueUnacknowledged(r)
  BY <1>8 DEF EnqueueUnacknowledged, Enqueue, Goto, dbVars
<1>9. CASE RefuseValue(r)
  BY <1>9 DEF RefuseValue, Goto, storeVars
<1> QED
  BY <1>1, <1>2, <1>3, <1>4, <1>5, <1>6, <1>7, <1>8, <1>9 DEF HandlerStep

\* The step of a worker keeps the job it has, lets it go, or moves it.
WorkerKeeps(w) ==
  /\ SameLists /\ msg' = msg /\ Holding(w)
  /\ \E s \in WorkerSteps \ {"idle", "mark_failed"} : wpc' = [wpc EXCEPT ![w] = s]
WorkerLetsGo(w) == SameLists /\ Idle(w)
WorkerRetries(w) == Holding(w) /\ EnqueueRetry(msg[w]) /\ Idle(w) /\ dlq' = dlq
WorkerGivesUp(w) ==
  /\ Holding(w) /\ MoveToDlq(msg[w]) /\ queue' = queue /\ msg' = msg
  /\ wpc' = [wpc EXCEPT ![w] = "mark_failed"]

\* Every step of a worker but the dequeue is one of these four.
LEMMA WorkerCases ==
  ASSUME TypeOK, NEW w \in Workers, Dequeue(w) \/ WorkerStep(w) \/ WorkerDies(w)
  PROVE  Dequeue(w) \/ WorkerKeeps(w) \/ WorkerLetsGo(w) \/ WorkerRetries(w) \/ WorkerGivesUp(w)
<1> USE DEF TypeOK, WorkerSteps, SameLists, WorkerKeeps, WorkerLetsGo, Holding
<1>2. CASE WorkerMarksRunning(w)
  BY <1>2 DEF WorkerMarksRunning, Step, redisVars
<1>3. CASE MarkRunningFails(w)
  BY <1>3 DEF MarkRunningFails, Raise, redisVars
<1>4. CASE SelectEngine(w)
  BY <1>4 DEF SelectEngine, storeVars
<1>5. CASE RunEngine(w)
  BY <1>5 DEF RunEngine, storeVars
<1>6. CASE NvidiaFails(w)
  BY <1>6 DEF NvidiaFails, Raise, storeVars
<1>7. CASE WorkerCompletes(w)
  BY <1>7 DEF WorkerCompletes, Raise, redisVars
<1>8. CASE CompleteFails(w)
  BY <1>8 DEF CompleteFails, Raise, redisVars
<1>9. CASE HandleException(w)
  BY <1>9 DEF HandleException, WorkerRetries, WorkerGivesUp
<1>10. CASE WorkerMarksFailed(w)
  BY <1>10 DEF WorkerMarksFailed, redisVars
<1>11. CASE WorkerDies(w)
  BY <1>11 DEF WorkerDies, storeVars
<1> QED
  BY <1>2, <1>3, <1>4, <1>5, <1>6, <1>7, <1>8, <1>9, <1>10, <1>11 DEF WorkerStep

\* A push onto a list of messages keeps its entries and adds one.
LEMMA PushKeeps ==
  ASSUME NEW s \in Seq(Message), NEW m \in Message, NEW t, t = Append(s, m)
  PROVE  /\ \A i \in DOMAIN s : i \in DOMAIN t /\ t[i] = s[i]
         /\ Len(s) + 1 \in DOMAIN t /\ t[Len(s) + 1] = m
BY AppendFacts

\* A push onto a list of messages, entry by entry.
LEMMA PushCases ==
  ASSUME NEW s \in Seq(Message), NEW m \in Message
  PROVE  LET t == Append(s, m)
         IN  \A i \in DOMAIN t : \/ i \in DOMAIN s /\ t[i] = s[i]
                                 \/ i = Len(s) + 1 /\ t[i] = m
BY AppendFacts

\* Handlers never put a job in a second place: a commit makes a new job, whose id
\* no message can have yet, and a push takes the job from its handler.
LEMMA ApiExclusive ==
  ASSUME CarrierInv, UNCHANGED workerVars, NEW r \in Requests,
         PostBenchmark(r) \/ HandlerStep(r) \/ HandlerFails(r) \/ EnqueueUnacknowledged(r)
  PROVE  MessageInv' /\ RowInv' /\ Exclusive'
<1> USE DEF Holding, workerVars
<1>0. TypeOK /\ HandlerInv /\ MessageInv /\ RowInv /\ Exclusive /\ hpc \in [Requests -> HandlerSteps]
  BY DEF CarrierInv, TypeOK
<1>1. /\ ApiKeeps(r) \/ ApiCommits(r) \/ ApiPushes(r)
      /\ \A b \in Requests : status[b] # "none" => status'[b] # "none"
      /\ ApiCommits(r) => status'[r] # "none"
  BY <1>0, ApiCases
<1>2. MessageInv'
  BY <1>0 DEF MessageInv
<1>3. /\ \A i \in DOMAIN queue : queue[i].id \in Requests
      /\ \A i \in DOMAIN dlq : dlq[i].id \in Requests
      /\ \A w \in Workers : wpc[w] # "idle" => msg[w].id \in Requests
  BY <1>0, EntryFacts DEF TypeOK, MessageInv, Message
<1>qq. \A i, j \in DOMAIN queue : queue[i].id = queue[j].id => i = j
  BY <1>0 DEF Exclusive
<1>dd. \A i, j \in DOMAIN dlq : dlq[i].id = dlq[j].id => i = j
  BY <1>0 DEF Exclusive
<1>ww. \A u, v \in Workers : Holding(u) /\ Holding(v) /\ msg[u].id = msg[v].id => u = v
  BY <1>0 DEF Exclusive
<1>qd. \A i \in DOMAIN queue, j \in DOMAIN dlq : queue[i].id # dlq[j].id
  BY <1>0 DEF Exclusive
<1>qw. \A i \in DOMAIN queue, v \in Workers : Holding(v) => queue[i].id # msg[v].id
  BY <1>0 DEF Exclusive
<1>dw. \A j \in DOMAIN dlq, v \in Workers : Holding(v) => dlq[j].id # msg[v].id
  BY <1>0 DEF Exclusive
<1>qh. \A i \in DOMAIN queue : hpc[queue[i].id] # "enqueue"
  BY <1>0 DEF Exclusive
<1>dh. \A j \in DOMAIN dlq : hpc[dlq[j].id] # "enqueue"
  BY <1>0 DEF Exclusive
<1>wh. \A v \in Workers : Holding(v) => hpc[msg[v].id] # "enqueue"
  BY <1>0 DEF Exclusive
<1>rq. \A i \in DOMAIN queue : status[queue[i].id] # "none"
  BY <1>0 DEF RowInv
<1>rd. \A j \in DOMAIN dlq : status[dlq[j].id] # "none"
  BY <1>0 DEF RowInv
<1>rw. \A v \in Workers : wpc[v] # "idle" => status[msg[v].id] # "none"
  BY <1>0 DEF RowInv
<1>u. wpc' = wpc /\ msg' = msg
  OBVIOUS
<1>4. CASE ApiKeeps(r)
  <2>1. /\ queue' = queue /\ dlq' = dlq
        /\ \A q \in Requests : hpc'[q] = "enqueue" => hpc[q] = "enqueue"
    BY <1>0, <1>4 DEF ApiKeeps, SameLists
  <2>2. RowInv'
    BY <1>1, <1>3, <1>rq, <1>rd, <1>rw, <1>u, <2>1 DEF RowInv
  <2>3. Exclusive'
    <3>1. /\ \A i \in DOMAIN queue' : hpc'[queue'[i].id] # "enqueue"
          /\ \A j \in DOMAIN dlq' : hpc'[dlq'[j].id] # "enqueue"
          /\ \A v \in Workers : Holding(v)' => hpc'[msg'[v].id] # "enqueue"
      BY <1>3, <1>qh, <1>dh, <1>wh, <1>u, <2>1
    <3> QED
      BY <1>qq, <1>dd, <1>ww, <1>qd, <1>qw, <1>dw, <1>u, <2>1, <3>1 DEF Exclusive
  <2> QED
    BY <1>2, <2>2, <2>3
<1>5. CASE ApiCommits(r)
  <2>1. /\ queue' = queue /\ dlq' = dlq /\ status[r] = "none"
        /\ \A q \in Requests \ {r} : hpc'[q] = hpc[q]
    BY <1>0, <1>5 DEF ApiCommits, SameLists
  <2>2. RowInv'
    BY <1>1, <1>3, <1>rq, <1>rd, <1>rw, <1>u, <2>1 DEF RowInv
  <2>3. Exclusive'
    <3>1. \A i \in DOMAIN queue' : hpc'[queue'[i].id] # "enqueue"
      BY <1>3, <1>qh, <1>rq, <2>1
    <3>2. \A j \in DOMAIN dlq' : hpc'[dlq'[j].id] # "enqueue"
      BY <1>3, <1>dh, <1>rd, <2>1
    <3>3. \A v \in Workers : Holding(v)' => hpc'[msg'[v].id] # "enqueue"
      BY <1>3, <1>wh, <1>rw, <1>u, <2>1
    <3> QED
      BY <1>qq, <1>dd, <1>ww, <1>qd, <1>qw, <1>dw, <1>u, <2>1, <3>1, <3>2, <3>3 DEF Exclusive
  <2> QED
    BY <1>2, <2>2, <2>3
<1>6. CASE ApiPushes(r)
  <2> DEFINE m == [id |-> r, attempt |-> 0]
  <2>1. m \in Message /\ m.id = r
    BY DEF Message
  <2>2. \A i \in DOMAIN queue' : \/ i \in DOMAIN queue /\ queue'[i] = queue[i]
                                 \/ i = Len(queue) + 1 /\ queue'[i] = m
    BY <1>0, <1>6, <2>1, PushCases DEF ApiPushes, TypeOK
  <2>3. status[r] # "none" /\ dlq' = dlq /\ hpc[r] = "enqueue" /\ hpc'[r] # "enqueue"
        /\ \A q \in Requests \ {r} : hpc'[q] = hpc[q]
    BY <1>0, <1>6 DEF ApiPushes, HandlerInv
  <2> HIDE DEF m
  <2>4. RowInv'
    <3>1. \A i \in DOMAIN queue' : status'[queue'[i].id] # "none"
      BY <1>1, <1>3, <1>rq, <2>1, <2>2, <2>3
    <3> QED
      BY <1>1, <1>3, <1>rd, <1>rw, <1>u, <2>3, <3>1 DEF RowInv
  <2>5. Exclusive'
    <3>1. \A i, j \in DOMAIN queue' : queue'[i].id = queue'[j].id => i = j
      BY <1>qq, <1>qh, <2>1, <2>2, <2>3
    <3>2. \A i \in DOMAIN queue', j \in DOMAIN dlq' : queue'[i].id # dlq'[j].id
      BY <1>qd, <1>dh, <2>1, <2>2, <2>3
    <3>3. \A i \in DOMAIN queue', v \in Workers : Holding(v)' => queue'[i].id # msg'[v].id
      BY <1>qw, <1>wh, <1>u, <2>1, <2>2, <2>3
    <3>4. \A i \in DOMAIN queue' : hpc'[queue'[i].id] # "enqueue"
      BY <1>3, <1>qh, <2>1, <2>2, <2>3
    <3>5. \A j \in DOMAIN dlq' : hpc'[dlq'[j].id] # "enqueue"
      BY <1>3, <1>dh, <2>3
    <3>6. \A v \in Workers : Holding(v)' => hpc'[msg'[v].id] # "enqueue"
      BY <1>3, <1>wh, <1>u, <2>3
    <3>7. \A i, j \in DOMAIN dlq' : dlq'[i].id = dlq'[j].id => i = j
      BY <1>dd, <2>3
    <3>8. \A j \in DOMAIN dlq', v \in Workers : Holding(v)' => dlq'[j].id # msg'[v].id
      BY <1>dw, <1>u, <2>3
    <3>9. \A u, v \in Workers : Holding(u)' /\ Holding(v)' /\ msg'[u].id = msg'[v].id => u = v
      BY <1>ww, <1>u
    <3> QED
      BY <3>1, <3>2, <3>3, <3>4, <3>5, <3>6, <3>7, <3>8, <3>9 DEF Exclusive
  <2> QED
    BY <1>2, <2>4, <2>5
<1> QED
  BY <1>1, <1>4, <1>5, <1>6

\* Workers never put a job in a second place: BRPOP takes it from the queue, and
\* a retry or a dead letter takes it from the worker.
LEMMA WorkerExclusive ==
  ASSUME CarrierInv, UNCHANGED apiVars, NEW w \in Workers,
         Dequeue(w) \/ WorkerStep(w) \/ WorkerDies(w)
  PROVE  MessageInv' /\ RowInv' /\ Exclusive'
<1> USE DEF Holding
<1>0. /\ TypeOK /\ MessageInv /\ RowInv /\ Exclusive /\ hpc' = hpc
      /\ queue \in Seq(Message) /\ dlq \in Seq(Message)
      /\ wpc \in [Workers -> WorkerSteps] /\ msg \in [Workers -> Message \union {Null}]
  BY DEF CarrierInv, TypeOK, apiVars
<1>1. \A b \in Requests : status'[b] = "none" <=> status[b] = "none"
  BY <1>0, WorkersKeepRows
<1>2. /\ \A i \in DOMAIN queue : queue[i].id \in Requests
      /\ \A i \in DOMAIN dlq : dlq[i].id \in Requests
      /\ \A v \in Workers : wpc[v] # "idle" => msg[v] \in Message /\ msg[v].id \in Requests
  BY <1>0, EntryFacts DEF TypeOK, MessageInv, Message
<1>qq. \A i, j \in DOMAIN queue : queue[i].id = queue[j].id => i = j
  BY <1>0 DEF Exclusive
<1>dd. \A i, j \in DOMAIN dlq : dlq[i].id = dlq[j].id => i = j
  BY <1>0 DEF Exclusive
<1>ww. \A u, v \in Workers : Holding(u) /\ Holding(v) /\ msg[u].id = msg[v].id => u = v
  BY <1>0 DEF Exclusive
<1>qd. \A i \in DOMAIN queue, j \in DOMAIN dlq : queue[i].id # dlq[j].id
  BY <1>0 DEF Exclusive
<1>qw. \A i \in DOMAIN queue, v \in Workers : Holding(v) => queue[i].id # msg[v].id
  BY <1>0 DEF Exclusive
<1>dw. \A j \in DOMAIN dlq, v \in Workers : Holding(v) => dlq[j].id # msg[v].id
  BY <1>0 DEF Exclusive
<1>qh. \A i \in DOMAIN queue : hpc[queue[i].id] # "enqueue"
  BY <1>0 DEF Exclusive
<1>dh. \A j \in DOMAIN dlq : hpc[dlq[j].id] # "enqueue"
  BY <1>0 DEF Exclusive
<1>wh. \A v \in Workers : Holding(v) => hpc[msg[v].id] # "enqueue"
  BY <1>0 DEF Exclusive
<1>rq. \A i \in DOMAIN queue : status[queue[i].id] # "none"
  BY <1>0 DEF RowInv
<1>rd. \A j \in DOMAIN dlq : status[dlq[j].id] # "none"
  BY <1>0 DEF RowInv
<1>rw. \A v \in Workers : wpc[v] # "idle" => status[msg[v].id] # "none"
  BY <1>0 DEF RowInv
<1>h. hpc' = hpc
  BY <1>0
<1>3. CASE WorkerKeeps(w)
  <2>1. /\ queue' = queue /\ dlq' = dlq /\ msg' = msg
        /\ \A v \in Workers : wpc'[v] # "idle" => wpc[v] # "idle"
        /\ \A v \in Workers : Holding(v)' => Holding(v)
    BY <1>0, <1>3 DEF WorkerKeeps, SameLists
  <2>2. MessageInv'
    BY <1>2, <2>1 DEF MessageInv
  <2>3. RowInv'
    BY <1>1, <1>2, <1>rq, <1>rd, <1>rw, <2>1 DEF RowInv
  <2>4. Exclusive'
    <3>1. \A u, v \in Workers : Holding(u)' /\ Holding(v)' /\ msg'[u].id = msg'[v].id => u = v
      BY <1>ww, <2>1
    <3>2. /\ \A i \in DOMAIN queue', v \in Workers : Holding(v)' => queue'[i].id # msg'[v].id
          /\ \A j \in DOMAIN dlq', v \in Workers : Holding(v)' => dlq'[j].id # msg'[v].id
      BY <1>qw, <1>dw, <2>1
    <3>3. \A v \in Workers : Holding(v)' => hpc'[msg'[v].id] # "enqueue"
      BY <1>wh, <1>h, <2>1
    <3>4. queue' = queue /\ dlq' = dlq
      BY <2>1
    <3> QED
      BY <1>qq, <1>dd, <1>qd, <1>qh, <1>dh, <1>h, <3>1, <3>2, <3>3, <3>4 DEF Exclusive
  <2> QED
    BY <2>2, <2>3, <2>4
<1>4. CASE WorkerLetsGo(w)
  <2>1. /\ queue' = queue /\ dlq' = dlq
        /\ \A v \in Workers : wpc'[v] # "idle" => wpc[v] # "idle" /\ msg'[v] = msg[v]
        /\ \A v \in Workers : Holding(v)' => Holding(v) /\ msg'[v] = msg[v]
    BY <1>0, <1>4 DEF WorkerLetsGo, Idle, SameLists
  <2>2. MessageInv'
    BY <1>2, <2>1 DEF MessageInv
  <2>3. RowInv'
    BY <1>1, <1>2, <1>rq, <1>rd, <1>rw, <2>1 DEF RowInv
  <2>4. Exclusive'
    <3>1. \A u, v \in Workers : Holding(u)' /\ Holding(v)' /\ msg'[u].id = msg'[v].id => u = v
      BY <1>ww, <2>1
    <3>2. /\ \A i \in DOMAIN queue', v \in Workers : Holding(v)' => queue'[i].id # msg'[v].id
          /\ \A j \in DOMAIN dlq', v \in Workers : Holding(v)' => dlq'[j].id # msg'[v].id
      BY <1>qw, <1>dw, <2>1, SMTT(30)
    <3>3. \A v \in Workers : Holding(v)' => hpc'[msg'[v].id] # "enqueue"
      BY <1>wh, <1>h, <2>1
    <3>4. queue' = queue /\ dlq' = dlq
      BY <2>1
    <3> QED
      BY <1>qq, <1>dd, <1>qd, <1>qh, <1>dh, <1>h, <3>1, <3>2, <3>3, <3>4 DEF Exclusive
  <2> QED
    BY <2>2, <2>3, <2>4
<1>5. CASE Dequeue(w)
  <2>1. /\ 1 \in DOMAIN queue /\ queue[1] \in Message
        /\ \A i \in DOMAIN queue' :
             i \in Nat /\ i + 1 \in DOMAIN queue /\ i + 1 # 1 /\ queue'[i] = queue[i + 1]
        /\ msg'[w] = queue[1] /\ dlq' = dlq
        /\ \A v \in Workers \ {w} : msg'[v] = msg[v] /\ wpc'[v] = wpc[v]
        /\ wpc'[w] = "mark_running"
    BY <1>0, <1>5, TailFacts DEF Dequeue, Step
  <2>2. MessageInv'
    BY <1>2, <2>1 DEF MessageInv
  <2>3. RowInv'
    <3>1. \A i \in DOMAIN queue' : status'[queue'[i].id] # "none"
      BY <1>1, <1>2, <1>rq, <2>1
    <3>2. \A v \in Workers : wpc'[v] # "idle" => status'[msg'[v].id] # "none"
      BY <1>1, <1>2, <1>rq, <1>rw, <2>1
    <3> QED
      BY <1>1, <1>2, <1>rd, <2>1, <3>1, <3>2 DEF RowInv
  <2>4. Exclusive'
    <3>0. \A i \in DOMAIN queue' :
            i \in Nat /\ i + 1 \in DOMAIN queue /\ i + 1 # 1 /\ queue'[i] = queue[i + 1]
      BY <2>1
    <3>1. \A i, j \in DOMAIN queue' : queue'[i].id = queue'[j].id => i = j
      <4> SUFFICES ASSUME NEW i \in DOMAIN queue', NEW j \in DOMAIN queue', queue'[i].id = queue'[j].id
                   PROVE  i = j
        OBVIOUS
      <4>1. i \in Nat /\ j \in Nat /\ i + 1 = j + 1
        BY <1>qq, <3>0
      <4> QED
        BY <4>1
    <3>2. \A u, v \in Workers : Holding(u)' /\ Holding(v)' /\ msg'[u].id = msg'[v].id => u = v
      BY <1>ww, <1>qw, <2>1
    <3>3. \A i \in DOMAIN queue', v \in Workers : Holding(v)' => queue'[i].id # msg'[v].id
      BY <1>qq, <1>qw, <2>1
    <3>4. \A i \in DOMAIN queue', j \in DOMAIN dlq' : queue'[i].id # dlq'[j].id
      BY <1>qd, <2>1, SMTT(30)
    <3>5. \A j \in DOMAIN dlq', v \in Workers : Holding(v)' => dlq'[j].id # msg'[v].id
      BY <1>qd, <1>dw, <2>1, SMTT(30)
    <3>6. /\ \A i \in DOMAIN queue' : hpc'[queue'[i].id] # "enqueue"
          /\ \A v \in Workers : Holding(v)' => hpc'[msg'[v].id] # "enqueue"
      BY <1>qh, <1>wh, <1>h, <2>1
    <3> QED
      BY <1>dd, <1>dh, <1>h, <2>1, <3>1, <3>2, <3>3, <3>4, <3>5, <3>6 DEF Exclusive
  <2> QED
    BY <2>2, <2>3, <2>4
<1>6. CASE WorkerRetries(w)
  <2> DEFINE m == [msg[w] EXCEPT !.attempt = @ + 1]
  <2>1. m \in Message /\ m.id = msg[w].id /\ wpc[w] # "idle"
    BY <1>2, <1>6 DEF WorkerRetries, Message
  <2>2. \A i \in DOMAIN queue' : \/ i \in DOMAIN queue /\ queue'[i] = queue[i]
                                 \/ i = Len(queue) + 1 /\ queue'[i] = m
    BY <1>0, <1>6, <2>1, PushCases DEF WorkerRetries, EnqueueRetry
  <2>3. /\ dlq' = dlq /\ Holding(w) /\ wpc'[w] = "idle"
        /\ \A v \in Workers \ {w} : msg'[v] = msg[v] /\ wpc'[v] = wpc[v]
    BY <1>0, <1>6 DEF WorkerRetries, Idle
  <2> HIDE DEF m
  <2>4. /\ \A v \in Workers : wpc'[v] # "idle" => wpc[v] # "idle" /\ msg'[v] = msg[v]
        /\ \A v \in Workers : Holding(v)' => v # w /\ Holding(v) /\ msg'[v] = msg[v]
    BY <2>3
  <2> HIDE DEF Holding
  <2>5. MessageInv'
    BY <1>2, <2>4 DEF MessageInv
  <2>6. RowInv'
    <3>1. \A i \in DOMAIN queue' : status'[queue'[i].id] # "none"
      BY <1>1, <1>2, <1>rq, <1>rw, <2>1, <2>2
    <3> QED
      BY <1>1, <1>2, <1>rd, <1>rw, <2>3, <2>4, <3>1, SMTT(30) DEF RowInv
  <2>7. Exclusive'
    <3>1. \A i, j \in DOMAIN queue' : queue'[i].id = queue'[j].id => i = j
      <4>1. \A i \in DOMAIN queue : queue[i].id # m.id
        BY <1>qw, <2>1, <2>3
      <4> QED
        BY <1>qq, <2>2, <4>1
    <3>2. \A i \in DOMAIN queue', v \in Workers : Holding(v)' => queue'[i].id # msg'[v].id
      <4>1. \A v \in Workers : Holding(v)' => Holding(v) /\ msg'[v].id = msg[v].id /\ msg[v].id # m.id
        BY <1>ww, <2>1, <2>3, <2>4
      <4> QED
        BY <1>qw, <2>2, <4>1
    <3>3. \A i \in DOMAIN queue', j \in DOMAIN dlq' : queue'[i].id # dlq'[j].id
      BY <1>qd, <1>dw, <2>1, <2>2, <2>3
    <3>4. \A i \in DOMAIN queue' : hpc'[queue'[i].id] # "enqueue"
      BY <1>qh, <1>wh, <1>h, <2>1, <2>2, <2>3
    <3>5. dlq' = dlq
      BY <2>3
    <3>6. \A i, j \in DOMAIN dlq' : dlq'[i].id = dlq'[j].id => i = j
      BY <1>dd, <3>5
    <3>7. \A j \in DOMAIN dlq', v \in Workers : Holding(v)' => dlq'[j].id # msg'[v].id
      BY <1>dw, <2>4, <3>5
    <3>8. \A u, v \in Workers : Holding(u)' /\ Holding(v)' /\ msg'[u].id = msg'[v].id => u = v
      BY <1>ww, <2>4
    <3>9. /\ \A j \in DOMAIN dlq' : hpc'[dlq'[j].id] # "enqueue"
          /\ \A v \in Workers : Holding(v)' => hpc'[msg'[v].id] # "enqueue"
      BY <1>dh, <1>wh, <1>h, <2>4, <3>5
    <3> QED
      BY <3>1, <3>2, <3>3, <3>4, <3>6, <3>7, <3>8, <3>9 DEF Exclusive
  <2> QED
    BY <2>5, <2>6, <2>7
<1>7. CASE WorkerGivesUp(w)
  <2>1. msg[w] \in Message /\ wpc[w] # "idle" /\ Holding(w)
    BY <1>2, <1>7 DEF WorkerGivesUp
  <2>2. \A i \in DOMAIN dlq' : \/ i \in DOMAIN dlq /\ dlq'[i] = dlq[i]
                               \/ i = Len(dlq) + 1 /\ dlq'[i] = msg[w]
    BY <1>0, <1>7, <2>1, PushCases DEF WorkerGivesUp, MoveToDlq
  <2>3. /\ queue' = queue /\ msg' = msg /\ wpc'[w] = "mark_failed"
        /\ \A v \in Workers \ {w} : wpc'[v] = wpc[v]
    BY <1>0, <1>7 DEF WorkerGivesUp
  <2>4. /\ \A v \in Workers : wpc'[v] # "idle" => wpc[v] # "idle"
        /\ \A v \in Workers : Holding(v)' => v # w /\ Holding(v)
    BY <2>1, <2>3
  <2> HIDE DEF Holding
  <2>5. MessageInv'
    BY <1>2, <2>3, <2>4 DEF MessageInv
  <2>6. RowInv'
    <3>1. \A j \in DOMAIN dlq' : status'[dlq'[j].id] # "none"
      BY <1>1, <1>2, <1>rd, <1>rw, <2>1, <2>2
    <3> QED
      BY <1>1, <1>2, <1>rq, <1>rw, <2>3, <2>4, <3>1 DEF RowInv
  <2>7. Exclusive'
    <3>a. \A j \in DOMAIN dlq : dlq[j].id # msg[w].id
      BY <1>dw, <2>1
    <3>b. \A v \in Workers : Holding(v)' => Holding(v) /\ msg'[v].id = msg[v].id /\ msg[v].id # msg[w].id
      BY <1>ww, <2>1, <2>3, <2>4
    <3>1. ASSUME NEW i \in DOMAIN dlq', NEW j \in DOMAIN dlq', dlq'[i].id = dlq'[j].id
          PROVE  i = j
      <4>1. CASE i \in DOMAIN dlq /\ dlq'[i] = dlq[i]
        BY <1>dd, <2>2, <3>a, <3>1, <4>1
      <4>2. CASE i = Len(dlq) + 1 /\ dlq'[i] = msg[w]
        BY <2>2, <3>a, <3>1, <4>2
      <4> QED
        BY <2>2, <4>1, <4>2
    <3>2. \A j \in DOMAIN dlq', v \in Workers : Holding(v)' => dlq'[j].id # msg'[v].id
      BY <1>dw, <2>2, <3>b
    <3>3. \A i \in DOMAIN queue', j \in DOMAIN dlq' : queue'[i].id # dlq'[j].id
      BY <1>qd, <1>qw, <2>1, <2>2, <2>3
    <3>4. \A j \in DOMAIN dlq' : hpc'[dlq'[j].id] # "enqueue"
      BY <1>dh, <1>wh, <1>h, <2>1, <2>2
    <3>5. queue' = queue /\ msg' = msg
      BY <2>3
    <3> QED
      BY <1>qq, <1>ww, <1>qw, <1>qh, <1>wh, <1>h, <2>4, <3>1, <3>2, <3>3, <3>4, <3>5 DEF Exclusive
  <2> QED
    BY <2>5, <2>6, <2>7
<1> QED
  BY <1>0, <1>3, <1>4, <1>5, <1>6, <1>7, WorkerCases

-----------------------------------------------------------------------------
(* The theorems.                                                           *)

\* Pair by pair, Exclusive is what OneCarrier says of the places of a job.
LEMMA ExclusiveIsOneCarrier == ASSUME TypeOK, Exclusive PROVE OneCarrier
<1> SUFFICES ASSUME NEW b \in Requests, NEW c \in Carriers(b), NEW d \in Carriers(b) PROVE c = d
  BY DEF OneCarrier
<1> DEFINE Is(p) == \/ p = <<"handler", b>> /\ hpc[b] = "enqueue"
                    \/ \E i \in DOMAIN queue : p = <<"queue", i>> /\ queue[i].id = b
                    \/ \E i \in DOMAIN dlq : p = <<"dlq", i>> /\ dlq[i].id = b
                    \/ \E w \in Workers : p = <<"worker", w>> /\ Holding(w) /\ msg[w].id = b
<1>1. \A p \in Carriers(b) : Is(p)
  BY DEF Carriers
<1>2. Is(c) /\ Is(d)
  BY <1>1
<1>3. CASE c = <<"handler", b>> /\ hpc[b] = "enqueue"
  BY <1>2, <1>3 DEF Exclusive
<1>4. CASE \E i \in DOMAIN queue : c = <<"queue", i>> /\ queue[i].id = b
  BY <1>2, <1>4 DEF Exclusive
<1>5. CASE \E i \in DOMAIN dlq : c = <<"dlq", i>> /\ dlq[i].id = b
  BY <1>2, <1>5 DEF Exclusive
<1>6. CASE \E w \in Workers : c = <<"worker", w>> /\ Holding(w) /\ msg[w].id = b
  BY <1>2, <1>6 DEF Exclusive
<1> QED
  BY <1>2, <1>3, <1>4, <1>5, <1>6

\* The invariant holds initially and every step of the backend keeps it.
THEOREM CarrierInvariant == Spec => []CarrierInv
<1>1. ASSUME Init PROVE CarrierInv
  <2>1. TypeOK
    BY <1>1 DEF Init, StoreInit, ApiInit, WorkerInit, TypeOK, BenchmarkStatus, HandlerSteps, WorkerSteps
  <2>2. HandlerInv
    BY <1>1 DEF Init, StoreInit, ApiInit, HandlerInv
  <2>3. queue = <<>> /\ dlq = <<>> /\ wpc = [w \in Workers |-> "idle"]
    BY <1>1 DEF Init, StoreInit, WorkerInit
  <2>4. MessageInv /\ RowInv
    BY <2>3 DEF MessageInv, RowInv
  <2>5. Exclusive
    BY <2>3 DEF Exclusive, Holding
  <2> QED
    BY <2>1, <2>2, <2>4, <2>5 DEF CarrierInv
<1>2. CarrierInv /\ [Next]_vars => CarrierInv'
  <2> SUFFICES ASSUME CarrierInv, [Next]_vars PROVE CarrierInv'
    OBVIOUS
  <2>0. TypeOK /\ HandlerInv /\ MessageInv
    BY DEF CarrierInv
  <2>1. ASSUME ApiNext, UNCHANGED workerVars PROVE CarrierInv'
    <3>1. PICK r \in Requests : PostBenchmark(r) \/ HandlerStep(r) \/ HandlerFails(r)
                                  \/ EnqueueUnacknowledged(r)
      BY <2>1 DEF ApiNext
    <3>2. TypeOK'
      BY <2>0, <2>1, <3>1, ApiTypeOK
    <3>3. HandlerInv'
      BY <2>0, <3>1, ApiHandlerInv
    <3>4. MessageInv' /\ RowInv' /\ Exclusive'
      BY <2>1, <3>1, ApiExclusive
    <3> QED
      BY <3>2, <3>3, <3>4 DEF CarrierInv
  <2>2. ASSUME WorkerNext, UNCHANGED apiVars PROVE CarrierInv'
    <3>1. PICK w \in Workers : Dequeue(w) \/ WorkerStep(w) \/ WorkerDies(w)
      BY <2>2 DEF WorkerNext
    <3>2. TypeOK'
      BY <2>0, <2>2, <3>1, WorkerTypeOK
    <3>3. HandlerInv'
      BY <2>0, <2>2, <3>1, WorkerHandlerInv
    <3>4. MessageInv' /\ RowInv' /\ Exclusive'
      BY <2>2, <3>1, WorkerExclusive
    <3> QED
      BY <3>2, <3>3, <3>4 DEF CarrierInv
  <2>3. ASSUME UNCHANGED vars PROVE CarrierInv'
    <3>1. UNCHANGED <<storeVars, apiVars, workerVars>>
      BY <2>3 DEF vars
    <3>2. TypeOK' /\ HandlerInv'
      BY <3>1 DEF storeVars, apiVars, workerVars, CarrierInv, TypeOK, HandlerInv
    <3>3. MessageInv' /\ RowInv'
      BY <3>1 DEF storeVars, apiVars, workerVars, CarrierInv, MessageInv, RowInv
    <3>4. Exclusive'
      BY <3>1 DEF storeVars, apiVars, workerVars, CarrierInv, Exclusive, Holding
    <3> QED
      BY <3>2, <3>3, <3>4 DEF CarrierInv
  <2> QED
    BY <2>1, <2>2, <2>3 DEF Next, Quiescent
<1> QED
  BY <1>1, <1>2, PTL DEF Spec

\* The tables, the lists and the processes are always well typed.
THEOREM BackendTypeCorrect == Spec => []TypeOK
<1>1. CarrierInv => TypeOK
  BY DEF CarrierInv
<1> QED
  BY <1>1, CarrierInvariant, PTL

\* Whatever fails and whoever runs when, the job of a benchmark is never in two
\* places: no two workers run the same benchmark, and no job is both given up
\* and waiting.
THEOREM OneCarrierHolds == Spec => []OneCarrier
<1>1. CarrierInv => OneCarrier
  BY ExclusiveIsOneCarrier DEF CarrierInv
<1> QED
  BY <1>1, CarrierInvariant, PTL

\* A worker that pops a message always finds the row it names.
THEOREM CarriedHasRowHolds == Spec => []CarriedHasRow
<1>1. CarrierInv => CarriedHasRow
  BY DEF CarrierInv, CarriedHasRow, Carriers, RowExists, RowInv, HandlerInv, Holding
<1> QED
  BY <1>1, CarrierInvariant, PTL
=============================================================================
