--------------------- MODULE BenchmarkEnvironmentProofs ---------------------
(***************************************************************************)
(* Theorems about BenchmarkEnvironment, for all batches, owners and names: *)
(* the layers agree, and the estimates are ordered as they should be.      *)
(***************************************************************************)
EXTENDS BenchmarkEnvironment, TLAPS

\* The time of a tier and a workload, before the batch is counted.
Plain(gpu, workload) == TierTable[gpu].runtime * RuntimeMultiplier(workload)

Times == {30, 45, 60, 75, 90, 120, 135, 180, 225, 270, 360}

\* The tier table and the two multipliers give eleven different times.
LEMMA PlainTimes ==
  ASSUME NEW g \in GpuModels, NEW w \in ValidWorkloads
  PROVE  Plain(g, w) \in Times
BY DEF Plain, Times, GpuModels, ValidWorkloads, TierTable, RuntimeMultiplier

\* batchMultiplier does not fall.
LEMMA MultiplierGrows ==
  ASSUME NEW a \in Nat, NEW b \in Nat, a <= b
  PROVE  /\ BatchMultiplier(a) \in Nat /\ BatchMultiplier(b) \in Nat
         /\ BatchMultiplier(a) <= BatchMultiplier(b)
BY DEF BatchMultiplier

\* Neither does the truncated product, for any of the times.
LEMMA EstimateGrows ==
  ASSUME NEW t \in Times, NEW a \in Nat, NEW b \in Nat, a <= b
  PROVE  (t * BatchMultiplier(a)) \div 256 <= (t * BatchMultiplier(b)) \div 256
BY MultiplierGrows, SMT DEF Times

-----------------------------------------------------------------------------

Composites == [fields : Fields, map : BOOLEAN]

\* Every answer is that of the function to some composite.
EnvInv ==
  /\ xr \in Composites
  /\ resp = NoResponse \/ \E x \in Composites : resp = RunFunction(x)

\* Edits stay within the fields, and only the pipeline answers.
THEOREM EnvInvariant == Spec => []EnvInv
<1>1. Init => EnvInv
  BY DEF Init, EnvInv, Composites
<1>2. EnvInv /\ [Next]_vars => EnvInv'
  <2> SUFFICES ASSUME EnvInv, [Next]_vars
               PROVE  EnvInv'
    OBVIOUS
  <2>1. ASSUME NEW f \in Edits(xr.fields)
        PROVE  f \in Fields
    BY <2>1 DEF Edits, EnvInv, Composites, Fields
  <2>2. CASE UserEdits
    BY <2>1, <2>2 DEF UserEdits, EnvInv, Composites
  <2>3. CASE Unvalidated
    BY <2>1, <2>3 DEF Unvalidated, EnvInv, Composites
  <2>4. CASE Compose
    BY <2>4 DEF Compose, EnvInv
  <2>5. CASE UNCHANGED vars
    BY <2>5 DEF vars, EnvInv
  <2> QED
    BY <2>2, <2>3, <2>4, <2>5 DEF Next
<1> QED
  BY <1>1, <1>2, PTL DEF Spec

\* What the annotations of an answer are computed from.
SizedInv ==
  Sized =>
    /\ resp.fields.gpuModel \in GpuModels /\ resp.fields.workloadType \in ValidWorkloads
    /\ SizedBatch \in Nat
    /\ resp.annotations.estimate =
         (Plain(resp.fields.gpuModel, resp.fields.workloadType) * BatchMultiplier(SizedBatch)) \div 256

\* Annotations appear only in the answer to a valid composite with an annotation map.
THEOREM SizedInvariant == Spec => []SizedInv
<1>1. EnvInv => SizedInv
  <2> SUFFICES ASSUME EnvInv, Sized
               PROVE  SizedInv
    BY DEF SizedInv
  <2>1. PICK x \in Composites : resp = RunFunction(x)
    BY DEF EnvInv, Sized
  <2>2. Valid(x.fields) /\ x.map
    BY <2>1 DEF Sized, RunFunction, Annotations
  <2>3. /\ resp.fields = x.fields
        /\ resp.annotations.estimate = EstimatedSec(x.fields.gpuModel, x.fields.workloadType, SizedBatch)
    BY <2>1, <2>2 DEF RunFunction, Annotations, SizedBatch
  <2>4. x.fields.gpuModel \in GpuModels /\ x.fields.workloadType \in ValidWorkloads
    BY <2>2 DEF Valid, Field, GpuModels, ValidWorkloads
  <2>5. x.fields.batchSize \in Nat \union {Absent}
    BY LengthsAndBatches DEF Composites, Fields
  <2> QED
    BY <2>3, <2>4, <2>5 DEF SizedInv, SizedBatch, Field, EstimatedSec, Plain
<1> QED
  BY <1>1, EnvInvariant, PTL

\* The code's formula is the reference one, for every tier, workload and batch.
THEOREM EstimateIsReferenceHolds == Spec => []EstimateIsReference
<1>1. SizedInv => EstimateIsReference
  <2> SUFFICES ASSUME SizedInv, Sized
               PROVE  EstimateIsReference
    BY DEF EstimateIsReference
  <2> DEFINE t == Plain(resp.fields.gpuModel, resp.fields.workloadType)
  <2>1. t \in Times /\ SizedBatch \in Nat
    BY PlainTimes DEF SizedInv
  <2>2. (t * BatchMultiplier(SizedBatch)) \div 256 =
          IF SizedBatch <= 64 THEN t ELSE t + (t * (SizedBatch - 64)) \div 256
    <3> HIDE DEF t
    <3> QED
      BY <2>1, SMT DEF Times, BatchMultiplier
  <2> QED
    BY <2>2 DEF SizedInv, EstimateIsReference, Plain
<1> QED
  BY <1>1, SizedInvariant, PTL

\* Between two answers, a larger batch never has a smaller estimate.
THEOREM EstimateMonotoneHolds == Spec => EstimateMonotone
<1>1. SizedInv /\ SizedInv' =>
        (Sized /\ Sized' /\ resp.fields.gpuModel = resp'.fields.gpuModel
           /\ resp.fields.workloadType = resp'.fields.workloadType /\ SizedBatch <= SizedBatch'
         => resp.annotations.estimate <= resp'.annotations.estimate)
  BY PlainTimes, EstimateGrows DEF SizedInv
<1> QED
  BY <1>1, SizedInvariant, PTL DEF EstimateMonotone

\* Between two answers, training takes three times as long as inference, and the
\* truncation adds less than three seconds.
THEOREM TrainingIsThriceHolds == Spec => TrainingIsThrice
<1>1. ASSUME NEW n \in Nat
      PROVE  (3 * n) \div 256 - 3 * (n \div 256) \in 0 .. 2
  BY SMT
<1>2. ASSUME NEW g \in GpuModels, NEW b \in Nat
      PROVE  (Plain(g, "training") * BatchMultiplier(b)) \div 256
               - 3 * ((Plain(g, "inference") * BatchMultiplier(b)) \div 256) \in 0 .. 2
  <2>1. Plain(g, "inference") \in Times /\ Plain(g, "training") = 3 * Plain(g, "inference")
    BY PlainTimes DEF Plain, GpuModels, ValidWorkloads, TierTable, RuntimeMultiplier
  <2>2. BatchMultiplier(b) \in Nat
    BY MultiplierGrows
  <2> DEFINE n == Plain(g, "inference") * BatchMultiplier(b)
  <2>3. n \in Nat /\ Plain(g, "training") * BatchMultiplier(b) = 3 * n
    BY <2>1, <2>2 DEF Times
  <2> HIDE DEF n
  <2> QED
    BY <1>1, <2>3 DEF n
<1>3. SizedInv /\ SizedInv' =>
        (Sized /\ Sized' /\ resp.fields.gpuModel = resp'.fields.gpuModel /\ SizedBatch = SizedBatch'
           /\ resp.fields.workloadType = "inference" /\ resp'.fields.workloadType = "training"
         => resp'.annotations.estimate - 3 * resp.annotations.estimate \in 0 .. 2)
  BY <1>2 DEF SizedInv
<1> QED
  BY <1>3, SizedInvariant, PTL DEF TrainingIsThrice

-----------------------------------------------------------------------------

\* What the XRD admits passes the function, the CRD and the policies, for every owner
\* that makes a namespace.
THEOREM LayersAgreeHolds == Spec => []LayersAgree
<1>1. Init => LayersAgree
  BY DEF Init, LayersAgree
<1>2. EnvInv /\ LayersAgree /\ [Next]_vars => LayersAgree'
  <2> SUFFICES ASSUME EnvInv, LayersAgree, [Next]_vars
               PROVE  LayersAgree'
    OBVIOUS
  <2>1. CASE UNCHANGED <<resp, composed>>
    BY <2>1 DEF LayersAgree
  <2>2. CASE Compose
    <3> SUFFICES ASSUME XrdAdmits(resp'.fields), NamespaceExists(resp'.fields)
                 PROVE  /\ resp'.severity = "NORMAL"
                        /\ composed' = resp'.fields
      BY DEF LayersAgree
    <3>1. resp'.fields = xr.fields
      BY <2>2 DEF Compose, RunFunction
    <3>2. XrdAdmits(xr.fields) /\ NamespaceExists(xr.fields)
      BY <3>1
    <3>3. Valid(xr.fields)
      BY <3>2, AbsentIsNoValue, ZenonT(60) DEF XrdAdmits, Valid, Field, GpuModels, ValidWorkloads
    <3>4. Admitted(xr.fields)
      BY <3>2, ZenonT(60) DEF XrdAdmits, Admitted, CrdAdmits, KyvernoAdmits, NamespaceExists
    <3>5. resp'.severity = "NORMAL" /\ composed' = xr.fields
      BY <2>2, <3>3, <3>4 DEF Compose, RunFunction
    <3> QED
      BY <3>1, <3>5
  <2> QED
    BY <2>1, <2>2 DEF Next, UserEdits, Unvalidated, vars
<1> QED
  BY <1>1, <1>2, EnvInvariant, PTL DEF Spec

-----------------------------------------------------------------------------

Jobs == [gpuModel : GpuModels, workloadType : ValidWorkloads, batchSize : Batches,
         costCenter : CostCenters, owner : Owners]

\* What the CRD and the policies admit lacks no field.
LEMMA AdmittedIsJob ==
  ASSUME NEW f \in Fields, Admitted(f)
  PROVE  f \in Jobs
<1>1. /\ f = [gpuModel |-> f.gpuModel, workloadType |-> f.workloadType, batchSize |-> f.batchSize,
              costCenter |-> f.costCenter, owner |-> f.owner]
      /\ f.batchSize \in Batches \union {Absent} /\ f.owner \in Owners
  BY DEF Fields
<1>2. /\ f.gpuModel \in GpuModels /\ f.workloadType \in ValidWorkloads
      /\ f.batchSize \in 1 .. 1024 /\ f.costCenter \in CostCenters
  BY ZenonT(60) DEF Admitted, CrdAdmits, KyvernoAdmits
<1>3. f.batchSize \in Batches
  <2>1. \A n \in 1 .. 1024 : n \in Nat
    OBVIOUS
  <2> QED
    BY <1>1, <1>2, <2>1, AbsentIsNoValue
<1> QED
  BY <1>1, <1>2, <1>3 DEF Jobs

\* What the function computes is a number of seconds.
LEMMA EstimateIsNat ==
  ASSUME NEW g \in GpuModels, NEW w \in ValidWorkloads, NEW b \in Nat
  PROVE  EstimatedSec(g, w, b) \in Nat /\ TierTable[g].peak \in Nat
<1>1. Plain(g, w) \in Times /\ BatchMultiplier(b) \in Nat
  BY PlainTimes, MultiplierGrows
<1>2. (Plain(g, w) * BatchMultiplier(b)) \div 256 \in Nat
  BY <1>1, SMT DEF Times
<1>3. TierTable[g].peak \in Nat
  BY DEF TierTable, GpuModels
<1> QED
  BY <1>2, <1>3 DEF EstimatedSec, Plain

\* The answer to any composite is well formed.
LEMMA AnswerTyped ==
  ASSUME NEW x \in Composites
  PROVE  RunFunction(x) \in Answers
<1>0. /\ x.fields \in Fields
      /\ x.fields.batchSize \in Nat \union {Absent} /\ x.fields.costCenter \in CostCenters \union {Absent}
  BY LengthsAndBatches DEF Composites, Fields
<1>1. NoAnnotations \in [estimate : Nat, peak : Nat, costCenter : CostCenters \union {DefaultCenter, Absent}]
  BY DEF NoAnnotations
<1>2. CASE Valid(x.fields)
  <2>1. x.fields.gpuModel \in GpuModels /\ x.fields.workloadType \in ValidWorkloads
    BY <1>2 DEF Valid, Field, GpuModels, ValidWorkloads
  <2>2. Field(x.fields.batchSize, 32) \in Nat
    BY <1>0 DEF Field
  <2>3. Field(x.fields.costCenter, DefaultCenter) \in CostCenters \union {DefaultCenter}
    BY <1>0 DEF Field
  <2>4. Annotations(x) \in [estimate : Nat, peak : Nat, costCenter : CostCenters \union {DefaultCenter, Absent}]
    BY <1>1, <2>1, <2>2, <2>3, EstimateIsNat DEF Annotations
  <2> QED
    BY <1>0, <1>2, <2>4 DEF RunFunction, Answers
<1>3. CASE ~Valid(x.fields)
  BY <1>0, <1>1, <1>3 DEF RunFunction, Answers
<1> QED
  BY <1>2, <1>3

JobTyped == composed \in Jobs \union {Uncomposed}

\* Answers are well formed, and what is composed is a complete BenchmarkJob.
THEOREM EnvironmentTypeCorrect == Spec => []TypeOK
<1>1. Init => JobTyped
  BY DEF Init, JobTyped
<1>2. EnvInv /\ JobTyped /\ [Next]_vars => JobTyped'
  <2> SUFFICES ASSUME EnvInv, JobTyped, [Next]_vars
               PROVE  JobTyped'
    OBVIOUS
  <2>1. xr.fields \in Fields
    BY DEF EnvInv, Composites
  <2>2. composed' = composed \/ (composed' = xr.fields /\ Admitted(xr.fields))
    BY DEF Next, UserEdits, Unvalidated, Compose, vars
  <2> QED
    BY <2>1, <2>2, AdmittedIsJob DEF JobTyped
<1>3. EnvInv /\ JobTyped => TypeOK
  BY AnswerTyped DEF EnvInv, TypeOK, Composites, Jobs, JobTyped
<1> QED
  BY <1>1, <1>2, <1>3, EnvInvariant, PTL DEF Spec
=============================================================================
