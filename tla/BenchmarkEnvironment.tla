------------------------ MODULE BenchmarkEnvironment ------------------------
(***************************************************************************)
(* A BenchmarkEnvironment on its way to the backend: the XRD admits the    *)
(* composite, the benchmark-sizing function checks and annotates it, the   *)
(* composition patches a BenchmarkJob from it, and the CRD and the Kyverno *)
(* policies admit that.                                                    *)
(*                                                                         *)
(* Of the strings, those of the two enumerations are kept; the owner is    *)
(* its length, which is what the namespace has a limit for.                *)
(***************************************************************************)
EXTENDS Naturals

CONSTANTS
  Gpus, Batches, Owners,  \* the values that users try
  CostCenters,   \* cost centers of the form CC-dddd
  DefaultCenter, \* CC-0000
  Absent         \* a field that is missing, of another type, or not in its enumeration

ASSUME LengthsAndBatches == Batches \union Owners \subseteq Nat
ASSUME AbsentIsNoValue ==
  /\ Absent \notin CostCenters /\ Absent \notin Nat
  /\ Absent \notin {"T4", "V100", "A100", "H100", "L40S", "RTX4090", "inference", "training"}

VARIABLES
  xr,      \* the composite: its fields, and has it an annotation map?
  resp,    \* the last answer of the function, with the fields it is about
  composed \* the BenchmarkJob of the composite

vars == <<xr, resp, composed>>

\* estimatedRuntimeSec and peakThroughput.
TierTable ==
  [T4 |-> [runtime |-> 120, peak |-> 400], V100 |-> [runtime |-> 90, peak |-> 900],
   A100 |-> [runtime |-> 60, peak |-> 2000], H100 |-> [runtime |-> 30, peak |-> 3500],
   L40S |-> [runtime |-> 45, peak |-> 1800], RTX4090 |-> [runtime |-> 75, peak |-> 1200]]

GpuModels == {"T4", "V100", "A100", "H100", "L40S", "RTX4090"}
ValidWorkloads == {"inference", "training"}

Fields ==
  [gpuModel : Gpus \union {Absent}, workloadType : ValidWorkloads \union {Absent},
   batchSize : Batches \union {Absent}, costCenter : CostCenters \union {Absent},
   owner : Owners]

-----------------------------------------------------------------------------
(* The benchmark-sizing function.                                          *)

\* strField and numField.
Field(value, default) == IF value = Absent THEN default ELSE value

\* Faulty variant: training takes twice as long.
TrainingDoubles(workload) == IF workload = "training" THEN 2 ELSE 1

RuntimeMultiplier(workload) == IF workload = "training" THEN 3 ELSE 1

\* batchMultiplier in 256ths; the code's floating-point numbers hold it exactly.
BatchMultiplier(b) == IF b > 64 THEN 256 + (b - 64) ELSE 256

\* Faulty variant: each factor is truncated by itself.
TruncatedTwice(gpu, workload, b) ==
  TierTable[gpu].runtime * RuntimeMultiplier(workload) * (BatchMultiplier(b) \div 256)

\* int(...) truncates.
EstimatedSec(gpu, workload, b) ==
  (TierTable[gpu].runtime * RuntimeMultiplier(workload) * BatchMultiplier(b)) \div 256

NoAnnotations == [estimate |-> 0, peak |-> 0, costCenter |-> Absent]

\* Values put into a map that the function made itself are in no response.
Annotations(x) ==
  IF x.map
    THEN [estimate |-> EstimatedSec(x.fields.gpuModel, x.fields.workloadType, Field(x.fields.batchSize, 32)),
          peak |-> TierTable[x.fields.gpuModel].peak,
          costCenter |-> Field(x.fields.costCenter, DefaultCenter)]
    ELSE NoAnnotations

\* The two validations.
Valid(f) ==
  /\ Field(f.gpuModel, "") \in GpuModels
  /\ Field(f.workloadType, "") \in ValidWorkloads

RunFunction(x) ==
  IF Valid(x.fields)
    THEN [severity |-> "NORMAL", fields |-> x.fields, annotations |-> Annotations(x)]
    ELSE [severity |-> "FATAL", fields |-> x.fields, annotations |-> NoAnnotations]

-----------------------------------------------------------------------------
(* Admission and composition.                                              *)

\* The schema of the XRD; the owner is any string.
XrdAdmits(f) ==
  /\ f.gpuModel \in GpuModels /\ f.workloadType \in ValidWorkloads
  /\ f.batchSize \in 1 .. 1024 /\ f.costCenter \in CostCenters

\* The namespace of the composed job is "benchmark-" and the owner, a DNS label.
NamespaceLength(f) == 10 + f.owner
NamespaceExists(f) == f.owner >= 1 /\ NamespaceLength(f) <= 63

\* Faulty variant: the CRD stops short of the largest batch.
CrdStopsShort(j) ==
  j.gpuModel \in GpuModels /\ j.workloadType \in ValidWorkloads /\ j.batchSize \in 1 .. 1023

\* The CRD's schema, of the BenchmarkJob with the patched fields.
CrdAdmits(j) ==
  j.gpuModel \in GpuModels /\ j.workloadType \in ValidWorkloads /\ j.batchSize \in 1 .. 1024

\* Faulty variant: the policy does not look at the cost center.
AnyCostCenter(j) == j.gpuModel \in GpuModels /\ j.workloadType \in ValidWorkloads /\ j.owner >= 1

\* The Kyverno policies: the two enumerations and the two labels.
KyvernoAdmits(j) ==
  /\ j.gpuModel \in GpuModels /\ j.workloadType \in ValidWorkloads
  /\ j.costCenter \in CostCenters /\ j.owner >= 1

Admitted(f) == NamespaceExists(f) /\ CrdAdmits(f) /\ KyvernoAdmits(f)

-----------------------------------------------------------------------------

NoResponse == [severity |-> "none", annotations |-> NoAnnotations]
Uncomposed == [gpuModel |-> Absent]

Init ==
  /\ xr \in {x \in [fields : Fields, map : BOOLEAN] : XrdAdmits(x.fields)}
  /\ resp = NoResponse /\ composed = Uncomposed

\* Users leave the owner alone, from which the names of the composed resources come.
Edits(f) ==
  {[f EXCEPT !.gpuModel = v] : v \in Gpus \union {Absent}}
    \union {[f EXCEPT !.workloadType = v] : v \in ValidWorkloads \union {Absent}}
    \union {[f EXCEPT !.batchSize = v] : v \in Batches \union {Absent}}
    \union {[f EXCEPT !.costCenter = v] : v \in CostCenters \union {Absent}}

UserEdits ==
  /\ \E f \in Edits(xr.fields), m \in BOOLEAN : XrdAdmits(f) /\ xr' = [fields |-> f, map |-> m]
  /\ UNCHANGED <<resp, composed>>

\* What was stored under another schema is not validated again.
Unvalidated ==
  /\ \E f \in Edits(xr.fields) : ~XrdAdmits(f) /\ xr' = [xr EXCEPT !.fields = f]
  /\ UNCHANGED <<resp, composed>>

\* The two steps of the pipeline, and what becomes of the composed BenchmarkJob.  A
\* fatal result ends the pipeline; a job that is not admitted stays as it was.
Compose ==
  /\ resp' = RunFunction(xr)
  /\ composed' = IF resp'.severity = "NORMAL" /\ Admitted(xr.fields) THEN xr.fields ELSE composed
  /\ UNCHANGED xr

Next == UserEdits \/ Unvalidated \/ Compose

Spec == Init /\ [][Next]_vars

-----------------------------------------------------------------------------

Answers ==
  [severity : {"NORMAL", "FATAL"}, fields : Fields,
   annotations : [estimate : Nat, peak : Nat, costCenter : CostCenters \union {DefaultCenter, Absent}]]

\* Responses are well formed, and the composed job has the fields of a BenchmarkJob.
TypeOK ==
  /\ xr \in [fields : Fields, map : BOOLEAN]
  /\ resp \in Answers \union {NoResponse}
  /\ composed \in [gpuModel : GpuModels, workloadType : ValidWorkloads, batchSize : Batches,
                   costCenter : CostCenters, owner : Owners]
       \union {Uncomposed}

\* The layers agree: what the XRD admits, for an owner that makes a namespace, passes
\* the function, the CRD and the policies, and becomes the composed job, whatever the
\* composite and the job were before.
LayersAgree ==
  resp # NoResponse /\ XrdAdmits(resp.fields) /\ NamespaceExists(resp.fields) =>
    /\ resp.severity = "NORMAL"
    /\ composed = resp.fields

Sized == resp # NoResponse /\ resp.annotations # NoAnnotations

SizedBatch == Field(resp.fields.batchSize, 32)

\* The estimate is the time of the tier and the workload, and 1/256 of that for every
\* item of the batch beyond 64, rounded down once.
EstimateIsReference ==
  Sized =>
    LET plain == TierTable[resp.fields.gpuModel].runtime * RuntimeMultiplier(resp.fields.workloadType)
    IN resp.annotations.estimate =
         IF SizedBatch <= 64 THEN plain ELSE plain + (plain * (SizedBatch - 64)) \div 256

\* From one answer of the function to the next, a larger batch on the same GPU and
\* for the same workload never gets a smaller estimate.
EstimateMonotone ==
  [][Sized /\ Sized' /\ resp.fields.gpuModel = resp'.fields.gpuModel
       /\ resp.fields.workloadType = resp'.fields.workloadType /\ SizedBatch <= SizedBatch'
     => resp.annotations.estimate <= resp'.annotations.estimate]_vars

\* Training is estimated at three times the inference, but for the rounding.
TrainingIsThrice ==
  [][Sized /\ Sized' /\ resp.fields.gpuModel = resp'.fields.gpuModel /\ SizedBatch = SizedBatch'
       /\ resp.fields.workloadType = "inference" /\ resp'.fields.workloadType = "training"
     => resp'.annotations.estimate - 3 * resp.annotations.estimate \in 0 .. 2]_vars
=============================================================================
