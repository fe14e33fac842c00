SPECIFICATION Spec
CONSTANTS
  Gpus = {"T4", "H100"}
  Batches = {0, 64, 65, 1024}
  Owners = {0, 20, 54}
  CostCenters = {"CC-1234"}
  DefaultCenter = "CC-0000"
  Absent = Absent
INVARIANTS
  TypeOK
  LayersAgree
  EstimateIsReference
PROPERTIES
  TrainingIsThrice
