SPECIFICATION Spec
CONSTANTS
  Operators = {o1, o2}
  Ids = {j1}
  Specs = {a, b}
  Name = Name
  NoId = NoId
  NoObj = NoObj
  NoJob = NoJob
  RetryLimits = {0}
  DefaultMaxRetries = 1
  MaxObjects = 2
  MaxEdits = 0
  MaxFaults = 1
SYMMETRY Symmetry
INVARIANTS
  TypeOK
  PhaseNeverAhead
  PostedUnderFinalizer
  NoLostWakeUp
PROPERTIES
  StatusSettles
  ImplementsContract
