SPECIFICATION Spec
CONSTANTS
  Operators = {o1}
  Ids = {j1}
  Specs = {a}
  Name = Name
  NoId = NoId
  NoObj = NoObj
  NoJob = NoJob
  RetryLimits = {0}
  DefaultMaxRetries = 2
  MaxObjects = 1
  MaxEdits = 0
  MaxFaults = 0
INVARIANT
  RetriedAsAllowed
