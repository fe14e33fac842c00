SPECIFICATION FairSpec
CONSTANTS
  Operators = {o1}
  Ids = {j1}
  Specs = {a, b}
  Name = Name
  NoId = NoId
  NoObj = NoObj
  NoJob = NoJob
  RetryLimits = {0, 1}
  DefaultMaxRetries = 2
  MaxObjects = 2
  MaxEdits = 1
  MaxFaults = 1
PROPERTIES
  RetriesFollowLimit
  DeletionEnds
  RunningSettles
  FailureReported
