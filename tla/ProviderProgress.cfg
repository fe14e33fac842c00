SPECIFICATION FairSpec
CONSTANTS
  Ids = {j1, j2}
  Specs = {a, b}
  Name = Name
  NoId = NoId
  NoObj = NoObj
  NoJob = NoJob
  KeepsStatus = {TRUE, FALSE}
  MaxObjects = 1
  MaxEdits = 1
  MaxFaults = 1
INVARIANTS
  TypeOK
  StatusNeverAhead
  OneJobPerName
  NoNeedlessSubmission
  NoLostWakeUp
PROPERTIES
  KnownJobKept
  SubmissionReached
  
  LostJobReplaced
  DeletionEnds
