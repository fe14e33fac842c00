SPECIFICATION FairSpec
CONSTANTS
  Ids = {j1, j2}
  Specs = {a, b}
  Name = Name
  NoId = NoId
  NoObj = NoObj
  NoJob = NoJob
  KeepsStatus = {TRUE}
  MaxObjects = 1
  MaxEdits = 0
  MaxFaults = 0
PROPERTY DeletionAlwaysEnds
