SPECIFICATION Spec
CONSTANTS
  Requests = {r1, r2, r3}
  Keys = {k1, k2}
  Models = {h100, l40}
  LongNames = {}
  Fits = {TRUE}
  Workers = {w1, w2}
  MaxRetries = 2
  Faults = {"engine", "db", "commit_lost", "redis", "crash"}
  Null = Null
SYMMETRY Symmetry
PROPERTIES
  ImplementsLifecycle
INVARIANTS
  TypeOK
  OneCarrier
  CarriedHasRow
  IdempotentReplies
  RecheckFindsRow
  ModelInsertedOnce
  AttemptsBounded
  FailedIsDeadLettered
