SPECIFICATION FairSpec
CONSTANTS
  Requests = {r1, r2}
  Keys = {k1, k2}
  Models = {h100, l40, long}
  LongNames = {long}
  Fits = {TRUE, FALSE}
  Workers = {w1, w2}
  MaxRetries = 3
  Faults = {"engine"}
  Null = Null
INVARIANTS
  NoJobLost
  FailedPostExplained
  ResultCountsAttempts
PROPERTIES
  EveryRequestAnswered
  EveryJobSettles
  DeadLetteredShowsFailed
  TerminalIsFinal
