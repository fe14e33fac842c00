SPECIFICATION Spec
CONSTANTS
  Requests = {r1, r2}
  Keys = {k1, k2}
  Models = {h100, l40}
  LongNames = {}
  Fits = {TRUE}
  Workers = {w1, w2}
  MaxRetries = 2
  Faults = {"db"}
  Null = Null
INVARIANT
  AcceptedIsQueued
