CONSTANTS
  e1 = e1
  e2 = e2
  e3 = e3
  e4 = e4
  Events = {e1, e2, e3, e4}
  NumHandlers = 2
  MaxEntries = 3
  Workers = {w1}
  Kind <- MixedKinds
  MaxAttempts <- Attempts2
  Dlq = {1}
  BadMode = {2}
  Raises = {"RetryableError"}
  PoisonMax = 1
  BatchSize = 3
  ReclaimCount = 2
  HasAutoClaim = FALSE
  KeysMayExpire = TRUE
  FaultCalls <- AllButContract
  MaxFaults = 1
  MaxCrashes = 1
  CountCap = 5
SPECIFICATION Spec
INVARIANTS NoLoss RunBudget SingleToken
