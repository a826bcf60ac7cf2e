CONSTANTS
  e1 = e1
  e2 = e2
  e3 = e3
  e4 = e4
  Events = {e1}
  NumHandlers = 2
  MaxEntries = 9
  Workers = {w1}
  Kind <- AllEvents
  MaxAttempts <- Attempts3
  Dlq = {1, 2}
  BadMode = {}
  Raises = {"RetryableError", "FatalError"}
  PoisonMax = 4
  BatchSize = 2
  ReclaimCount = 2
  HasAutoClaim = TRUE
  KeysMayExpire = FALSE
  FaultCalls = {}
  MaxFaults = 0
  MaxCrashes = 0
  CountCap = 8
SPECIFICATION Spec
INVARIANTS TypeOK ExactlyOnce FullRetries Amplification CopyBudget
