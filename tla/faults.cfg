CONSTANTS
  e1 = e1
  e2 = e2
  e3 = e3
  e4 = e4
  Events = {e1}
  NumHandlers = 2
  MaxEntries = 3
  Workers = {w1, w2}
  Kind <- AllEvents
  MaxAttempts <- Attempts2
  Dlq = {1}
  BadMode = {}
  Raises = {"RetryableError"}
  PoisonMax = 3
  BatchSize = 2
  ReclaimCount = 2
  HasAutoClaim = TRUE
  KeysMayExpire = FALSE
  FaultCalls <- AllButContract
  MaxFaults = 1
  MaxCrashes = 0
  CountCap = 1
SPECIFICATION Spec
INVARIANTS NoLoss AckEarned
PROPERTIES OnlyStaleReadsReopen ImplementsLedger
SYMMETRY Symmetry
