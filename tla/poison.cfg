CONSTANTS
  e1 = e1
  e2 = e2
  e3 = e3
  e4 = e4
  Events = {e1}
  NumHandlers = 1
  MaxEntries = 1
  Workers = {w1}
  Kind <- AllEvents
  MaxAttempts <- Attempts2
  Dlq = {1}
  BadMode = {}
  Raises = {}
  PoisonMax = 1
  BatchSize = 2
  ReclaimCount = 2
  HasAutoClaim = TRUE
  KeysMayExpire = FALSE
  FaultCalls = {}
  MaxFaults = 0
  MaxCrashes = 1
  CountCap = 2
SPECIFICATION Spec
INVARIANT DeliveryLimit
