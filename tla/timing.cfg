CONSTANTS
  d1 = d1
  d2 = d2
  d3 = d3
  local = local
  Tasks = {d1, d2, d3, local}
  Strategy <- MCStrategy
  Base = 1
  MaxDelay = 2
  PolicyBase = 2
  PolicyMax = 4
  Jitter = TRUE
  MaxAttempts = 3
  PollEvery = 2
  BatchLimit = 1
  Skew = 1
  Horizon = 9
SPECIFICATION Spec
SYMMETRY Symmetry
CHECK_DEADLOCK FALSE
INVARIANTS NotLate WaitBound
PROPERTY BacksOff
