SPECIFICATION Spec
CONSTANTS
  Requests = {r1, r2}
  Workers = {w1, w2}
  None = None
  NoLimit = NoLimit
  NumWorkers = 1
  MaxCycles = NoLimit
  MaxQueue = 1
  ChanCap = 2
  MaxCrashes = 0
  MaxRestarts = 1
  CanClose = FALSE
INVARIANT
  RestartIsGraceful
