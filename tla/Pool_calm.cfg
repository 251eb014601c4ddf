SPECIFICATION CalmSpec
CONSTANTS
  Requests = {r1, r2, r3}
  Workers = {w1, w2}
  None = None
  NoLimit = NoLimit
  NumWorkers = 2
  MaxCycles = NoLimit
  MaxQueue = 1
  ChanCap = 1
  MaxCrashes = 0
  MaxRestarts = 0
  CanClose = FALSE
PROPERTY
  EveryAnswered
