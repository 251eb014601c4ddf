SPECIFICATION FairSpec
CONSTANTS
  Requests = {r1}
  Workers = {w1, w2, w3}
  None = None
  NoLimit = NoLimit
  NumWorkers = 1
  MaxCycles = NoLimit
  MaxQueue = 0
  ChanCap = 1
  MaxCrashes = 1
  MaxRestarts = 1
  CanClose = TRUE
PROPERTIES
  RestartHonoured
  PoolRecovers
  Completes
\* the run ends when the client is closed
CHECK_DEADLOCK FALSE
