SPECIFICATION Spec
CONSTANTS
  Requests = {r1, r2}
  Workers = {w1, w2}
  None = None
  NoLimit = NoLimit
  NumWorkers = 2
  MaxCycles = 1
  MaxQueue = 0
  ChanCap = 2
  MaxCrashes = 1
  MaxRestarts = 1
  CanClose = FALSE
SYMMETRY Symmetric
INVARIANTS
  TypeOK
  WorkerListOK
  OnePlace
  HandlersArePending
PROPERTY
  Promise
\* the run ends when the workers are used up
CHECK_DEADLOCK FALSE
