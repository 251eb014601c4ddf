SPECIFICATION FairSpec
CONSTANTS
  Nobody = Nobody
  MaxCalls = 1
  MaxFaults = 1
  MaxDisk = 3
  MaxEvents = 3
  Slots = {s1}
INVARIANTS
  TypeOK
  ProvidersAreCurrent
  NothingLeftBehind
PROPERTIES
  AnswersMatch
  CallReturns
  ShutdownEnds
  ChangesAreReloaded
CHECK_DEADLOCK FALSE
