SPECIFICATION FairSpec
CONSTANTS
  Procs = {w1, w2}
  Pids = {p1, p2}
  None = None
  Timeout = 2
  PidReuse = TRUE
  MaxJobs = 2
  MaxCrashes = 1
  MaxLost = 1
  MaxDismissals = 1
INVARIANTS
  TypeOK
  EntriesAreArmed
  Supervised
PROPERTIES
  NoEarlyKill
  DismissalKillsAnnounced
  StopIsFinal
  StalledIsKilled
  TableDrains
