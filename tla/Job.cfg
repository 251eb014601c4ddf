SPECIFICATION FairSpec
CONSTANTS
  Jobs = {u1}
  None = None
  Timeout = 2
  ServerTimeout = 3
  Expiration = 2
  Skew = 0
  MaxAge = 3
  MaxDeaths = 1
  MaxServerStops = 2
  MaxDismissals = 2
INVARIANTS
  TypeOK
  OutcomeRecorded
  PidIsCurrent
PROPERTIES
  StatusForward
  CleanupSparesStarted
  RecordsExpire
