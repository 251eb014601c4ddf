SPECIFICATION Spec
CONSTANTS
  Processes = {"p1", "p2"}
  All = "all"
  Unknown = "unknown"
  Absent = Absent
  Invalid = Invalid
  Junk = Junk
  DefaultAllow = {}
  DefaultDeny = {}
  Registered <- MCRegistered
  ServerTimeout = 3
  ServerExpiration = 2
  EnableJobRealm = TRUE
  AdminRealm = "admin"
  Keywords = {}
  BadMaps = {"m2"}
  Gone = Gone
  Jobs = {"j1"}
  RuleSets <- MCRuleSets
  FirstRules <- MCFirstRules
  Requests <- MCRequests
  Files = {"log", "out"}
INVARIANT FullAccessWithoutRules
CHECK_DEADLOCK FALSE
