SPECIFICATION Spec
CONSTANTS
  Nobody = Nobody
  MaxCalls = 1
  MaxFaults = 1
  MaxDisk = 2
  MaxEvents = 3
  Slots = {s1}
PROPERTY ContextCallsAnswered
CHECK_DEADLOCK FALSE
