SPECIFICATION Spec
CONSTANTS
  Jobs = {u1}
  None = None
  Timeout = 1
  ServerTimeout = 2
  Expiration = 1
  Skew = 0
  MaxAge = 2
  MaxDeaths = 0
  MaxServerStops = 0
  MaxDismissals = 1
INVARIANT
  DismissedStaysGone
