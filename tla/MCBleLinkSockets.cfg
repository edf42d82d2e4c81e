SPECIFICATION Spec
CONSTANTS
  Images = {m1}
  Secured = FALSE
  SetupSteps = 1
  MaxRequests = 1
  MaxQueue = 2
  MaxSockets = 2
  MaxGenerations = 2
INVARIANTS LinkSafety
CHECK_DEADLOCK FALSE
