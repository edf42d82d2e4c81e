SPECIFICATION AllSpec
CONSTANTS
  Images = {m1}
  Databases = {m1, m2}
  Secured = TRUE
  SetupSteps = 1
  MaxRequests = 2
  MaxQueue = 2
  MaxSockets = 1
  MaxGenerations = 2
INVARIANTS DatabaseSafety AttAfterRestore SecurityAgreement NoSpuriousReject
CHECK_DEADLOCK FALSE
