SPECIFICATION Spec
CONSTANTS
  PollLimit = 2
  EventCapacity = 8
  AclCredits = 2
  MaxFragments = 2
  MaxHandle = 2
  Keys = {k1}
  NoKey = NoKey
  AdvTypes = {0}
INVARIANTS WithinBounds HostBelief CreditsConserved
PROPERTIES LinkHistory
