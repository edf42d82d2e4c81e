SPECIFICATION FairSpec
CONSTANTS
  PollLimit = 2
  EventCapacity = 8
  AclCredits = 2
  MaxFragments = 1
  MaxHandle = 2
  Keys = {}
  NoKey = NoKey
  AdvTypes = {0, 3}
INVARIANTS ControllerInv
PROPERTIES ImplementsChannel CommandAnswered DropReported
