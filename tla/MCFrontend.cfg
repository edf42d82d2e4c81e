SPECIFICATION AllSpec
CONSTANTS
  Emulators = {e1, e2}
  Saves = {s1, s2}
  Bins = {b1}
  QemuSurvives = TRUE
  MaxWrites = 1
  None = None
  OneService = {a1}
  BothServices = {a1, a2}
  OneCentral = {c1}
  BothCentrals = {c1, c2}
  NoCentral = none
  MaxSessions = 3
  MaxRecordings = 2
  MaxMessages = 3
  Controls = {touch}
  Touch = touch
  Points = {0, 1}
  MinimumPress = 4
  FrameInterval = 2
  FramePeriod = 3
  MaxUpdates = 1
  MaxStarts = 2
  RequestIds = {1, 2, 3}
  ValueSizes = {2, 5}
  DefaultMtu = 7
  MaxMtu = 11
  GuestMtu = 9
  MaxPendingRequests = 2
  MaxValues = 1
  MaxChildren = 2
  MaxOutput = 5
  ShutdownPollCount = 2
  MaxOutputReadsPerFrame = 2
  ReadSize = 2
  PipeCapacity = 3
INVARIANTS SaveSafety SealedSaves AttSafety DiscoverySafety BridgeSafety SessionSafety MailboxSafety OutputForwarded
PROPERTIES FrontendSteps
CHECK_DEADLOCK FALSE
