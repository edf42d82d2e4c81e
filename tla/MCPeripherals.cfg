SPECIFICATION AllSpec
CONSTANTS
  Points = {p0, p1, p2}
  Origin = p0
  Values = {0, 2, 3, 5}
  MaxWidth = 4
  DefaultWidth = 1
  StartupDelay = 3
  Pins = {13, 47, 48}
  Sda = 47
  Scl = 48
  Signals = {cs}
  Pullups = {47, 48}
  Configs <- AllConfigs
  Routes <- AllRoutes
  PullValues <- AllPulls
  Devices = {"a", "b"}
  Bytes <- AllBytes
  Refuses = {"b"}
  FifoCapacity = 2
  CommandCount = 4
  Lists <- AllLists
  Confs <- FifoConfs
  Flags <- AllFlags
  Enables <- AllEnables
  MaxBytes = 3
  Directions = {"in", "out"}
  Slaves = {"in"}
  Channels = {1}
  None = 0
  Selections = {0, 1}
  Orders = {"start", "restart", "stop", "reset", "clear", "give", "take"}
  Descriptors = {1, 2, 3, 4, 5, 6, 7, 8}
  Located <- AllLocated
  Size <- AllSizes
  Length <- AllLengths
  Link <- AllLinks
  Eof <- AllEofs
  Readable <- AllReadable
  Check <- OutChecked
  WriteBack = TRUE
  RxEof = 3
  Poll = 2
  MaxLate = 1
  Capacity = 3
  Block = 2
  Burst = 2
  Rates = {0, 3}
  Supported = {3}
  Samples = 6
INVARIANTS TouchSafety GpioSafety I2cSafety AudioSafety
PROPERTIES PeripheralSteps
CHECK_DEADLOCK FALSE
