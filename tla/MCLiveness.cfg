SPECIFICATION AllSpec
CONSTANTS
  MaxChildren = 2
  MaxOutput = 1
  ShutdownPollCount = 2
  MaxOutputReadsPerFrame = 2
  ReadSize = 2
  PipeCapacity = 3
  OneService = {a1}
  OneCentral = {c1}
  NoCentral = none
INVARIANTS ChildSafety
PROPERTIES ProcessesEnd RequestsEnd DevicesReport
CHECK_DEADLOCK FALSE
