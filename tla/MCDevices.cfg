SPECIFICATION AllSpec
CONSTANTS
  Pins = {netPin, irqPin}
  NetPin = netPin
  PinValues <- AllPins
  MaskValues <- ButtonMasks
  Delays = {1, 2}
  LongDelay = 3
  MaxClicks = 3
  Sensors = {"accel", "gyro"}
  Rates = {0, 1, 2}
  Period <- Periods
  Pulse = 1
  MotionPeriod = 2
  Size = 2
  Features <- AllFeatures
  InterruptPins <- AllInterruptPins
  Width = 2
  Height = 1
  Viewport <- OnePixel
  Interval = 2
  PowerOnDelay = 2
  ResetRecovery = 1
  SleepOutRecovery = 3
  Commands <- AllCommands
  Data = {0, 1}
  MaxLate = 3
  TicksPerSecond = 2
  SecondsPerMinute = 2
  MinutesPerHour = 2
  HoursPerDay = 2
  DaysPerMonth = 2
  DaysPerWeek = 3
  MaxTime = 26
  Alarms <- AllAlarms
  CalendarWrites <- SomeWrites
  Late = FALSE
INVARIANTS PowerSafety RtcSafety MotionSafety DisplaySafety
PROPERTIES DeviceSteps
CHECK_DEADLOCK FALSE
