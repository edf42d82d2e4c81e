SPECIFICATION Spec
CONSTANTS
  TicksPerSecond = 2
  SecondsPerMinute = 2
  MinutesPerHour = 2
  HoursPerDay = 2
  DaysPerMonth = 2
  DaysPerWeek = 3
  MaxTime = 20
  Alarms <- OneAlarm
  Writes <- NoWrites
  Late = TRUE
PROPERTY LateAlarmKept
CHECK_DEADLOCK FALSE
