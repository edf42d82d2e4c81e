------------------------------ MODULE Devices ------------------------------
(* The power chip, the clock, the motion sensor and the display panel side by *)
(* side, with all their parameters.  They share no state here.                *)
EXTENDS PowerChip, Sequences

CONSTANTS
  Sensors, Rates, Period, Pulse, MotionPeriod, Size, Features, InterruptPins,              \* of MotionSensor
  Width, Height, Viewport, Interval, PowerOnDelay, ResetRecovery, SleepOutRecovery,        \* of DisplayPanel
  Commands, Data, MaxLate,
  TicksPerSecond, SecondsPerMinute, MinutesPerHour, HoursPerDay, DaysPerMonth, DaysPerWeek, \* of RtcClock
  MaxTime, Alarms, CalendarWrites, Late

VARIABLES imu, upload, irq, panel, gram, rtc, weekday

clock == <<rtc, weekday>>
sensor == <<imu, upload, irq>>
display == <<panel, gram>>

Motion == INSTANCE MotionSensor WITH Pins <- InterruptPins
Display == INSTANCE DisplayPanel
Clock == INSTANCE RtcClock WITH Writes <- CalendarWrites

ASSUME DevicesAssumption == Motion!SensorAssumption /\ Display!PanelAssumption
ASSUME TimeAssumption == Clock!ClockAssumption

(* MotionSensor!MotionSafety: timers, pin and flags follow the registers.     *)
MotionSafety == Motion!MotionSafety

(* DisplayPanel!DisplaySafety: refreshes and recoveries.                      *)
DisplaySafety == Display!DisplaySafety

(* RtcClock!RtcSafety: the alarm and WEEK follow the calendar.                *)
RtcSafety == Clock!RtcSafety

(* What a step may never do: shift the phase of the clock's second, the       *)
(* cadence of a sensor's samples or that of the panel's refreshes, or change  *)
(* the picture without its update count.                                      *)
DeviceSteps == Clock!PhaseKept /\ Motion!CadenceKept /\ Display!UpdatesSignalled /\ Display!TeSteady
=============================================================================
