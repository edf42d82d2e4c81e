----------------------------- MODULE MCDevices -----------------------------
(* The devices on the board for TLC, side by side: they share no state here,  *)
(* and a behaviour is one of the component it begins with, the others staying *)
(* as they began.  A device with two names in "component" is taken with two   *)
(* sets of bounds or of inputs, one for each.                                 *)
EXTENDS Devices, TLC

VARIABLE component

all == <<component, vars, clock, sensor, display>>

-----------------------------------------------------------------------------
(* The pins of the power chip: inputs of each function, and outputs.          *)

ButtonMasks == {{}, {NetPin, "single"}}
InputPin(f) == [function |-> f, direction |-> FALSE, output |-> FALSE]
AllPins == {InputPin(f) : f \in Functions} \cup [function : {"gpio"}, direction : {TRUE}, output : {FALSE}]

\* An alarm: minute, hour, by the day of the month or the days of the week, and that day.
Masked == -1
Alarm(minute, hour, byDay, day, week) == [minute |-> minute, hour |-> hour, byDay |-> byDay, day |-> day, week |-> week]
SomeAlarms ==
  {Alarm(Masked, Masked, FALSE, Masked, {}), Alarm(1, 0, FALSE, Masked, {}),
   Alarm(0, 1, TRUE, 2, {}), Alarm(Masked, Masked, FALSE, 0, {0, 2}), Alarm(2, Masked, FALSE, Masked, {})}
OneAlarm == {Alarm(1, Masked, FALSE, 0, {1})}
AllAlarms == SomeAlarms \cup OneAlarm
SomeWrites == {<<"second", 1>>, <<"hour", 2>>, <<"week", {1, 2}>>}

Feature(on, output_, duration) == [on |-> on, output |-> output_, duration |-> duration]
NoFeature == Feature(FALSE, FALSE, 0)
SomeFeatures == {Feature(TRUE, TRUE, 2), Feature(TRUE, FALSE, 0)}
Pin(latched, feature, data) == [enabled |-> TRUE, high |-> TRUE, latched |-> latched, feature |-> feature, data |-> data]
DataPins == {Pin(FALSE, FALSE, TRUE), Pin(TRUE, FALSE, TRUE)}
FeaturePins == {Pin(TRUE, TRUE, FALSE), [Pin(FALSE, TRUE, FALSE) EXCEPT !.high = FALSE]}
AllFeatures == {NoFeature} \cup SomeFeatures
AllInterruptPins == DataPins \cup FeaturePins
Periods == (0 :> 0) @@ (1 :> 3) @@ (2 :> 2)

\* SoftwareReset, SleepIn, SleepOut, DisplayOff, DisplayOn and WriteBrightness;
\* SleepOut, DisplayOn, ColumnAddressSet, MemoryWrite and MemoryWriteContinue.
PowerCommands == {1, 16, 17, 40, 41, 81}
DrawCommands == {17, 41, 42, 44, 60}
AllCommands == PowerCommands \cup DrawCommands
OnePixel == {<<0, 0>>}

-----------------------------------------------------------------------------
Wiring == INSTANCE PowerChip WITH Delays <- {1}, LongDelay <- 1, MaxClicks <- 1
Clicking == INSTANCE PowerChip WITH PinValues <- {}, MaskValues <- {}

\* The clock's steps: alarms without a write to the calendar, or one alarm with.
ClockSteps(alarms, writes, maxTime) ==
  /\ Clock!Next /\ rtc'.alarm \in alarms /\ (rtc'.dirty => writes)
  /\ rtc'.elapsed > rtc.elapsed => rtc'.elapsed <= maxTime /\ Clock!calendarTime(rtc') <= maxTime

\* The sensor's steps with some of its inputs: of both sensors for their data, and
\* of the accelerometer for any-motion.
SensorSteps(sensors, features, pins) ==
  \/ Motion!Tick \/ Motion!SampleTimer \/ Motion!MotionTimer
  \/ \E level \in {0, 1} : Motion!SetMotion(level)
  \/ Motion!ReadFeatureStatus \/ Motion!ReadDataStatus
  \/ \E s \in sensors : Motion!ReadData(s) \/ Motion!WriteRange(s)
  \/ \E s \in sensors, rate \in Rates : Motion!WriteRate(s, rate)
  \/ \E power \in [Motion!Both -> BOOLEAN] : (\A s \in Motion!Both \ sensors : ~power[s]) /\ Motion!WritePower(power)
  \/ \E p \in pins : Motion!WritePin(p)
  \/ \E f \in features : Motion!EndUpload(f) \/ Motion!WriteFeatures(f)
  \/ Motion!SoftReset \/ Motion!BeginUpload \/ Motion!WriteConfig \/ Motion!WritePerformance

\* The panel's steps with some of the bytes on its bus.
PanelSteps(commands, data) ==
  \/ \E level \in BOOLEAN : Display!powerInput(level) \/ Display!resetInput(level)
  \/ \E byte \in commands : Display!Header(byte)
  \/ \E byte \in data : Display!Datum(byte)
  \/ Display!Deselect \/ Display!refresh
  \/ \E enabled \in BOOLEAN : Display!SetBrightnessSimulation(enabled)

AllInit ==
  /\ component \in {"wiring", "clicking", "alarming", "calendar", "sampling", "detecting", "powering", "drawing"}
  /\ Init /\ Motion!Init /\ Display!Init /\ Clock!Init
  /\ component # "clicking" => click.single = 1 /\ click.double = 1
  /\ rtc.alarm \in IF component = "alarming" THEN SomeAlarms ELSE OneAlarm

Wired == component = "wiring" /\ Wiring!Next /\ UNCHANGED <<component, clock, sensor, display>>
Clicked == component = "clicking" /\ Clicking!Next /\ UNCHANGED <<component, clock, sensor, display>>
Alarmed == component = "alarming" /\ ClockSteps(SomeAlarms, FALSE, 26) /\ UNCHANGED <<component, vars, sensor, display>>
Written == component = "calendar" /\ ClockSteps(OneAlarm, TRUE, 18) /\ UNCHANGED <<component, vars, sensor, display>>
Sampled ==
  /\ component = "sampling" /\ UNCHANGED <<component, vars, clock, display>>
  /\ SensorSteps({"accel", "gyro"}, {NoFeature}, DataPins)
Detected ==
  /\ component = "detecting" /\ UNCHANGED <<component, vars, clock, display>>
  /\ SensorSteps({"accel"}, SomeFeatures, FeaturePins) \/ \E offset \in 0..Size - 1 : Motion!WriteOffset(offset)
Powered ==
  /\ component = "powering" /\ UNCHANGED <<component, vars, clock, sensor>>
  /\ PanelSteps(PowerCommands, {0, 1}) \/ Display!Tick
Drawn ==
  /\ component = "drawing" /\ UNCHANGED <<component, vars, clock, sensor>>
  /\ PanelSteps(DrawCommands, {1}) \/ ((panel.armed => panel.nextTe > 0) /\ Display!Tick)

AllNext == Wired \/ Clicked \/ Alarmed \/ Written \/ Sampled \/ Detected \/ Powered \/ Drawn

AllSpec == AllInit /\ [][AllNext]_all

=============================================================================
