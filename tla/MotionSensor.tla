----------------------------- MODULE MotionSensor -----------------------------
(* The BMI270: the upload of its configuration, the sampling of accelerometer *)
(* and gyroscope, any-motion detection, and the interrupt pin that both feed. *)
(* Two timers and register writes of the guest act on the same registers.     *)
(* Times are relative to the virtual clock; sample values are left out but    *)
(* for the level that any-motion compares.                                    *)
EXTENDS Integers, FiniteSets

CONSTANTS
  Sensors,        \* of "accel" and "gyro", those the guest uses
  Rates,          \* bound: output data rates; 0 is one the sensor does not have
  Period,         \* of a rate
  Pulse, MotionPeriod,    \* DataReadyPulseNs, AnyMotionPeriodNs
  Size,           \* ConfigSize
  Features,       \* bound: any-motion settings
  Pins            \* bound: interrupt settings

SensorAssumption ==
  /\ Sensors \subseteq {"accel", "gyro"} /\ 0 \in Rates
  /\ Period \in [Rates -> Nat] /\ \A r \in Rates : Period[r] = 0 <=> r = 0
  /\ \E r \in Rates : r # 0
  /\ {Pulse, MotionPeriod, Size} \subseteq Nat \ {0}
  /\ Features \subseteq [on : BOOLEAN, output : BOOLEAN, duration : Nat]
  /\ Pins \subseteq [enabled : BOOLEAN, high : BOOLEAN, latched : BOOLEAN, feature : BOOLEAN, data : BOOLEAN]

NoTime == -1
Lower(times) == IF times = {} THEN NoTime ELSE CHOOSE t \in times : \A u \in times : t <= u

VARIABLES
  imu,            \* registers and sample times
  upload,         \* _config: bytes written, their count, and where the next goes
  irq             \* the level of the pin

vars == <<imu, upload, irq>>

Both == {"accel", "gyro"}
Off == [s \in Both |-> FALSE]
NoFeature == [on |-> FALSE, output |-> FALSE, duration |-> 0]
NoPin == [enabled |-> FALSE, high |-> FALSE, latched |-> FALSE, feature |-> FALSE, data |-> FALSE]
NoUpload == [written |-> {}, loaded |-> 0, offset |-> 0]

-----------------------------------------------------------------------------
(* updateIrqs                                                                 *)

Active(d) ==
  LET features == IF d.pin.latched THEN d.feature ELSE d.motion
      ready == \E s \in Both : IF d.pin.latched THEN d.data[s] ELSE d.pulse[s] > 0
  IN (features /\ d.pin.feature) \/ (ready /\ d.pin.data)

Level(d) == d.pin.enabled /\ Active(d) = d.pin.high

-----------------------------------------------------------------------------
(* sampleSensors: by its timer, and whenever what it depends on is written    *)

sensorPeriod(d, s) == IF d.status # 1 \/ ~d.power[s] THEN 0 ELSE Period[d.rate[s]]

\* Plausible bug: a sensor that is switched off keeps what it had.
SampleKept(d, s) ==
  LET period == sensorPeriod(d, s)
      next == IF d.next[s] = NoTime THEN period ELSE d.next[s]
  IN IF period = 0 THEN [d EXCEPT !.next[s] = NoTime, !.pulse[s] = 0]
     ELSE IF next > 0 THEN [d EXCEPT !.next[s] = next]
     ELSE [d EXCEPT !.ready[s] = TRUE, !.data[s] = TRUE, !.next[s] = period, !.pulse[s] = Pulse]

Sample(d, s) ==
  LET period == sensorPeriod(d, s)
      next == IF d.next[s] = NoTime THEN period ELSE d.next[s]
  IN IF period = 0 THEN [d EXCEPT !.ready[s] = FALSE, !.data[s] = FALSE, !.next[s] = NoTime, !.pulse[s] = 0]
     ELSE IF next > 0 THEN [d EXCEPT !.next[s] = next]
     ELSE [d EXCEPT !.ready[s] = TRUE, !.data[s] = TRUE, !.next[s] = period, !.pulse[s] = Pulse]

\* Plausible bug: the end of the pulse is not an event.
EventsSampling(d) == {d.next[s] : s \in {t \in Both : d.next[t] # NoTime}}

Events(d) == {d.next[s] : s \in {t \in Both : d.next[t] # NoTime}} \cup {d.pulse[s] : s \in {t \in Both : d.pulse[t] > 0}}

sampleSensors(d) ==
  LET sampled == Sample(Sample(d, "accel"), "gyro")
  IN [sampled EXCEPT !.sampleTimer = Lower(Events(sampled))]

-----------------------------------------------------------------------------
(* Any-motion                                                                 *)

motionPeriod(d) ==
  LET period == sensorPeriod(d, "accel")
  IN IF period = 0 \/ ~d.features.on THEN 0
     ELSE IF d.performance \/ period < MotionPeriod THEN MotionPeriod ELSE period

\* Plausible bug: a motion that was reported stays.
configureMotionKeeps(d) ==
  LET fresh == [d EXCEPT !.samples = 0, !.reference = d.input]
  IN [fresh EXCEPT !.motionTimer = IF motionPeriod(d) = 0 THEN NoTime ELSE motionPeriod(d)]

\* Plausible bug: only what turns the feature on starts its timer anew.
configureMotionStarts(d) ==
  LET fresh == [d EXCEPT !.samples = 0, !.motion = FALSE, !.reference = d.input]
  IN IF motionPeriod(d) = 0 THEN fresh ELSE [fresh EXCEPT !.motionTimer = motionPeriod(d)]

configureMotion(d) ==
  LET fresh == [d EXCEPT !.samples = 0, !.motion = FALSE, !.reference = d.input]
  IN [fresh EXCEPT !.motionTimer = IF motionPeriod(d) = 0 THEN NoTime ELSE motionPeriod(d)]

\* sampleMotion, when its timer expires.
Detect(d) ==
  LET needed == IF d.features.duration = 0 THEN 1 ELSE d.features.duration
      exceeds == d.input # d.reference
      seen == d.samples + 1 >= needed
      timed == [d EXCEPT !.motionTimer = motionPeriod(d), !.motion = FALSE]
  IN IF ~exceeds THEN [timed EXCEPT !.samples = 0]
     ELSE IF ~seen THEN [timed EXCEPT !.samples = @ + 1]
     ELSE [timed EXCEPT !.samples = needed, !.motion = d.features.output,
                        !.feature = @ \/ d.features.output, !.reference = d.input]

-----------------------------------------------------------------------------
(* The timers                                                                 *)

Due == imu.sampleTimer = 0 \/ imu.motionTimer = 0
Becomes(d) == imu' = d /\ irq' = Level(d)
Earlier(t) == IF t > 0 THEN t - 1 ELSE t

Tick ==
  /\ ~Due /\ UNCHANGED <<upload, irq>>
  /\ imu' = [imu EXCEPT !.sampleTimer = Earlier(@), !.motionTimer = Earlier(@),
                        !.next = [s \in Both |-> Earlier(@[s])], !.pulse = [s \in Both |-> Earlier(@[s])]]

SampleTimer == imu.sampleTimer = 0 /\ Becomes(sampleSensors(imu)) /\ UNCHANGED upload
MotionTimer == imu.motionTimer = 0 /\ Becomes(Detect(imu)) /\ UNCHANGED upload

\* bmi270SetMotion, by the board.
SetMotion(level) == imu' = [imu EXCEPT !.input = level] /\ UNCHANGED <<upload, irq>>

-----------------------------------------------------------------------------
(* The guest reads and writes registers                                       *)

\* Plausible bug: the pin is not updated.
ReadFeatureStatusQuietly == imu' = [imu EXCEPT !.feature = FALSE] /\ UNCHANGED <<upload, irq>>
ReadDataStatusQuietly == imu' = [imu EXCEPT !.data = Off] /\ UNCHANGED <<upload, irq>>

\* INT_STATUS_0 and INT_STATUS_1 clear when they are read.
ReadFeatureStatus == Becomes([imu EXCEPT !.feature = FALSE]) /\ UNCHANGED upload
ReadDataStatus == Becomes([imu EXCEPT !.data = Off]) /\ UNCHANGED upload
ReadData(s) == imu' = [imu EXCEPT !.ready[s] = FALSE] /\ UNCHANGED <<upload, irq>>

Fresh(input) ==
  configureMotion([status |-> 0, control |-> FALSE, power |-> Off, rate |-> [s \in Both |-> CHOOSE r \in Rates : r # 0], performance |-> TRUE,
    ready |-> Off, data |-> Off, next |-> [s \in Both |-> NoTime], pulse |-> [s \in Both |-> 0], sampleTimer |-> NoTime,
    feature |-> FALSE, motion |-> FALSE, samples |-> 0, input |-> input, reference |-> input, motionTimer |-> NoTime,
    features |-> NoFeature, pin |-> NoPin])

SoftReset == Becomes(Fresh(imu.input)) /\ upload' = NoUpload

\* INIT_CTRL: 0 begins an upload, 1 ends it, and a complete one sets the defaults.
BeginUpload ==
  /\ upload' = [upload EXCEPT !.written = {}, !.loaded = 0]
  /\ Becomes(configureMotion(sampleSensors([imu EXCEPT !.control = FALSE, !.status = 0, !.feature = FALSE, !.data = Off])))

\* Plausible bug: what is uploaded is not looked at.
EndUploadUnchecked(defaults) ==
  LET d == [imu EXCEPT !.control = TRUE, !.status = 1, !.feature = FALSE, !.data = Off, !.features = defaults]
  IN UNCHANGED upload /\ Becomes(configureMotion(sampleSensors(d)))

EndUpload(defaults) ==
  LET complete == upload.loaded = Size
      d == [imu EXCEPT !.control = TRUE, !.status = IF complete THEN 1 ELSE 2, !.feature = FALSE, !.data = Off,
                       !.features = IF complete THEN defaults ELSE @]
  IN UNCHANGED upload /\ Becomes(configureMotion(sampleSensors(d)))

\* Plausible bug: bytes are counted that were written before.
WriteConfigCounts ==
  LET offset == upload.offset
  IN /\ upload' = [upload EXCEPT !.offset = (offset + 1) % Size,
                     !.written = IF imu.control THEN @ ELSE @ \cup {offset},
                     !.loaded = IF imu.control \/ @ = Size THEN @ ELSE @ + 1]
     /\ UNCHANGED <<imu, irq>>

\* Plausible bug: the place of the next byte does not wrap.
WriteConfigRunsOn ==
  LET offset == upload.offset
  IN /\ offset < 2 * Size
     /\ upload' = [upload EXCEPT !.offset = offset + 1, !.written = @ \cup {offset}, !.loaded = @ + 1]
     /\ UNCHANGED <<imu, irq>>

\* INIT_DATA: a byte counts once, and none counts after the upload has ended.
WriteConfig ==
  LET offset == upload.offset
  IN /\ upload' = [upload EXCEPT !.offset = (offset + 1) % Size,
                     !.written = IF imu.control THEN @ ELSE @ \cup {offset},
                     !.loaded = IF imu.control \/ offset \in upload.written THEN @ ELSE @ + 1]
     /\ UNCHANGED <<imu, irq>>

WriteOffset(offset) == upload' = [upload EXCEPT !.offset = offset] /\ UNCHANGED <<imu, irq>>

WriteFeatures(f) ==
  /\ f # imu.features /\ Becomes(configureMotion([imu EXCEPT !.features = f])) /\ UNCHANGED upload

\* Plausible bug: a new rate starts both streams anew.
WriteRateBoth(s, rate) ==
  LET d == sampleSensors([imu EXCEPT !.rate[s] = rate, !.next = [t \in Both |-> NoTime]])
  IN rate # imu.rate[s] /\ Becomes(IF s = "accel" THEN configureMotion(d) ELSE d) /\ UNCHANGED upload

\* ACC_CONF and GYR_CONF: another rate starts the stream anew.
WriteRate(s, rate) ==
  LET d == sampleSensors([imu EXCEPT !.rate[s] = rate, !.next[s] = NoTime])
  IN rate # imu.rate[s] /\ Becomes(IF s = "accel" THEN configureMotion(d) ELSE d) /\ UNCHANGED upload

WritePerformance ==
  Becomes(configureMotion(sampleSensors([imu EXCEPT !.performance = ~@]))) /\ UNCHANGED upload

\* ACC_RANGE and GYR_RANGE, whose values are left out.
WriteRange(s) ==
  Becomes(IF s = "accel" THEN configureMotion(sampleSensors(imu)) ELSE sampleSensors(imu)) /\ UNCHANGED upload

WritePower(power) ==
  LET d == sampleSensors([imu EXCEPT !.power = power])
  IN /\ power # imu.power /\ UNCHANGED upload
     /\ Becomes(IF power["accel"] # imu.power["accel"] THEN configureMotion(d) ELSE d)

\* INT1_IO_CTRL, INT_LATCH and the two maps, one after the other.
WritePin(p) == Becomes([imu EXCEPT !.pin = p]) /\ UNCHANGED upload

-----------------------------------------------------------------------------
Init == imu = Fresh(0) /\ upload = NoUpload /\ irq = FALSE

Defaults == [on |-> TRUE, output |-> TRUE, duration |-> 1]

Next ==
  \/ Tick \/ SampleTimer \/ MotionTimer
  \/ \E level \in {0, 1} : "accel" \in Sensors /\ SetMotion(level)
  \/ ReadFeatureStatus \/ ReadDataStatus
  \/ \E s \in Sensors : ReadData(s)
  \/ SoftReset \/ BeginUpload
  \/ \E f \in Features : EndUpload(f)
  \/ WriteConfig
  \/ \E offset \in 0..Size - 1 : WriteOffset(offset)
  \/ \E f \in Features : WriteFeatures(f)
  \/ \E s \in Sensors, rate \in Rates : WriteRate(s, rate)
  \/ WritePerformance
  \/ \E s \in Sensors : WriteRange(s)
  \/ \E power \in [Both -> BOOLEAN] : (\A s \in Both \ Sensors : ~power[s]) /\ WritePower(power)
  \/ \E p \in Pins : WritePin(p)

Spec == Init /\ [][Next]_vars

-----------------------------------------------------------------------------
(* Types of the state.                                                        *)
TypeOK ==
  /\ imu.status \in 0..2 /\ irq \in BOOLEAN /\ imu.samples \in Nat
  /\ \A s \in Both : imu.next[s] \in Nat \cup {NoTime} /\ imu.pulse[s] \in 0..Pulse
  /\ imu.sampleTimer \in Nat \cup {NoTime} /\ imu.motionTimer \in Nat \cup {NoTime}
  /\ upload.written \subseteq 0..Size - 1 /\ upload.offset \in 0..Size - 1

(* The pin shows the interrupt conditions of the moment, unless a timer that  *)
(* is due will make it so: no pulse ends, no status is read, no sensor is     *)
(* switched without the pin following.                                        *)
PinCurrent == irq = Level(imu) \/ imu.sampleTimer = 0

(* The sample timer stands at the next sample or the end of a pulse,          *)
(* whichever is first, after any mix of rate, power and range changes.        *)
TimerAtNextEvent ==
  imu.sampleTimer = Lower({imu.next[s] : s \in {t \in Both : imu.next[t] # NoTime}}
                          \cup {imu.pulse[s] : s \in {t \in Both : imu.pulse[t] > 0}}) \/ imu.sampleTimer = 0

(* The motion timer runs exactly while any-motion can be evaluated: if it ran *)
(* on with a period of zero, the timer would expire for ever at one instant.  *)
NoBusyTimer == imu.motionTimer # NoTime <=> motionPeriod(imu) > 0

(* No sensor that is off, and no feature that is off, has data ready, a       *)
(* pulse, a sample to come or a motion that is being reported.                *)
NoStaleReady ==
  /\ \A s \in Both : (imu.ready[s] \/ imu.data[s] \/ imu.pulse[s] > 0 \/ imu.next[s] # NoTime) => sensorPeriod(imu, s) > 0
  /\ imu.motion => motionPeriod(imu) > 0

(* The sensor says it is initialised only when every byte of its              *)
(* configuration was written since the upload began, in whatever order.       *)
UploadWhole == imu.status = 1 => upload.written = 0..Size - 1

(* "Rate changes restart only the affected stream.  Range changes take effect *)
(* on the next sample without changing either sensor's cadence".              *)
CadenceKept ==
  [][\A s \in Both :
       (imu.next[s] > 0 /\ sensorPeriod(imu, s) > 0 /\ sensorPeriod(imu', s) = sensorPeriod(imu, s))
       => imu'.next[s] \in {imu.next[s], imu.next[s] - 1}]_vars

(* Timers, pin and status flags follow the registers through any mix of       *)
(* rates, powers, pins, uploads, samples and motions.                         *)
MotionSafety ==
  TypeOK /\ PinCurrent /\ TimerAtNextEvent /\ NoBusyTimer /\ NoStaleReady /\ UploadWhole
=============================================================================
