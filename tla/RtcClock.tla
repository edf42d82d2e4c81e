------------------------------- MODULE RtcClock -------------------------------
(* The RX8130CE clock: a calendar that is a base and the time since, a STOP   *)
(* bit that holds it, register writes that take effect when the I2C transfer  *)
(* ends, and an alarm whose next match is searched for and given to a timer.  *)
(* The units are scaled down by the constants; a tick is the least time that  *)
(* is told apart, and the fraction of a second the code keeps is in ticks.    *)
EXTENDS Integers, FiniteSets

CONSTANTS
  TicksPerSecond, SecondsPerMinute, MinutesPerHour, HoursPerDay, DaysPerMonth, DaysPerWeek,
  MaxTime,        \* bound: the calendar stops here
  Alarms,         \* bound: the alarms the guest sets
  Writes,         \* bound: the calendar registers it writes, <<register, value>>
  Late            \* the host may dispatch an expired timer after other work

Masked == -1
NoTimer == -1

ClockAssumption ==
  /\ {TicksPerSecond, SecondsPerMinute, MinutesPerHour, HoursPerDay, DaysPerMonth, DaysPerWeek} \subseteq Nat \ {0}
  /\ MaxTime \in Nat /\ Late \in BOOLEAN
  /\ \A a \in Alarms : {a.minute, a.hour, a.day} \subseteq Nat \cup {Masked} /\ a.week \subseteq 0..DaysPerWeek - 1
  /\ \A w \in Writes : IF w[1] = "week" THEN w[2] \subseteq 0..DaysPerWeek - 1
                        ELSE w[1] \in {"second", "minute", "hour", "day", "month"} /\ w[2] \in Nat

VARIABLES
  rtc,            \* the device; "elapsed" and "timer" are relative to the host's clock now
  weekday         \* the days of WEEK, turned at every midnight since they were set

vars == <<rtc, weekday>>

Minute == TicksPerSecond * SecondsPerMinute
MinutesPerDay == MinutesPerHour * HoursPerDay
Day == Minute * MinutesPerDay

-----------------------------------------------------------------------------
(* The calendar: gmtime_r, mktimegm                                           *)

Fields(t, week) ==
  [second |-> (t \div TicksPerSecond) % SecondsPerMinute, minute |-> (t \div Minute) % MinutesPerHour,
   hour |-> (t \div (Minute * MinutesPerHour)) % HoursPerDay, week |-> week,
   day |-> ((t \div Day) % DaysPerMonth) + 1, month |-> t \div (Day * DaysPerMonth)]

Valid(f) ==
  f.second < SecondsPerMinute /\ f.minute < MinutesPerHour /\ f.hour < HoursPerDay /\ f.day \in 1..DaysPerMonth

Time(f) ==
  Day * (DaysPerMonth * f.month + f.day - 1) + Minute * (MinutesPerHour * f.hour + f.minute) + TicksPerSecond * f.second

calendarTime(r) == IF r.stop THEN r.base ELSE r.base + r.elapsed

Rotated(week, days) == {(d + days) % DaysPerWeek : d \in week}

weekAt(r, t) == Rotated(r.week, t \div Day - r.base \div Day)

-----------------------------------------------------------------------------
(* updateAlarm                                                                *)

Unmatchable(r) ==
  LET a == r.alarm
  IN \/ a.minute >= MinutesPerHour \/ a.hour >= HoursPerDay
     \/ a.byDay /\ a.day # Masked /\ a.day \notin 1..DaysPerMonth
     \/ ~a.byDay /\ a.day # Masked /\ (a.week = {} \/ r.week = {})

\* Of a minute m of the calendar.
MinuteOf(m) == m % MinutesPerHour
HourOf(m) == (m \div MinutesPerHour) % HoursPerDay
DayMatches(r, m) ==
  LET f == Fields(m * Minute, weekAt(r, m * Minute))
  IN r.alarm.day = Masked \/ (IF r.alarm.byDay THEN r.alarm.day = f.day ELSE r.alarm.week \cap f.week # {})

\* Plausible bug: the hour is looked for without going back to its first minute.
NextMatchHourly(r) ==
  LET a == r.alarm
      search[m \in Nat] ==
        IF ~DayMatches(r, m) THEN search[(m \div MinutesPerDay + 1) * MinutesPerDay]
        ELSE IF a.hour # Masked /\ a.hour # HourOf(m)
          THEN search[m + ((a.hour + HoursPerDay - HourOf(m)) % HoursPerDay) * MinutesPerHour]
        ELSE IF a.minute # Masked /\ a.minute # MinuteOf(m)
          THEN search[m + ((a.minute + MinutesPerHour - MinuteOf(m)) % MinutesPerHour)]
        ELSE m
  IN search[calendarTime(r) \div Minute + 1]

\* From the next minute on: to the next day, hour or minute that can match.
NextMatch(r) ==
  LET a == r.alarm
      search[m \in Nat] ==
        IF ~DayMatches(r, m) THEN search[(m \div MinutesPerDay + 1) * MinutesPerDay]
        ELSE IF a.hour # Masked /\ a.hour # HourOf(m)
          THEN search[m + ((a.hour + HoursPerDay - HourOf(m)) % HoursPerDay) * MinutesPerHour - MinuteOf(m)]
        ELSE IF a.minute # Masked /\ a.minute # MinuteOf(m)
          THEN search[m + ((a.minute + MinutesPerHour - MinuteOf(m)) % MinutesPerHour)]
        ELSE m
  IN search[calendarTime(r) \div Minute + 1]

\* Plausible bug: a stopped calendar is searched, too.
updateAlarmStopped(r) ==
  [r EXCEPT !.irq = r.flag /\ r.enable,
            !.timer = IF r.flag \/ Unmatchable(r) THEN NoTimer ELSE NextMatch(r) * Minute - calendarTime(r)]

updateAlarm(r) ==
  [r EXCEPT !.irq = r.flag /\ r.enable,
            !.timer = IF r.stop \/ r.flag \/ Unmatchable(r) THEN NoTimer
                      ELSE NextMatch(r) * Minute - calendarTime(r)]

-----------------------------------------------------------------------------
(* snapshot and commit                                                        *)

snapshot(r) ==
  IF r.dirty \/ r.stop THEN r
  ELSE [r EXCEPT !.shown = Fields(calendarTime(r), weekAt(r, calendarTime(r)))]

\* Plausible bug: the alarm is left as it was before the calendar was set.
commitOnly(r) ==
  LET clean == [r EXCEPT !.dirty = FALSE, !.secondsWritten = FALSE]
      fraction == IF r.secondsWritten THEN 0 ELSE calendarTime(r) % TicksPerSecond
  IN IF ~r.dirty \/ r.stop THEN r
     ELSE IF ~Valid(r.shown) THEN [clean EXCEPT !.low = TRUE]
     ELSE [clean EXCEPT !.base = Time(r.shown) + fraction, !.elapsed = 0, !.week = r.shown.week]

\* An invalid calendar raises VLF and is forgotten.
commit(r) ==
  LET clean == [r EXCEPT !.dirty = FALSE, !.secondsWritten = FALSE]
      fraction == IF r.secondsWritten THEN 0 ELSE calendarTime(r) % TicksPerSecond
  IN IF ~r.dirty \/ r.stop THEN r
     ELSE IF ~Valid(r.shown) THEN [clean EXCEPT !.low = TRUE]
     ELSE updateAlarm([clean EXCEPT !.base = Time(r.shown) + fraction, !.elapsed = 0, !.week = r.shown.week])

-----------------------------------------------------------------------------
(* The host's clock and the alarm's timer                                     *)

Due == rtc.timer = 0
\* What the guest does waits for an expired timer, unless the host is late.
Dispatched == Late \/ ~Due

\* A calendar that is taken over sets its week, too.
Becomes(r) ==
  /\ rtc' = r
  /\ weekday' = IF rtc.dirty /\ ~r.dirty /\ Valid(rtc.shown) THEN r.week ELSE weekday

Tick ==
  LET r == [rtc EXCEPT !.elapsed = @ + 1, !.timer = IF @ > 0 THEN @ - 1 ELSE @]
  IN /\ Dispatched /\ calendarTime(rtc) < MaxTime /\ rtc.elapsed < MaxTime /\ rtc' = r
     /\ weekday' = Rotated(weekday, calendarTime(r) \div Day - calendarTime(rtc) \div Day)

AlarmExpired == Due /\ Becomes(updateAlarm([rtc EXCEPT !.flag = TRUE]))

-----------------------------------------------------------------------------
(* I2C transfers                                                              *)

\* I2C_START_SEND, I2C_START_RECV: what was written counts, and then is read.
StartTransfer == Dispatched /\ ~rtc.transfer /\ Becomes(snapshot(commit([rtc EXCEPT !.transfer = TRUE])))

Finish == Dispatched /\ rtc.transfer /\ Becomes(commit([rtc EXCEPT !.transfer = FALSE]))

WriteCalendar(field, value) ==
  /\ Dispatched /\ rtc.transfer
  /\ Becomes([rtc EXCEPT !.shown[field] = value, !.dirty = TRUE, !.secondsWritten = @ \/ field = "second"])

\* The three alarm registers and the extension register, one after the other.
WriteAlarm(a) == Dispatched /\ rtc.transfer /\ Becomes(updateAlarm([rtc EXCEPT !.alarm = a]))

\* Flags are cleared by writing zero.
WriteFlags(flag, low) ==
  /\ Dispatched /\ rtc.transfer
  /\ Becomes(updateAlarm([rtc EXCEPT !.flag = @ /\ flag, !.low = @ /\ low]))

\* Plausible bug: the base is not moved when STOP is set or cleared.
WriteControlKeepsBase(stop, enable) ==
  LET seen == snapshot(commit(rtc))
  IN /\ Dispatched /\ rtc.transfer /\ Becomes(updateAlarm(commit([seen EXCEPT !.stop = stop, !.enable = enable])))

WriteControl(stop, enable) ==
  LET seen == snapshot(commit(rtc))
      t == calendarTime(seen)
      held == IF stop = seen.stop THEN seen ELSE [seen EXCEPT !.week = weekAt(seen, t), !.base = t, !.elapsed = 0]
  IN /\ Dispatched /\ rtc.transfer /\ Becomes(updateAlarm(commit([held EXCEPT !.stop = stop, !.enable = enable])))

-----------------------------------------------------------------------------
\* instanceInit: the host's date, of which the registers show the fields.
Init ==
  \E a \in Alarms :
    /\ weekday = {0}
    /\ rtc = updateAlarm([base |-> 1, elapsed |-> 0, stop |-> FALSE, week |-> {0}, shown |-> Fields(1, {0}),
                          dirty |-> FALSE, secondsWritten |-> FALSE, alarm |-> a, flag |-> FALSE, low |-> FALSE,
                          enable |-> FALSE, timer |-> NoTimer, irq |-> FALSE, transfer |-> FALSE])

Next ==
  \/ Tick \/ AlarmExpired
  \/ StartTransfer \/ Finish
  \/ \E w \in Writes : WriteCalendar(w[1], w[2])
  \/ \E a \in Alarms : WriteAlarm(a)
  \/ \E flag, low \in BOOLEAN : WriteFlags(flag, low)
  \/ \E stop, enable \in BOOLEAN : WriteControl(stop, enable)

Spec == Init /\ [][Next]_vars

-----------------------------------------------------------------------------
(* Types of the state.                                                        *)
TypeOK ==
  /\ rtc.base \in Nat /\ rtc.elapsed \in 0..MaxTime /\ rtc.timer \in Nat \cup {NoTimer}
  /\ {rtc.stop, rtc.dirty, rtc.secondsWritten, rtc.flag, rtc.low, rtc.enable, rtc.irq, rtc.transfer} \subseteq BOOLEAN
  /\ rtc.week \subseteq 0..DaysPerWeek - 1 /\ rtc.alarm \in Alarms
  /\ (rtc.secondsWritten => rtc.dirty) /\ (rtc.stop => rtc.timer = NoTimer)

\* The definition of a match, minute by minute.
Matches(t) ==
  LET f == Fields(t, weekAt(rtc, t))
      a == rtc.alarm
  IN /\ a.minute \in {Masked, f.minute} /\ a.hour \in {Masked, f.hour}
     /\ a.day # Masked => (IF a.byDay THEN a.day = f.day ELSE a.week \cap f.week # {})

Carries == {m * Minute : m \in (calendarTime(rtc) \div Minute + 1)..(calendarTime(rtc) \div Minute + MinutesPerDay * DaysPerMonth * DaysPerWeek)}

(* However the alarm, the calendar and STOP were written, the timer stands at *)
(* the first minute carry that the alarm matches, and at none if there is     *)
(* none, if the calendar is stopped or if the flag is already set; and the    *)
(* interrupt line is the flag, gated by AIE.                                  *)
AlarmExact ==
  LET t == calendarTime(rtc)
      next == t + rtc.timer
  IN /\ rtc.irq = (rtc.flag /\ rtc.enable)
     /\ rtc.timer = NoTimer => rtc.stop \/ rtc.flag \/ \A c \in Carries : ~Matches(c)
     /\ rtc.timer # NoTimer => ~rtc.stop /\ ~rtc.flag /\ next % Minute = 0 /\ Matches(next)
     /\ rtc.timer > 0 => next \in Carries /\ \A c \in Carries : c < next => ~Matches(c)

(* WEEK turns at every midnight, whatever STOP and the writing of other       *)
(* registers did to the base: "WEEK rotates at midnight independently of the  *)
(* programmed calendar date".                                                 *)
WeekExact == weekAt(rtc, calendarTime(rtc)) = weekday

(* Setting the calendar without its seconds, or stopping and going on, keeps  *)
(* the phase of the second.                                                   *)
PhaseKept ==
  [][(rtc'.elapsed # rtc.elapsed + 1 /\ ~rtc.secondsWritten)
     => calendarTime(rtc') % TicksPerSecond = calendarTime(rtc) % TicksPerSecond]_vars

(* An alarm whose minute has come is recorded, even when the host's callback  *)
(* is late: "Schedule the next match directly so a late host callback cannot  *)
(* miss it".                                                                  *)
LateAlarmKept ==
  [][(/\ Due /\ rtc'.alarm = rtc.alarm /\ rtc'.stop = rtc.stop /\ rtc'.base = rtc.base)
     => rtc'.flag \/ rtc'.timer = 0]_vars

(* The alarm and the days of the week follow the calendar however it is       *)
(* written, stopped and set going.                                            *)
RtcSafety == TypeOK /\ AlarmExact /\ WeekExact
=============================================================================
