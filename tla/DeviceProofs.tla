---------------------------- MODULE DeviceProofs ----------------------------
(***************************************************************************)
(* The devices on the board.  The power chip for every set of pins, masks  *)
(* and delays: what its pins show, what it latches, and the clicks it      *)
(* counts.  The panel for every size, viewport and delay: when it          *)
(* refreshes, and what it tells the host.  The motion sensor for every set *)
(* of rates, settings and periods: its timers, its pin and its upload.     *)
(* The clock for every calendar: its weekday, the phase of its second, and *)
(* that its alarm's timer stands at the first minute that matches.         *)
(***************************************************************************)
EXTENDS Devices, FiniteSetTheorems, WellFoundedInduction, TLAPS

Events == Pins \cup ButtonIrqs

\* The types that the invariants rest on: no bound on clicks or on time.
PinTypes ==
  /\ status \subseteq Events
  /\ inputs \in [Pins -> BOOLEAN] /\ net \in [clock : BOOLEAN, motion : BOOLEAN]

ClickTypes ==
  /\ click \in [report : BOOLEAN, single : Delays, double : Delays]
  /\ pressed \in BOOLEAN /\ second \in BOOLEAN /\ timer \in Int
  /\ clicks \in [made : Nat, singles : Nat, doubles : Nat, dropped : Nat]

PinInv == PinTypes /\ OutputsCurrent /\ NoStaleEvent /\ SharedLine

\* While the button is down no click waits for the timer.
ClickInv == ClickTypes /\ ClicksConserved /\ OneCandidate /\ (pressed => timer = NoTimer)

-----------------------------------------------------------------------------
(* Whatever is latched, updateOutputs leaves the pins and the status as    *)
(* they should be.                                                         *)
LEMMA Updated ==
  ASSUME NEW latched, latched \subseteq Events, UpdateOutputs(latched)
  PROVE  status' \subseteq Events /\ OutputsCurrent' /\ NoStaleEvent'
  BY DEF UpdateOutputs, OutputsCurrent, NoStaleEvent, Kept, HasIrqOutput

(* A change of one input leaves the pins up to date, and only that input   *)
(* different.                                                              *)
LEMMA InputChanges ==
  ASSUME PinInv, NEW p \in Pins, NEW level \in BOOLEAN, Input(p, level)
  PROVE  /\ status' \subseteq Events /\ OutputsCurrent' /\ NoStaleEvent'
         /\ inputs' \in [Pins -> BOOLEAN] /\ inputs'[p] = level
         /\ \A q \in Pins \ {p} : inputs'[q] = inputs[q]
<1> DEFINE latched == IF inputs[p] # level /\ ~direction[p] /\ function[p] = "gpio" THEN status \cup {p} ELSE status
<1>1. latched \subseteq Events
  BY DEF PinInv, PinTypes, Events
<1>2. UpdateOutputs(latched)
  BY DEF Input
<1>3. inputs' = [inputs EXCEPT ![p] = level]
  BY DEF Input
<1> HIDE DEF latched
<1>4. status' \subseteq Events /\ OutputsCurrent' /\ NoStaleEvent'
  BY <1>1, <1>2, Updated
<1> QED
  BY <1>3, <1>4 DEF PinInv, PinTypes

-----------------------------------------------------------------------------
(* What is not a change of an input keeps the shared line.                 *)
LEMMA Unshared ==
  ASSUME PinInv, UNCHANGED <<inputs, net>>, status' \subseteq Events, OutputsCurrent', NoStaleEvent'
  PROVE  PinInv'
  BY DEF PinInv, PinTypes, SharedLine

LEMMA Reported ==
  ASSUME PinInv, NEW kind \in ButtonIrqs, NEW reports, Report(kind, reports)
  PROVE  PinInv'
<1> DEFINE latched == IF reports THEN status \cup {kind} ELSE status
<1>1. latched \subseteq Events
  BY DEF PinInv, PinTypes, Events
<1>2. UpdateOutputs(latched) /\ UNCHANGED <<inputs, net>>
  BY DEF Report, gpio
<1> HIDE DEF latched
<1> QED
  BY <1>1, <1>2, Updated, Unshared

LEMMA Silent ==
  ASSUME PinInv, UNCHANGED <<gpio, status, levels>>
  PROVE  PinInv'
  BY DEF PinInv, PinTypes, OutputsCurrent, NoStaleEvent, SharedLine, HasIrqOutput, gpio

LEMMA PinInit == Init => PinInv
<1> SUFFICES ASSUME Init PROVE PinInv
  OBVIOUS
<1>1. PinTypes
  BY DEF Init, PinTypes
<1>2. OutputsCurrent
  <2>1. \A p \in Pins : function[p] = "gpio" /\ direction[p] = FALSE
    BY DEF Init
  <2>2. LevelsOf(function, direction, output, masks, status, inputs) = [p \in Pins |-> inputs[p]]
    BY <2>1 DEF LevelsOf
  <2>3. levels = inputs /\ inputs = [p \in Pins |-> inputs[p]]
    BY DEF Init
  <2> QED
    BY <2>2, <2>3 DEF OutputsCurrent
<1>3. NoStaleEvent
  BY DEF Init, NoStaleEvent
<1>4. SharedLine
  BY PowerAssumption DEF Init, SharedLine
<1> QED
  BY <1>1, <1>2, <1>3, <1>4 DEF PinInv

LEMMA PinStep == PinInv /\ [Next]_vars => PinInv'
<1> SUFFICES ASSUME PinInv, [Next]_vars PROVE PinInv'
  OBVIOUS
<1>1. ASSUME NEW p \in Pins, NEW l \in BOOLEAN, GpioInput(p, l) PROVE PinInv'
  <2>1. Input(p, l) /\ p # NetPin /\ net' = net
    BY <1>1 DEF GpioInput
  <2>2. /\ status' \subseteq Events /\ OutputsCurrent' /\ NoStaleEvent' /\ inputs' \in [Pins -> BOOLEAN]
        /\ inputs'[NetPin] = inputs[NetPin]
    BY <2>1, InputChanges, PowerAssumption
  <2> QED
    BY <2>1, <2>2 DEF PinInv, PinTypes, SharedLine
<1>2. ASSUME NEW s \in {"clock", "motion"}, NEW a \in BOOLEAN, RtcImuInterrupt(s, a) PROVE PinInv'
  <2>1. net' \in [clock : BOOLEAN, motion : BOOLEAN]
    BY <1>2 DEF RtcImuInterrupt, PinInv, PinTypes
  <2>2. (~net'.clock /\ ~net'.motion) \in BOOLEAN /\ Input(NetPin, ~net'.clock /\ ~net'.motion) /\ NetPin \in Pins
    BY <1>2, PowerAssumption DEF RtcImuInterrupt
  <2>3. /\ status' \subseteq Events /\ OutputsCurrent' /\ NoStaleEvent' /\ inputs' \in [Pins -> BOOLEAN]
        /\ inputs'[NetPin] = (~net'.clock /\ ~net'.motion)
    BY <2>2, InputChanges
  <2> QED
    BY <2>1, <2>3 DEF PinInv, PinTypes, SharedLine
<1>3. ASSUME NEW p \in Pins, NEW v \in PinValues, WritePins(p, v) PROVE PinInv'
  <2>1. UpdateOutputs(status) /\ UNCHANGED <<inputs, net>> /\ status \subseteq Events
    BY <1>3 DEF WritePins, PinInv, PinTypes
  <2> QED
    BY <2>1, Updated, Unshared
<1>4. ASSUME NEW m \in MaskValues, WriteMasks(m) PROVE PinInv'
  <2>1. UpdateOutputs(status) /\ UNCHANGED <<inputs, net>> /\ status \subseteq Events
    BY <1>4 DEF WriteMasks, PinInv, PinTypes
  <2> QED
    BY <2>1, Updated, Unshared
<1>5. ASSUME NEW s \in SUBSET status, WriteStatus(s) PROVE PinInv'
  <2>1. UpdateOutputs(status \cap s) /\ UNCHANGED <<inputs, net>> /\ status \cap s \subseteq Events
    BY <1>5 DEF WriteStatus, PinInv, PinTypes, gpio
  <2> QED
    BY <2>1, Updated, Unshared
<1>6. ASSUME NEW c, NEW a, WriteClick(c, a) PROVE PinInv'
  BY <1>6, Silent DEF WriteClick
<1>7. CASE ReadButton
  BY <1>7, Silent DEF ReadButton
<1>8. CASE Press
  <2>1. CASE timer # NoTimer /\ ~second'
    <3>1. Report("single", click.report)
      BY <1>8, <2>1 DEF Press
    <3> QED
      BY <3>1, Reported DEF ButtonIrqs
  <2>2. CASE ~(timer # NoTimer /\ ~second')
    BY <1>8, <2>2, Silent DEF Press
  <2> QED
    BY <2>1, <2>2
<1>9. CASE ReleaseLong
  BY <1>9, Silent DEF ReleaseLong
<1>10. CASE ReleaseSecond
  <2>1. Report("double", action)
    BY <1>10 DEF ReleaseSecond
  <2> QED
    BY <2>1, Reported DEF ButtonIrqs
<1>11. CASE ReleaseFirst
  BY <1>11, Silent DEF ReleaseFirst
<1>12. CASE ClickExpired
  <2>1. Report("single", click.report)
    BY <1>12 DEF ClickExpired
  <2> QED
    BY <2>1, Reported DEF ButtonIrqs
<1>13. CASE Tick
  BY <1>13, Silent DEF Tick
<1>14. CASE UNCHANGED vars
  BY <1>14, Silent DEF vars, gpio
<1> QED
  BY <1>1, <1>2, <1>3, <1>4, <1>5, <1>6, <1>7, <1>8, <1>9, <1>10, <1>11, <1>12, <1>13, <1>14 DEF Next

-----------------------------------------------------------------------------
LEMMA ClickInit == Init => ClickInv
<1> SUFFICES ASSUME Init PROVE ClickInv
  OBVIOUS
<1>1. timer = -1 /\ ~second /\ ~pressed /\ {second, pressed} \subseteq BOOLEAN /\ clicks = [made |-> 0, singles |-> 0, doubles |-> 0, dropped |-> 0]
  BY DEF Init, NoTimer
<1>2. ClickTypes
  <2>1. click \in [report : BOOLEAN, single : Delays, double : Delays]
    <3> SUFFICES ASSUME NEW S \in SUBSET BOOLEAN, click \in [report : S, single : Delays, double : Delays]
                 PROVE  click \in [report : BOOLEAN, single : Delays, double : Delays]
      BY DEF Init
    <3> QED
      OBVIOUS
  <2>2. clicks \in [made : Nat, singles : Nat, doubles : Nat, dropped : Nat]
    BY <1>1
  <2> QED
    BY <1>1, <2>1, <2>2 DEF ClickTypes
<1> QED
  BY <1>1, <1>2 DEF ClickInv, ClicksConserved, OneCandidate, NoTimer

(* What does not concern the button leaves its clicks alone.               *)
LEMMA NoClick ==
  ASSUME ClickInv, UNCHANGED button
  PROVE  ClickInv'
  BY DEF ClickInv, ClickTypes, ClicksConserved, OneCandidate, button

LEMMA ClickStep == ClickInv /\ [Next]_vars => ClickInv'
<1> SUFFICES ASSUME ClickInv, [Next]_vars PROVE ClickInv'
  OBVIOUS
<1> USE DEF ClickInv, ClickTypes, ClicksConserved, OneCandidate, NoTimer
<1>1. ASSUME NEW p \in Pins, NEW l \in BOOLEAN, GpioInput(p, l) PROVE ClickInv'
  <2>1. UNCHANGED button
    BY <1>1 DEF GpioInput, Input
  <2> QED
    BY <2>1, NoClick
<1>2. ASSUME NEW s, NEW a, RtcImuInterrupt(s, a) PROVE ClickInv'
  <2>1. UNCHANGED button
    BY <1>2 DEF RtcImuInterrupt, Input
  <2> QED
    BY <2>1, NoClick
<1>3. ASSUME NEW p, NEW v, WritePins(p, v) PROVE ClickInv'
  BY <1>3, NoClick DEF WritePins
<1>4. ASSUME NEW m, WriteMasks(m) PROVE ClickInv'
  BY <1>4, NoClick DEF WriteMasks
<1>5. ASSUME NEW s, WriteStatus(s) PROVE ClickInv'
  BY <1>5, NoClick DEF WriteStatus
<1>6. ASSUME NEW c \in [report : BOOLEAN, single : Delays, double : Delays], NEW a \in BOOLEAN, WriteClick(c, a) PROVE ClickInv'
  BY <1>6 DEF WriteClick
<1>7. CASE ReadButton
  BY <1>7 DEF ReadButton
<1>8. CASE Press
  <2>1. /\ ~pressed /\ ~second /\ pressed' /\ timer' = -1 /\ second' \in BOOLEAN /\ click' = click
        /\ timer = -1 => ~second'
    BY <1>8 DEF Press
  <2>2. CASE timer # -1 /\ ~second'
    <3>1. clicks' = [clicks EXCEPT !.singles = @ + 1]
      BY <1>8, <2>2 DEF Press
    <3> QED
      BY <2>1, <2>2, <3>1
  <2>3. CASE ~(timer # -1 /\ ~second')
    <3>1. clicks' = clicks
      BY <1>8, <2>3 DEF Press
    <3> QED
      BY <2>1, <2>3, <3>1
  <2> QED
    BY <2>2, <2>3
<1>9. CASE ReleaseLong
  <2>1. pressed /\ ~pressed' /\ ~second' /\ {pressed', second'} \subseteq BOOLEAN /\ timer = -1 /\ timer' = -1 /\ click' = click
    BY <1>9 DEF ReleaseLong
  <2>2. CASE second
    <3>1. clicks' = [clicks EXCEPT !.dropped = @ + 1]
      BY <1>9, <2>2 DEF ReleaseLong
    <3> QED
      BY <2>1, <2>2, <3>1
  <2>3. CASE ~second
    <3>1. clicks' = clicks
      BY <1>9, <2>3 DEF ReleaseLong
    <3> QED
      BY <2>1, <2>3, <3>1
  <2> QED
    BY <2>2, <2>3
<1>10. CASE ReleaseSecond
  <2>1. pressed /\ ~pressed' /\ second /\ ~second' /\ {pressed', second'} \subseteq BOOLEAN /\ timer = -1 /\ timer' = -1 /\ click' = click
    BY <1>10 DEF ReleaseSecond
  <2>2. clicks' = [made |-> clicks.made + 1, singles |-> clicks.singles,
                   doubles |-> clicks.doubles + 1, dropped |-> clicks.dropped]
    BY <1>10 DEF ReleaseSecond
  <2>3. /\ clicks' \in [made : Nat, singles : Nat, doubles : Nat, dropped : Nat]
        /\ clicks'.made = clicks.made + 1 /\ clicks'.doubles = clicks.doubles + 1
        /\ clicks'.singles = clicks.singles /\ clicks'.dropped = clicks.dropped
    BY <2>2
  <2> QED
    BY <2>1, <2>3
<1>11. CASE ReleaseFirst
  <2>1. /\ pressed /\ ~pressed' /\ ~second /\ ~second' /\ {pressed', second'} \subseteq BOOLEAN /\ timer = -1 /\ click' = click
        /\ timer' = Max(click.single, click.double)
    BY <1>11 DEF ReleaseFirst
  <2>2. clicks' = [clicks EXCEPT !.made = @ + 1]
    BY <1>11 DEF ReleaseFirst
  <2>3. timer' \in Nat
    BY <2>1, PowerAssumption DEF Max
  <2> QED
    BY <2>1, <2>2, <2>3
<1>12. CASE ClickExpired
  <2>1. timer = 0 /\ timer' = -1 /\ ~second /\ ~pressed /\ UNCHANGED <<click, pressed, second>>
    BY <1>12 DEF ClickExpired
  <2>2. clicks' = [clicks EXCEPT !.singles = @ + 1]
    BY <1>12 DEF ClickExpired
  <2> QED
    BY <2>1, <2>2
<1>13. CASE Tick
  BY <1>13 DEF Tick
<1>14. CASE UNCHANGED vars
  BY <1>14, NoClick DEF vars, button
<1> QED
  BY <1>1, <1>2, <1>3, <1>4, <1>5, <1>6, <1>7, <1>8, <1>9, <1>10, <1>11, <1>12, <1>13, <1>14 DEF Next

-----------------------------------------------------------------------------
(* Registers, delays and counters: what the bounds of TypeOK rest on.      *)

RegisterTypes ==
  /\ function \in [Pins -> Functions] /\ direction \in [Pins -> BOOLEAN] /\ output \in [Pins -> BOOLEAN]
  /\ masks \subseteq Events /\ action \in BOOLEAN /\ flag \in BOOLEAN

\* The time since a release and the time to its timer add up to a delay.
TimeInv ==
  /\ timer \in NoTimer..MaxDelay /\ held \in 0..LongDelay /\ since \in Nat
  /\ IF timer = NoTimer THEN since = 0 ELSE since + timer <= MaxDelay
  /\ clicks.made <= MaxClicks /\ (pressed => clicks.made < MaxClicks)

LEMMA LongestDelay == MaxDelay \in Nat \ {0} /\ \A d \in Delays : d <= MaxDelay
<1>1. MaxDelay \in Delays /\ \A e \in Delays : MaxDelay >= e
  BY PowerAssumption DEF MaxDelay
<1> QED
  BY <1>1, PowerAssumption

LEMMA RegisterStep == RegisterTypes /\ [Next]_vars => RegisterTypes'
<1> SUFFICES ASSUME RegisterTypes, [Next]_vars PROVE RegisterTypes'
  OBVIOUS
<1>1. ASSUME UNCHANGED <<function, direction, output, masks, action>>, flag' \in BOOLEAN PROVE RegisterTypes'
  BY <1>1 DEF RegisterTypes
<1>2. ASSUME NEW p, NEW l, Input(p, l) PROVE RegisterTypes'
  BY <1>2 DEF Input, button, RegisterTypes
<1>3. ASSUME NEW p \in Pins, NEW v \in PinValues, WritePins(p, v) PROVE RegisterTypes'
  <2>1. v.function \in Functions /\ v.direction \in BOOLEAN /\ v.output \in BOOLEAN
    BY <1>3, PowerAssumption
  <2> QED
    BY <1>3, <2>1 DEF WritePins, button, RegisterTypes
<1>4. ASSUME NEW m \in MaskValues, WriteMasks(m) PROVE RegisterTypes'
  <2>1. m \subseteq Events
    BY <1>4, PowerAssumption DEF Events
  <2> QED
    BY <1>4, <2>1 DEF WriteMasks, button, RegisterTypes
<1>5. ASSUME NEW s, WriteStatus(s) PROVE RegisterTypes'
  BY <1>5 DEF WriteStatus, gpio, button, RegisterTypes
<1>6. ASSUME NEW c, NEW a \in BOOLEAN, WriteClick(c, a) PROVE RegisterTypes'
  BY <1>6 DEF WriteClick, gpio, RegisterTypes
<1>7. CASE ReadButton \/ Tick
  BY <1>1, <1>7 DEF ReadButton, Tick, gpio, RegisterTypes
<1>8. CASE Press
  <2>1. UNCHANGED gpio /\ action' = action /\ flag'
    BY <1>8 DEF Press, Report
  <2>2. flag' = TRUE
    BY <1>8 DEF Press
  <2> QED
    BY <1>1, <2>1, <2>2 DEF gpio
<1>9. CASE ReleaseLong \/ ReleaseSecond \/ ReleaseFirst \/ ClickExpired
  BY <1>1, <1>9 DEF ReleaseLong, ReleaseSecond, ReleaseFirst, ClickExpired, Report, gpio, RegisterTypes
<1>10. CASE UNCHANGED vars
  BY <1>1, <1>10 DEF vars, RegisterTypes
<1>11. ASSUME NEW p \in Pins, NEW l \in BOOLEAN, GpioInput(p, l) PROVE RegisterTypes'
  BY <1>2, <1>11 DEF GpioInput
<1>12. ASSUME NEW s, NEW a, RtcImuInterrupt(s, a) PROVE RegisterTypes'
  BY <1>2, <1>12 DEF RtcImuInterrupt
<1> QED
  BY <1>3, <1>4, <1>5, <1>6, <1>7, <1>8, <1>9, <1>10, <1>11, <1>12 DEF Next

\* What is counted, and for how long.
counted == <<pressed, timer, held, since, clicks>>

LEMMA TimeStep == ClickInv /\ TimeInv /\ [Next]_vars => TimeInv'
<1> SUFFICES ASSUME ClickInv, TimeInv, [Next]_vars PROVE TimeInv'
  OBVIOUS
<1>0. /\ timer \in Int /\ {pressed, second} \subseteq BOOLEAN /\ (pressed => timer = NoTimer)
      /\ click \in [report : BOOLEAN, single : Delays, double : Delays]
      /\ clicks \in [made : Nat, singles : Nat, doubles : Nat, dropped : Nat]
  BY DEF ClickInv, ClickTypes
<1> USE <1>0, LongestDelay, PowerAssumption DEF NoTimer
<1>1. ASSUME UNCHANGED counted PROVE TimeInv'
  BY <1>1 DEF TimeInv, counted
<1>2. ASSUME NEW p, NEW l, Input(p, l) PROVE TimeInv'
  BY <1>1, <1>2 DEF Input, button, counted
<1>3. ASSUME NEW p, NEW v, WritePins(p, v) PROVE TimeInv'
  BY <1>1, <1>3 DEF WritePins, button, counted
<1>4. ASSUME NEW m, WriteMasks(m) \/ WriteStatus(m) PROVE TimeInv'
  BY <1>1, <1>4 DEF WriteMasks, WriteStatus, button, counted
<1>5. ASSUME NEW c, NEW a, WriteClick(c, a) PROVE TimeInv'
  BY <1>1, <1>5 DEF WriteClick, counted
<1>6. CASE ReadButton \/ UNCHANGED vars
  BY <1>1, <1>6 DEF ReadButton, vars, counted
<1>7. CASE Press
  <2>1. /\ pressed' = TRUE /\ held' = 0 /\ timer' = -1 /\ since' = 0 /\ clicks.made < MaxClicks
    BY <1>7 DEF Press
  <2>2. clicks' = clicks \/ clicks' = [clicks EXCEPT !.singles = @ + 1]
    BY <1>7 DEF Press
  <2>3. clicks'.made = clicks.made
    BY <2>2
  <2> QED
    BY <2>1, <2>3 DEF TimeInv
<1>8. CASE ReleaseLong
  <2>1. pressed' = FALSE /\ held' = 0 /\ UNCHANGED <<timer, since>>
        /\ clicks' = [clicks EXCEPT !.dropped = IF second THEN @ + 1 ELSE @]
    BY <1>8 DEF ReleaseLong
  <2>2. clicks'.made = clicks.made
    BY <2>1
  <2> QED
    BY <2>1, <2>2 DEF TimeInv
<1>9. CASE ReleaseSecond
  <2>1. pressed /\ pressed' = FALSE /\ held' = 0 /\ UNCHANGED <<timer, since>>
        /\ clicks' = [made |-> clicks.made + 1, singles |-> clicks.singles,
                      doubles |-> clicks.doubles + 1, dropped |-> clicks.dropped]
    BY <1>9 DEF ReleaseSecond
  <2>2. clicks'.made = clicks.made + 1
    BY <2>1
  <2> QED
    BY <2>1, <2>2 DEF TimeInv
<1>10. CASE ReleaseFirst
  <2>1. pressed /\ pressed' = FALSE /\ held' = 0 /\ since' = 0 /\ timer' = Max(click.single, click.double)
        /\ clicks' = [clicks EXCEPT !.made = @ + 1]
    BY <1>10 DEF ReleaseFirst
  <2>2. clicks'.made = clicks.made + 1
    BY <2>1
  <2>3. timer' \in Nat /\ timer' <= MaxDelay
    BY <2>1 DEF Max
  <2> QED
    BY <2>1, <2>2, <2>3 DEF TimeInv
<1>11. CASE ClickExpired
  <2>1. timer = 0 /\ timer' = -1 /\ since' = 0 /\ UNCHANGED <<pressed, held>> /\ clicks' = [clicks EXCEPT !.singles = @ + 1]
    BY <1>11 DEF ClickExpired
  <2>2. clicks'.made = clicks.made /\ pressed' = pressed /\ ~pressed
    BY <2>1
  <2> QED
    BY <2>1, <2>2 DEF TimeInv
<1>12. CASE Tick
  BY <1>12 DEF Tick, TimeInv
<1>13. ASSUME NEW p \in Pins, NEW l \in BOOLEAN, GpioInput(p, l) PROVE TimeInv'
  BY <1>2, <1>13 DEF GpioInput
<1>14. ASSUME NEW s, NEW a, RtcImuInterrupt(s, a) PROVE TimeInv'
  BY <1>2, <1>14 DEF RtcImuInterrupt
<1> QED
  BY <1>3, <1>4, <1>5, <1>6, <1>7, <1>8, <1>9, <1>10, <1>11, <1>12, <1>13, <1>14 DEF Next

-----------------------------------------------------------------------------
PowerInv == PinInv /\ ClickInv /\ RegisterTypes /\ TimeInv

LEMMA PowerInit == Init => PowerInv
<1> SUFFICES ASSUME Init PROVE PowerInv
  OBVIOUS
<1>1. RegisterTypes
  BY DEF Init, RegisterTypes, Functions
<1>2. TimeInv
  BY LongestDelay, PowerAssumption DEF Init, TimeInv, NoTimer
<1> QED
  BY <1>1, <1>2, PinInit, ClickInit DEF PowerInv

LEMMA PowerStep == PowerInv /\ [Next]_vars => PowerInv'
  BY PinStep, ClickStep, RegisterStep, TimeStep DEF PowerInv

LEMMA PowerTypes == PowerInv => TypeOK
<1> SUFFICES ASSUME PowerInv PROVE TypeOK
  OBVIOUS
<1>1. levels \in [Pins -> BOOLEAN]
  BY DEF PowerInv, PinInv, PinTypes, OutputsCurrent, RegisterTypes, LevelsOf
<1>2. clicks \in [made : 0..MaxClicks, singles : 0..MaxClicks, doubles : 0..MaxClicks, dropped : 0..MaxClicks]
  <2>1. /\ clicks \in [made : Nat, singles : Nat, doubles : Nat, dropped : Nat] /\ clicks.made <= MaxClicks
        /\ clicks.made = clicks.singles + 2 * clicks.doubles + clicks.dropped
                           + (IF timer # NoTimer THEN 1 ELSE 0) + (IF second THEN 1 ELSE 0)
    BY DEF PowerInv, ClickInv, ClickTypes, TimeInv, ClicksConserved
  <2>2. clicks.singles <= MaxClicks /\ clicks.doubles <= MaxClicks /\ clicks.dropped <= MaxClicks
    BY <2>1, PowerAssumption
  <2> QED
    BY <2>1, <2>2, PowerAssumption
<1>3. timer \in NoTimer..MaxDelay /\ held \in 0..LongDelay /\ since \in 0..MaxDelay
  BY LongestDelay DEF PowerInv, TimeInv, NoTimer
<1>4. action \in BOOLEAN /\ flag \in BOOLEAN /\ pressed \in BOOLEAN /\ second \in BOOLEAN
  BY DEF PowerInv, ClickInv, ClickTypes, RegisterTypes
<1> QED
  BY <1>1, <1>2, <1>3, <1>4 DEF PowerInv, PinInv, PinTypes, ClickInv, ClickTypes, RegisterTypes, TypeOK, Events

(* The pins show what the registers say, nothing is latched that no pin    *)
(* shows, and the shared line follows both of its devices; no short press  *)
(* is lost and none counts twice, whatever the delays and however they     *)
(* change: updateOutputs, rtcImuInterrupt, buttonInput and clickExpired.   *)
THEOREM PowerCorrect == Spec => []PowerSafety
<1>1. PowerInv => PowerSafety
  BY PowerTypes DEF PowerInv, PinInv, ClickInv, PowerSafety
<1> QED
  BY PowerInit, PowerStep, <1>1, PTL DEF Spec

-----------------------------------------------------------------------------
(* The display panel.                                                      *)

Windows == [x0 : Nat, x1 : Nat, y0 : Nat, y1 : Nat]

\* The panel's fields, each in its type.
Panels ==
  [window : Windows, x : Nat, y : Nat, half : BOOLEAN, command : Nat, params : Seq(Nat), headerCount : 0..4, third : Nat,
   displayOn : BOOLEAN, sleeping : BOOLEAN, brightness : Nat, simulate : BOOLEAN, powered : BOOLEAN, asserted : BOOLEAN,
   resetWhileAwake : BOOLEAN, readyAt : 0..Display!Most(PowerOnDelay, ResetRecovery), sleepOutAt : Nat, armed : BOOLEAN,
   nextTe : -MaxLate..Interval, drawn : BOOLEAN, updates : {0, 1}]

\* What decides when the panel refreshes.
Control(p) == <<p.powered, p.asserted, p.sleeping, p.readyAt, p.sleepOutAt, p.armed, p.nextTe>>

\* What the host would show of it, the pixels apart.
Shown(p) == <<Display!Awake(p) /\ p.displayOn, p.simulate, p.brightness>>

Recovered(p) == (Display!Awake(p) => p.readyAt = 0 /\ p.sleepOutAt = 0) /\ (p.asserted => p.sleeping)
Refreshing(p) == (p.armed <=> Display!Awake(p)) /\ Recovered(p) /\ Len(p.params) <= 4

PanelInv == panel \in Panels /\ Refreshing(panel) /\ DOMAIN gram = Display!Positions

LEMMA Delays0 == /\ {Width, Height, Interval, PowerOnDelay, ResetRecovery, SleepOutRecovery} \subseteq Nat \ {0} /\ MaxLate \in Nat
                 /\ Commands \subseteq Nat /\ Data \subseteq Nat
  BY DevicesAssumption DEF Display!PanelAssumption

LEMMA UpdatedPanel ==
  ASSUME NEW p \in Panels
  PROVE  /\ Display!Updated(p) \in Panels /\ Control(Display!Updated(p)) = Control(p)
         /\ Display!Updated(p).params = p.params /\ Display!Updated(p).updates # p.updates
  BY SMTT(40) DEF Panels, Display!Updated, Control

LEMMA Scheduled ==
  ASSUME NEW p \in Panels, Recovered(p)
  PROVE  LET q == Display!scheduleRefresh(p)
         IN  /\ q \in Panels /\ Recovered(q) /\ (q.armed <=> Display!Awake(q)) /\ q.params = p.params /\ q.updates = p.updates
             /\ Shown(q) = Shown(p) /\ q.sleeping = p.sleeping /\ (p.armed /\ q.armed => q.nextTe = p.nextTe)
<1> DEFINE q == Display!scheduleRefresh(p)
<1>1. CASE ~Display!Awake(p)
  <2>1. q = [p EXCEPT !.armed = FALSE, !.nextTe = 0, !.drawn = FALSE]
    BY <1>1 DEF Display!scheduleRefresh
  <2>2. 0 \in -MaxLate..Interval
    BY Delays0
  <2>3. q \in Panels
    BY <2>1, <2>2 DEF Panels
  <2> QED
    BY <1>1, <2>1, <2>3 DEF Panels, Recovered, Shown, Display!Awake
<1>2. CASE Display!Awake(p) /\ p.armed
  BY <1>2 DEF Display!scheduleRefresh
<1>3. CASE Display!Awake(p) /\ ~p.armed
  <2>1. q = [p EXCEPT !.armed = TRUE, !.nextTe = p.readyAt + Interval] /\ p.readyAt = 0
    BY <1>3 DEF Display!scheduleRefresh, Recovered
  <2>2. p.readyAt + Interval \in -MaxLate..Interval
    BY <2>1, Delays0
  <2>3. q \in Panels
    BY <2>1, <2>2, ZenonT(40) DEF Panels
  <2> QED
    BY <1>3, <2>1, <2>3 DEF Panels, Recovered, Shown, Display!Awake
<1> QED
  BY <1>1, <1>2, <1>3

LEMMA ResetDone ==
  ASSUME NEW p \in Panels
  PROVE  LET q == Display!resetRegisters(p)
         IN  q \in Panels /\ Refreshing(q) /\ q.sleeping /\ q.updates # p.updates
<1> DEFINE cleared == [p EXCEPT !.window = [x0 |-> 0, x1 |-> Width - 1, y0 |-> 0, y1 |-> Height - 1],
    !.x = 0, !.y = 0, !.command = 0, !.params = <<>>, !.headerCount = 0, !.half = FALSE,
    !.displayOn = FALSE, !.sleeping = TRUE, !.brightness = 0]
<1>1. [x0 |-> 0, x1 |-> Width - 1, y0 |-> 0, y1 |-> Height - 1] \in Windows
  BY Delays0 DEF Windows
<1>2. <<>> \in Seq(Nat) /\ 0 \in 0..4 /\ 0 \in Nat
  OBVIOUS
<1>3. cleared \in Panels
  BY <1>1, <1>2, ZenonT(60) DEF Panels
<1>4. cleared.sleeping /\ cleared.params = <<>> /\ cleared.updates = p.updates
  BY DEF Panels
<1> DEFINE q == Display!resetRegisters(p)
<1>5. q = Display!scheduleRefresh(Display!Updated(cleared))
  BY DEF Display!resetRegisters
<1> HIDE DEF cleared
<1>6. Display!Updated(cleared) \in Panels /\ Display!Updated(cleared).sleeping /\ Display!Updated(cleared).params = <<>>
      /\ Display!Updated(cleared).updates # p.updates
  BY <1>3, <1>4, UpdatedPanel DEF Control
<1> DEFINE u == Display!Updated(cleared)
<1> HIDE DEF u, q
<1>7. u \in Panels /\ u.sleeping /\ u.params = <<>> /\ u.updates # p.updates /\ q = Display!scheduleRefresh(u)
  BY <1>5, <1>6 DEF u
<1>8. Recovered(u)
  BY <1>7 DEF Recovered, Display!Awake
<1>9. q \in Panels /\ Recovered(q) /\ (q.armed <=> Display!Awake(q)) /\ q.params = u.params /\ q.updates = u.updates
  BY <1>7, <1>8, Scheduled
<1>10. q.sleeping
  BY <1>7 DEF Display!scheduleRefresh, Panels
<1>11. Refreshing(q)
  BY <1>7, <1>9 DEF Refreshing
<1> QED
  BY <1>7, <1>9, <1>10, <1>11 DEF q

LEMMA ControlKept ==
  ASSUME NEW p \in Panels, Refreshing(p), NEW q \in Panels, Control(q) = Control(p), Len(q.params) <= 4
  PROVE  Refreshing(q)
  BY DEF Control, Refreshing, Recovered, Display!Awake

\* What an operation on a panel leaves: a panel whose refresh fits, that has told
\* the host of what it shows, and whose refresh under way was not moved.
Sound(p, q) ==
  /\ q \in Panels /\ Refreshing(q)
  /\ q.updates = p.updates => Shown(q) = Shown(p)
  /\ p.armed /\ q.armed => q.nextTe = p.nextTe

Listening(p) == p \in Panels /\ Refreshing(p) /\ p.powered /\ ~p.asserted /\ p.readyAt = 0

LEMMA SoundKept ==
  ASSUME NEW p \in Panels, Refreshing(p), NEW q \in Panels, Control(q) = Control(p), Len(q.params) <= 4,
         q.updates # p.updates \/ (q.displayOn = p.displayOn /\ q.simulate = p.simulate /\ q.brightness = p.brightness)
  PROVE  Sound(p, q)
<1>1. Refreshing(q)
  BY ControlKept
<1>2. (Display!Awake(q) <=> Display!Awake(p)) /\ q.nextTe = p.nextTe
  BY DEF Control, Display!Awake
<1> QED
  BY <1>1, <1>2 DEF Sound, Shown

\* A refresh scheduled anew, after an update that the host hears of.
LEMMA SoundScheduled ==
  ASSUME NEW p \in Panels, NEW u \in Panels, Recovered(u), Len(u.params) <= 4, u.updates # p.updates,
         u.armed = p.armed, u.nextTe = p.nextTe
  PROVE  Sound(p, Display!scheduleRefresh(u))
<1> DEFINE q == Display!scheduleRefresh(u)
<1>1. q \in Panels /\ Recovered(q) /\ (q.armed <=> Display!Awake(q)) /\ q.params = u.params /\ q.updates = u.updates
      /\ (u.armed /\ q.armed => q.nextTe = u.nextTe)
  BY Scheduled
<1> QED
  BY <1>1 DEF Sound, Refreshing

LEMMA CommandSound ==
  ASSUME NEW p0, Listening(p0), NEW command \in Nat
  PROVE  Sound(p0, Display!panelCommand(p0, command))
<1> DEFINE p == [p0 EXCEPT !.command = command, !.params = <<>>, !.half = FALSE]
           q == Display!panelCommand(p0, command)
<1>1. p0 \in Panels /\ Refreshing(p0) /\ p0.readyAt = 0 /\ ~p0.asserted
  BY DEF Listening
<1>2. <<>> \in Seq(Nat) /\ Len(<<>>) = 0
  OBVIOUS
<1>3. p \in Panels
  BY <1>1, <1>2, Zenon DEF Panels
<1>4. /\ Control(p) = Control(p0) /\ p.updates = p0.updates /\ p.params = <<>> /\ Len(p.params) <= 4 /\ p.armed = p0.armed
      /\ p.nextTe = p0.nextTe /\ p.displayOn = p0.displayOn /\ p.simulate = p0.simulate /\ p.brightness = p0.brightness
  BY <1>1, <1>2 DEF Panels, Control
<1>5. p.readyAt = 0 /\ ~p.asserted /\ p.window \in Windows
  BY <1>1, <1>3 DEF Panels
<1>6. q = CASE command = Display!SoftwareReset ->
            Display!resetRegisters([p0 EXCEPT !.readyAt = ResetRecovery,
                                      !.sleepOutAt = IF p0.sleeping THEN ResetRecovery ELSE SleepOutRecovery])
       [] command = Display!MemoryWrite -> [p EXCEPT !.x = p.window.x0, !.y = p.window.y0]
       [] command \in {Display!DisplayOff, Display!DisplayOn} -> Display!Updated([p EXCEPT !.displayOn = command = Display!DisplayOn])
       [] command = Display!SleepIn -> Display!scheduleRefresh(Display!Updated([p EXCEPT !.sleeping = TRUE]))
       [] command = Display!SleepOut /\ p.sleepOutAt = 0 -> Display!scheduleRefresh(Display!Updated([p EXCEPT !.sleeping = FALSE]))
       [] OTHER -> p
  BY DEF Display!panelCommand
<1> HIDE DEF p, q
<1> USE DEF Display!SoftwareReset, Display!MemoryWrite, Display!DisplayOff, Display!DisplayOn, Display!SleepIn, Display!SleepOut
<1>7. CASE command = 1
  <2> DEFINE r == [p0 EXCEPT !.readyAt = ResetRecovery, !.sleepOutAt = IF p0.sleeping THEN ResetRecovery ELSE SleepOutRecovery]
  <2>1. ResetRecovery \in 0..Display!Most(PowerOnDelay, ResetRecovery) /\ (IF p0.sleeping THEN ResetRecovery ELSE SleepOutRecovery) \in Nat
    BY Delays0 DEF Display!Most
  <2>2. r \in Panels /\ r.updates = p0.updates
    BY <1>1, <2>1, Zenon DEF Panels
  <2>3. q = Display!resetRegisters(r)
    BY <1>6, <1>7
  <2> HIDE DEF r
  <2>4. q \in Panels /\ Refreshing(q) /\ q.sleeping /\ q.updates # p0.updates
    BY <2>2, <2>3, ResetDone
  <2>5. ~q.armed
    BY <2>4 DEF Refreshing, Display!Awake
  <2> QED
    BY <2>4, <2>5 DEF Sound, q
<1>8. CASE command = 44
  <2>1. q = [p EXCEPT !.x = p.window.x0, !.y = p.window.y0] /\ p.window.x0 \in Nat /\ p.window.y0 \in Nat
    BY <1>5, <1>6, <1>8 DEF Windows
  <2>2. q \in Panels
    BY <1>3, <2>1, Zenon DEF Panels
  <2>3. Control(q) = Control(p) /\ q.params = p.params /\ q.updates = p.updates /\ q.displayOn = p.displayOn /\ q.simulate = p.simulate
        /\ q.brightness = p.brightness
    BY <1>3, <2>1 DEF Panels, Control
  <2> QED
    BY <1>1, <1>4, <2>2, <2>3, SoundKept DEF q
<1>9. CASE command \in {40, 41}
  <2> DEFINE r == [p EXCEPT !.displayOn = command = 41]
  <2>1. r \in Panels
    BY <1>3, Zenon DEF Panels
  <2>2. Control(r) = Control(p) /\ r.params = p.params /\ r.updates = p.updates
    BY <1>3 DEF Panels, Control
  <2>3. q = Display!Updated(r)
    BY <1>6, <1>9
  <2> HIDE DEF r
  <2>4. q \in Panels /\ Control(q) = Control(p0) /\ q.params = p.params /\ q.updates # p0.updates
    BY <1>4, <2>1, <2>2, <2>3, UpdatedPanel
  <2> QED
    BY <1>1, <1>4, <2>4, SoundKept DEF q
<1>10. ASSUME NEW asleep \in BOOLEAN, q = Display!scheduleRefresh(Display!Updated([p EXCEPT !.sleeping = asleep])),
              asleep \/ p.sleepOutAt = 0
       PROVE  Sound(p0, q)
  <2> DEFINE r == [p EXCEPT !.sleeping = asleep]
             u == Display!Updated(r)
  <2>1. r \in Panels
    BY <1>3, Zenon DEF Panels
  <2>2. r.params = p.params /\ r.updates = p.updates /\ r.armed = p.armed /\ r.nextTe = p.nextTe /\ r.sleeping = asleep
        /\ r.readyAt = p.readyAt /\ r.sleepOutAt = p.sleepOutAt /\ r.asserted = p.asserted
    BY <1>3 DEF Panels
  <2> HIDE DEF r
  <2>3. u \in Panels /\ Control(u) = Control(r) /\ u.params = p.params /\ u.updates # p0.updates
    BY <1>4, <2>1, <2>2, UpdatedPanel
  <2>4. Recovered(u)
    BY <1>5, <1>10, <2>2, <2>3 DEF Control, Recovered, Display!Awake
  <2>5. u.armed = p0.armed /\ u.nextTe = p0.nextTe /\ Len(u.params) <= 4
    BY <1>4, <2>2, <2>3 DEF Control
  <2> HIDE DEF u
  <2>6. Sound(p0, Display!scheduleRefresh(u))
    BY <1>1, <2>3, <2>4, <2>5, SoundScheduled
  <2> QED
    BY <1>10, <2>6 DEF u, r
<1> HIDE DEF q
<1>11. CASE command = 16
  <2>1. q = Display!scheduleRefresh(Display!Updated([p EXCEPT !.sleeping = TRUE]))
    BY <1>6, <1>11
  <2>2. Sound(p0, q)
    BY <1>10, <2>1
  <2> QED
    BY <2>2 DEF q
<1>12. CASE command = 17 /\ p.sleepOutAt = 0
  <2>1. q = Display!scheduleRefresh(Display!Updated([p EXCEPT !.sleeping = FALSE]))
    BY <1>6, <1>12
  <2>2. Sound(p0, q)
    BY <1>10, <1>12, <2>1
  <2> QED
    BY <2>2 DEF q
<1>13. CASE command \notin {1, 16, 40, 41, 44} /\ ~(command = 17 /\ p.sleepOutAt = 0)
  <2>1. q = p
    BY <1>6, <1>13
  <2> QED
    BY <1>1, <1>3, <1>4, <2>1, SoundKept DEF q
<1> QED
  BY <1>7, <1>8, <1>9, <1>11, <1>12, <1>13 DEF q

\* A parameter of a command is one of at most four, and a window's edges are bytes.
LEMMA ParameterSound ==
  ASSUME NEW p, Listening(p), NEW byte \in Nat
  PROVE  Sound(p, Display!Parameter(p, byte))
<1> DEFINE params == Append(p.params, byte)
           q == Display!Parameter(p, byte)
<1>1. p \in Panels /\ Refreshing(p) /\ p.params \in Seq(Nat) /\ p.window \in Windows /\ Len(p.params) <= 4
  BY DEF Listening, Refreshing, Panels
<1>2. params \in Seq(Nat) /\ Len(params) = Len(p.params) + 1 /\ Len(p.params) \in Nat /\ Len(params) \in Nat
  BY <1>1
<1>3. q = IF Len(p.params) = 4 THEN p
          ELSE IF Len(params) < 4 THEN [p EXCEPT !.params = params]
          ELSE IF p.command = Display!ColumnAddressSet
            THEN [p EXCEPT !.params = params, !.window.x0 = params[2], !.window.x1 = byte]
            ELSE [p EXCEPT !.params = params, !.window.y0 = params[2], !.window.y1 = byte]
  BY DEF Display!Parameter
<1>4. Len(params) = 4 => params[2] \in Nat
  BY <1>2
<1> HIDE DEF params
<1>5. ASSUME NEW w \in Windows, NEW e \in Seq(Nat), Len(e) <= 4, q = [p EXCEPT !.params = e, !.window = w]
      PROVE  Sound(p, q)
  <2>1. [p EXCEPT !.params = e, !.window = w] \in Panels
    BY <1>1, Zenon DEF Panels
  <2>2. Control(q) = Control(p) /\ q.params = e /\ q.updates = p.updates /\ q.displayOn = p.displayOn /\ q.simulate = p.simulate
        /\ q.brightness = p.brightness
    BY <1>1, <1>5 DEF Panels, Control
  <2> QED
    BY <1>1, <1>5, <2>1, <2>2, SoundKept
<1>6. CASE Len(p.params) = 4
  <2>1. q = p
    BY <1>3, <1>6
  <2> QED
    BY <1>1, <2>1, SoundKept
<1>7. CASE Len(p.params) # 4 /\ Len(params) < 4
  <2>1. q = [p EXCEPT !.params = params]
    BY <1>3, <1>7
  <2>2. [p EXCEPT !.params = params] = [p EXCEPT !.params = params, !.window = p.window]
    BY <1>1 DEF Panels
  <2>3. Len(params) <= 4
    BY <1>2, <1>7
  <2> HIDE DEF q
  <2>4. Sound(p, q)
    BY <1>1, <1>2, <1>5, <2>1, <2>2, <2>3
  <2> QED
    BY <2>4 DEF q
<1>8. CASE Len(p.params) # 4 /\ ~(Len(params) < 4)
  <2>a. \A m, n \in Nat : m <= 4 /\ m # 4 /\ n = m + 1 /\ ~(n < 4) => n = 4
    OBVIOUS
  <2>b. Len(params) = 4
    BY <1>1, <1>2, <1>8, <2>a
  <2>1. Len(params) = 4 /\ Len(params) <= 4 /\ params[2] \in Nat
    BY <2>b, <1>4
  <2>2. PICK w : w \in Windows /\ q = [p EXCEPT !.params = params, !.window = w]
    <3> DEFINE wx == [p.window EXCEPT !.x0 = params[2], !.x1 = byte]
               wy == [p.window EXCEPT !.y0 = params[2], !.y1 = byte]
    <3>1. wx \in Windows /\ wy \in Windows
      BY <1>1, <2>1 DEF Windows
    <3>2. q = [p EXCEPT !.params = params, !.window = wx] \/ q = [p EXCEPT !.params = params, !.window = wy]
      BY <1>1, <1>3, <1>8 DEF Panels
    <3> QED
      BY <3>1, <3>2
  <2> HIDE DEF q
  <2>3. Sound(p, q)
    BY <1>2, <1>5, <2>1, <2>2
  <2> QED
    BY <2>3 DEF q
<1> QED
  BY <1>6, <1>7, <1>8

\* A second byte is a pixel, and the place of the next one is in GRAM or past the window.
LEMMA PixelSound ==
  ASSUME NEW p, Listening(p), p.half
  PROVE  /\ Sound(p, Display!Advanced(Display!Pixel(p)))
         /\ <<p.x, p.y>> \in Display!Positions => Display!Advanced(Display!Pixel(p)).updates # p.updates
<1> DEFINE u == IF <<p.x, p.y>> \in Display!Positions THEN Display!Updated(p) ELSE p
           r == Display!Pixel(p)
           q == Display!Advanced(r)
<1>1. p \in Panels /\ Refreshing(p) /\ Len(p.params) <= 4
  BY DEF Listening, Refreshing
<1>2. /\ u \in Panels /\ Control(u) = Control(p) /\ u.params = p.params
      /\ IF <<p.x, p.y>> \in Display!Positions THEN u.updates # p.updates
         ELSE u.updates = p.updates /\ u.displayOn = p.displayOn /\ u.simulate = p.simulate /\ u.brightness = p.brightness
  BY <1>1, UpdatedPanel
<1>3. r = [u EXCEPT !.half = FALSE]
  BY DEF Display!Pixel
<1> HIDE DEF u
<1>4. r \in Panels
  BY <1>2, <1>3, Zenon DEF Panels
<1>5. Control(r) = Control(u) /\ r.params = u.params /\ r.updates = u.updates /\ r.displayOn = u.displayOn /\ r.simulate = u.simulate
      /\ r.brightness = u.brightness /\ r.window \in Windows /\ r.x \in Nat /\ r.y \in Nat /\ r.drawn \in BOOLEAN
  BY <1>2, <1>3, <1>4 DEF Panels, Control
<1> HIDE DEF r
<1>6. PICK x \in Nat, y \in Nat, drawn \in BOOLEAN : q = [r EXCEPT !.x = x, !.y = y, !.drawn = drawn]
  <2> DEFINE w == r.window
             shows == /\ w.x0 <= w.x1 /\ w.x1 < Width /\ w.y0 <= w.y1 /\ w.y1 < Height
                      /\ \E v \in Viewport : v[1] \in w.x0..w.x1 /\ v[2] \in w.y0..w.y1
  <2>1. q = IF r.x + 1 <= w.x1 THEN [r EXCEPT !.x = @ + 1]
            ELSE IF r.y + 1 <= w.y1 THEN [r EXCEPT !.x = w.x0, !.y = @ + 1]
            ELSE [r EXCEPT !.x = w.x0, !.y = w.y0, !.drawn = @ \/ shows]
    BY DEF Display!Advanced
  <2>2. w.x0 \in Nat /\ w.y0 \in Nat
    BY <1>5 DEF Windows
  <2>3. (r.drawn \/ shows) \in BOOLEAN
    OBVIOUS
  <2> HIDE DEF shows, w, q
  <2>4. CASE r.x + 1 <= w.x1
    <3>1. q = [r EXCEPT !.x = @ + 1]
      BY <2>1, <2>4
    <3>2. q = [r EXCEPT !.x = r.x + 1, !.y = r.y, !.drawn = r.drawn]
      BY <1>4, <3>1 DEF Panels
    <3>3. r.x + 1 \in Nat
      BY <1>5
    <3> QED
      BY <1>5, <3>2, <3>3
  <2>5. CASE ~(r.x + 1 <= w.x1) /\ r.y + 1 <= w.y1
    <3>1. q = [r EXCEPT !.x = w.x0, !.y = @ + 1]
      BY <2>1, <2>5
    <3>2. q = [r EXCEPT !.x = w.x0, !.y = r.y + 1, !.drawn = r.drawn]
      BY <1>4, <3>1 DEF Panels
    <3>3. r.y + 1 \in Nat
      BY <1>5
    <3> QED
      BY <1>5, <2>2, <3>2, <3>3
  <2>6. CASE ~(r.x + 1 <= w.x1) /\ ~(r.y + 1 <= w.y1)
    <3>1. q = [r EXCEPT !.x = w.x0, !.y = w.y0, !.drawn = r.drawn \/ shows]
      BY <1>4, <2>1, <2>6 DEF Panels
    <3> QED
      BY <2>2, <2>3, <3>1
  <2> QED
    BY <2>4, <2>5, <2>6
<1>7. [r EXCEPT !.x = x, !.y = y, !.drawn = drawn] \in Panels
  BY <1>4, Zenon DEF Panels
<1>8. Control(q) = Control(r) /\ q.params = r.params /\ q.updates = r.updates /\ q.displayOn = r.displayOn /\ q.simulate = r.simulate
      /\ q.brightness = r.brightness
  BY <1>4, <1>6 DEF Panels, Control
<1> HIDE DEF q
<1>9. q \in Panels /\ Control(q) = Control(p) /\ Len(q.params) <= 4 /\ q.updates = u.updates
  BY <1>1, <1>2, <1>5, <1>6, <1>7, <1>8
<1>10. q.updates # p.updates \/ (q.displayOn = p.displayOn /\ q.simulate = p.simulate /\ q.brightness = p.brightness)
  BY <1>2, <1>5, <1>8
<1>11. Sound(p, q)
  BY <1>1, <1>9, <1>10, SoundKept
<1> QED
  BY <1>2, <1>9, <1>11 DEF q, r

LEMMA DataSound ==
  ASSUME NEW p, Listening(p), NEW byte \in Nat
  PROVE  /\ Sound(p, Display!panelData(p, byte))
         /\ Display!Writes(p) /\ p.half /\ <<p.x, p.y>> \in Display!Positions => Display!panelData(p, byte).updates # p.updates
<1> DEFINE q == Display!panelData(p, byte)
<1>1. p \in Panels /\ Refreshing(p) /\ Len(p.params) <= 4
  BY DEF Listening, Refreshing
<1>2. q = CASE p.command \in {Display!ColumnAddressSet, Display!RowAddressSet} ->
         Display!Parameter(p, IF Len(p.params) \in {0, 2} THEN 0 ELSE byte)
    [] p.command = Display!WriteBrightness /\ p.params = <<>> -> Display!Updated([p EXCEPT !.brightness = byte, !.params = <<byte>>])
    [] Display!Writes(p) /\ ~p.half -> [p EXCEPT !.half = TRUE]
    [] Display!Writes(p) /\ p.half -> Display!Advanced(Display!Pixel(p))
    [] OTHER -> p
  BY DEF Display!panelData
<1>3. Display!Writes(p) => p.command \in {44, 60}
  BY DEF Display!Writes, Display!MemoryWrite, Display!MemoryWriteContinue
<1>a. p.command \in Nat
  BY <1>1 DEF Panels
<1> HIDE DEF q
<1> USE <1>a DEF Display!ColumnAddressSet, Display!RowAddressSet, Display!WriteBrightness
<1>4. CASE p.command \in {42, 43}
  <2>1. (IF Len(p.params) \in {0, 2} THEN 0 ELSE byte) \in Nat
    OBVIOUS
  <2>2. q = Display!Parameter(p, IF Len(p.params) \in {0, 2} THEN 0 ELSE byte)
    BY <1>2, <1>3, <1>4
  <2> QED
    BY <1>3, <1>4, <2>1, <2>2, ParameterSound DEF q
<1>5. CASE p.command = 81 /\ p.params = <<>>
  <2> DEFINE r == [p EXCEPT !.brightness = byte, !.params = <<byte>>]
  <2>1. <<byte>> \in Seq(Nat) /\ Len(<<byte>>) = 1
    OBVIOUS
  <2>2. r \in Panels
    BY <1>1, <2>1, Zenon DEF Panels
  <2>3. Control(r) = Control(p) /\ r.params = <<byte>> /\ r.updates = p.updates
    BY <1>1 DEF Panels, Control
  <2>4. q = Display!Updated(r)
    BY <1>2, <1>3, <1>5
  <2> HIDE DEF r
  <2>5. q \in Panels /\ Control(q) = Control(p) /\ q.params = <<byte>> /\ q.updates # p.updates
    BY <2>2, <2>3, <2>4, UpdatedPanel
  <2>6. Len(q.params) <= 4
    BY ONLY <2>1, <2>5
  <2> QED
    BY <1>1, <1>3, <1>5, <2>5, <2>6, SoundKept DEF q
<1>6. CASE Display!Writes(p) /\ ~p.half
  <2>1. q = [p EXCEPT !.half = TRUE]
    BY <1>2, <1>3, <1>6
  <2>2. [p EXCEPT !.half = TRUE] \in Panels
    BY <1>1, Zenon DEF Panels
  <2>3. Control(q) = Control(p) /\ q.params = p.params /\ q.updates = p.updates /\ q.displayOn = p.displayOn /\ q.simulate = p.simulate
        /\ q.brightness = p.brightness
    BY <1>1, <2>1 DEF Panels, Control
  <2> QED
    BY <1>1, <1>6, <2>1, <2>2, <2>3, SoundKept DEF q
<1>7. CASE Display!Writes(p) /\ p.half
  <2>1. q = Display!Advanced(Display!Pixel(p))
    BY <1>2, <1>3, <1>7
  <2> QED
    BY <1>7, <2>1, PixelSound DEF q
<1>8. CASE p.command \notin {42, 43} /\ ~(p.command = 81 /\ p.params = <<>>) /\ ~Display!Writes(p)
  <2>1. q = p
    BY <1>2, <1>8
  <2> QED
    BY <1>1, <1>8, <2>1, SoundKept DEF q
<1> QED
  BY <1>4, <1>5, <1>6, <1>7, <1>8

-----------------------------------------------------------------------------
LEMMA PanelInit == Display!Init => PanelInv
<1> SUFFICES ASSUME Display!Init PROVE PanelInv
  OBVIOUS
<1>1. [x0 |-> 0, x1 |-> Width - 1, y0 |-> 0, y1 |-> Height - 1] \in Windows
  BY Delays0 DEF Windows
<1>2. <<>> \in Seq(Nat) /\ Len(<<>>) = 0 /\ 0 \in 0..4 /\ 0 \in Nat
  OBVIOUS
<1>3. 0 \in -MaxLate..Interval /\ 0 \in 0..Display!Most(PowerOnDelay, ResetRecovery)
  BY Delays0 DEF Display!Most
<1>4. panel \in Panels
  BY <1>1, <1>2, <1>3, ZenonT(60) DEF Panels, Display!Init
<1>5. panel.params = <<>> /\ ~panel.armed /\ ~panel.powered /\ panel.asserted /\ panel.sleeping
  BY DEF Display!Init
<1>6. DOMAIN gram = Display!Positions
  BY DEF Display!Init
<1> QED
  BY <1>2, <1>4, <1>5, <1>6 DEF PanelInv, Refreshing, Recovered, Display!Awake

\* What every step leaves: the panel sound, and the pixels the host has not been told of as they were.
Stepped == Sound(panel, panel') /\ DOMAIN gram' = Display!Positions /\ (panel'.updates = panel.updates => gram' = gram)

LEMMA PowerInputSteps ==
  ASSUME PanelInv, NEW level \in BOOLEAN, Display!powerInput(level)
  PROVE  Stepped
<1> DEFINE p == [panel EXCEPT !.powered = level]
           reset == Display!resetRegisters(p)
<1>1. panel \in Panels /\ DOMAIN gram = Display!Positions
  BY DEF PanelInv
<1>2. p \in Panels /\ p.updates = panel.updates
  BY <1>1, Zenon DEF Panels
<1>3. /\ gram' = IF level THEN [q \in Display!Positions |-> 0] ELSE gram
      /\ panel' = [reset EXCEPT !.resetWhileAwake = FALSE, !.readyAt = PowerOnDelay, !.sleepOutAt = PowerOnDelay]
  BY DEF Display!powerInput
<1> HIDE DEF p
<1>4. reset \in Panels /\ Refreshing(reset) /\ reset.sleeping /\ reset.updates # panel.updates
  BY <1>2, ResetDone
<1> HIDE DEF reset
<1>5. PowerOnDelay \in 0..Display!Most(PowerOnDelay, ResetRecovery) /\ PowerOnDelay \in Nat
  BY Delays0 DEF Display!Most
<1>6. panel' \in Panels
  BY <1>3, <1>4, <1>5, Zenon DEF Panels
<1>7. /\ panel'.sleeping /\ panel'.asserted = reset.asserted /\ panel'.armed = reset.armed /\ panel'.params = reset.params
      /\ panel'.updates = reset.updates
  BY <1>3, <1>4 DEF Panels
<1>8. Refreshing(panel') /\ ~panel'.armed
  BY <1>4, <1>7 DEF Refreshing, Recovered, Display!Awake
<1>9. DOMAIN gram' = Display!Positions
  BY <1>1, <1>3
<1> QED
  BY <1>4, <1>6, <1>7, <1>8, <1>9 DEF Stepped, Sound

LEMMA ResetInputSteps ==
  ASSUME PanelInv, NEW level \in BOOLEAN, Display!resetInput(level)
  PROVE  Stepped
<1> DEFINE ready == Display!Most(panel.readyAt, ResetRecovery)
           p == [panel EXCEPT !.asserted = TRUE, !.resetWhileAwake = ~panel.sleeping]
           sleepOut == Display!Most(ready, IF panel.resetWhileAwake THEN SleepOutRecovery ELSE ResetRecovery)
           released == [panel EXCEPT !.asserted = FALSE, !.readyAt = ready, !.sleepOutAt = sleepOut]
<1>1. panel \in Panels /\ Refreshing(panel) /\ DOMAIN gram = Display!Positions
  BY DEF PanelInv
<1>2. panel.asserted = level /\ panel' = (IF ~level THEN Display!resetRegisters(p) ELSE released) /\ gram' = gram
  BY DEF Display!resetInput
<1>3. CASE ~level
  <2>1. p \in Panels /\ p.updates = panel.updates
    BY <1>1, Zenon DEF Panels
  <2> HIDE DEF p
  <2>2. panel' \in Panels /\ Refreshing(panel') /\ panel'.sleeping /\ panel'.updates # panel.updates
    BY <1>2, <1>3, <2>1, ResetDone
  <2>3. ~panel'.armed
    BY <2>2 DEF Refreshing, Display!Awake
  <2> QED
    BY <1>1, <1>2, <2>2, <2>3 DEF Stepped, Sound
<1>4. CASE level
  <2>1. panel.readyAt \in Nat /\ panel.readyAt <= Display!Most(PowerOnDelay, ResetRecovery)
    BY <1>1, Delays0 DEF Panels, Display!Most
  <2>2. ready \in 0..Display!Most(PowerOnDelay, ResetRecovery) /\ ready \in Nat
    BY <2>1, Delays0 DEF Display!Most
  <2>3. sleepOut \in Nat
    BY <2>2, Delays0 DEF Display!Most
  <2>4. panel' = released /\ panel.asserted /\ panel.sleeping
    BY <1>1, <1>2, <1>4 DEF Refreshing, Recovered
  <2> HIDE DEF ready, sleepOut
  <2>5. panel' \in Panels
    BY <1>1, <2>2, <2>3, <2>4, Zenon DEF Panels
  <2>6. /\ panel'.sleeping = panel.sleeping /\ panel'.armed = panel.armed /\ panel'.params = panel.params
        /\ panel'.simulate = panel.simulate /\ panel'.brightness = panel.brightness /\ panel'.nextTe = panel.nextTe /\ ~panel'.asserted
    BY <1>1, <2>4 DEF Panels
  <2>7. ~Display!Awake(panel) /\ ~Display!Awake(panel')
    BY <2>4, <2>6 DEF Display!Awake
  <2>8. Refreshing(panel')
    BY <1>1, <2>6, <2>7 DEF Refreshing, Recovered
  <2> QED
    BY <1>1, <1>2, <2>5, <2>6, <2>7, <2>8 DEF Stepped, Sound, Shown
<1> QED
  BY <1>3, <1>4

LEMMA HeaderSteps ==
  ASSUME PanelInv, NEW byte \in Commands, Display!Header(byte)
  PROVE  Stepped
<1> DEFINE headed == [panel EXCEPT !.headerCount = @ + 1]
<1>1. panel \in Panels /\ Refreshing(panel) /\ DOMAIN gram = Display!Positions /\ panel.headerCount \in 0..4 /\ panel.third \in Nat
  BY DEF PanelInv, Panels
<1>2. /\ panel.powered /\ ~panel.asserted /\ panel.readyAt = 0 /\ panel.headerCount < 4 /\ gram' = gram
      /\ panel' = CASE panel.headerCount = 2 -> [headed EXCEPT !.third = byte]
                     [] panel.headerCount = 3 -> Display!panelCommand([headed EXCEPT !.third = 0], panel.third)
                     [] OTHER -> headed
  BY DEF Display!Header, Display!Hears
<1>3. byte \in Nat /\ panel.headerCount + 1 \in 0..4
  BY <1>1, <1>2, Delays0
<1>4. ASSUME NEW n \in 0..4, NEW t \in Nat
      PROVE  LET q == [panel EXCEPT !.headerCount = n, !.third = t]
             IN  Listening(q) /\ Sound(panel, q) /\ Control(q) = Control(panel) /\ q.updates = panel.updates /\ q.displayOn = panel.displayOn
                 /\ q.simulate = panel.simulate /\ q.brightness = panel.brightness
  <2> DEFINE q == [panel EXCEPT !.headerCount = n, !.third = t]
  <2>1. q \in Panels
    BY <1>1, Zenon DEF Panels
  <2>2. Control(q) = Control(panel) /\ q.params = panel.params /\ q.updates = panel.updates /\ q.displayOn = panel.displayOn
        /\ q.simulate = panel.simulate /\ q.brightness = panel.brightness
    BY <1>1 DEF Panels, Control
  <2>3. q.powered = panel.powered /\ q.asserted = panel.asserted /\ q.readyAt = panel.readyAt
    BY <1>1 DEF Panels
  <2> HIDE DEF q
  <2>4. Len(q.params) <= 4 /\ Refreshing(q)
    BY <1>1, <2>1, <2>2, ControlKept DEF Refreshing
  <2>5. Sound(panel, q)
    BY <1>1, <2>1, <2>2, <2>4, SoundKept
  <2>6. Listening(q)
    BY <1>2, <2>1, <2>3, <2>4 DEF Listening
  <2> QED
    BY <2>2, <2>5, <2>6 DEF q
<1>5. CASE panel.headerCount = 3
  <2> DEFINE q == [panel EXCEPT !.headerCount = 4, !.third = 0]
  <2>1. panel' = Display!panelCommand(q, panel.third)
    <3>1. [headed EXCEPT !.third = 0] = q
      BY <1>1, <1>5 DEF Panels
    <3> QED
      BY <1>2, <1>5, <3>1
  <2>2. Listening(q) /\ Control(q) = Control(panel) /\ q.updates = panel.updates /\ q.displayOn = panel.displayOn
        /\ q.simulate = panel.simulate /\ q.brightness = panel.brightness
    <3>1. 4 \in 0..4 /\ 0 \in Nat
      OBVIOUS
    <3> QED
      BY <1>4, <3>1
  <2> HIDE DEF q
  <2>3. Sound(q, panel')
    BY <1>1, <2>1, <2>2, CommandSound
  <2>4. Shown(q) = Shown(panel) /\ q.armed = panel.armed /\ q.nextTe = panel.nextTe
    BY <2>2 DEF Shown, Control, Display!Awake
  <2> QED
    BY <1>1, <1>2, <2>2, <2>3, <2>4 DEF Stepped, Sound
<1>6. CASE panel.headerCount # 3
  <2>1. PICK n \in 0..4, t \in Nat : panel' = [panel EXCEPT !.headerCount = n, !.third = t]
    <3>1. CASE panel.headerCount = 2
      <4>1. panel' = [headed EXCEPT !.third = byte]
        BY <1>2, <3>1
      <4>2. panel' = [panel EXCEPT !.headerCount = panel.headerCount + 1, !.third = byte]
        BY <1>1, <4>1 DEF Panels
      <4> QED
        BY <1>3, <4>2
    <3>2. CASE panel.headerCount # 2
      <4>1. panel' = headed
        BY <1>2, <1>6, <3>2
      <4>2. panel' = [panel EXCEPT !.headerCount = panel.headerCount + 1, !.third = panel.third]
        BY <1>1, <4>1 DEF Panels
      <4> QED
        BY <1>1, <1>3, <4>2
    <3> QED
      BY <3>1, <3>2
  <2>2. Sound(panel, panel')
    BY <1>4, <2>1
  <2> QED
    BY <1>1, <1>2, <2>2 DEF Stepped
<1> QED
  BY <1>5, <1>6

LEMMA DatumSteps ==
  ASSUME PanelInv, NEW byte \in Data, Display!Datum(byte)
  PROVE  Stepped
<1>1. panel \in Panels /\ Refreshing(panel) /\ DOMAIN gram = Display!Positions
  BY DEF PanelInv
<1>2. Listening(panel) /\ byte \in Nat
  BY <1>1, Delays0 DEF Display!Datum, Display!Hears, Listening
<1>3. /\ panel' = Display!panelData(panel, byte)
      /\ gram' = IF Display!Writes(panel) /\ panel.half /\ <<panel.x, panel.y>> \in Display!Positions
                 THEN [gram EXCEPT ![<<panel.x, panel.y>>] = byte] ELSE gram
  BY DEF Display!Datum
<1>4. /\ Sound(panel, panel')
      /\ Display!Writes(panel) /\ panel.half /\ <<panel.x, panel.y>> \in Display!Positions => panel'.updates # panel.updates
  BY <1>2, <1>3, DataSound
<1>5. DOMAIN gram' = Display!Positions
  BY <1>1, <1>3
<1> QED
  BY <1>3, <1>4, <1>5 DEF Stepped

LEMMA OtherSteps ==
  ASSUME PanelInv, Display!Deselect \/ \E enabled \in BOOLEAN : Display!SetBrightnessSimulation(enabled)
  PROVE  Stepped
<1>1. panel \in Panels /\ Refreshing(panel) /\ DOMAIN gram = Display!Positions /\ Len(panel.params) <= 4
  BY DEF PanelInv, Refreshing
<1>2. 0 \in 0..4 /\ 0 \in Nat
  OBVIOUS
<1>3. CASE Display!Deselect
  <2>1. panel' = [panel EXCEPT !.headerCount = 0, !.third = 0] /\ gram' = gram
    BY <1>3 DEF Display!Deselect
  <2>2. panel' \in Panels
    BY <1>1, <1>2, <2>1, Zenon DEF Panels
  <2>3. Control(panel') = Control(panel) /\ panel'.params = panel.params /\ panel'.updates = panel.updates
        /\ panel'.displayOn = panel.displayOn /\ panel'.simulate = panel.simulate /\ panel'.brightness = panel.brightness
    BY <1>1, <2>1 DEF Panels, Control
  <2> QED
    BY <1>1, <2>1, <2>2, <2>3, SoundKept DEF Stepped
<1>4. ASSUME NEW enabled \in BOOLEAN, Display!SetBrightnessSimulation(enabled) PROVE Stepped
  <2> DEFINE r == [panel EXCEPT !.simulate = enabled]
  <2>1. panel' = Display!Updated(r) /\ gram' = gram
    BY <1>4 DEF Display!SetBrightnessSimulation
  <2>2. r \in Panels
    BY <1>1, Zenon DEF Panels
  <2>3. Control(r) = Control(panel) /\ r.params = panel.params /\ r.updates = panel.updates
    BY <1>1 DEF Panels, Control
  <2> HIDE DEF r
  <2>4. panel' \in Panels /\ Control(panel') = Control(panel) /\ panel'.params = panel.params /\ panel'.updates # panel.updates
    BY <2>1, <2>2, <2>3, UpdatedPanel
  <2> QED
    BY <1>1, <2>1, <2>4, SoundKept DEF Stepped
<1> QED
  BY <1>3, <1>4

\* The next refresh is the first that is not due, at the same distance from those before it.
LEMMA NextOfRefresh ==
  ASSUME NEW m \in -MaxLate..0
  PROVE  LET n == m + (((-m) \div Interval) + 1) * Interval
         IN  n \in 1..Interval /\ (n - m) % Interval = 0
<1> DEFINE k == (-m) \div Interval
           n == m + (k + 1) * Interval
<1>1. Interval \in Nat \ {0} /\ MaxLate \in Nat /\ m \in Int /\ -m \in Nat
  BY Delays0
<1>2. k \in Int /\ k * Interval <= -m /\ -m < k * Interval + Interval
  BY <1>1
<1> HIDE DEF k
<1>3. (k + 1) * Interval = k * Interval + Interval /\ k * Interval \in Int
  BY <1>1, <1>2
<1>4. n \in 1..Interval /\ n - m = (k + 1) * Interval
  BY <1>1, <1>2, <1>3
<1>5. ((k + 1) * Interval) % Interval = 0
  <2>1. k + 1 \in Int
    BY <1>2
  <2> QED
    BY <1>1, <2>1
<1> QED
  BY <1>4, <1>5 DEF k

LEMMA RefreshSteps ==
  ASSUME PanelInv, Display!refresh
  PROVE  /\ PanelInv' /\ panel'.updates = panel.updates /\ Shown(panel') = Shown(panel) /\ gram' = gram
         /\ panel'.nextTe \in 1..Interval /\ (panel'.nextTe - panel.nextTe) % Interval = 0
<1>1. panel \in Panels /\ Refreshing(panel) /\ DOMAIN gram = Display!Positions /\ panel.nextTe \in -MaxLate..Interval
  BY DEF PanelInv, Panels
<1> DEFINE next == panel.nextTe + (((-panel.nextTe) \div Interval) + 1) * Interval
<1>2. panel.nextTe <= 0 /\ panel' = [panel EXCEPT !.nextTe = next, !.drawn = FALSE] /\ gram' = gram
  BY DEF Display!refresh, Display!NextTe
<1>3. panel.nextTe \in -MaxLate..0
  BY <1>1, <1>2, Delays0
<1>4. next \in 1..Interval /\ (next - panel.nextTe) % Interval = 0
  BY <1>3, NextOfRefresh
<1> HIDE DEF next
<1>5. next \in -MaxLate..Interval
  BY <1>4, Delays0
<1>6. panel' \in Panels
  BY <1>1, <1>2, <1>5, Zenon DEF Panels
<1>7. /\ panel'.updates = panel.updates /\ panel'.displayOn = panel.displayOn /\ panel'.simulate = panel.simulate
      /\ panel'.brightness = panel.brightness /\ panel'.params = panel.params /\ panel'.nextTe = next
      /\ panel'.powered = panel.powered /\ panel'.asserted = panel.asserted /\ panel'.sleeping = panel.sleeping
      /\ panel'.armed = panel.armed /\ panel'.readyAt = panel.readyAt /\ panel'.sleepOutAt = panel.sleepOutAt
  BY <1>1, <1>2 DEF Panels
<1>8. Refreshing(panel') /\ Shown(panel') = Shown(panel)
  BY <1>1, <1>7 DEF Refreshing, Recovered, Shown, Display!Awake
<1> QED
  BY <1>1, <1>2, <1>4, <1>6, <1>7, <1>8 DEF PanelInv

LEMMA TickSteps ==
  ASSUME PanelInv, Display!Tick
  PROVE  /\ PanelInv' /\ panel'.updates = panel.updates /\ Shown(panel') = Shown(panel) /\ gram' = gram
         /\ (panel.armed /\ panel'.armed => ~(panel'.nextTe > panel.nextTe))
<1>1. panel \in Panels /\ Refreshing(panel) /\ DOMAIN gram = Display!Positions /\ panel.nextTe \in -MaxLate..Interval
      /\ panel.sleepOutAt \in Nat /\ panel.readyAt \in 0..Display!Most(PowerOnDelay, ResetRecovery)
  BY DEF PanelInv, Panels
<1> DEFINE next == IF panel.armed THEN panel.nextTe - 1 ELSE panel.nextTe
           ready == Display!Less(panel.readyAt)
           sleepOut == Display!Less(panel.sleepOutAt)
<1>2. /\ (panel.armed => panel.nextTe > -MaxLate) /\ gram' = gram
      /\ panel' = [panel EXCEPT !.nextTe = next, !.readyAt = ready, !.sleepOutAt = sleepOut]
  BY DEF Display!Tick
<1>3. next \in -MaxLate..Interval /\ ~(next > panel.nextTe)
  BY <1>1, <1>2, Delays0
<1>4. sleepOut \in Nat /\ (panel.sleepOutAt = 0 => sleepOut = 0)
  BY <1>1 DEF Display!Less
<1>5. Display!Most(PowerOnDelay, ResetRecovery) \in Nat
  BY Delays0 DEF Display!Most
<1>6. ready \in 0..Display!Most(PowerOnDelay, ResetRecovery) /\ (panel.readyAt = 0 => ready = 0)
  BY <1>1, <1>5 DEF Display!Less
<1> HIDE DEF next, ready, sleepOut
<1>7. panel' \in Panels
  BY <1>1, <1>2, <1>3, <1>4, <1>6, Zenon DEF Panels
<1>8. /\ panel'.updates = panel.updates /\ panel'.displayOn = panel.displayOn /\ panel'.simulate = panel.simulate
      /\ panel'.brightness = panel.brightness /\ panel'.params = panel.params /\ panel'.nextTe = next
      /\ panel'.powered = panel.powered /\ panel'.asserted = panel.asserted /\ panel'.sleeping = panel.sleeping
      /\ panel'.armed = panel.armed /\ panel'.readyAt = ready /\ panel'.sleepOutAt = sleepOut
  BY <1>1, <1>2 DEF Panels
<1>9. Refreshing(panel') /\ Shown(panel') = Shown(panel)
  BY <1>1, <1>4, <1>6, <1>8 DEF Refreshing, Recovered, Shown, Display!Awake
<1> QED
  BY <1>1, <1>2, <1>3, <1>7, <1>8, <1>9 DEF PanelInv

\* Every step, of those that have told the host of what changed.
LEMMA PanelStep ==
  ASSUME PanelInv, Display!Next
  PROVE  Stepped \/ Display!refresh \/ Display!Tick
  BY PowerInputSteps, ResetInputSteps, HeaderSteps, DatumSteps, OtherSteps DEF Display!Next

LEMMA PanelKept == PanelInv /\ [Display!Next]_Display!vars => PanelInv'
<1> SUFFICES ASSUME PanelInv, [Display!Next]_Display!vars PROVE PanelInv'
  OBVIOUS
<1>1. CASE Stepped
  BY <1>1 DEF Stepped, Sound, PanelInv
<1>2. CASE Display!refresh \/ Display!Tick
  BY <1>2, RefreshSteps, TickSteps
<1>3. CASE UNCHANGED Display!vars
  BY <1>3 DEF Display!vars, PanelInv
<1> QED
  BY <1>1, <1>2, <1>3, PanelStep

LEMMA PanelSafe == PanelInv => DisplaySafety
<1> SUFFICES ASSUME PanelInv PROVE DisplaySafety
  OBVIOUS
<1>1. panel \in Panels /\ Refreshing(panel) /\ DOMAIN gram = Display!Positions
  BY DEF PanelInv
<1>2. Display!TypeOK
  BY <1>1 DEF Panels, Refreshing, Display!TypeOK
<1> QED
  BY <1>1, <1>2 DEF Refreshing, Recovered, DisplaySafety, Display!DisplaySafety, Display!RefreshWhileAwake, Display!AwakeIsRecovered

(* The panel refreshes exactly while it is powered, out of reset and       *)
(* awake, and it is awake only with every recovery time behind it:         *)
(* scheduleRefresh, resetRegisters, powerInput, resetInput, panelCommand.  *)
THEOREM DisplayCorrect == Display!Spec => []DisplaySafety
  BY PanelInit, PanelKept, PanelSafe, PTL DEF Display!Spec

(* What the host would show never changes without the update count, by     *)
(* which it decides to look: every path to co5300Updated.                  *)
THEOREM UpdatesCorrect == Display!Spec => Display!UpdatesSignalled
<1> DEFINE Told == Display!Picture' # Display!Picture => panel'.updates # panel.updates
<1>1. ASSUME Shown(panel') = Shown(panel), gram' = gram PROVE Display!Picture' = Display!Picture
  BY <1>1 DEF Shown, Display!Picture, Display!Visible
<1>2. ASSUME PanelInv, Display!Next PROVE Told
  <2>1. CASE Stepped
    BY <1>1, <2>1 DEF Stepped, Sound
  <2>2. CASE Display!refresh \/ Display!Tick
    BY <1>1, <1>2, <2>2, RefreshSteps, TickSteps
  <2> QED
    BY <1>2, <2>1, <2>2, PanelStep
<1>3. PanelInv /\ [Display!Next]_Display!vars => [Told]_Display!vars
  BY <1>2
<1> QED
  BY <1>3, PanelInit, PanelKept, PTL DEF Display!Spec, Display!UpdatesSignalled

(* A refresh that is dispatched late neither shifts those after it nor     *)
(* brings a burst of them: refresh.                                        *)
THEOREM TeCorrect == Display!Spec => Display!TeSteady
<1> DEFINE Steady == panel.armed /\ panel'.armed /\ panel'.nextTe > panel.nextTe
                     => panel'.nextTe \in 1..Interval /\ (panel'.nextTe - panel.nextTe) % Interval = 0
<1>1. ASSUME PanelInv, Display!Next PROVE Steady
  <2>1. CASE Stepped
    <3>1. panel.nextTe \in -MaxLate..Interval /\ ~(panel.nextTe > panel.nextTe)
      BY <1>1, Delays0 DEF PanelInv, Panels
    <3> QED
      BY <2>1, <3>1 DEF Stepped, Sound
  <2>2. CASE Display!refresh
    BY <1>1, <2>2, RefreshSteps
  <2>3. CASE Display!Tick
    BY <1>1, <2>3, TickSteps
  <2> QED
    BY <1>1, <2>1, <2>2, <2>3, PanelStep
<1>2. PanelInv /\ [Display!Next]_Display!vars => [Steady]_Display!vars
  BY <1>1
<1> QED
  BY <1>2, PanelInit, PanelKept, PTL DEF Display!Spec, Display!TeSteady

-----------------------------------------------------------------------------
(* The motion sensor.                                                      *)

Times == Nat \cup {-1}
Flags == [Motion!Both -> BOOLEAN]

\* The sensor's registers and timers, each in its type.
Imus ==
  [status : 0..2, control : BOOLEAN, power : Flags, rate : [Motion!Both -> Rates], performance : BOOLEAN, ready : Flags, data : Flags,
   next : [Motion!Both -> Times], pulse : [Motion!Both -> 0..Pulse], sampleTimer : Times, feature : BOOLEAN, motion : BOOLEAN,
   samples : Nat, input : {0, 1}, reference : {0, 1}, motionTimer : Times,
   features : [on : BOOLEAN, output : BOOLEAN, duration : Nat],
   pin : [enabled : BOOLEAN, high : BOOLEAN, latched : BOOLEAN, feature : BOOLEAN, data : BOOLEAN]]

\* The parts of the invariant that speak of the registers alone.
Timed(d) == d.sampleTimer = Motion!Lower(Motion!Events(d)) \/ d.sampleTimer = 0
Idle(d, s) == (d.ready[s] \/ d.data[s] \/ d.pulse[s] > 0 \/ d.next[s] # -1) => Motion!sensorPeriod(d, s) > 0
AllIdle(d) == \A s \in Motion!Both : Idle(d, s)
Watched(d) == (d.motionTimer # -1 <=> Motion!motionPeriod(d) > 0) /\ (d.motion => Motion!motionPeriod(d) > 0)

Fits(d) == d \in Imus /\ Timed(d) /\ AllIdle(d) /\ Watched(d)

\* A byte counts once.
Uploads == [written : SUBSET (0..Size - 1), loaded : Nat, offset : 0..Size - 1]
Uploaded == upload \in Uploads /\ upload.loaded = Cardinality(upload.written)

MotionInv ==
  /\ Fits(imu) /\ irq \in BOOLEAN /\ (irq = Motion!Level(imu) \/ imu.sampleTimer = 0)
  /\ Uploaded /\ (imu.status = 1 => upload.written = 0..Size - 1)

LEMMA SensorFacts ==
  /\ Period \in [Rates -> Nat] /\ Pulse \in Nat \ {0} /\ MotionPeriod \in Nat \ {0} /\ Size \in Nat \ {0}
  /\ Sensors \subseteq Motion!Both /\ 0 \in Rates /\ \E r \in Rates : r # 0
  BY DevicesAssumption DEF Motion!SensorAssumption, Motion!Both

LEMMA PeriodIsNat ==
  ASSUME NEW d \in Imus, NEW s \in Motion!Both
  PROVE  Motion!sensorPeriod(d, s) \in Nat /\ Motion!motionPeriod(d) \in Nat
<1>1. ASSUME NEW t \in Motion!Both PROVE Motion!sensorPeriod(d, t) \in Nat
  <2>1. d.rate[t] \in Rates
    BY DEF Imus
  <2> QED
    BY <2>1, SensorFacts DEF Motion!sensorPeriod
<1>2. Motion!sensorPeriod(d, "accel") \in Nat
  BY <1>1 DEF Motion!Both
<1> QED
  BY <1>1, <1>2, SensorFacts DEF Motion!motionPeriod

-----------------------------------------------------------------------------
(* The timer of samples stands at the least of at most four events.        *)

LEMMA LowerIs ==
  ASSUME NEW S \in SUBSET Int, NEW t \in S, \A u \in S : t <= u
  PROVE  Motion!Lower(S) = t
<1>1. S # {} /\ \E w \in S : \A u \in S : w <= u
  OBVIOUS
<1> DEFINE c == CHOOSE w \in S : \A u \in S : w <= u
<1>2. c \in S /\ \A u \in S : c <= u
  BY <1>1
<1>3. Motion!Lower(S) = c
  BY <1>1 DEF Motion!Lower
<1> HIDE DEF c
<1>4. c <= t /\ t <= c /\ c \in Int /\ t \in Int
  BY <1>2
<1> QED
  BY <1>3, <1>4

LEMMA LowerOfFour ==
  ASSUME NEW a \in Int, NEW b \in Int, NEW c \in Int, NEW e \in Int, NEW S \in SUBSET {a, b, c, e}, S # {}
  PROVE  Motion!Lower(S) \in S /\ \A u \in S : Motion!Lower(S) <= u
<1>1. \E t \in S : \A u \in S : t <= u
  <2> DEFINE Least(t) == t \in S /\ (a \in S => t <= a) /\ (b \in S => t <= b) /\ (c \in S => t <= c) /\ (e \in S => t <= e)
  <2>1. Least(a) \/ Least(b) \/ Least(c) \/ Least(e)
    <3>1. a \in S \/ b \in S \/ c \in S \/ e \in S
      OBVIOUS
    <3> QED
      BY <3>1
  <2>2. \A t : Least(t) => \A u \in S : t <= u
    OBVIOUS
  <2> QED
    BY <2>1, <2>2
<1>2. S \in SUBSET Int
  OBVIOUS
<1> QED
  BY <1>1, <1>2, LowerIs

LEMMA EventsOf ==
  ASSUME NEW d \in Imus
  PROVE  /\ Motion!Events(d) \in SUBSET {d.next["accel"], d.next["gyro"], d.pulse["accel"], d.pulse["gyro"]}
         /\ Motion!Events(d) \in SUBSET Nat
         /\ \A s \in Motion!Both : d.next[s] \in Times /\ d.pulse[s] \in Nat /\ d.pulse[s] <= Pulse
         /\ \A s \in Motion!Both : (d.next[s] # -1 => d.next[s] \in Motion!Events(d)) /\ (d.pulse[s] > 0 => d.pulse[s] \in Motion!Events(d))
         /\ Motion!Events(d) = {} \/ (Motion!Lower(Motion!Events(d)) \in Motion!Events(d)
                                       /\ \A u \in Motion!Events(d) : Motion!Lower(Motion!Events(d)) <= u)
         /\ Motion!Lower(Motion!Events(d)) \in Times
<1>1. \A s \in Motion!Both : d.next[s] \in Times /\ d.pulse[s] \in Nat /\ d.pulse[s] <= Pulse
  BY SensorFacts DEF Imus
<1>2. Motion!Events(d) \in SUBSET {d.next["accel"], d.next["gyro"], d.pulse["accel"], d.pulse["gyro"]}
  BY DEF Motion!Events, Motion!Both
<1>3. Motion!Events(d) \in SUBSET Nat
  BY <1>1 DEF Motion!Events, Times, Motion!NoTime
<1>4. \A s \in Motion!Both : (d.next[s] # -1 => d.next[s] \in Motion!Events(d)) /\ (d.pulse[s] > 0 => d.pulse[s] \in Motion!Events(d))
  BY DEF Motion!Events, Motion!NoTime
<1>5. d.next["accel"] \in Int /\ d.next["gyro"] \in Int /\ d.pulse["accel"] \in Int /\ d.pulse["gyro"] \in Int
  BY <1>1 DEF Times, Motion!Both
<1>6. Motion!Events(d) = {} \/ (Motion!Lower(Motion!Events(d)) \in Motion!Events(d)
                                /\ \A u \in Motion!Events(d) : Motion!Lower(Motion!Events(d)) <= u)
  BY <1>2, <1>5, LowerOfFour
<1>7. Motion!Events(d) = {} => Motion!Lower(Motion!Events(d)) = -1
  BY DEF Motion!Lower, Motion!NoTime
<1>8. Motion!Lower(Motion!Events(d)) \in Times
  BY <1>3, <1>6, <1>7 DEF Times
<1> QED
  BY <1>1, <1>2, <1>3, <1>4, <1>6, <1>8

-----------------------------------------------------------------------------
(* sampleSensors and configureMotion                                       *)

\* What neither of the two functions changes.
Settings(d) == <<d.status, d.control, d.power, d.rate, d.performance, d.features, d.pin, d.input, d.feature>>
\* What sampleSensors does not change, and what configureMotion does not.
Motions(d) == <<d.motion, d.samples, d.reference, d.motionTimer>>
Samples(d) == <<d.ready, d.data, d.next, d.pulse, d.sampleTimer>>

LEMMA PeriodsKept ==
  ASSUME NEW d, NEW e, Settings(e) = Settings(d)
  PROVE  /\ \A s : Motion!sensorPeriod(e, s) = Motion!sensorPeriod(d, s)
         /\ Motion!motionPeriod(e) = Motion!motionPeriod(d)
  BY DEF Settings, Motion!sensorPeriod, Motion!motionPeriod

\* What the periods are made from.
Powers(d) == <<d.status, d.power, d.rate, d.performance, d.features>>

LEMMA PowersKept ==
  ASSUME NEW d, NEW e, Powers(e) = Powers(d)
  PROVE  /\ \A s : Motion!sensorPeriod(e, s) = Motion!sensorPeriod(d, s)
         /\ Motion!motionPeriod(e) = Motion!motionPeriod(d)
  BY DEF Powers, Motion!sensorPeriod, Motion!motionPeriod

\* What Sample is to make of "d" for the sensor "s".
SampledAs(d, e, s) ==
  /\ e \in Imus /\ Settings(e) = Settings(d) /\ Motions(e) = Motions(d) /\ Idle(e, s)
  /\ \A t \in Motion!Both \ {s} : e.ready[t] = d.ready[t] /\ e.data[t] = d.data[t] /\ e.next[t] = d.next[t] /\ e.pulse[t] = d.pulse[t]
  /\ d.next[s] > 0 /\ Motion!sensorPeriod(d, s) > 0 => e.next[s] = d.next[s]

LEMMA SampleSets ==
  ASSUME NEW d \in Imus, NEW s \in Motion!Both, NEW e,
         NEW ready \in BOOLEAN, NEW data \in BOOLEAN, NEW n \in Times, NEW p \in 0..Pulse,
         e = [d EXCEPT !.ready[s] = ready, !.data[s] = data, !.next[s] = n, !.pulse[s] = p],
         (ready \/ data \/ p > 0 \/ n # -1) => Motion!sensorPeriod(d, s) > 0,
         d.next[s] > 0 /\ Motion!sensorPeriod(d, s) > 0 => n = d.next[s]
  PROVE  SampledAs(d, e, s)
<1> DEFINE fr == [d.ready EXCEPT ![s] = ready]
           fd == [d.data EXCEPT ![s] = data]
           fn == [d.next EXCEPT ![s] = n]
           fp == [d.pulse EXCEPT ![s] = p]
<1>1. d.ready \in Flags /\ d.data \in Flags /\ d.next \in [Motion!Both -> Times] /\ d.pulse \in [Motion!Both -> 0..Pulse]
  BY DEF Imus
<1>2. fr \in Flags /\ fd \in Flags /\ fn \in [Motion!Both -> Times] /\ fp \in [Motion!Both -> 0..Pulse]
  BY <1>1 DEF Flags
<1>3. /\ fr[s] = ready /\ fd[s] = data /\ fn[s] = n /\ fp[s] = p
      /\ \A t \in Motion!Both \ {s} : fr[t] = d.ready[t] /\ fd[t] = d.data[t] /\ fn[t] = d.next[t] /\ fp[t] = d.pulse[t]
  BY <1>1 DEF Flags
<1>4. e = [d EXCEPT !.ready = fr, !.data = fd, !.next = fn, !.pulse = fp]
  BY DEF Imus
<1> HIDE DEF fr, fd, fn, fp
<1>5. e \in Imus
  BY ONLY d \in Imus, <1>2, <1>4, Zenon DEF Imus
<1>6. e.ready = fr /\ e.data = fd /\ e.next = fn /\ e.pulse = fp
  BY <1>4 DEF Imus
<1>7. Settings(e) = Settings(d) /\ Motions(e) = Motions(d)
  BY <1>4 DEF Imus, Settings, Motions
<1>8. Motion!sensorPeriod(e, s) = Motion!sensorPeriod(d, s)
  BY <1>7, PeriodsKept
<1>9. Idle(e, s)
  BY <1>3, <1>6, <1>8 DEF Idle
<1> QED
  BY <1>3, <1>5, <1>6, <1>7, <1>9 DEF SampledAs

LEMMA SampleOne ==
  ASSUME NEW d \in Imus, NEW s \in Motion!Both
  PROVE  SampledAs(d, Motion!Sample(d, s), s)
<1> DEFINE period == Motion!sensorPeriod(d, s)
           next == IF d.next[s] = Motion!NoTime THEN period ELSE d.next[s]
           r == Motion!Sample(d, s)
<1>1. r = IF period = 0 THEN [d EXCEPT !.ready[s] = FALSE, !.data[s] = FALSE, !.next[s] = Motion!NoTime, !.pulse[s] = 0]
          ELSE IF next > 0 THEN [d EXCEPT !.next[s] = next]
          ELSE [d EXCEPT !.ready[s] = TRUE, !.data[s] = TRUE, !.next[s] = period, !.pulse[s] = Pulse]
  BY DEF Motion!Sample
<1>2. period \in Nat /\ d.next[s] \in Times /\ d.ready \in Flags /\ d.data \in Flags /\ d.next \in [Motion!Both -> Times]
      /\ d.pulse \in [Motion!Both -> 0..Pulse]
  BY PeriodIsNat DEF Imus
<1>3. next \in Times /\ period \in Times /\ Motion!NoTime = -1 /\ -1 \in Times /\ Pulse \in 0..Pulse /\ 0 \in 0..Pulse
  BY <1>2, SensorFacts DEF Times, Motion!NoTime
<1> HIDE DEF period, next, r
<1>4. ASSUME NEW ready \in BOOLEAN, NEW data \in BOOLEAN, NEW n \in Times, NEW p \in 0..Pulse,
             r = [d EXCEPT !.ready[s] = ready, !.data[s] = data, !.next[s] = n, !.pulse[s] = p],
             (ready \/ data \/ p > 0 \/ n # -1) => period > 0,
             d.next[s] > 0 /\ period > 0 => n = d.next[s]
      PROVE  SampledAs(d, r, s)
  BY ONLY <1>4, d \in Imus, s \in Motion!Both, SampleSets DEF period
<1>5. ASSUME period = 0 PROVE SampledAs(d, r, s)
  <2>1. r = [d EXCEPT !.ready[s] = FALSE, !.data[s] = FALSE, !.next[s] = -1, !.pulse[s] = 0]
    BY <1>1, <1>3, <1>5
  <2>2. ~(0 > 0) /\ ~(period > 0)
    BY <1>5
  <2> QED
    BY ONLY <1>3, <1>4, <1>5, <2>1, <2>2, FALSE \in BOOLEAN, Zenon
<1>6. ASSUME period # 0 /\ next > 0 PROVE SampledAs(d, r, s)
  <2>1. /\ [d.ready EXCEPT ![s] = d.ready[s]] = d.ready /\ [d.data EXCEPT ![s] = d.data[s]] = d.data
        /\ [d.pulse EXCEPT ![s] = d.pulse[s]] = d.pulse
    BY <1>2 DEF Flags
  <2> DEFINE fn == [d.next EXCEPT ![s] = next]
  <2>2. r = [d EXCEPT !.next = fn]
    BY <1>1, <1>6
  <2>3. [d EXCEPT !.ready = [d.ready EXCEPT ![s] = d.ready[s]], !.data = [d.data EXCEPT ![s] = d.data[s]],
                  !.next = fn, !.pulse = [d.pulse EXCEPT ![s] = d.pulse[s]]]
        = [d EXCEPT !.ready[s] = d.ready[s], !.data[s] = d.data[s], !.next[s] = next, !.pulse[s] = d.pulse[s]]
    BY DEF Imus
  <2> HIDE DEF fn
  <2>4. r = [d EXCEPT !.ready = d.ready, !.data = d.data, !.next = fn, !.pulse = d.pulse]
    BY <2>2 DEF Imus
  <2>5. r = [d EXCEPT !.ready[s] = d.ready[s], !.data[s] = d.data[s], !.next[s] = next, !.pulse[s] = d.pulse[s]]
    BY <2>1, <2>3, <2>4
  <2>6. d.ready[s] \in BOOLEAN /\ d.data[s] \in BOOLEAN /\ d.pulse[s] \in 0..Pulse
    BY <1>2 DEF Flags
  <2>7. period > 0 /\ (d.next[s] > 0 => next = d.next[s])
    BY <1>2, <1>6 DEF next, Motion!NoTime, Times
  <2> QED
    BY ONLY <1>3, <1>4, <2>5, <2>6, <2>7, Zenon
<1>7. ASSUME period # 0 /\ ~(next > 0) PROVE SampledAs(d, r, s)
  <2>1. r = [d EXCEPT !.ready[s] = TRUE, !.data[s] = TRUE, !.next[s] = period, !.pulse[s] = Pulse]
    BY <1>1, <1>7
  <2>2. period > 0 /\ ~(d.next[s] > 0)
    BY <1>2, <1>7 DEF next, Motion!NoTime, Times
  <2> QED
    BY ONLY <1>3, <1>4, <2>1, <2>2, TRUE \in BOOLEAN, Zenon
<1>8. SampledAs(d, r, s)
  BY ONLY <1>5, <1>6, <1>7, Zenon
<1> QED
  BY <1>8 DEF r

\* What sampleSensors is to make of "d".
Sampled(d, e) ==
  /\ e \in Imus /\ Settings(e) = Settings(d) /\ Motions(e) = Motions(d) /\ Timed(e) /\ AllIdle(e)
  /\ \A s \in Motion!Both : d.next[s] > 0 /\ Motion!sensorPeriod(d, s) > 0 => e.next[s] = d.next[s]

LEMMA SampleAll ==
  ASSUME NEW d \in Imus
  PROVE  Sampled(d, Motion!sampleSensors(d))
<1> DEFINE a == Motion!Sample(d, "accel")
           g == Motion!Sample(a, "gyro")
           e == Motion!sampleSensors(d)
<1>1. SampledAs(d, a, "accel")
  BY SampleOne DEF Motion!Both
<1>2. a \in Imus
  BY ONLY <1>1 DEF SampledAs
<1>3. SampledAs(a, g, "gyro")
  BY <1>2, SampleOne DEF Motion!Both
<1>4. e = [g EXCEPT !.sampleTimer = Motion!Lower(Motion!Events(g))]
  BY DEF Motion!sampleSensors
<1> HIDE DEF a, g, e
<1>5. g \in Imus /\ Settings(g) = Settings(d) /\ Motions(g) = Motions(d)
  BY ONLY <1>1, <1>3 DEF SampledAs
<1>6. Motion!Lower(Motion!Events(g)) \in Times
  BY <1>5, EventsOf
<1>7. e \in Imus
  BY ONLY <1>4, <1>5, <1>6, Zenon DEF Imus
<1>8. /\ e.sampleTimer = Motion!Lower(Motion!Events(g)) /\ e.next = g.next /\ e.pulse = g.pulse /\ e.ready = g.ready /\ e.data = g.data
      /\ Settings(e) = Settings(g) /\ Motions(e) = Motions(g)
  BY <1>4, <1>5 DEF Imus, Settings, Motions
<1>9. Timed(e)
  BY <1>8 DEF Timed, Motion!Events
<1>10. \A s : /\ Motion!sensorPeriod(e, s) = Motion!sensorPeriod(d, s) /\ Motion!sensorPeriod(g, s) = Motion!sensorPeriod(d, s)
              /\ Motion!sensorPeriod(a, s) = Motion!sensorPeriod(d, s)
  <2>1. Settings(a) = Settings(d) /\ Settings(e) = Settings(d)
    BY ONLY <1>1, <1>5, <1>8 DEF SampledAs
  <2> QED
    BY <1>5, <2>1, PeriodsKept
<1>11. /\ g.ready["accel"] = a.ready["accel"] /\ g.data["accel"] = a.data["accel"]
       /\ g.next["accel"] = a.next["accel"] /\ g.pulse["accel"] = a.pulse["accel"] /\ a.next["gyro"] = d.next["gyro"]
  BY <1>1, <1>3 DEF SampledAs, Motion!Both
<1>12. AllIdle(e)
  <2>1. Idle(a, "accel") /\ Idle(g, "gyro")
    BY ONLY <1>1, <1>3 DEF SampledAs
  <2>2. Idle(e, "accel")
    BY <1>8, <1>10, <1>11, <2>1 DEF Idle
  <2>3. Idle(e, "gyro")
    BY <1>8, <1>10, <2>1 DEF Idle
  <2> QED
    BY <2>2, <2>3 DEF AllIdle, Motion!Both
<1>13. ASSUME NEW s \in Motion!Both, d.next[s] > 0, Motion!sensorPeriod(d, s) > 0
       PROVE  e.next[s] = d.next[s]
  <2>1. CASE s = "accel"
    BY <1>1, <1>8, <1>11, <1>13, <2>1 DEF SampledAs
  <2>2. CASE s = "gyro"
    BY <1>3, <1>8, <1>10, <1>11, <1>13, <2>2 DEF SampledAs
  <2> QED
    BY <2>1, <2>2 DEF Motion!Both
<1>14. Sampled(d, e)
  BY <1>5, <1>7, <1>8, <1>9, <1>12, <1>13 DEF Sampled
<1> QED
  BY <1>14 DEF e

LEMMA SampledFits ==
  ASSUME NEW d \in Imus, Watched(d)
  PROVE  Fits(Motion!sampleSensors(d))
<1> DEFINE e == Motion!sampleSensors(d)
<1>1. Sampled(d, e)
  BY SampleAll
<1> HIDE DEF e
<1>2. e.motion = d.motion /\ e.motionTimer = d.motionTimer
  BY ONLY <1>1 DEF Sampled, Motions
<1>3. Motion!motionPeriod(e) = Motion!motionPeriod(d)
  BY <1>1, PeriodsKept DEF Sampled
<1>4. Fits(e)
  BY <1>1, <1>2, <1>3 DEF Fits, Watched, Sampled
<1> QED
  BY <1>4 DEF e

\* What configureMotion is to make of "d".
Configured(d, e) == e \in Imus /\ Settings(e) = Settings(d) /\ Samples(e) = Samples(d) /\ Watched(e)

LEMMA ConfigureMotion ==
  ASSUME NEW d \in Imus
  PROVE  Configured(d, Motion!configureMotion(d))
<1> DEFINE period == Motion!motionPeriod(d)
           timer_ == IF period = 0 THEN -1 ELSE period
           e == Motion!configureMotion(d)
<1>1. period \in Nat
  BY PeriodIsNat DEF Motion!Both
<1> HIDE DEF period
<1>2. timer_ \in Times /\ (timer_ # -1 <=> period > 0)
  BY <1>1 DEF Times
<1>3. e = [d EXCEPT !.samples = 0, !.motion = FALSE, !.reference = d.input, !.motionTimer = timer_]
  BY DEF Motion!configureMotion, Motion!NoTime, period, Imus
<1> HIDE DEF timer_, e
<1>4. d.input \in {0, 1} /\ 0 \in Nat /\ FALSE \in BOOLEAN
  BY DEF Imus
<1>5. e \in Imus
  BY ONLY <1>2, <1>3, <1>4, d \in Imus, Zenon DEF Imus
<1>6. e.motionTimer = timer_ /\ e.motion = FALSE /\ Settings(e) = Settings(d) /\ Samples(e) = Samples(d)
  BY <1>3 DEF Imus, Settings, Samples
<1>7. Motion!motionPeriod(e) = period
  BY <1>6, PeriodsKept DEF period
<1>8. Configured(d, e)
  BY <1>2, <1>5, <1>6, <1>7 DEF Configured, Watched
<1> QED
  BY <1>8 DEF e

LEMMA ConfiguredFits ==
  ASSUME NEW d \in Imus, Timed(d), AllIdle(d)
  PROVE  Fits(Motion!configureMotion(d))
<1> DEFINE e == Motion!configureMotion(d)
<1>1. Configured(d, e)
  BY ConfigureMotion
<1> HIDE DEF e
<1>2. \A s : Motion!sensorPeriod(e, s) = Motion!sensorPeriod(d, s)
  BY <1>1, PeriodsKept DEF Configured
<1>3. e.ready = d.ready /\ e.data = d.data /\ e.next = d.next /\ e.pulse = d.pulse /\ e.sampleTimer = d.sampleTimer
  BY ONLY <1>1 DEF Configured, Samples
<1>4. Timed(e) /\ AllIdle(e)
  BY <1>2, <1>3 DEF Timed, AllIdle, Idle, Motion!Events
<1>5. Fits(e)
  BY ONLY <1>1, <1>4 DEF Fits, Configured
<1> QED
  BY <1>5 DEF e

\* The two together, as most registers are written.
LEMMA SampledAndConfigured ==
  ASSUME NEW d \in Imus
  PROVE  LET e == Motion!configureMotion(Motion!sampleSensors(d)) IN Fits(e) /\ Settings(e) = Settings(d)
<1> DEFINE r == Motion!sampleSensors(d)
<1>1. Sampled(d, r)
  BY SampleAll
<1> HIDE DEF r
<1>2. r \in Imus /\ Timed(r) /\ AllIdle(r) /\ Settings(r) = Settings(d)
  BY ONLY <1>1 DEF Sampled
<1>3. Fits(Motion!configureMotion(r)) /\ Settings(Motion!configureMotion(r)) = Settings(d)
  BY <1>2, ConfiguredFits, ConfigureMotion DEF Configured
<1> QED
  BY <1>3 DEF r

\* A register that no timer depends on is written, or ready and data are cleared.
LEMMA ClearedFits ==
  ASSUME NEW d, Fits(d), NEW e \in Imus, Powers(e) = Powers(d), Motions(e) = Motions(d),
         e.next = d.next, e.pulse = d.pulse, e.sampleTimer = d.sampleTimer,
         \A s \in Motion!Both : (e.ready[s] => d.ready[s]) /\ (e.data[s] => d.data[s])
  PROVE  Fits(e)
<1>1. /\ \A s : Motion!sensorPeriod(e, s) = Motion!sensorPeriod(d, s)
      /\ Motion!motionPeriod(e) = Motion!motionPeriod(d)
  BY PowersKept
<1>2. Timed(e)
  BY DEF Fits, Timed, Motion!Events
<1>3. AllIdle(e)
  BY <1>1 DEF Fits, AllIdle, Idle
<1>4. e.motion = d.motion /\ e.motionTimer = d.motionTimer
  BY DEF Motions
<1>5. Watched(e)
  BY <1>1, <1>4 DEF Fits, Watched
<1> QED
  BY <1>2, <1>3, <1>5 DEF Fits

\* The level of the pin depends on these registers.
Signals(d) == <<d.pin, d.feature, d.motion, d.data, d.pulse>>

LEMMA LevelKept ==
  ASSUME NEW d, NEW e, Signals(e) = Signals(d)
  PROVE  Motion!Level(e) = Motion!Level(d)
  BY DEF Signals, Motion!Level, Motion!Active

-----------------------------------------------------------------------------
(* Steps that update the pin, and those that do not.                       *)

LEMMA UpdatedPin ==
  ASSUME MotionInv, NEW d, Fits(d), Motion!Becomes(d), UNCHANGED upload, d.status = 1 => upload.written = 0..Size - 1
  PROVE  MotionInv'
<1>1. imu' = d /\ irq' = Motion!Level(d) /\ upload' = upload
  BY DEF Motion!Becomes
<1>2. Fits(imu')
  BY <1>1
<1>3. irq' \in BOOLEAN /\ irq' = Motion!Level(imu')
  BY <1>1 DEF Motion!Level
<1>4. Uploaded'
  BY <1>1 DEF MotionInv, Uploaded
<1> QED
  BY <1>1, <1>2, <1>3, <1>4 DEF MotionInv

LEMMA KeptPin ==
  ASSUME MotionInv, NEW d, Fits(d), imu' = d, UNCHANGED <<upload, irq>>, Signals(d) = Signals(imu),
         d.sampleTimer = imu.sampleTimer, d.status = imu.status
  PROVE  MotionInv'
<1>1. Motion!Level(d) = Motion!Level(imu)
  BY LevelKept
<1>2. irq' \in BOOLEAN /\ (irq' = Motion!Level(imu') \/ imu'.sampleTimer = 0)
  BY <1>1 DEF MotionInv
<1>3. Uploaded'
  BY DEF MotionInv, Uploaded
<1> QED
  BY <1>2, <1>3 DEF MotionInv

-----------------------------------------------------------------------------
(* The clock advances by one, up to the first timer that is due.           *)

Later(d) ==
  [d EXCEPT !.sampleTimer = Motion!Earlier(@), !.motionTimer = Motion!Earlier(@),
            !.next = [s \in Motion!Both |-> Motion!Earlier(@[s])], !.pulse = [s \in Motion!Both |-> Motion!Earlier(@[s])]]

LEMMA LaterIs ==
  ASSUME NEW d \in Imus
  PROVE  LET e == Later(d)
         IN  /\ e \in Imus /\ Powers(e) = Powers(d)
             /\ e.sampleTimer = Motion!Earlier(d.sampleTimer) /\ e.motionTimer = Motion!Earlier(d.motionTimer)
             /\ \A s \in Motion!Both : e.next[s] = Motion!Earlier(d.next[s]) /\ e.pulse[s] = Motion!Earlier(d.pulse[s])
             /\ e.ready = d.ready /\ e.data = d.data /\ e.motion = d.motion /\ e.pin = d.pin /\ e.feature = d.feature /\ e.status = d.status
<1> DEFINE e == Later(d)
           fn == [s \in Motion!Both |-> Motion!Earlier(d.next[s])]
           fp == [s \in Motion!Both |-> Motion!Earlier(d.pulse[s])]
<1>1. e = [d EXCEPT !.sampleTimer = Motion!Earlier(d.sampleTimer), !.motionTimer = Motion!Earlier(d.motionTimer), !.next = fn, !.pulse = fp]
  BY DEF Later, Imus
<1>2. \A t \in Times : Motion!Earlier(t) \in Times
  BY DEF Times, Motion!Earlier
<1>3. \A p \in 0..Pulse : Motion!Earlier(p) \in 0..Pulse
  BY SensorFacts DEF Motion!Earlier
<1>4. d.sampleTimer \in Times /\ d.motionTimer \in Times /\ \A s \in Motion!Both : d.next[s] \in Times /\ d.pulse[s] \in 0..Pulse
  BY DEF Imus
<1>5. fn \in [Motion!Both -> Times] /\ fp \in [Motion!Both -> 0..Pulse]
  BY <1>2, <1>3, <1>4
<1>6. Motion!Earlier(d.sampleTimer) \in Times /\ Motion!Earlier(d.motionTimer) \in Times
  BY <1>2, <1>4
<1>7. \A s \in Motion!Both : fn[s] = Motion!Earlier(d.next[s]) /\ fp[s] = Motion!Earlier(d.pulse[s])
  OBVIOUS
<1> HIDE DEF e, fn, fp
<1>8. e \in Imus
  BY ONLY <1>1, <1>5, <1>6, d \in Imus, Zenon DEF Imus
<1>9. /\ e.sampleTimer = Motion!Earlier(d.sampleTimer) /\ e.motionTimer = Motion!Earlier(d.motionTimer) /\ e.next = fn /\ e.pulse = fp
      /\ e.ready = d.ready /\ e.data = d.data /\ e.motion = d.motion /\ e.pin = d.pin /\ e.feature = d.feature /\ e.status = d.status
      /\ Powers(e) = Powers(d)
  BY <1>1 DEF Imus, Powers
<1> QED
  BY <1>7, <1>8, <1>9 DEF e

LEMMA TickKeeps ==
  ASSUME MotionInv, Motion!Tick
  PROVE  MotionInv'
<1> DEFINE e == Later(imu)
           S == Motion!Events(imu)
           R == Motion!Events(e)
<1>1. imu' = e /\ UNCHANGED <<upload, irq>> /\ imu.sampleTimer # 0 /\ imu.motionTimer # 0
  BY DEF Motion!Tick, Motion!Due, Later
<1>2. imu \in Imus /\ Timed(imu) /\ AllIdle(imu) /\ Watched(imu)
  BY DEF MotionInv, Fits
<1>3. /\ e \in Imus /\ Powers(e) = Powers(imu)
      /\ e.sampleTimer = Motion!Earlier(imu.sampleTimer) /\ e.motionTimer = Motion!Earlier(imu.motionTimer)
      /\ \A s \in Motion!Both : e.next[s] = Motion!Earlier(imu.next[s]) /\ e.pulse[s] = Motion!Earlier(imu.pulse[s])
      /\ e.ready = imu.ready /\ e.data = imu.data /\ e.motion = imu.motion /\ e.pin = imu.pin /\ e.feature = imu.feature /\ e.status = imu.status
  BY <1>2, LaterIs
<1>4. /\ S \in SUBSET Nat /\ imu.sampleTimer = Motion!Lower(S) /\ Motion!Lower(S) \in Times
      /\ \A s \in Motion!Both : imu.next[s] \in Times /\ imu.pulse[s] \in Nat
      /\ \A s \in Motion!Both : (imu.next[s] # -1 => imu.next[s] \in S) /\ (imu.pulse[s] > 0 => imu.pulse[s] \in S)
      /\ S = {} \/ (Motion!Lower(S) \in S /\ \A u \in S : Motion!Lower(S) <= u)
  BY <1>1, <1>2, EventsOf DEF Timed
<1>5. /\ R \in SUBSET Nat
      /\ \A s \in Motion!Both : (e.next[s] # -1 => e.next[s] \in R) /\ (e.pulse[s] > 0 => e.pulse[s] \in R)
  BY <1>3, EventsOf
<1>6. \A u \in R : \E s \in Motion!Both : (u = e.next[s] /\ u # -1) \/ (u = e.pulse[s] /\ u > 0)
  BY DEF Motion!Events, Motion!NoTime
<1>7. \A u \in S : \E s \in Motion!Both : (u = imu.next[s] /\ u # -1) \/ (u = imu.pulse[s] /\ u > 0)
  BY DEF Motion!Events, Motion!NoTime
<1> DEFINE first == Motion!Lower(S)
<1> HIDE DEF e, S, R, first
<1>8. /\ \A s \in Motion!Both : imu.next[s] = -1 => e.next[s] = -1
      /\ \A s \in Motion!Both : imu.next[s] > 0 => e.next[s] = imu.next[s] - 1
      /\ \A s \in Motion!Both : imu.next[s] = 0 => e.next[s] = 0
      /\ \A s \in Motion!Both : imu.pulse[s] = 0 => e.pulse[s] = 0
      /\ \A s \in Motion!Both : imu.pulse[s] > 0 => e.pulse[s] = imu.pulse[s] - 1
  BY <1>3, <1>4 DEF Motion!Earlier
<1>9. S # {} => first \in Nat /\ first > 0 /\ first \in S /\ (\A u \in S : first <= u) /\ e.sampleTimer = first - 1
  <2>1. first \in Times /\ first # 0 /\ imu.sampleTimer = first
    BY <1>1, <1>4 DEF first
  <2>2. S # {} => first \in Nat /\ first \in S /\ \A u \in S : first <= u
    BY <1>4 DEF first
  <2>3. first > 0 => e.sampleTimer = first - 1
    BY <1>3, <2>1 DEF Motion!Earlier
  <2> QED
    BY <2>1, <2>2, <2>3
<1>10. Timed(e) /\ ((\A s \in Motion!Both : imu.pulse[s] > 0 => e.pulse[s] > 0) \/ e.sampleTimer = 0)
  <2>1. CASE S = {}
    <3>1. \A s \in Motion!Both : imu.next[s] = -1 /\ imu.pulse[s] = 0
      BY <1>4, <2>1
    <3>2. \A s \in Motion!Both : e.next[s] = -1 /\ e.pulse[s] = 0
      BY <1>8, <3>1
    <3>3. R = {}
      BY <1>6, <3>2
    <3>4. imu.sampleTimer = -1 /\ e.sampleTimer = -1
      BY <1>3, <1>4, <2>1 DEF Motion!Lower, Motion!NoTime, Motion!Earlier
    <3>5. Timed(e)
      BY <3>3, <3>4 DEF Timed, Motion!Lower, Motion!NoTime, R
    <3> QED
      BY <3>1, <3>5
  <2>2. CASE S # {} /\ first = 1
    BY <1>9, <2>2 DEF Timed
  <2>3. CASE S # {} /\ first # 1
    <3>1. first \in Nat /\ first > 1 /\ first - 1 \in Nat /\ \A u \in S : u \in Nat /\ first <= u
      BY <1>4, <1>9, <2>3
    <3>2. \A s \in Motion!Both : (imu.next[s] # -1 => imu.next[s] >= first) /\ (imu.pulse[s] > 0 => imu.pulse[s] >= first)
      BY <1>4, <3>1
    <3>3. /\ \A s \in Motion!Both : imu.next[s] # -1 => e.next[s] = imu.next[s] - 1 /\ e.next[s] >= first - 1
          /\ \A s \in Motion!Both : imu.pulse[s] > 0 => e.pulse[s] = imu.pulse[s] - 1 /\ e.pulse[s] >= first - 1
      BY <1>4, <1>8, <3>1, <3>2 DEF Times
    <3>4. \A u \in R : first - 1 <= u
      <4> SUFFICES ASSUME NEW u \in R PROVE first - 1 <= u
        OBVIOUS
      <4>1. PICK s \in Motion!Both : (u = e.next[s] /\ u # -1) \/ (u = e.pulse[s] /\ u > 0)
        BY <1>6
      <4>2. CASE u = e.next[s] /\ u # -1
        BY <1>4, <1>8, <3>1, <3>3, <4>2 DEF Times
      <4>3. CASE u = e.pulse[s] /\ u > 0
        BY <1>4, <1>8, <3>1, <3>3, <4>3
      <4> QED
        BY <4>1, <4>2, <4>3
    <3>5. first - 1 \in R
      <4>1. PICK s \in Motion!Both : (first = imu.next[s] /\ first # -1) \/ (first = imu.pulse[s] /\ first > 0)
        BY <1>7, <1>9, <2>3
      <4>2. e.next[s] = first - 1 \/ e.pulse[s] = first - 1
        BY <3>1, <3>3, <4>1
      <4>3. first - 1 # -1 /\ first - 1 > 0
        BY <3>1
      <4> QED
        BY <1>5, <4>2, <4>3
    <3>6. R \in SUBSET Int
      BY <1>5
    <3>7. Motion!Lower(R) = first - 1
      BY <3>4, <3>5, <3>6, LowerIs
    <3>8. Timed(e)
      BY <1>9, <2>3, <3>7 DEF Timed, R
    <3>9. \A s \in Motion!Both : imu.pulse[s] > 0 => e.pulse[s] > 0
      BY <1>4, <3>1, <3>2, <3>3
    <3> QED
      BY <3>8, <3>9
  <2> QED
    BY <2>1, <2>2, <2>3
<1>11. /\ \A s : Motion!sensorPeriod(e, s) = Motion!sensorPeriod(imu, s)
       /\ Motion!motionPeriod(e) = Motion!motionPeriod(imu)
  BY <1>3, PowersKept
<1>12. AllIdle(e)
  <2>1. \A s \in Motion!Both : (e.next[s] # -1 => imu.next[s] # -1) /\ (e.pulse[s] > 0 => imu.pulse[s] > 0)
    BY <1>4, <1>8
  <2> QED
    BY <1>2, <1>3, <1>11, <2>1 DEF AllIdle, Idle
<1>13. Watched(e)
  <2>1. imu.motionTimer \in Times
    BY <1>2 DEF Imus
  <2>2. e.motionTimer # -1 <=> imu.motionTimer # -1
    BY <1>1, <1>3, <2>1 DEF Motion!Earlier, Times
  <2> QED
    BY <1>2, <1>3, <1>11, <2>2 DEF Watched
<1>14. irq \in BOOLEAN /\ (irq = Motion!Level(e) \/ e.sampleTimer = 0)
  <2>1. irq \in BOOLEAN /\ irq = Motion!Level(imu)
    BY <1>1 DEF MotionInv
  <2>2. ASSUME \A s \in Motion!Both : imu.pulse[s] > 0 => e.pulse[s] > 0
        PROVE  Motion!Level(e) = Motion!Level(imu)
    <3>1. \A s \in Motion!Both : imu.pulse[s] > 0 <=> e.pulse[s] > 0
      BY <1>4, <1>8, <2>2
    <3> QED
      BY <1>3, <3>1, Zenon DEF Motion!Level, Motion!Active
  <2> QED
    BY <1>10, <2>1, <2>2
<1>15. Uploaded' /\ (e.status = 1 => upload'.written = 0..Size - 1)
  BY <1>1, <1>3 DEF MotionInv, Uploaded
<1>16. Fits(e)
  BY <1>3, <1>10, <1>12, <1>13 DEF Fits
<1> QED
  BY <1>1, <1>14, <1>15, <1>16 DEF MotionInv

-----------------------------------------------------------------------------
(* The other steps.                                                        *)

Fields(d) ==
  /\ d.status \in 0..2 /\ d.control \in BOOLEAN /\ d.power \in Flags /\ d.rate \in [Motion!Both -> Rates] /\ d.performance \in BOOLEAN
  /\ d.ready \in Flags /\ d.data \in Flags /\ d.next \in [Motion!Both -> Times] /\ d.pulse \in [Motion!Both -> 0..Pulse]
  /\ d.samples \in Nat /\ d.input \in {0, 1} /\ d.reference \in {0, 1} /\ d.feature \in BOOLEAN
  /\ d.features \in [on : BOOLEAN, output : BOOLEAN, duration : Nat] /\ d.features.output \in BOOLEAN

LEMMA FieldsOf ==
  ASSUME NEW d \in Imus
  PROVE  Fields(d)
  BY DEF Imus, Fields

LEMMA DetectKeeps ==
  ASSUME MotionInv, Motion!MotionTimer
  PROVE  MotionInv'
<1> DEFINE e == Motion!Detect(imu)
           period == Motion!motionPeriod(imu)
<1>1. imu.motionTimer = 0 /\ Motion!Becomes(e) /\ UNCHANGED upload
  BY DEF Motion!MotionTimer
<1>2. imu \in Imus /\ Timed(imu) /\ AllIdle(imu) /\ Watched(imu) /\ Fields(imu)
  BY FieldsOf DEF MotionInv, Fits
<1>3. period \in Nat /\ period > 0
  BY <1>1, <1>2, PeriodIsNat DEF Watched, Motion!Both
<1> HIDE DEF period
<1>4. \E n \in Nat, m \in BOOLEAN, f \in BOOLEAN, r \in {0, 1} :
        e = [imu EXCEPT !.motionTimer = period, !.motion = m, !.feature = f, !.samples = n, !.reference = r]
  <2> DEFINE needed == IF imu.features.duration = 0 THEN 1 ELSE imu.features.duration
             timed == [imu EXCEPT !.motionTimer = period, !.motion = FALSE]
             output_ == imu.features.output
  <2>1. imu.features.duration \in Nat
    BY <1>2 DEF Fields
  <2>2. needed \in Nat /\ imu.samples + 1 \in Nat /\ imu.feature \in BOOLEAN /\ imu.reference \in {0, 1} /\ imu.input \in {0, 1}
        /\ output_ \in BOOLEAN /\ (imu.feature \/ output_) \in BOOLEAN /\ FALSE \in BOOLEAN /\ 0 \in Nat
    BY <1>2, <2>1 DEF Fields
  <2>3. e = IF ~(imu.input # imu.reference) THEN [timed EXCEPT !.samples = 0]
            ELSE IF ~(imu.samples + 1 >= needed) THEN [timed EXCEPT !.samples = @ + 1]
            ELSE [timed EXCEPT !.samples = needed, !.motion = output_, !.feature = @ \/ output_, !.reference = imu.input]
    BY DEF Motion!Detect, period
  <2> HIDE DEF e, needed
  <2>4. CASE ~(imu.input # imu.reference)
    <3>1. e = [imu EXCEPT !.motionTimer = period, !.motion = FALSE, !.feature = imu.feature, !.samples = 0, !.reference = imu.reference]
      BY <1>2, <2>3, <2>4 DEF Imus
    <3> QED
      BY ONLY <3>1, <2>2, Zenon
  <2>5. CASE imu.input # imu.reference /\ ~(imu.samples + 1 >= needed)
    <3>1. e = [imu EXCEPT !.motionTimer = period, !.motion = FALSE, !.feature = imu.feature, !.samples = imu.samples + 1, !.reference = imu.reference]
      BY <1>2, <2>3, <2>5 DEF Imus
    <3> QED
      BY ONLY <3>1, <2>2, Zenon
  <2>6. CASE imu.input # imu.reference /\ imu.samples + 1 >= needed
    <3>1. e = [imu EXCEPT !.motionTimer = period, !.motion = output_, !.feature = imu.feature \/ output_, !.samples = needed, !.reference = imu.input]
      BY <1>2, <2>3, <2>6 DEF Imus
    <3> HIDE DEF output_
    <3> QED
      BY ONLY <3>1, <2>2, Zenon
  <2> QED
    BY <2>4, <2>5, <2>6
<1>5. PICK n \in Nat, m \in BOOLEAN, f \in BOOLEAN, r \in {0, 1} :
        e = [imu EXCEPT !.motionTimer = period, !.motion = m, !.feature = f, !.samples = n, !.reference = r]
  BY <1>4
<1> HIDE DEF e
<1>6. period \in Times
  BY <1>3 DEF Times
<1>7. e \in Imus
  BY ONLY <1>2, <1>5, <1>6, Zenon DEF Imus
<1>8. e.motionTimer = period /\ Powers(e) = Powers(imu) /\ Samples(e) = Samples(imu) /\ e.status = imu.status
  BY <1>2, <1>5 DEF Imus, Powers, Samples
<1>9. /\ \A s : Motion!sensorPeriod(e, s) = Motion!sensorPeriod(imu, s)
      /\ Motion!motionPeriod(e) = period
  BY <1>8, PowersKept DEF period
<1>10. Watched(e)
  BY <1>3, <1>8, <1>9 DEF Watched
<1>11. Timed(e) /\ AllIdle(e)
  BY <1>2, <1>8, <1>9 DEF Timed, AllIdle, Idle, Samples, Motion!Events
<1>12. Fits(e)
  BY <1>7, <1>10, <1>11 DEF Fits
<1> QED
  BY <1>1, <1>8, <1>12, UpdatedPin DEF MotionInv

LEMMA ClearKeeps ==
  ASSUME MotionInv, Motion!ReadFeatureStatus \/ Motion!ReadDataStatus \/ \E p \in InterruptPins : Motion!WritePin(p)
  PROVE  MotionInv'
<1>1. imu \in Imus /\ Fits(imu) /\ Fields(imu)
  BY FieldsOf DEF MotionInv, Fits
<1>2. CASE Motion!ReadFeatureStatus
  <2> DEFINE e == [imu EXCEPT !.feature = FALSE]
  <2>1. Motion!Becomes(e) /\ UNCHANGED upload
    BY <1>2 DEF Motion!ReadFeatureStatus
  <2>2. e \in Imus
    BY ONLY <1>1, FALSE \in BOOLEAN, Zenon DEF Imus
  <2>3. /\ Powers(e) = Powers(imu) /\ Motions(e) = Motions(imu) /\ e.next = imu.next /\ e.pulse = imu.pulse
        /\ e.sampleTimer = imu.sampleTimer /\ e.ready = imu.ready /\ e.data = imu.data /\ e.status = imu.status
    BY <1>1 DEF Imus, Powers, Motions
  <2> HIDE DEF e
  <2>4. Fits(e)
    BY <1>1, <2>2, <2>3, ClearedFits
  <2> QED
    BY <2>1, <2>3, <2>4, UpdatedPin DEF MotionInv
<1>3. CASE Motion!ReadDataStatus
  <2> DEFINE e == [imu EXCEPT !.data = Motion!Off]
  <2>1. Motion!Becomes(e) /\ UNCHANGED upload
    BY <1>3 DEF Motion!ReadDataStatus
  <2>2. Motion!Off \in Flags /\ \A s \in Motion!Both : ~Motion!Off[s]
    BY DEF Motion!Off, Flags
  <2>3. e \in Imus
    BY ONLY <1>1, <2>2, Zenon DEF Imus
  <2>4. /\ Powers(e) = Powers(imu) /\ Motions(e) = Motions(imu) /\ e.next = imu.next /\ e.pulse = imu.pulse
        /\ e.sampleTimer = imu.sampleTimer /\ e.ready = imu.ready /\ e.data = Motion!Off /\ e.status = imu.status
    BY <1>1 DEF Imus, Powers, Motions
  <2> HIDE DEF e
  <2>5. Fits(e)
    BY <1>1, <2>2, <2>3, <2>4, ClearedFits
  <2> QED
    BY <2>1, <2>4, <2>5, UpdatedPin DEF MotionInv
<1>4. ASSUME NEW p \in InterruptPins, Motion!WritePin(p) PROVE MotionInv'
  <2> DEFINE e == [imu EXCEPT !.pin = p]
  <2>1. Motion!Becomes(e) /\ UNCHANGED upload
    BY <1>4 DEF Motion!WritePin
  <2>2. p \in [enabled : BOOLEAN, high : BOOLEAN, latched : BOOLEAN, feature : BOOLEAN, data : BOOLEAN]
    BY DevicesAssumption DEF Motion!SensorAssumption
  <2>3. e \in Imus
    BY ONLY <1>1, <2>2, Zenon DEF Imus
  <2>4. /\ Powers(e) = Powers(imu) /\ Motions(e) = Motions(imu) /\ e.next = imu.next /\ e.pulse = imu.pulse
        /\ e.sampleTimer = imu.sampleTimer /\ e.ready = imu.ready /\ e.data = imu.data /\ e.status = imu.status
    BY <1>1 DEF Imus, Powers, Motions
  <2> HIDE DEF e
  <2>5. Fits(e)
    BY <1>1, <2>3, <2>4, ClearedFits
  <2> QED
    BY <2>1, <2>4, <2>5, UpdatedPin DEF MotionInv
<1> QED
  BY <1>2, <1>3, <1>4

LEMMA QuietKeeps ==
  ASSUME MotionInv, (\E level \in {0, 1} : Motion!SetMotion(level)) \/ \E s \in Sensors : Motion!ReadData(s)
  PROVE  MotionInv'
<1>1. imu \in Imus /\ Fits(imu) /\ Fields(imu)
  BY FieldsOf DEF MotionInv, Fits
<1>2. ASSUME NEW level \in {0, 1}, Motion!SetMotion(level) PROVE MotionInv'
  <2> DEFINE e == [imu EXCEPT !.input = level]
  <2>1. imu' = e /\ UNCHANGED <<upload, irq>>
    BY <1>2 DEF Motion!SetMotion
  <2>2. e \in Imus
    BY ONLY <1>1, level \in {0, 1}, Zenon DEF Imus
  <2>3. /\ Powers(e) = Powers(imu) /\ Motions(e) = Motions(imu) /\ e.next = imu.next /\ e.pulse = imu.pulse /\ Signals(e) = Signals(imu)
        /\ e.sampleTimer = imu.sampleTimer /\ e.ready = imu.ready /\ e.data = imu.data /\ e.status = imu.status
    BY <1>1 DEF Imus, Powers, Motions, Signals
  <2> HIDE DEF e
  <2>4. Fits(e)
    BY <1>1, <2>2, <2>3, ClearedFits
  <2> QED
    BY <2>1, <2>3, <2>4, KeptPin
<1>3. ASSUME NEW s \in Sensors, Motion!ReadData(s) PROVE MotionInv'
  <2> DEFINE ready == [imu.ready EXCEPT ![s] = FALSE]
             e == [imu EXCEPT !.ready = ready]
  <2>1. imu' = e /\ UNCHANGED <<upload, irq>>
    BY <1>1, <1>3 DEF Motion!ReadData, Imus
  <2>2. ready \in Flags /\ \A t \in Motion!Both : ready[t] => imu.ready[t]
    BY <1>1 DEF Fields, Flags
  <2> HIDE DEF ready
  <2>3. e \in Imus
    BY ONLY <1>1, <2>2, Zenon DEF Imus
  <2>4. /\ Powers(e) = Powers(imu) /\ Motions(e) = Motions(imu) /\ e.next = imu.next /\ e.pulse = imu.pulse /\ Signals(e) = Signals(imu)
        /\ e.sampleTimer = imu.sampleTimer /\ e.ready = ready /\ e.data = imu.data /\ e.status = imu.status
    BY <1>1 DEF Imus, Powers, Motions, Signals
  <2> HIDE DEF e
  <2>5. Fits(e)
    BY <1>1, <2>2, <2>3, <2>4, ClearedFits
  <2> QED
    BY <2>1, <2>4, <2>5, KeptPin
<1> QED
  BY <1>2, <1>3

\* A register is written on which the periods depend.
LEMMA SampledStep ==
  ASSUME MotionInv, NEW d \in Imus, d.status = imu.status, UNCHANGED upload,
         Motion!Becomes(Motion!configureMotion(Motion!sampleSensors(d)))
         \/ (Watched(d) /\ Motion!Becomes(Motion!sampleSensors(d)))
  PROVE  MotionInv'
<1>1. CASE Motion!Becomes(Motion!configureMotion(Motion!sampleSensors(d)))
  <2> DEFINE e == Motion!configureMotion(Motion!sampleSensors(d))
  <2>1. Fits(e) /\ Settings(e) = Settings(d)
    BY SampledAndConfigured
  <2>2. Motion!Becomes(e)
    BY <1>1
  <2> HIDE DEF e
  <2>3. e.status = imu.status
    BY <2>1 DEF Settings
  <2> QED
    BY <2>1, <2>2, <2>3, UpdatedPin DEF MotionInv
<1>2. CASE Watched(d) /\ Motion!Becomes(Motion!sampleSensors(d))
  <2> DEFINE e == Motion!sampleSensors(d)
  <2>1. Fits(e) /\ Sampled(d, e)
    BY <1>2, SampledFits, SampleAll
  <2>2. Motion!Becomes(e)
    BY <1>2
  <2> HIDE DEF e
  <2>3. e.status = imu.status
    BY <2>1 DEF Settings, Sampled
  <2> QED
    BY <2>1, <2>2, <2>3, UpdatedPin DEF MotionInv
<1> QED
  BY <1>1, <1>2

LEMMA SampleKeeps ==
  ASSUME MotionInv,
         Motion!SampleTimer \/ Motion!WritePerformance \/ (\E s \in Sensors : Motion!WriteRange(s))
         \/ (\E f \in Features : Motion!WriteFeatures(f))
  PROVE  MotionInv'
<1>1. imu \in Imus /\ Fits(imu) /\ Watched(imu) /\ Timed(imu) /\ AllIdle(imu) /\ Fields(imu)
  BY FieldsOf DEF MotionInv, Fits
<1>2. CASE Motion!SampleTimer
  BY <1>1, <1>2, SampledStep DEF Motion!SampleTimer
<1>3. CASE Motion!WritePerformance
  <2> DEFINE d == [imu EXCEPT !.performance = ~imu.performance]
  <2>1. UNCHANGED upload /\ Motion!Becomes(Motion!configureMotion(Motion!sampleSensors(d)))
    BY <1>3 DEF Motion!WritePerformance
  <2>2. (~imu.performance) \in BOOLEAN
    OBVIOUS
  <2>3. d \in Imus
    BY ONLY <1>1, <2>2, Zenon DEF Imus
  <2>4. d.status = imu.status
    BY <1>1 DEF Imus
  <2> HIDE DEF d
  <2> QED
    BY <2>1, <2>3, <2>4, SampledStep
<1>4. ASSUME NEW s \in Sensors, Motion!WriteRange(s) PROVE MotionInv'
  <2>1. /\ UNCHANGED upload
        /\ Motion!Becomes(Motion!configureMotion(Motion!sampleSensors(imu))) \/ Motion!Becomes(Motion!sampleSensors(imu))
    BY <1>4 DEF Motion!WriteRange
  <2> QED
    BY <1>1, <2>1, SampledStep
<1>5. ASSUME NEW f \in Features, Motion!WriteFeatures(f) PROVE MotionInv'
  <2> DEFINE d == [imu EXCEPT !.features = f]
             e == Motion!configureMotion(d)
  <2>1. UNCHANGED upload /\ Motion!Becomes(e)
    BY <1>5 DEF Motion!WriteFeatures
  <2>2. f \in [on : BOOLEAN, output : BOOLEAN, duration : Nat]
    BY DevicesAssumption DEF Motion!SensorAssumption
  <2>3. d \in Imus
    BY ONLY <1>1, <2>2, Zenon DEF Imus
  <2>4. Samples(d) = Samples(imu) /\ d.status = imu.status /\ d.power = imu.power /\ d.rate = imu.rate
    BY <1>1 DEF Imus, Samples
  <2> HIDE DEF d
  <2>5. Timed(d) /\ AllIdle(d)
    BY <1>1, <2>4 DEF Timed, AllIdle, Idle, Samples, Motion!Events, Motion!sensorPeriod
  <2>6. Fits(e) /\ Configured(d, e)
    BY <2>3, <2>5, ConfiguredFits, ConfigureMotion
  <2> HIDE DEF e
  <2>7. e.status = imu.status
    BY <2>4, <2>6 DEF Configured, Settings
  <2> QED
    BY <2>1, <2>6, <2>7, UpdatedPin DEF MotionInv
<1> QED
  BY <1>2, <1>3, <1>4, <1>5

LEMMA WriteRateKeeps ==
  ASSUME MotionInv, NEW s \in Sensors, NEW rate \in Rates, Motion!WriteRate(s, rate)
  PROVE  MotionInv'
<1> DEFINE fr == [imu.rate EXCEPT ![s] = rate]
           fn == [imu.next EXCEPT ![s] = Motion!NoTime]
           d == [imu EXCEPT !.rate = fr, !.next = fn]
<1>1. imu \in Imus /\ Watched(imu) /\ Fields(imu)
  BY FieldsOf DEF MotionInv, Fits
<1>2. d = [imu EXCEPT !.rate[s] = rate, !.next[s] = Motion!NoTime]
  BY <1>1 DEF Imus
<1>3. UNCHANGED upload /\ Motion!Becomes(IF s = "accel" THEN Motion!configureMotion(Motion!sampleSensors(d)) ELSE Motion!sampleSensors(d))
  BY <1>2 DEF Motion!WriteRate
<1>4. fr \in [Motion!Both -> Rates] /\ fn \in [Motion!Both -> Times] /\ (s # "accel" => fr["accel"] = imu.rate["accel"])
  BY <1>1 DEF Fields, Times, Motion!NoTime, Motion!Both
<1> HIDE DEF fr, fn
<1>5. d \in Imus
  BY ONLY <1>1, <1>4, Zenon DEF Imus
<1>6. /\ d.status = imu.status /\ d.power = imu.power /\ d.rate = fr /\ d.performance = imu.performance /\ d.features = imu.features
      /\ d.motion = imu.motion /\ d.motionTimer = imu.motionTimer
  BY <1>1 DEF Imus
<1> HIDE DEF d
<1>7. s # "accel" => Watched(d)
  <2>1. s # "accel" => Motion!motionPeriod(d) = Motion!motionPeriod(imu)
    BY <1>4, <1>6 DEF Motion!motionPeriod, Motion!sensorPeriod
  <2> QED
    BY <1>1, <1>6, <2>1 DEF Watched
<1> QED
  BY <1>3, <1>5, <1>6, <1>7, SampledStep

LEMMA WritePowerKeeps ==
  ASSUME MotionInv, NEW power \in [Motion!Both -> BOOLEAN], Motion!WritePower(power)
  PROVE  MotionInv'
<1> DEFINE d == [imu EXCEPT !.power = power]
<1>1. imu \in Imus /\ Watched(imu) /\ Fields(imu) /\ power \in Flags
  BY FieldsOf DEF MotionInv, Fits, Flags
<1>2. /\ UNCHANGED upload
      /\ Motion!Becomes(IF power["accel"] # imu.power["accel"] THEN Motion!configureMotion(Motion!sampleSensors(d)) ELSE Motion!sampleSensors(d))
  BY DEF Motion!WritePower
<1>3. d \in Imus
  BY ONLY <1>1, Zenon DEF Imus
<1>4. /\ d.status = imu.status /\ d.power = power /\ d.rate = imu.rate /\ d.performance = imu.performance /\ d.features = imu.features
      /\ d.motion = imu.motion /\ d.motionTimer = imu.motionTimer
  BY <1>1 DEF Imus
<1> HIDE DEF d
<1>5. power["accel"] = imu.power["accel"] => Watched(d)
  <2>1. power["accel"] = imu.power["accel"] => Motion!motionPeriod(d) = Motion!motionPeriod(imu)
    BY <1>4 DEF Motion!motionPeriod, Motion!sensorPeriod
  <2> QED
    BY <1>1, <1>4, <2>1 DEF Watched
<1> QED
  BY <1>2, <1>3, <1>4, <1>5, SampledStep

-----------------------------------------------------------------------------
(* The upload, and a reset.                                                *)

LEMMA UploadedWhole ==
  ASSUME Uploaded
  PROVE  /\ upload.loaded = Size => upload.written = 0..Size - 1
         /\ \A offset : /\ offset \in upload.written => Cardinality(upload.written \cup {offset}) = upload.loaded
                        /\ offset \notin upload.written => Cardinality(upload.written \cup {offset}) = upload.loaded + 1
<1>1. Size \in Nat \ {0} /\ upload.written \in SUBSET (0..Size - 1) /\ upload.loaded = Cardinality(upload.written)
  BY SensorFacts DEF Uploaded, Uploads
<1>2. 0 \in Int /\ Size - 1 \in Int /\ ~(0 > Size - 1) /\ (Size - 1) - 0 + 1 = Size
  BY <1>1
<1>3. IsFiniteSet(0..Size - 1) /\ Cardinality(0..Size - 1) = Size
  BY <1>2, FS_Interval
<1>4. IsFiniteSet(upload.written) /\ (Cardinality(0..Size - 1) = Cardinality(upload.written) => 0..Size - 1 = upload.written)
  BY <1>1, <1>3, FS_Subset
<1>5. \A offset : Cardinality(upload.written \cup {offset})
                   = IF offset \in upload.written THEN Cardinality(upload.written) ELSE Cardinality(upload.written) + 1
  BY <1>4, FS_AddElement
<1> QED
  BY <1>1, <1>3, <1>4, <1>5

LEMMA BeginUploadKeeps ==
  ASSUME MotionInv, Motion!BeginUpload
  PROVE  MotionInv'
<1> DEFINE d == [imu EXCEPT !.control = FALSE, !.status = 0, !.feature = FALSE, !.data = Motion!Off]
           e == Motion!configureMotion(Motion!sampleSensors(d))
<1>1. imu \in Imus /\ upload \in Uploads
  BY DEF MotionInv, Fits, Uploaded
<1>2. upload' = [upload EXCEPT !.written = {}, !.loaded = 0] /\ Motion!Becomes(e)
  BY DEF Motion!BeginUpload
<1>3. Motion!Off \in Flags /\ FALSE \in BOOLEAN /\ 0 \in 0..2
  BY DEF Motion!Off, Flags
<1>4. d \in Imus
  BY ONLY <1>1, <1>3, Zenon DEF Imus
<1>5. d.status = 0
  BY <1>1 DEF Imus
<1> HIDE DEF d
<1>6. Fits(e) /\ Settings(e) = Settings(d)
  BY <1>4, SampledAndConfigured
<1> HIDE DEF e
<1>7. e.status = 0
  BY <1>5, <1>6 DEF Settings
<1>8. imu' = e /\ irq' = Motion!Level(e)
  BY <1>2 DEF Motion!Becomes
<1>9. Uploaded'
  <2>1. upload' \in Uploads /\ upload'.loaded = 0 /\ upload'.written = {}
    BY <1>1, <1>2 DEF Uploads
  <2> QED
    BY <2>1, FS_EmptySet DEF Uploaded
<1>10. irq' \in BOOLEAN /\ irq' = Motion!Level(imu')
  BY <1>8 DEF Motion!Level
<1> QED
  BY <1>6, <1>7, <1>8, <1>9, <1>10 DEF MotionInv

LEMMA EndUploadKeeps ==
  ASSUME MotionInv, NEW defaults \in Features, Motion!EndUpload(defaults)
  PROVE  MotionInv'
<1> DEFINE complete == upload.loaded = Size
           status_ == IF complete THEN 1 ELSE 2
           features_ == IF complete THEN defaults ELSE imu.features
           d == [imu EXCEPT !.control = TRUE, !.status = status_, !.feature = FALSE, !.data = Motion!Off, !.features = features_]
           e == Motion!configureMotion(Motion!sampleSensors(d))
<1>1. imu \in Imus /\ Uploaded /\ Fields(imu)
  BY FieldsOf DEF MotionInv, Fits
<1>2. UNCHANGED upload /\ Motion!Becomes(e)
  BY DEF Motion!EndUpload
<1>3. /\ Motion!Off \in Flags /\ FALSE \in BOOLEAN /\ TRUE \in BOOLEAN /\ status_ \in 0..2
      /\ features_ \in [on : BOOLEAN, output : BOOLEAN, duration : Nat]
  BY <1>1, DevicesAssumption DEF Motion!SensorAssumption, Motion!Off, Flags, Fields
<1>4. status_ = 1 => upload.written = 0..Size - 1
  BY <1>1, UploadedWhole
<1> HIDE DEF status_, features_
<1>5. d \in Imus
  BY ONLY <1>1, <1>3, Zenon DEF Imus
<1>6. d.status = status_
  BY <1>1 DEF Imus
<1> HIDE DEF d
<1>7. Fits(e) /\ Settings(e) = Settings(d)
  BY <1>5, SampledAndConfigured
<1> HIDE DEF e
<1>8. e.status = status_
  BY <1>6, <1>7 DEF Settings
<1> QED
  BY <1>2, <1>4, <1>7, <1>8, UpdatedPin

LEMMA WriteConfigKeeps ==
  ASSUME MotionInv, Motion!WriteConfig \/ \E offset \in 0..Size - 1 : Motion!WriteOffset(offset)
  PROVE  MotionInv'
<1>1. Uploaded /\ upload \in Uploads /\ Size \in Nat \ {0}
  BY SensorFacts DEF MotionInv, Uploaded
<1>2. /\ upload.written \in SUBSET (0..Size - 1) /\ upload.loaded \in Nat /\ upload.offset \in 0..Size - 1
      /\ upload.loaded = Cardinality(upload.written)
  BY <1>1 DEF Uploaded, Uploads
<1>3. CASE Motion!WriteConfig
  <2> DEFINE written == IF imu.control THEN upload.written ELSE upload.written \cup {upload.offset}
             loaded == IF imu.control \/ upload.offset \in upload.written THEN upload.loaded ELSE upload.loaded + 1
             offset == (upload.offset + 1) % Size
  <2>1. upload' = [upload EXCEPT !.offset = offset, !.written = written, !.loaded = loaded] /\ UNCHANGED <<imu, irq>>
    BY <1>1, <1>3 DEF Motion!WriteConfig, Uploads
  <2>2. offset \in 0..Size - 1
    BY <1>1, <1>2
  <2>3. written \in SUBSET (0..Size - 1) /\ loaded \in Nat
    BY <1>2
  <2>4. loaded = Cardinality(written)
    <3>1. CASE imu.control
      BY <1>2, <3>1
    <3>2. CASE ~imu.control /\ upload.offset \in upload.written
      BY <1>1, <3>2, UploadedWhole
    <3>3. CASE ~imu.control /\ upload.offset \notin upload.written
      BY <1>1, <3>3, UploadedWhole
    <3> QED
      BY <3>1, <3>2, <3>3
  <2>5. imu.status = 1 => written = 0..Size - 1
    <3>1. imu.status = 1 => upload.written = 0..Size - 1
      BY DEF MotionInv
    <3> QED
      BY <1>2, <3>1
  <2> HIDE DEF written, loaded, offset
  <2>6. upload' \in Uploads
    BY ONLY <1>1, <2>1, <2>2, <2>3, Zenon DEF Uploads
  <2>7. upload'.written = written /\ upload'.loaded = loaded
    BY <1>1, <2>1 DEF Uploads
  <2>8. Uploaded'
    BY <2>4, <2>6, <2>7 DEF Uploaded
  <2> QED
    BY <2>1, <2>5, <2>7, <2>8 DEF MotionInv
<1>4. ASSUME NEW offset \in 0..Size - 1, Motion!WriteOffset(offset) PROVE MotionInv'
  <2>1. upload' = [upload EXCEPT !.offset = offset] /\ UNCHANGED <<imu, irq>>
    BY <1>4 DEF Motion!WriteOffset
  <2>2. upload' \in Uploads /\ upload'.written = upload.written /\ upload'.loaded = upload.loaded
    BY <1>1, <2>1 DEF Uploads
  <2>3. Uploaded'
    BY <1>2, <2>2 DEF Uploaded
  <2> QED
    BY <2>1, <2>2, <2>3 DEF MotionInv
<1> QED
  BY <1>3, <1>4

LEMMA FreshIs ==
  ASSUME NEW input \in {0, 1}
  PROVE  LET e == Motion!Fresh(input) IN Fits(e) /\ e.status = 0 /\ Motion!Level(e) = FALSE
<1> DEFINE rate == [s \in Motion!Both |-> CHOOSE r \in Rates : r # 0]
           next == [s \in Motion!Both |-> Motion!NoTime]
           pulse == [s \in Motion!Both |-> 0]
           d == [status |-> 0, control |-> FALSE, power |-> Motion!Off, rate |-> rate, performance |-> TRUE,
                 ready |-> Motion!Off, data |-> Motion!Off, next |-> next, pulse |-> pulse, sampleTimer |-> Motion!NoTime,
                 feature |-> FALSE, motion |-> FALSE, samples |-> 0, input |-> input, reference |-> input, motionTimer |-> Motion!NoTime,
                 features |-> Motion!NoFeature, pin |-> Motion!NoPin]
           e == Motion!Fresh(input)
<1>1. e = Motion!configureMotion(d)
  BY DEF Motion!Fresh
<1>2. /\ rate \in [Motion!Both -> Rates] /\ next \in [Motion!Both -> Times] /\ pulse \in [Motion!Both -> 0..Pulse]
      /\ \A s \in Motion!Both : next[s] = -1 /\ pulse[s] = 0 /\ ~Motion!Off[s]
      /\ Motion!Off \in Flags /\ Motion!NoTime \in Times /\ Motion!NoTime = -1
  <2>1. (CHOOSE r \in Rates : r # 0) \in Rates
    BY SensorFacts
  <2>2. 0 \in 0..Pulse
    BY SensorFacts
  <2> QED
    BY <2>1, <2>2 DEF Times, Motion!NoTime, Motion!Off, Flags
<1>3. /\ Motion!NoFeature \in [on : BOOLEAN, output : BOOLEAN, duration : Nat] /\ ~Motion!NoPin.enabled
      /\ Motion!NoPin \in [enabled : BOOLEAN, high : BOOLEAN, latched : BOOLEAN, feature : BOOLEAN, data : BOOLEAN]
  BY DEF Motion!NoFeature, Motion!NoPin
<1> HIDE DEF rate, next, pulse
<1>4. TRUE \in BOOLEAN /\ FALSE \in BOOLEAN /\ 0 \in 0..2 /\ 0 \in Nat
  OBVIOUS
<1>5. d \in Imus
  BY ONLY <1>2, <1>3, <1>4, input \in {0, 1}, Zenon DEF Imus
<1>6. /\ d.next = next /\ d.pulse = pulse /\ d.ready = Motion!Off /\ d.data = Motion!Off /\ d.sampleTimer = -1
      /\ d.status = 0 /\ d.pin = Motion!NoPin
  BY <1>2
<1> HIDE DEF d, e
<1>7. Motion!Events(d) = {}
  BY <1>2, <1>6 DEF Motion!Events, Motion!NoTime
<1>8. Timed(d) /\ AllIdle(d)
  BY <1>2, <1>6, <1>7 DEF Timed, AllIdle, Idle, Motion!Lower, Motion!NoTime
<1>9. Fits(e) /\ Settings(e) = Settings(d)
  BY <1>1, <1>5, <1>8, ConfiguredFits, ConfigureMotion DEF Configured
<1>10. e.status = 0 /\ e.pin = Motion!NoPin
  BY <1>6, <1>9 DEF Settings
<1>11. Motion!Level(e) = FALSE
  BY <1>3, <1>10 DEF Motion!Level
<1> QED
  BY <1>9, <1>10, <1>11 DEF e

LEMMA NothingUploaded ==
  Motion!NoUpload \in Uploads /\ Motion!NoUpload.loaded = Cardinality(Motion!NoUpload.written) /\ Motion!NoUpload.written = {}
<1>1. Motion!NoUpload \in Uploads /\ Motion!NoUpload.loaded = 0 /\ Motion!NoUpload.written = {}
  BY SensorFacts DEF Motion!NoUpload, Uploads
<1> QED
  BY <1>1, FS_EmptySet

LEMMA SoftResetKeeps ==
  ASSUME MotionInv, Motion!SoftReset
  PROVE  MotionInv'
<1> DEFINE e == Motion!Fresh(imu.input)
<1>1. Motion!Becomes(e) /\ upload' = Motion!NoUpload
  BY DEF Motion!SoftReset
<1>2. imu.input \in {0, 1}
  BY FieldsOf DEF MotionInv, Fits, Fields
<1>3. Fits(e) /\ e.status = 0
  BY <1>2, FreshIs
<1> HIDE DEF e
<1>4. imu' = e /\ irq' = Motion!Level(imu') /\ irq' \in BOOLEAN
  BY <1>1 DEF Motion!Becomes, Motion!Level
<1>5. Uploaded'
  BY <1>1, NothingUploaded DEF Uploaded
<1> QED
  BY <1>3, <1>4, <1>5 DEF MotionInv

LEMMA MotionInit ==
  ASSUME Motion!Init
  PROVE  MotionInv
<1>1. imu = Motion!Fresh(0) /\ upload = Motion!NoUpload /\ irq = FALSE
  BY DEF Motion!Init
<1>2. Fits(imu) /\ imu.status = 0 /\ Motion!Level(imu) = FALSE
  BY <1>1, FreshIs
<1>3. Uploaded
  BY <1>1, NothingUploaded DEF Uploaded
<1>4. irq = Motion!Level(imu) /\ irq \in BOOLEAN
  BY <1>1, <1>2
<1>5. ~(imu.status = 1)
  BY <1>2
<1> QED
  BY <1>2, <1>3, <1>4, <1>5 DEF MotionInv

LEMMA MotionStep ==
  ASSUME MotionInv, [Motion!Next]_Motion!vars
  PROVE  MotionInv'
<1>1. CASE UNCHANGED Motion!vars
  BY <1>1 DEF Motion!vars, MotionInv, Uploaded
<1>2. CASE Motion!Next
  BY <1>2, TickKeeps, DetectKeeps, ClearKeeps, QuietKeeps, SampleKeeps, WriteRateKeeps, WritePowerKeeps, BeginUploadKeeps,
     EndUploadKeeps, WriteConfigKeeps, SoftResetKeeps DEF Motion!Next
<1> QED
  BY <1>1, <1>2

LEMMA MotionSafe ==
  ASSUME MotionInv
  PROVE  MotionSafety
<1>1. imu \in Imus /\ Timed(imu) /\ AllIdle(imu) /\ Watched(imu) /\ upload \in Uploads /\ Fields(imu)
  BY FieldsOf DEF MotionInv, Fits, Uploaded
<1>2. Motion!TypeOK
  BY <1>1 DEF MotionInv, Motion!TypeOK, Imus, Uploads, Times, Motion!NoTime
<1>3. Motion!TimerAtNextEvent
  BY <1>1 DEF Motion!TimerAtNextEvent, Timed, Motion!Events
<1>4. Motion!NoBusyTimer /\ Motion!NoStaleReady
  BY <1>1 DEF Motion!NoBusyTimer, Motion!NoStaleReady, Watched, AllIdle, Idle, Motion!NoTime
<1>5. Motion!PinCurrent /\ Motion!UploadWhole
  BY DEF MotionInv, Motion!PinCurrent, Motion!UploadWhole
<1> QED
  BY <1>2, <1>3, <1>4, <1>5 DEF MotionSafety, Motion!MotionSafety

(* MotionSensor's timers stand at the next sample, the end of a pulse or the  *)
(* next look at the motion, its pin shows the conditions of the moment, and   *)
(* no sensor that is off has anything ready, in every interleaving of the two *)
(* timers with the guest's register writes.                                   *)
THEOREM MotionCorrect == Motion!Spec => []MotionSafety
<1>1. Motion!Init => MotionInv
  BY MotionInit
<1>2. MotionInv /\ [Motion!Next]_Motion!vars => MotionInv'
  BY MotionStep
<1>3. MotionInv => MotionSafety
  BY MotionSafe
<1> QED
  BY <1>1, <1>2, <1>3, PTL DEF Motion!Spec

-----------------------------------------------------------------------------
(* The cadence of the samples.                                             *)

InCadence(d, e) ==
  \A s \in Motion!Both :
    (d.next[s] > 0 /\ Motion!sensorPeriod(d, s) > 0 /\ Motion!sensorPeriod(e, s) = Motion!sensorPeriod(d, s))
    => e.next[s] \in {d.next[s], d.next[s] - 1}

LEMMA SampledSteady ==
  ASSUME NEW c \in Imus, NEW d \in Imus,
         \A s \in Motion!Both : (c.next[s] > 0 /\ Motion!sensorPeriod(c, s) > 0 /\ Motion!sensorPeriod(d, s) = Motion!sensorPeriod(c, s))
                                => d.next[s] = c.next[s]
  PROVE  InCadence(c, Motion!sampleSensors(d)) /\ InCadence(c, Motion!configureMotion(Motion!sampleSensors(d)))
<1> DEFINE r == Motion!sampleSensors(d)
           e == Motion!configureMotion(r)
<1>1. Sampled(d, r)
  BY SampleAll
<1>2. r \in Imus
  BY <1>1 DEF Sampled
<1>3. Configured(r, e)
  BY <1>2, ConfigureMotion
<1> HIDE DEF r, e
<1>4. \A s : Motion!sensorPeriod(r, s) = Motion!sensorPeriod(d, s)
  BY <1>1, PeriodsKept DEF Sampled
<1>5. \A s : Motion!sensorPeriod(e, s) = Motion!sensorPeriod(r, s)
  BY <1>3, PeriodsKept DEF Configured
<1>6. e.next = r.next
  BY <1>3 DEF Configured, Samples
<1>7. \A s \in Motion!Both : d.next[s] > 0 /\ Motion!sensorPeriod(d, s) > 0 => r.next[s] = d.next[s]
  BY <1>1 DEF Sampled
<1>8. InCadence(c, r)
  BY <1>4, <1>7 DEF InCadence
<1>9. InCadence(c, e)
  BY <1>5, <1>6, <1>8 DEF InCadence
<1> QED
  BY <1>8, <1>9 DEF r, e

LEMMA SameSteady ==
  ASSUME NEW d, NEW e, e.next = d.next
  PROVE  InCadence(d, e)
  BY DEF InCadence

LEMMA StepSteady ==
  ASSUME MotionInv, \A r, q \in Rates : Period[r] = Period[q] => r = q, Motion!Next
  PROVE  InCadence(imu, imu')
<1>1. imu \in Imus /\ Fields(imu)
  BY FieldsOf DEF MotionInv, Fits
<1>2. CASE Motion!Tick
  <2>1. imu' = Later(imu)
    BY <1>2 DEF Motion!Tick, Later
  <2>2. \A s \in Motion!Both : imu'.next[s] = Motion!Earlier(imu.next[s])
    BY <1>1, <2>1, LaterIs
  <2> QED
    BY <2>2 DEF InCadence, Motion!Earlier
<1>3. CASE Motion!SampleTimer \/ \E s \in Sensors : Motion!WriteRange(s)
  <2>1. imu' = Motion!sampleSensors(imu) \/ imu' = Motion!configureMotion(Motion!sampleSensors(imu))
    BY <1>3 DEF Motion!SampleTimer, Motion!WriteRange, Motion!Becomes
  <2>2. InCadence(imu, Motion!sampleSensors(imu)) /\ InCadence(imu, Motion!configureMotion(Motion!sampleSensors(imu)))
    BY <1>1, SampledSteady
  <2> QED
    BY <2>1, <2>2
<1>4. CASE Motion!MotionTimer
  <2> DEFINE e == Motion!Detect(imu)
  <2>1. imu' = e
    BY <1>4 DEF Motion!MotionTimer, Motion!Becomes
  <2>2. e.next = imu.next
    BY <1>1 DEF Motion!Detect, Imus
  <2> QED
    BY <2>1, <2>2, SameSteady
<1>5. CASE \/ Motion!ReadFeatureStatus \/ Motion!ReadDataStatus \/ (\E p \in InterruptPins : Motion!WritePin(p))
           \/ (\E level \in {0, 1} : Motion!SetMotion(level)) \/ (\E s \in Sensors : Motion!ReadData(s))
           \/ Motion!WriteConfig \/ (\E offset \in 0..Size - 1 : Motion!WriteOffset(offset))
  <2>1. imu'.next = imu.next
    BY <1>1, <1>5 DEF Motion!ReadFeatureStatus, Motion!ReadDataStatus, Motion!WritePin, Motion!SetMotion, Motion!ReadData,
       Motion!WriteConfig, Motion!WriteOffset, Motion!Becomes, Imus
  <2> QED
    BY <2>1, SameSteady
<1>6. CASE Motion!WritePerformance
  <2> DEFINE d == [imu EXCEPT !.performance = ~imu.performance]
  <2>1. imu' = Motion!configureMotion(Motion!sampleSensors(d))
    BY <1>6 DEF Motion!WritePerformance, Motion!Becomes
  <2>2. (~imu.performance) \in BOOLEAN
    OBVIOUS
  <2>3. d \in Imus
    BY ONLY <1>1, <2>2, Zenon DEF Imus
  <2>4. d.next = imu.next
    BY <1>1 DEF Imus
  <2> HIDE DEF d
  <2> QED
    BY <1>1, <2>1, <2>3, <2>4, SampledSteady
<1>7. ASSUME NEW f \in Features, Motion!WriteFeatures(f) PROVE InCadence(imu, imu')
  <2> DEFINE d == [imu EXCEPT !.features = f]
             e == Motion!configureMotion(d)
  <2>1. imu' = e
    BY <1>7 DEF Motion!WriteFeatures, Motion!Becomes
  <2>2. f \in [on : BOOLEAN, output : BOOLEAN, duration : Nat]
    BY DevicesAssumption DEF Motion!SensorAssumption
  <2>3. d \in Imus
    BY ONLY <1>1, <2>2, Zenon DEF Imus
  <2>4. d.next = imu.next
    BY <1>1 DEF Imus
  <2> HIDE DEF d
  <2>5. Configured(d, e)
    BY <2>3, ConfigureMotion
  <2> HIDE DEF e
  <2>6. e.next = d.next
    BY <2>5 DEF Configured, Samples
  <2> QED
    BY <2>1, <2>4, <2>6, SameSteady
<1>8. CASE Motion!SoftReset
  <2> DEFINE e == Motion!Fresh(imu.input)
  <2>1. imu' = e
    BY <1>8 DEF Motion!SoftReset, Motion!Becomes
  <2>2. imu.input \in {0, 1}
    BY <1>1 DEF Fields
  <2>3. e.status = 0
    BY <2>2, FreshIs
  <2> HIDE DEF e
  <2>4. \A s : Motion!sensorPeriod(e, s) = 0
    BY <2>3 DEF Motion!sensorPeriod
  <2> QED
    BY <2>1, <2>4 DEF InCadence
<1>9. CASE Motion!BeginUpload \/ \E f \in Features : Motion!EndUpload(f)
  <2>1. \E d \in Imus : d.next = imu.next /\ imu' = Motion!configureMotion(Motion!sampleSensors(d))
    <3>1. Motion!Off \in Flags /\ FALSE \in BOOLEAN /\ TRUE \in BOOLEAN /\ 0 \in 0..2
      BY DEF Motion!Off, Flags
    <3>2. CASE Motion!BeginUpload
      <4> DEFINE d == [imu EXCEPT !.control = FALSE, !.status = 0, !.feature = FALSE, !.data = Motion!Off]
      <4>1. imu' = Motion!configureMotion(Motion!sampleSensors(d))
        BY <3>2 DEF Motion!BeginUpload, Motion!Becomes
      <4>2. d \in Imus
        BY ONLY <1>1, <3>1, Zenon DEF Imus
      <4>3. d.next = imu.next
        BY <1>1 DEF Imus
      <4> HIDE DEF d
      <4> QED
        BY <4>1, <4>2, <4>3
    <3>3. ASSUME NEW f \in Features, Motion!EndUpload(f)
          PROVE  \E d \in Imus : d.next = imu.next /\ imu' = Motion!configureMotion(Motion!sampleSensors(d))
      <4> DEFINE complete == upload.loaded = Size
                 status_ == IF complete THEN 1 ELSE 2
                 features_ == IF complete THEN f ELSE imu.features
                 d == [imu EXCEPT !.control = TRUE, !.status = status_, !.feature = FALSE, !.data = Motion!Off, !.features = features_]
      <4>1. imu' = Motion!configureMotion(Motion!sampleSensors(d))
        BY <3>3 DEF Motion!EndUpload, Motion!Becomes
      <4>2. status_ \in 0..2 /\ features_ \in [on : BOOLEAN, output : BOOLEAN, duration : Nat]
        BY <1>1, DevicesAssumption DEF Motion!SensorAssumption, Fields
      <4> HIDE DEF status_, features_
      <4>3. d \in Imus
        BY ONLY <1>1, <3>1, <4>2, Zenon DEF Imus
      <4>4. d.next = imu.next
        BY <1>1 DEF Imus
      <4> HIDE DEF d
      <4> QED
        BY <4>1, <4>3, <4>4
    <3> QED
      BY <1>9, <3>2, <3>3
  <2>2. PICK d \in Imus : d.next = imu.next /\ imu' = Motion!configureMotion(Motion!sampleSensors(d))
    BY <2>1
  <2> QED
    BY <1>1, <2>2, SampledSteady
<1>10. ASSUME NEW s \in Sensors, NEW rate \in Rates, Motion!WriteRate(s, rate) PROVE InCadence(imu, imu')
  <2> DEFINE fr == [imu.rate EXCEPT ![s] = rate]
             fn == [imu.next EXCEPT ![s] = Motion!NoTime]
             d == [imu EXCEPT !.rate = fr, !.next = fn]
  <2>1. d = [imu EXCEPT !.rate[s] = rate, !.next[s] = Motion!NoTime]
    BY <1>1 DEF Imus
  <2>2. rate # imu.rate[s] /\ (imu' = Motion!configureMotion(Motion!sampleSensors(d)) \/ imu' = Motion!sampleSensors(d))
    BY <1>10, <2>1 DEF Motion!WriteRate, Motion!Becomes
  <2>3. /\ fr \in [Motion!Both -> Rates] /\ fn \in [Motion!Both -> Times] /\ s \in Motion!Both
        /\ fr[s] = rate /\ imu.rate[s] \in Rates /\ \A t \in Motion!Both \ {s} : fn[t] = imu.next[t]
    BY <1>1, SensorFacts DEF Fields, Times, Motion!NoTime
  <2> HIDE DEF fr, fn
  <2>4. d \in Imus
    BY ONLY <1>1, <2>3, Zenon DEF Imus
  <2>5. d.status = imu.status /\ d.power = imu.power /\ d.rate = fr /\ d.next = fn
    BY <1>1 DEF Imus
  <2> HIDE DEF d
  <2>6. Period[rate] # Period[imu.rate[s]]
    BY <2>2, <2>3
  <2>7. Motion!sensorPeriod(imu, s) > 0 => Motion!sensorPeriod(d, s) # Motion!sensorPeriod(imu, s)
    BY <2>3, <2>5, <2>6 DEF Motion!sensorPeriod
  <2>8. \A t \in Motion!Both : (imu.next[t] > 0 /\ Motion!sensorPeriod(imu, t) > 0 /\ Motion!sensorPeriod(d, t) = Motion!sensorPeriod(imu, t))
                                => d.next[t] = imu.next[t]
    BY <2>3, <2>5, <2>7
  <2> QED
    BY <1>1, <2>2, <2>4, <2>8, SampledSteady
<1>11. ASSUME NEW power \in [Motion!Both -> BOOLEAN], Motion!WritePower(power) PROVE InCadence(imu, imu')
  <2> DEFINE d == [imu EXCEPT !.power = power]
  <2>1. imu' = Motion!configureMotion(Motion!sampleSensors(d)) \/ imu' = Motion!sampleSensors(d)
    BY <1>11 DEF Motion!WritePower, Motion!Becomes
  <2>2. power \in Flags
    BY DEF Flags
  <2>3. d \in Imus
    BY ONLY <1>1, <2>2, Zenon DEF Imus
  <2>4. d.next = imu.next
    BY <1>1 DEF Imus
  <2> HIDE DEF d
  <2> QED
    BY <1>1, <2>1, <2>3, <2>4, SampledSteady
<1> QED
  BY <1>2, <1>3, <1>4, <1>5, <1>6, <1>7, <1>8, <1>9, <1>10, <1>11 DEF Motion!Next

(* A step never shifts the samples of a sensor whose rate and power it leaves *)
(* alone, if no two of the rates are the same: sampleSensors at any moment,   *)
(* for whichever register, only fills in what has no next sample.             *)
THEOREM CadenceCorrect ==
  ASSUME \A r, q \in Rates : Period[r] = Period[q] => r = q
  PROVE  Motion!Spec => Motion!CadenceKept
<1>1. Motion!Init => MotionInv
  BY MotionInit
<1>2. MotionInv /\ [Motion!Next]_Motion!vars => MotionInv'
  BY MotionStep
<1>3. MotionInv /\ [Motion!Next]_Motion!vars
      => [\A s \in Motion!Both :
            (imu.next[s] > 0 /\ Motion!sensorPeriod(imu, s) > 0 /\ Motion!sensorPeriod(imu', s) = Motion!sensorPeriod(imu, s))
            => imu'.next[s] \in {imu.next[s], imu.next[s] - 1}]_Motion!vars
  BY StepSteady DEF InCadence
<1> QED
  BY <1>1, <1>2, <1>3, PTL DEF Motion!Spec, Motion!CadenceKept

-----------------------------------------------------------------------------
(* The clock: the calendar, its week and the phase of its second, and then  *)
(* the search for the next match of the alarm.                              *)
Weekdays == SUBSET (0..DaysPerWeek - 1)
ShownType == [second : Int, minute : Int, hour : Int, week : Weekdays, day : Int, month : Int]
ClockType(timers) ==
  [base : Int, elapsed : Int, stop : BOOLEAN, week : Weekdays, shown : ShownType, dirty : BOOLEAN, secondsWritten : BOOLEAN,
   alarm : Alarms, flag : BOOLEAN, low : BOOLEAN, enable : BOOLEAN, timer : timers, irq : BOOLEAN, transfer : BOOLEAN]
Typed(r) == r \in ClockType({r.timer})

Phase(r) == Clock!calendarTime(r) % TicksPerSecond
WeekNow(r) == Clock!weekAt(r, Clock!calendarTime(r))

ClockInv == Typed(rtc) /\ weekday \in Weekdays /\ WeekNow(rtc) = weekday

\* What a handler makes of the calendar: it goes on, or is what was written.
Continues(r, y) ==
  /\ ~r.secondsWritten => ~y.secondsWritten /\ Phase(y) = Phase(r)
  /\ y.dirty => r.dirty /\ y.shown = r.shown
  /\ IF r.dirty /\ ~y.dirty /\ Clock!Valid(r.shown) THEN WeekNow(y) = y.week ELSE WeekNow(y) = WeekNow(r)
  /\ ~r.dirty /\ WeekNow(r) = r.week => y.week = r.week

SameCalendar(r, y) ==
  y.base = r.base /\ y.elapsed = r.elapsed /\ y.stop = r.stop /\ y.week = r.week /\ y.dirty = r.dirty /\ y.secondsWritten = r.secondsWritten

LEMMA ClockUnits ==
  /\ {TicksPerSecond, SecondsPerMinute, MinutesPerHour, HoursPerDay, DaysPerMonth, DaysPerWeek} \subseteq Nat \ {0}
  /\ Clock!Minute \in Nat \ {0} /\ Clock!MinutesPerDay \in Nat \ {0} /\ Clock!Day \in Nat \ {0}
<1>1. {TicksPerSecond, SecondsPerMinute, MinutesPerHour, HoursPerDay, DaysPerMonth, DaysPerWeek} \subseteq Nat \ {0}
  BY TimeAssumption DEF Clock!ClockAssumption
<1>2. ASSUME NEW m \in Nat \ {0}, NEW n \in Nat \ {0} PROVE m * n \in Nat \ {0}
  OBVIOUS
<1>3. Clock!Minute \in Nat \ {0} /\ Clock!MinutesPerDay \in Nat \ {0}
  BY <1>1, <1>2 DEF Clock!Minute, Clock!MinutesPerDay
<1>4. Clock!Day \in Nat \ {0}
  BY <1>2, <1>3 DEF Clock!Day
<1> QED
  BY <1>1, <1>3, <1>4

LEMMA Parts == ASSUME NEW n \in Nat \ {0}, NEW a \in Int PROVE a % n \in 0..n - 1 /\ a \div n \in Int /\ a = n * (a \div n) + (a % n)
  OBVIOUS

\* A remainder is the only one.
LEMMA OneRemainder ==
  ASSUME NEW n \in Nat \ {0}, NEW a \in Int, NEW b \in Int, NEW r \in 0..n - 1, NEW s \in 0..n - 1, n * a + r = n * b + s
  PROVE  r = s
<1>1. CASE a = b
  BY <1>1
<1>2. CASE a < b
  <2>1. n * (b - a) >= n
    BY <1>2
  <2>2. n * (b - a) = n * b - n * a
    OBVIOUS
  <2> QED
    BY <2>1, <2>2
<1>3. CASE a > b
  <2>1. n * (a - b) >= n
    BY <1>3
  <2>2. n * (a - b) = n * a - n * b
    OBVIOUS
  <2> QED
    BY <2>1, <2>2
<1> QED
  BY <1>1, <1>2, <1>3

LEMMA MultipleAdded == ASSUME NEW n \in Nat \ {0}, NEW k \in Int, NEW a \in Int PROVE (n * k + a) % n = a % n
<1> DEFINE p == a \div n
           s == n * k + a
           q == s \div n
           u == a % n
           v == s % n
           kp == k + p
<1>1. u \in 0..n - 1 /\ p \in Int /\ a = n * p + u
  BY Parts
<1>2. s \in Int
  OBVIOUS
<1>3. v \in 0..n - 1 /\ q \in Int /\ s = n * q + v
  BY ONLY <1>2, n \in Nat \ {0}, Parts
<1>4. s = n * k + a
  OBVIOUS
<1> HIDE DEF u, v, q, s, p
<1>5. kp \in Int /\ n * kp = n * k + n * p
  BY <1>1
<1> HIDE DEF kp
<1>6. n * kp + u = n * q + v
  <2> DEFINE x == n * k
             y == n * p
             z == n * q
             w == n * kp
  <2>1. x \in Int /\ y \in Int /\ z \in Int /\ w \in Int /\ w = x + y /\ a = y + u /\ s = x + a /\ s = z + v /\ u \in Int /\ v \in Int
    BY <1>1, <1>3, <1>4, <1>5
  <2> HIDE DEF x, y, z, w
  <2>2. w + u = z + v
    BY <2>1
  <2> QED
    BY <2>2 DEF w, z
<1>7. u = v
  BY ONLY <1>1, <1>3, <1>5, <1>6, n \in Nat \ {0}, OneRemainder
<1> QED
  BY <1>7 DEF u, v, s

LEMMA RemainderAdded == ASSUME NEW n \in Nat \ {0}, NEW a \in Int, NEW b \in Int PROVE ((a % n) + b) % n = (a + b) % n
<1> DEFINE p == a \div n
<1>1. a % n \in Int /\ p \in Int /\ a = n * p + (a % n)
  BY Parts
<1>2. a + b = n * p + ((a % n) + b) /\ (a % n) + b \in Int
  BY <1>1
<1>3. (n * p + ((a % n) + b)) % n = ((a % n) + b) % n
  BY ONLY <1>1, <1>2, n \in Nat \ {0}, MultipleAdded
<1> QED
  BY <1>2, <1>3

LEMMA SmallRemainder == ASSUME NEW n \in Nat \ {0}, NEW a \in 0..n - 1 PROVE a % n = a
<1>1. a \in Int /\ a % n \in 0..n - 1 /\ a \div n \in Int /\ a = n * (a \div n) + (a % n)
  BY Parts
<1>2. n * 0 + a = n * (a \div n) + (a % n)
  BY <1>1
<1> QED
  BY ONLY <1>1, <1>2, 0 \in Int, n \in Nat \ {0}, a \in 0..n - 1, OneRemainder

\* Midnights turn the days of WEEK one by one.
LEMMA Turned ==
  ASSUME NEW w \in Weekdays, NEW a \in Int, NEW b \in Int
  PROVE  /\ Clock!Rotated(w, a) \in Weekdays /\ Clock!Rotated(w, 0) = w
         /\ Clock!Rotated(Clock!Rotated(w, a), b) = Clock!Rotated(w, a + b)
<1> DEFINE n == DaysPerWeek
<1>1. n \in Nat \ {0} /\ \A d \in w : d \in 0..n - 1 /\ d \in Int
  BY ClockUnits DEF Weekdays
<1> HIDE DEF n
<1>2. ASSUME NEW d \in w, NEW k \in Int PROVE (d + k) % n \in 0..n - 1
  <2>1. d + k \in Int
    BY <1>1
  <2> QED
    BY ONLY <1>1, <2>1, Parts
<1>3. Clock!Rotated(w, a) \in Weekdays
  BY <1>2 DEF Clock!Rotated, Weekdays, n
<1>4. ASSUME NEW d \in w PROVE (d + 0) % n = d
  <2>1. d + 0 = d /\ d \in 0..n - 1
    BY <1>1
  <2>2. d % n = d
    BY ONLY <1>1, <2>1, SmallRemainder
  <2> QED
    BY <2>1, <2>2
<1>5. Clock!Rotated(w, 0) = w
  BY <1>4 DEF Clock!Rotated, n
<1>6. ASSUME NEW d \in w PROVE (((d + a) % n) + b) % n = (d + (a + b)) % n
  <2>1. d + a \in Int /\ (d + a) + b = d + (a + b)
    BY <1>1
  <2>2. (((d + a) % n) + b) % n = ((d + a) + b) % n
    BY ONLY <1>1, <2>1, b \in Int, RemainderAdded
  <2> QED
    BY <2>1, <2>2
<1>7. Clock!Rotated(Clock!Rotated(w, a), b) = Clock!Rotated(w, a + b)
  <2>1. Clock!Rotated(Clock!Rotated(w, a), b) = {(e + b) % n : e \in {(d + a) % n : d \in w}}
    BY DEF Clock!Rotated, n
  <2>2. Clock!Rotated(w, a + b) = {(d + (a + b)) % n : d \in w}
    BY DEF Clock!Rotated, n
  <2> QED
    BY <1>6, <2>1, <2>2
<1> QED
  BY <1>3, <1>5, <1>7

LEMMA TimeTyped ==
  ASSUME NEW r, Typed(r)
  PROVE  /\ Clock!calendarTime(r) \in Int /\ r.week \in Weekdays /\ r.base \in Int
         /\ Clock!calendarTime(r) \div Clock!Day - r.base \div Clock!Day \in Int /\ WeekNow(r) \in Weekdays
<1>1. r.base \in Int /\ r.elapsed \in Int /\ r.week \in Weekdays
  BY DEF Typed, ClockType
<1>2. Clock!calendarTime(r) \in Int
  BY <1>1 DEF Clock!calendarTime
<1>3. Clock!calendarTime(r) \div Clock!Day \in Int /\ r.base \div Clock!Day \in Int
  BY <1>1, <1>2, ClockUnits, Parts
<1>4. Clock!calendarTime(r) \div Clock!Day - r.base \div Clock!Day \in Int
  BY <1>3
<1>5. WeekNow(r) \in Weekdays
  BY <1>1, <1>4, Turned DEF WeekNow, Clock!weekAt
<1> QED
  BY <1>1, <1>2, <1>4, <1>5

LEMMA SameGoesOn ==
  ASSUME NEW r, NEW y, SameCalendar(r, y), y.dirty => y.shown = r.shown
  PROVE  Continues(r, y) /\ Clock!calendarTime(y) = Clock!calendarTime(r) /\ WeekNow(y) = WeekNow(r)
<1>1. Clock!calendarTime(y) = Clock!calendarTime(r)
  BY DEF SameCalendar, Clock!calendarTime
<1>2. WeekNow(y) = WeekNow(r) /\ Phase(y) = Phase(r)
  BY <1>1 DEF SameCalendar, WeekNow, Clock!weekAt, Phase
<1> QED
  BY <1>1, <1>2 DEF Continues, SameCalendar

LEMMA GoesOn ==
  ASSUME NEW r, NEW m, NEW y, Continues(r, m), Continues(m, y), r.secondsWritten \in BOOLEAN
  PROVE  Continues(r, y)
<1>1. ~r.secondsWritten => ~y.secondsWritten /\ Phase(y) = Phase(r)
  BY DEF Continues
<1>2. y.dirty => r.dirty /\ y.shown = r.shown
  BY DEF Continues
<1>3. CASE r.dirty /\ ~m.dirty
  <2>1. ~y.dirty /\ WeekNow(y) = WeekNow(m) /\ (WeekNow(m) = m.week => y.week = m.week)
    BY <1>3 DEF Continues
  <2> QED
    BY <1>1, <1>3, <2>1 DEF Continues
<1>4. CASE r.dirty /\ m.dirty
  BY <1>1, <1>4 DEF Continues
<1>5. CASE ~r.dirty
  <2>1. ~m.dirty /\ ~y.dirty /\ WeekNow(m) = WeekNow(r) /\ WeekNow(y) = WeekNow(m)
    BY <1>5 DEF Continues
  <2>2. WeekNow(r) = r.week => y.week = r.week
    BY <1>5, <2>1 DEF Continues
  <2> QED
    BY <1>1, <1>5, <2>1, <2>2 DEF Continues
<1> QED
  BY <1>3, <1>4, <1>5

\* updateAlarm leaves all but the timer and the line alone.
LEMMA AlarmUpdated ==
  ASSUME NEW r, Typed(r)
  PROVE  LET y == Clock!updateAlarm(r) IN Typed(y) /\ SameCalendar(r, y) /\ y.shown = r.shown
<1> DEFINE line == r.flag /\ r.enable
           time == IF r.stop \/ r.flag \/ Clock!Unmatchable(r) THEN Clock!NoTimer ELSE Clock!NextMatch(r) * Clock!Minute - Clock!calendarTime(r)
           y == Clock!updateAlarm(r)
<1>1. r \in ClockType({r.timer}) /\ line \in BOOLEAN
  BY DEF Typed, ClockType
<1>2. y = [r EXCEPT !.irq = line, !.timer = time]
  BY DEF Clock!updateAlarm
<1> HIDE DEF line, time, y
<1>3. y.timer = time /\ SameCalendar(r, y) /\ y.shown = r.shown
  BY <1>1, <1>2 DEF ClockType, SameCalendar
<1>4. y \in ClockType({time})
  BY <1>1, <1>2 DEF ClockType
<1> QED
  BY <1>3, <1>4 DEF Typed, y

LEMMA FieldsTyped == ASSUME NEW t \in Int, NEW week \in Weekdays PROVE Clock!Fields(t, week) \in ShownType
<1> DEFINE hour == Clock!Minute * MinutesPerHour
           month == Clock!Day * DaysPerMonth
<1>1. ASSUME NEW m \in Nat \ {0}, NEW n \in Nat \ {0} PROVE (t \div m) \in Int /\ (t \div m) % n \in Int /\ m * n \in Nat \ {0}
  <2>1. t \div m \in Int /\ m * n \in Nat \ {0}
    OBVIOUS
  <2>2. (t \div m) % n \in 0..n - 1
    BY ONLY <2>1, n \in Nat \ {0}, Parts
  <2> QED
    BY <2>1, <2>2
<1>2. hour \in Nat \ {0} /\ month \in Nat \ {0}
  BY <1>1, ClockUnits
<1> HIDE DEF hour, month
<1>3. (t \div TicksPerSecond) % SecondsPerMinute \in Int /\ (t \div Clock!Minute) % MinutesPerHour \in Int
  BY <1>1, ClockUnits
<1>4. (t \div hour) % HoursPerDay \in Int /\ (t \div Clock!Day) % DaysPerMonth \in Int /\ t \div month \in Int
  BY <1>1, <1>2, ClockUnits
<1> DEFINE ofMinute == (t \div TicksPerSecond) % SecondsPerMinute
           ofHour == (t \div Clock!Minute) % MinutesPerHour
           ofDay == (t \div hour) % HoursPerDay
           ofMonth == ((t \div Clock!Day) % DaysPerMonth) + 1
           months == t \div month
<1>5. ofMinute \in Int /\ ofHour \in Int /\ ofDay \in Int /\ ofMonth \in Int /\ months \in Int
  BY <1>3, <1>4
<1>6. Clock!Fields(t, week) = [second |-> ofMinute, minute |-> ofHour, hour |-> ofDay, week |-> week, day |-> ofMonth, month |-> months]
  BY DEF Clock!Fields, hour, month
<1> HIDE DEF ofMinute, ofHour, ofDay, ofMonth, months
<1> QED
  BY <1>5, <1>6 DEF ShownType

LEMMA SnapshotTaken ==
  ASSUME NEW r, Typed(r)
  PROVE  LET y == Clock!snapshot(r) IN Typed(y) /\ SameCalendar(r, y) /\ (y.dirty => y.shown = r.shown)
<1> DEFINE fields == Clock!Fields(Clock!calendarTime(r), Clock!weekAt(r, Clock!calendarTime(r)))
           y == Clock!snapshot(r)
<1>1. r \in ClockType({r.timer})
  BY DEF Typed
<1>2. fields \in ShownType
  BY TimeTyped, FieldsTyped DEF WeekNow
<1> HIDE DEF fields
<1>3. CASE r.dirty \/ r.stop
  <2>1. y = r
    BY <1>3 DEF Clock!snapshot
  <2> QED
    BY <2>1 DEF SameCalendar
<1>4. CASE ~(r.dirty \/ r.stop)
  <2>1. y = [r EXCEPT !.shown = fields]
    BY <1>4 DEF Clock!snapshot, fields
  <2> HIDE DEF y
  <2>2. y.timer = r.timer /\ SameCalendar(r, y)
    BY <1>1, <2>1 DEF ClockType, SameCalendar
  <2>3. y \in ClockType({r.timer})
    BY <1>1, <1>2, <2>1 DEF ClockType
  <2> QED
    BY <1>4, <2>2, <2>3 DEF Typed, SameCalendar, y
<1> QED
  BY <1>3, <1>4

\* A calendar that is set has whole seconds.
LEMMA WholeSeconds ==
  ASSUME NEW f \in ShownType, NEW a \in Int
  PROVE  Clock!Time(f) + a \in Int /\ (Clock!Time(f) + a) % TicksPerSecond = a % TicksPerSecond
<1> DEFINE n == TicksPerSecond
           days == DaysPerMonth * f.month + f.day - 1
           minutes == MinutesPerHour * f.hour + f.minute
           k == SecondsPerMinute * (Clock!MinutesPerDay * days) + SecondsPerMinute * minutes + f.second
<1>1. /\ f.second \in Int /\ f.minute \in Int /\ f.hour \in Int /\ f.day \in Int /\ f.month \in Int
      /\ n \in Nat \ {0} /\ SecondsPerMinute \in Int /\ MinutesPerHour \in Int /\ DaysPerMonth \in Int /\ Clock!MinutesPerDay \in Int
  BY ClockUnits DEF ShownType
<1>2. days \in Int /\ minutes \in Int
  BY <1>1
<1>3. Clock!Time(f) = (n * SecondsPerMinute * Clock!MinutesPerDay) * days + (n * SecondsPerMinute) * minutes + n * f.second
  BY DEF Clock!Time, Clock!Day, Clock!Minute
<1> HIDE DEF days, minutes, n
<1>4. k \in Int
  BY <1>1, <1>2
<1>5. Clock!Time(f) = n * k
  <2> DEFINE x == Clock!MinutesPerDay * days
             y == SecondsPerMinute * x
             z == SecondsPerMinute * minutes
  <2>1. x \in Int /\ y \in Int /\ z \in Int
    BY <1>1, <1>2
  <2>2. (n * SecondsPerMinute * Clock!MinutesPerDay) * days = n * y
    BY <1>1, <1>2
  <2>3. (n * SecondsPerMinute) * minutes = n * z
    BY <1>1, <1>2
  <2>4. n * (y + z + f.second) = n * y + n * z + n * f.second
    <3> HIDE DEF x, y, z
    <3> QED
      BY <1>1, <2>1
  <2> QED
    BY <1>3, <2>2, <2>3, <2>4
<1> HIDE DEF k
<1>6. (n * k + a) % n = a % n
  BY ONLY <1>1, <1>4, a \in Int, MultipleAdded
<1> QED
  BY <1>1, <1>4, <1>5, <1>6 DEF n

\* What was written becomes the calendar, keeping the phase unless the seconds were written.
LEMMA CommitTaken ==
  ASSUME NEW r, Typed(r)
  PROVE  LET y == Clock!commit(r)
         IN /\ Typed(y) /\ Continues(r, y) /\ y.stop = r.stop /\ (~r.dirty \/ r.stop => y = r) /\ (~r.stop => ~y.dirty)
<1> DEFINE clean == [r EXCEPT !.dirty = FALSE, !.secondsWritten = FALSE]
           fraction == IF r.secondsWritten THEN 0 ELSE Clock!calendarTime(r) % TicksPerSecond
           time == Clock!Time(r.shown) + fraction
           set == [clean EXCEPT !.base = time, !.elapsed = 0, !.week = r.shown.week]
           y == Clock!commit(r)
<1>1. r \in ClockType({r.timer}) /\ r.shown \in ShownType /\ r.dirty \in BOOLEAN /\ r.stop \in BOOLEAN /\ r.secondsWritten \in BOOLEAN
  BY DEF Typed, ClockType
<1>2. Clock!calendarTime(r) \in Int /\ Clock!calendarTime(r) % TicksPerSecond \in 0..TicksPerSecond - 1 /\ TicksPerSecond \in Nat \ {0}
  <2>1. Clock!calendarTime(r) \in Int /\ TicksPerSecond \in Nat \ {0}
    BY TimeTyped, ClockUnits
  <2> QED
    BY ONLY <2>1, Parts
<1>3. fraction \in 0..TicksPerSecond - 1
  BY <1>2
<1>4. time \in Int /\ time % TicksPerSecond = fraction
  <2>1. fraction % TicksPerSecond = fraction
    BY ONLY <1>2, <1>3, SmallRemainder
  <2>2. time \in Int /\ time % TicksPerSecond = fraction % TicksPerSecond
    BY <1>1, <1>3, WholeSeconds
  <2> QED
    BY <2>1, <2>2
<1>5. clean \in ClockType({r.timer}) /\ clean.timer = r.timer
  <2> DEFINE none == FALSE
  <2>1. none \in BOOLEAN /\ clean = [r EXCEPT !.dirty = none, !.secondsWritten = none]
    OBVIOUS
  <2> HIDE DEF none, clean
  <2> QED
    BY <1>1, <2>1 DEF ClockType
<1>6. /\ ~clean.dirty /\ ~clean.secondsWritten /\ clean.base = r.base /\ clean.elapsed = r.elapsed /\ clean.stop = r.stop
      /\ clean.week = r.week /\ clean.shown = r.shown
  BY <1>1 DEF ClockType
<1>7. CASE ~r.dirty \/ r.stop
  <2>1. y = r
    BY <1>7 DEF Clock!commit
  <2>2. Continues(r, r)
    BY DEF Continues
  <2> QED
    BY <1>7, <2>1, <2>2
<1>8. CASE r.dirty /\ ~r.stop /\ ~Clock!Valid(r.shown)
  <2> DEFINE true == TRUE
  <2>1. y = [clean EXCEPT !.low = true] /\ true \in BOOLEAN
    BY <1>8 DEF Clock!commit
  <2> HIDE DEF clean, y, true
  <2>2. y \in ClockType({r.timer}) /\ y.timer = r.timer
    BY <1>5, <2>1 DEF ClockType
  <2>3. y.base = r.base /\ y.elapsed = r.elapsed /\ y.stop = r.stop /\ y.week = r.week /\ ~y.dirty /\ ~y.secondsWritten
    BY <1>5, <1>6, <2>1 DEF ClockType
  <2>4. Clock!calendarTime(y) = Clock!calendarTime(r)
    BY <2>3 DEF Clock!calendarTime
  <2>5. Continues(r, y)
    BY <1>8, <2>3, <2>4 DEF Continues, Phase, WeekNow, Clock!weekAt
  <2> QED
    BY <1>8, <2>2, <2>3, <2>5 DEF Typed, y
<1>9. CASE r.dirty /\ ~r.stop /\ Clock!Valid(r.shown)
  <2>1. y = Clock!updateAlarm(set)
    BY <1>9 DEF Clock!commit
  <2> HIDE DEF clean, y
  <2>2. set \in ClockType({r.timer}) /\ set.timer = r.timer
    <3> DEFINE zero == 0
    <3>1. zero \in Int /\ r.shown.week \in Weekdays /\ set = [clean EXCEPT !.base = time, !.elapsed = zero, !.week = r.shown.week]
      BY <1>1 DEF ShownType
    <3> HIDE DEF zero, set, time
    <3> QED
      BY <1>4, <1>5, <3>1 DEF ClockType
  <2>3. /\ set.base = time /\ set.elapsed = 0 /\ set.week = r.shown.week /\ set.stop = r.stop /\ ~set.dirty /\ ~set.secondsWritten
    BY <1>5, <1>6 DEF ClockType
  <2> HIDE DEF set
  <2>4. Typed(set)
    BY <2>2 DEF Typed
  <2>5. Typed(y) /\ SameCalendar(set, y)
    BY <2>1, <2>4, AlarmUpdated
  <2> HIDE DEF time
  <2>6. y.base = time /\ y.elapsed = 0 /\ y.week = r.shown.week /\ y.stop = r.stop /\ ~y.dirty /\ ~y.secondsWritten
    BY <2>3, <2>5 DEF SameCalendar
  <2>7. Clock!calendarTime(y) = time
    BY <1>4, <2>6, <1>9 DEF Clock!calendarTime
  <2>8. WeekNow(y) = y.week
    <3>1. time \div Clock!Day \in Int
      BY <1>4, ClockUnits, Parts
    <3>2. time \div Clock!Day - time \div Clock!Day = 0
      BY <3>1
    <3>3. y.week \in Weekdays
      BY <2>5 DEF Typed, ClockType
    <3>4. Clock!Rotated(y.week, 0) = y.week
      BY <3>3, Turned
    <3> QED
      BY <2>6, <2>7, <3>2, <3>4 DEF WeekNow, Clock!weekAt
  <2>9. ~r.secondsWritten => Phase(y) = Phase(r)
    BY <1>4, <2>7 DEF Phase
  <2>10. Continues(r, y)
    BY <1>9, <2>6, <2>8, <2>9 DEF Continues
  <2> QED
    BY <1>9, <2>5, <2>6, <2>10 DEF y
<1> QED
  BY <1>1, <1>7, <1>8, <1>9

\* A handler that takes over or goes on with the calendar keeps the invariant.
LEMMA Becoming ==
  ASSUME ClockInv, NEW r, Typed(r), Continues(rtc, r), Clock!Becomes(r)
  PROVE  ClockInv' /\ (~rtc.secondsWritten => Phase(rtc') = Phase(rtc))
<1>1. rtc' = r /\ weekday' = IF rtc.dirty /\ ~r.dirty /\ Clock!Valid(rtc.shown) THEN r.week ELSE weekday
  BY DEF Clock!Becomes
<1>2. Typed(r)' /\ WeekNow(rtc)' = WeekNow(r) /\ Typed(rtc)'
  BY <1>1 DEF Typed, WeekNow, Clock!weekAt, Clock!calendarTime, Clock!Rotated, Clock!Day, Clock!Minute, Clock!MinutesPerDay, ClockType
<1>3. r.week \in Weekdays
  BY DEF Typed, ClockType
<1>4. weekday' \in Weekdays /\ WeekNow(r) = weekday'
  BY <1>1, <1>3 DEF ClockInv, Continues
<1>5. ~rtc.secondsWritten => Phase(rtc') = Phase(rtc)
  BY <1>1 DEF Continues
<1> QED
  BY <1>2, <1>4, <1>5 DEF ClockInv

LEMMA TransferMade ==
  ASSUME ClockInv, Clock!StartTransfer \/ Clock!Finish
  PROVE  ClockInv' /\ (~rtc.secondsWritten => Phase(rtc') = Phase(rtc))
<1> SUFFICES ASSUME NEW on \in BOOLEAN, NEW r, Clock!Becomes(r),
                    LET c == Clock!commit([rtc EXCEPT !.transfer = on]) IN r \in {c, Clock!snapshot(c)}
             PROVE  ClockInv' /\ (~rtc.secondsWritten => Phase(rtc') = Phase(rtc))
  BY DEF Clock!StartTransfer, Clock!Finish
<1> DEFINE m == [rtc EXCEPT !.transfer = on]
           c == Clock!commit(m)
<1>1. rtc \in ClockType({rtc.timer}) /\ rtc.secondsWritten \in BOOLEAN
  BY DEF ClockInv, Typed, ClockType
<1>2. Typed(m) /\ SameCalendar(rtc, m) /\ m.shown = rtc.shown
  <2>1. m \in ClockType({rtc.timer}) /\ m.timer = rtc.timer
    BY <1>1 DEF ClockType
  <2>2. SameCalendar(rtc, m) /\ m.shown = rtc.shown
    BY <1>1 DEF ClockType, SameCalendar
  <2> QED
    BY <2>1, <2>2 DEF Typed
<1> HIDE DEF m
<1>3. Continues(rtc, m)
  BY <1>2, SameGoesOn
<1>4. Typed(c) /\ Continues(m, c)
  BY <1>2, CommitTaken
<1> HIDE DEF c
<1>5. Continues(rtc, c)
  BY <1>1, <1>3, <1>4, GoesOn
<1>6. Typed(Clock!snapshot(c)) /\ Continues(c, Clock!snapshot(c))
  BY <1>4, SnapshotTaken, SameGoesOn
<1>7. Continues(rtc, Clock!snapshot(c))
  BY <1>1, <1>5, <1>6, GoesOn
<1>8. r \in {c, Clock!snapshot(c)}
  BY DEF c, m
<1>9. Typed(r) /\ Continues(rtc, r)
  BY <1>4, <1>5, <1>6, <1>7, <1>8
<1> QED
  BY <1>9, Becoming

\* Registers that are no part of the calendar.
LEMMA AlarmWritten ==
  ASSUME ClockInv,
         \/ Clock!AlarmExpired
         \/ \E a \in Alarms : Clock!WriteAlarm(a)
         \/ \E came, low \in BOOLEAN : Clock!WriteFlags(came, low)
  PROVE  ClockInv' /\ (~rtc.secondsWritten => Phase(rtc') = Phase(rtc))
<1>1. rtc \in ClockType({rtc.timer}) /\ rtc.secondsWritten \in BOOLEAN
  BY DEF ClockInv, Typed, ClockType
<1> SUFFICES ASSUME NEW m, Typed(m), SameCalendar(rtc, m), m.shown = rtc.shown, Clock!Becomes(Clock!updateAlarm(m))
             PROVE  ClockInv' /\ (~rtc.secondsWritten => Phase(rtc') = Phase(rtc))
  <2>1. CASE Clock!AlarmExpired
    <3> DEFINE true == TRUE
               m == [rtc EXCEPT !.flag = true]
    <3>1. Clock!Becomes(Clock!updateAlarm(m)) /\ true \in BOOLEAN
      BY <2>1 DEF Clock!AlarmExpired
    <3> HIDE DEF true
    <3>2. m \in ClockType({rtc.timer}) /\ m.timer = rtc.timer /\ SameCalendar(rtc, m) /\ m.shown = rtc.shown
      BY <1>1, <3>1 DEF ClockType, SameCalendar
    <3> HIDE DEF m
    <3> QED
      BY <3>1, <3>2 DEF Typed
  <2>2. ASSUME NEW a \in Alarms, Clock!WriteAlarm(a)
        PROVE  ClockInv' /\ (~rtc.secondsWritten => Phase(rtc') = Phase(rtc))
    <3> DEFINE m == [rtc EXCEPT !.alarm = a]
    <3>1. Clock!Becomes(Clock!updateAlarm(m))
      BY <2>2 DEF Clock!WriteAlarm
    <3>2. m \in ClockType({rtc.timer}) /\ m.timer = rtc.timer /\ SameCalendar(rtc, m) /\ m.shown = rtc.shown
      BY <1>1 DEF ClockType, SameCalendar
    <3> HIDE DEF m
    <3> QED
      BY <3>1, <3>2 DEF Typed
  <2>3. ASSUME NEW came \in BOOLEAN, NEW low \in BOOLEAN, Clock!WriteFlags(came, low)
        PROVE  ClockInv' /\ (~rtc.secondsWritten => Phase(rtc') = Phase(rtc))
    <3> DEFINE kept == rtc.flag /\ came
               lost == rtc.low /\ low
               m == [rtc EXCEPT !.flag = kept, !.low = lost]
    <3>1. Clock!Becomes(Clock!updateAlarm(m)) /\ kept \in BOOLEAN /\ lost \in BOOLEAN
      BY <1>1, <2>3 DEF Clock!WriteFlags, ClockType
    <3> HIDE DEF kept, lost
    <3>2. m \in ClockType({rtc.timer}) /\ m.timer = rtc.timer /\ SameCalendar(rtc, m) /\ m.shown = rtc.shown
      BY <1>1, <3>1 DEF ClockType, SameCalendar
    <3> HIDE DEF m
    <3> QED
      BY <3>1, <3>2 DEF Typed
  <2> QED
    BY <2>1, <2>2, <2>3
<1> DEFINE y == Clock!updateAlarm(m)
<1>2. Typed(y) /\ SameCalendar(m, y) /\ y.shown = m.shown
  BY AlarmUpdated
<1> HIDE DEF y
<1>3. SameCalendar(rtc, y) /\ y.shown = rtc.shown
  BY <1>2 DEF SameCalendar
<1>4. Continues(rtc, y)
  BY <1>3, SameGoesOn
<1> QED
  BY <1>2, <1>4, Becoming DEF y

LEMMA CalendarWritten ==
  ASSUME ClockInv, NEW w \in CalendarWrites, Clock!WriteCalendar(w[1], w[2])
  PROVE  ClockInv' /\ (~rtc.secondsWritten => Phase(rtc') = Phase(rtc))
<1> DEFINE f == w[1]
           v == w[2]
           true == TRUE
           seconds == rtc.secondsWritten \/ f = "second"
           new == [rtc.shown EXCEPT ![f] = v]
           r == [rtc EXCEPT !.shown = new, !.dirty = true, !.secondsWritten = seconds]
<1>1. rtc \in ClockType({rtc.timer}) /\ rtc.shown \in ShownType /\ rtc.secondsWritten \in BOOLEAN /\ weekday \in Weekdays
  BY DEF ClockInv, Typed, ClockType
<1>2. \/ f = "week" /\ v \in Weekdays
      \/ f \in {"second", "minute", "hour", "day", "month"} /\ v \in Int
  BY TimeAssumption DEF Clock!ClockAssumption, Weekdays
<1>3. new \in ShownType
  <2> HIDE DEF f, v
  <2> QED
    BY <1>1, <1>2 DEF ShownType
<1>4. true \in BOOLEAN /\ seconds \in BOOLEAN /\ true
  BY <1>1
<1>5. Clock!Becomes(r)
  BY <1>1 DEF Clock!WriteCalendar, ClockType
<1> HIDE DEF new, true, seconds
<1>6. r \in ClockType({rtc.timer}) /\ r.timer = rtc.timer
  BY <1>1, <1>3, <1>4 DEF ClockType
<1>7. r.base = rtc.base /\ r.elapsed = rtc.elapsed /\ r.stop = rtc.stop /\ r.week = rtc.week /\ r.dirty
  BY <1>1, <1>4 DEF ClockType
<1> HIDE DEF r
<1>8. rtc' = r /\ weekday' = weekday
  BY <1>5, <1>7 DEF Clock!Becomes
<1>9. Clock!calendarTime(rtc)' = Clock!calendarTime(rtc)
  BY <1>7, <1>8 DEF Clock!calendarTime
<1>10. WeekNow(rtc)' = WeekNow(rtc)
  BY <1>7, <1>8, <1>9 DEF WeekNow, Clock!weekAt, Clock!Rotated, Clock!Day, Clock!Minute, Clock!MinutesPerDay
<1>11. Typed(rtc)'
  BY <1>6, <1>8 DEF Typed
<1>12. Phase(rtc)' = Phase(rtc)
  BY <1>9 DEF Phase
<1>13. Phase(rtc') = Phase(rtc)'
  BY DEF Phase, Clock!calendarTime
<1> QED
  BY <1>1, <1>8, <1>10, <1>11, <1>12, <1>13 DEF ClockInv

LEMMA ControlWritten ==
  ASSUME ClockInv, NEW stop \in BOOLEAN, NEW enable \in BOOLEAN, Clock!WriteControl(stop, enable)
  PROVE  ClockInv' /\ (~rtc.secondsWritten => Phase(rtc') = Phase(rtc))
<1> DEFINE c == Clock!commit(rtc)
           seen == Clock!snapshot(c)
           t == Clock!calendarTime(seen)
           now == Clock!weekAt(seen, t)
           stays == IF stop = seen.stop THEN seen ELSE [seen EXCEPT !.week = now, !.base = t, !.elapsed = 0]
           m == [stays EXCEPT !.stop = stop, !.enable = enable]
           d == Clock!commit(m)
           y == Clock!updateAlarm(d)
<1>1. Typed(rtc) /\ rtc.secondsWritten \in BOOLEAN
  BY DEF ClockInv, Typed, ClockType
<1>2. Typed(c) /\ Continues(rtc, c)
  BY <1>1, CommitTaken
<1>3. Typed(seen) /\ Continues(c, seen)
  BY <1>2, SnapshotTaken, SameGoesOn
<1>4. Clock!Becomes(y)
  BY DEF Clock!WriteControl
<1> HIDE DEF c, seen
<1>5. Continues(rtc, seen)
  BY <1>1, <1>2, <1>3, GoesOn
<1>6. seen \in ClockType({seen.timer}) /\ t \in Int /\ now \in Weekdays
  BY <1>3, TimeTyped DEF Typed, WeekNow
<1>7. /\ stays \in ClockType({seen.timer}) /\ stays.timer = seen.timer /\ stays.shown = seen.shown /\ stays.dirty = seen.dirty
      /\ stays.secondsWritten = seen.secondsWritten
      /\ IF stop = seen.stop THEN stays = seen ELSE stays.week = now /\ stays.base = t /\ stays.elapsed = 0
  <2>1. CASE stop = seen.stop
    BY <1>6, <2>1
  <2>2. CASE stop # seen.stop
    <3> DEFINE zero == 0
    <3>1. zero \in Int /\ stays = [seen EXCEPT !.week = now, !.base = t, !.elapsed = zero]
      BY <2>2
    <3> HIDE DEF stays, now, t
    <3>2. /\ stays.timer = seen.timer /\ stays.shown = seen.shown /\ stays.dirty = seen.dirty
          /\ stays.secondsWritten = seen.secondsWritten /\ stays.week = now /\ stays.base = t /\ stays.elapsed = 0
      BY <1>6, <3>1 DEF ClockType
    <3> HIDE DEF zero
    <3>3. stays \in ClockType({seen.timer})
      BY <1>6, <3>1 DEF ClockType
    <3> QED
      BY <2>2, <3>2, <3>3
  <2> QED
    BY <2>1, <2>2
<1> HIDE DEF stays, now, t
<1>8. /\ m \in ClockType({seen.timer}) /\ m.timer = seen.timer /\ m.shown = seen.shown /\ m.dirty = seen.dirty
      /\ m.secondsWritten = seen.secondsWritten /\ m.stop = stop /\ m.week = stays.week /\ m.base = stays.base /\ m.elapsed = stays.elapsed
  BY <1>7 DEF ClockType
<1> HIDE DEF m
<1>9. Clock!calendarTime(m) = t /\ WeekNow(m) = now /\ (now = seen.week => m.week = seen.week)
  <2>1. CASE stop = seen.stop
    <3>1. Clock!calendarTime(m) = Clock!calendarTime(seen) /\ m.week = seen.week /\ m.base = seen.base
      BY <1>7, <1>8, <2>1 DEF Clock!calendarTime
    <3> QED
      BY <3>1 DEF t, now, WeekNow, Clock!weekAt
  <2>2. CASE stop # seen.stop
    <3>1. m.week = now /\ m.base = t /\ m.elapsed = 0
      BY <1>7, <1>8, <2>2
    <3>2. Clock!calendarTime(m) = t
      BY <1>6, <3>1 DEF Clock!calendarTime
    <3>3. t \div Clock!Day \in Int
      BY <1>6, ClockUnits, Parts
    <3>4. t \div Clock!Day - t \div Clock!Day = 0
      BY <3>3
    <3>5. Clock!Rotated(now, 0) = now
      BY <1>6, Turned
    <3> QED
      BY <3>1, <3>2, <3>4, <3>5 DEF WeekNow, Clock!weekAt
  <2> QED
    BY <2>1, <2>2
<1>10. Continues(seen, m) /\ Typed(m)
  <2>1. WeekNow(seen) = now /\ Clock!calendarTime(seen) = t
    BY DEF WeekNow, now, t
  <2> QED
    BY <1>8, <1>9, <2>1 DEF Continues, Phase, Typed
<1>11. Continues(rtc, m)
  BY <1>1, <1>5, <1>10, GoesOn
<1>12. Typed(d) /\ Continues(m, d)
  BY <1>10, CommitTaken
<1> HIDE DEF d
<1>13. Continues(rtc, d)
  BY <1>1, <1>11, <1>12, GoesOn
<1>14. Typed(y) /\ SameCalendar(d, y) /\ y.shown = d.shown
  BY <1>12, AlarmUpdated
<1> HIDE DEF y
<1>15. Continues(d, y)
  BY <1>14, SameGoesOn
<1>16. Continues(rtc, y)
  BY <1>1, <1>13, <1>15, GoesOn
<1> QED
  BY <1>4, <1>14, <1>16, Becoming DEF y

LEMMA ClockTicked == ASSUME ClockInv, Clock!Tick PROVE ClockInv' /\ rtc'.elapsed = rtc.elapsed + 1
<1> DEFINE next == rtc.elapsed + 1
           time == IF rtc.timer > 0 THEN rtc.timer - 1 ELSE rtc.timer
           r == [rtc EXCEPT !.elapsed = next, !.timer = time]
           t == Clock!calendarTime(rtc)
           u == Clock!calendarTime(r)
           n == Clock!Day
<1>1. rtc \in ClockType({rtc.timer}) /\ next \in Int /\ rtc.base \in Int /\ rtc.week \in Weekdays
  BY DEF ClockInv, Typed, ClockType
<1>2. rtc' = r /\ weekday' = Clock!Rotated(weekday, u \div n - t \div n)
  BY <1>1 DEF Clock!Tick, ClockType
<1> HIDE DEF next, time
<1>3. /\ r \in ClockType({time}) /\ r.timer = time /\ r.base = rtc.base /\ r.week = rtc.week /\ r.elapsed = next
  BY <1>1 DEF ClockType
<1> HIDE DEF r
<1>4. Typed(r) /\ Typed(rtc)
  BY <1>3 DEF Typed, ClockInv
<1>5. t \in Int /\ u \in Int
  BY <1>4, TimeTyped
<1> HIDE DEF t, u, n
<1> DEFINE a == t \div n - rtc.base \div n
           b == u \div n - t \div n
<1>6. a \in Int /\ b \in Int /\ a + b = u \div n - rtc.base \div n
  <2>1. t \div n \in Int /\ u \div n \in Int /\ rtc.base \div n \in Int
    BY <1>1, <1>5, ClockUnits, Parts DEF n
  <2> QED
    BY <2>1
<1>7. weekday = Clock!Rotated(rtc.week, a)
  BY DEF ClockInv, WeekNow, Clock!weekAt, t, n
<1>8. weekday' = Clock!Rotated(rtc.week, a + b) /\ weekday' \in Weekdays
  <2>1. weekday' = Clock!Rotated(weekday, b)
    BY <1>2
  <2> HIDE DEF a, b
  <2>2. a + b \in Int
    BY <1>6
  <2> QED
    BY <1>1, <1>6, <1>7, <2>1, <2>2, Turned
<1>9. WeekNow(r) = weekday'
  BY <1>3, <1>6, <1>8 DEF WeekNow, Clock!weekAt, u, n
<1>10. WeekNow(rtc)' = WeekNow(r) /\ Typed(rtc)'
  BY <1>2, <1>4 DEF Typed, ClockType, WeekNow, Clock!weekAt, Clock!calendarTime, Clock!Rotated, Clock!Day, Clock!Minute, Clock!MinutesPerDay
<1> QED
  BY <1>2, <1>3, <1>8, <1>9, <1>10 DEF ClockInv, next

LEMMA ClockInit == Clock!Init => ClockInv
<1> SUFFICES ASSUME NEW a \in Alarms, weekday = {0},
                    rtc = Clock!updateAlarm([base |-> 1, elapsed |-> 0, stop |-> FALSE, week |-> {0}, shown |-> Clock!Fields(1, {0}),
                          dirty |-> FALSE, secondsWritten |-> FALSE, alarm |-> a, flag |-> FALSE, low |-> FALSE,
                          enable |-> FALSE, timer |-> Clock!NoTimer, irq |-> FALSE, transfer |-> FALSE])
             PROVE  ClockInv
  BY DEF Clock!Init
<1> DEFINE one == 1
           zero == 0
           none == FALSE
           sunday == {0}
           fields == Clock!Fields(one, sunday)
           r == [base |-> one, elapsed |-> zero, stop |-> none, week |-> sunday, shown |-> fields,
                 dirty |-> none, secondsWritten |-> none, alarm |-> a, flag |-> none, low |-> none,
                 enable |-> none, timer |-> Clock!NoTimer, irq |-> none, transfer |-> none]
<1>1. one \in Int /\ zero \in Int /\ none \in BOOLEAN /\ sunday \in Weekdays /\ one + zero = one
  BY ClockUnits DEF Weekdays
<1>2. fields \in ShownType
  BY <1>1, FieldsTyped
<1>3. rtc = Clock!updateAlarm(r)
  OBVIOUS
<1> HIDE DEF fields, sunday, one
<1>4. Clock!calendarTime(r) = one /\ r.base = one /\ r.week = sunday
  BY <1>1 DEF Clock!calendarTime
<1> HIDE DEF zero, none
<1>5. r \in ClockType({Clock!NoTimer}) /\ r.timer = Clock!NoTimer
  BY <1>1, <1>2 DEF ClockType
<1> HIDE DEF r
<1>6. Typed(r)
  BY <1>5 DEF Typed
<1>7. Typed(rtc) /\ SameCalendar(r, rtc) /\ rtc.shown = r.shown
  BY <1>3, <1>6, AlarmUpdated
<1>8. WeekNow(r) = sunday
  <2>1. one \div Clock!Day \in Int
    BY <1>1, ClockUnits, Parts
  <2>2. one \div Clock!Day - one \div Clock!Day = 0
    BY <2>1
  <2>3. Clock!Rotated(sunday, 0) = sunday
    BY <1>1, Turned
  <2> QED
    BY <1>4, <2>2, <2>3 DEF WeekNow, Clock!weekAt
<1>9. WeekNow(rtc) = sunday
  BY <1>7, <1>8, SameGoesOn
<1>10. weekday = sunday
  BY DEF sunday
<1> QED
  BY <1>1, <1>7, <1>9, <1>10 DEF ClockInv

LEMMA ClockMoves ==
  ASSUME ClockInv, [Clock!Next]_Clock!vars
  PROVE  /\ ClockInv'
         /\ rtc'.elapsed = rtc.elapsed + 1 \/ (~rtc.secondsWritten => Phase(rtc') = Phase(rtc))
<1> DEFINE Fine == ClockInv' /\ (rtc'.elapsed = rtc.elapsed + 1 \/ (~rtc.secondsWritten => Phase(rtc') = Phase(rtc)))
<1>1. CASE Clock!Tick
  BY <1>1, ClockTicked
<1>2. CASE Clock!StartTransfer \/ Clock!Finish
  BY <1>2, TransferMade
<1>3. CASE \/ Clock!AlarmExpired
           \/ \E a \in Alarms : Clock!WriteAlarm(a)
           \/ \E came, low \in BOOLEAN : Clock!WriteFlags(came, low)
  BY <1>3, AlarmWritten
<1>4. ASSUME NEW w \in CalendarWrites, Clock!WriteCalendar(w[1], w[2]) PROVE Fine
  BY <1>4, CalendarWritten
<1>5. ASSUME NEW stop \in BOOLEAN, NEW enable \in BOOLEAN, Clock!WriteControl(stop, enable) PROVE Fine
  BY <1>5, ControlWritten
<1>6. CASE UNCHANGED Clock!vars
  <2>1. rtc' = rtc /\ weekday' = weekday
    BY <1>6 DEF Clock!vars
  <2> QED
    BY <2>1 DEF ClockInv, Typed, ClockType, WeekNow, Phase, Clock!weekAt, Clock!calendarTime, Clock!Rotated, Clock!Day, Clock!Minute, Clock!MinutesPerDay
<1> QED
  BY <1>1, <1>2, <1>3, <1>4, <1>5, <1>6 DEF Clock!Next

LEMMA ClockStep == ClockInv /\ [Clock!Next]_Clock!vars => ClockInv'
  BY ClockMoves

(* However the calendar is written, stopped and set going, WEEK has turned  *)
(* once at every midnight since it was set: the days of rx8130ce's week     *)
(* register are those of its base, rotated by the days since.               *)
THEOREM WeekCorrect == Clock!Spec => []Clock!WeekExact
<1>1. ClockInv => Clock!WeekExact
  BY DEF ClockInv, WeekNow, Clock!WeekExact
<1> QED
  BY ClockInit, ClockStep, <1>1, PTL DEF Clock!Spec

(* No transfer shifts the phase of the second, unless it wrote the seconds: *)
(* commit keeps the fraction of the calendar it replaces, and STOP holds it.*)
THEOREM PhaseCorrect == Clock!Spec => Clock!PhaseKept
<1>1. ClockInv /\ [Clock!Next]_Clock!vars
      => [(rtc'.elapsed # rtc.elapsed + 1 /\ ~rtc.secondsWritten)
          => Clock!calendarTime(rtc') % TicksPerSecond = Clock!calendarTime(rtc) % TicksPerSecond]_Clock!vars
  BY ClockMoves DEF Phase
<1> QED
  BY ClockInit, ClockStep, <1>1, PTL DEF Clock!Spec, Clock!PhaseKept

-----------------------------------------------------------------------------
(* Induction over the naturals, from their well-foundedness.                *)
LEMMA LeastOf ==
  ASSUME NEW T, T \subseteq Nat, T # {}
  PROVE  \E x \in T : \A y \in T : x <= y
<1> DEFINE R == {p \in Nat \X Nat : p[1] < p[2]}
<1>1. IsWellFoundedOn(R, Nat)
  BY NatLessThanWellFounded DEF OpToRel
<1>2. \A x, y \in T : <<y, x>> \notin R => x <= y
  BY DEF R
<1> HIDE DEF R
<1>3. \E x \in T : \A y \in T : <<y, x>> \notin R
  BY <1>1, WFMin
<1> QED
  BY <1>2, <1>3

-----------------------------------------------------------------------------
(* A search that jumps over what cannot match.                              *)
NoneWithin(P, m, n) == \A k \in m..n - 1 : k \notin P
JumpsOver(P, J) == P \subseteq Nat /\ \A m \in Nat \ P : J[m] \in Nat /\ J[m] > m /\ NoneWithin(P, m, J[m])
Searches(s, P, J) == \A m \in Nat : s[m] = IF m \in P THEN m ELSE s[J[m]]
IsFirst(P, m, f) == f \in P /\ m <= f /\ NoneWithin(P, m, f)

LEMMA SearchReaches ==
  ASSUME NEW P, NEW J, JumpsOver(P, J), NEW s, Searches(s, P, J), NEW f, NEW m \in Nat, IsFirst(P, m, f)
  PROVE  s[m] = f
<1>a. /\ P \subseteq Nat /\ \A n \in Nat \ P : J[n] \in Nat /\ J[n] > n /\ \A k \in n..J[n] - 1 : k \notin P
      /\ \A n \in Nat : s[n] = IF n \in P THEN n ELSE s[J[n]]
      /\ f \in P /\ f \in Nat /\ m <= f /\ \A k \in m..f - 1 : k \notin P
  BY DEF JumpsOver, Searches, IsFirst, NoneWithin
<1> DEFINE T == {d \in Nat : \E x \in Nat : x + d = f /\ (\A k \in x..f - 1 : k \notin P) /\ s[x] # f}
<1>0. SUFFICES ASSUME s[m] # f PROVE FALSE
  OBVIOUS
<1>1. T # {}
  <2>1. f - m \in Nat /\ m + (f - m) = f
    BY <1>a
  <2> QED
    BY <1>0, <1>a, <2>1
<1>2. PICK d \in T : \A e \in T : d <= e
  <2>1. T \subseteq Nat
    OBVIOUS
  <2> HIDE DEF T
  <2> QED
    BY <1>1, <2>1, LeastOf
<1>3. PICK x \in Nat : x + d = f /\ (\A k \in x..f - 1 : k \notin P) /\ s[x] # f
  BY <1>2
<1>4. x \notin P
  BY <1>3, <1>a
<1>5. J[x] \in Nat /\ J[x] > x /\ J[x] <= f /\ s[x] = s[J[x]]
  BY <1>3, <1>4, <1>a
<1>6. f - J[x] \in Nat /\ J[x] + (f - J[x]) = f /\ f - J[x] < d /\ \A k \in J[x]..f - 1 : k \notin P
  BY <1>3, <1>5, <1>a
<1>7. f - J[x] \in T
  BY <1>3, <1>5, <1>6, <1>a
<1>8. d <= f - J[x] /\ d \in Nat
  <2>1. d \in Nat
    BY <1>2
  <2> HIDE DEF T
  <2> QED
    BY <1>2, <1>7, <2>1
<1> QED
  BY ONLY <1>6, <1>8

LEMMA SearchExists ==
  ASSUME NEW P, NEW J, JumpsOver(P, J)
  PROVE  \E s : s = [m \in Nat |-> s[m]] /\ Searches(s, P, J)
<1> DEFINE From(m) == {k \in P : k >= m}
           Least(S) == CHOOSE k \in S : \A l \in S : k <= l
           s == [m \in Nat |-> IF From(m) = {} THEN 0 ELSE Least(From(m))]
<1>a. P \subseteq Nat /\ \A m \in Nat \ P : J[m] \in Nat /\ J[m] > m /\ \A k \in m..J[m] - 1 : k \notin P
  BY DEF JumpsOver, NoneWithin
<1>1. ASSUME NEW m \in Nat, From(m) # {} PROVE Least(From(m)) \in From(m) /\ \A l \in From(m) : Least(From(m)) <= l
  <2>1. From(m) \subseteq Nat
    BY <1>a
  <2> HIDE DEF From
  <2>2. \E k \in From(m) : \A l \in From(m) : k <= l
    BY <1>1, <2>1, LeastOf
  <2> QED
    BY <2>2
<1>2. ASSUME NEW m \in Nat, m \in P PROVE s[m] = m
  <2>1. m \in From(m)
    BY <1>2
  <2>2. Least(From(m)) \in From(m) /\ Least(From(m)) <= m
    <3> HIDE DEF From, Least
    <3> QED
      BY <1>1, <2>1
  <2>3. Least(From(m)) = m
    <3>1. \A k \in From(m) : k \in Nat /\ k >= m
      BY <1>a
    <3> HIDE DEF From, Least
    <3> QED
      BY <2>2, <3>1
  <2> HIDE DEF From, Least
  <2> QED
    BY <2>1, <2>3
<1>3. ASSUME NEW m \in Nat, m \notin P PROVE s[m] = s[J[m]]
  <2>1. J[m] \in Nat /\ J[m] > m /\ \A k \in m..J[m] - 1 : k \notin P
    BY <1>3, <1>a
  <2>2. ASSUME NEW k \in P PROVE k >= m <=> k >= J[m]
    BY <2>1, <1>a
  <2>3. From(m) = From(J[m])
    BY <2>2
  <2> HIDE DEF From, Least
  <2> QED
    BY <2>1, <2>3
<1> HIDE DEF From, Least
<1>4. \A m \in Nat : s[m] = IF m \in P THEN m ELSE s[J[m]]
  BY <1>2, <1>3
<1>5. s = [m \in Nat |-> s[m]]
  OBVIOUS
<1> HIDE DEF s
<1> QED
  BY <1>4, <1>5 DEF Searches
-----------------------------------------------------------------------------
(* The calendar's arithmetic.                                               *)
LEMMA Division ==
  ASSUME NEW n \in Nat \ {0}, NEW q \in Int, NEW r \in 0..n - 1
  PROVE  (n * q + r) \div n = q /\ (n * q + r) % n = r
<1> DEFINE x == n * q + r
           p == x \div n
           u == x % n
<1>1. x \in Int
  OBVIOUS
<1>2. u \in 0..n - 1 /\ p \in Int /\ x = n * p + u
  BY ONLY <1>1, n \in Nat \ {0}, Parts
<1>3. n * p + u = n * q + r
  BY <1>2
<1> HIDE DEF x, p, u
<1>4. u = r
  BY ONLY <1>2, <1>3, q \in Int, r \in 0..n - 1, n \in Nat \ {0}, OneRemainder
<1>5. p = q
  <2>1. n * p = n * q
    <3> DEFINE y == n * p
               z == n * q
    <3>1. y \in Int /\ z \in Int /\ u \in Int /\ y + u = z + u
      BY <1>2, <1>3, <1>4
    <3> HIDE DEF y, z
    <3>2. y = z
      BY <3>1
    <3> QED
      BY <3>2 DEF y, z
  <2>2. CASE p < q
    <3>1. n * (q - p) >= n /\ n * (q - p) = n * q - n * p
      BY <1>2, <2>2
    <3> QED
      BY <2>1, <3>1
  <2>3. CASE p > q
    <3>1. n * (p - q) >= n /\ n * (p - q) = n * p - n * q
      BY <1>2, <2>3
    <3> QED
      BY <2>1, <3>1
  <2> QED
    BY <1>2, <2>2, <2>3
<1> QED
  BY <1>4, <1>5 DEF p, u, x

\* A quotient stays as long as the multiple it is of.
LEMMA SameQuotient ==
  ASSUME NEW n \in Nat \ {0}, NEW q \in Int, NEW k \in Int, n * q <= k, k < n * (q + 1)
  PROVE  k \div n = q
<1> DEFINE r == k - n * q
<1>1. n * (q + 1) = n * q + n
  OBVIOUS
<1>2. r \in 0..n - 1 /\ k = n * q + r
  BY <1>1
<1> HIDE DEF r
<1> QED
  BY <1>2, Division

LEMMA Scaled ==
  ASSUME NEW u \in Nat \ {0}, NEW c \in Nat \ {0}, NEW m \in Int
  PROVE  (m * u) \div (u * c) = m \div c /\ (m * u) \div u = m /\ (m * u) % u = 0 /\ u * c \in Nat \ {0}
<1> DEFINE q == m \div c
           s == m % c
           n == u * c
           r == u * s
<1>1. s \in 0..c - 1 /\ q \in Int /\ m = c * q + s
  BY Parts
<1>2. n \in Nat \ {0}
  OBVIOUS
<1> HIDE DEF q, s
<1>3. r \in Nat /\ r < n
  <2>1. u * s >= 0 /\ u * (c - s) >= u /\ u * (c - s) = u * c - u * s
    BY <1>1
  <2> QED
    BY <1>1, <2>1
<1>4. m * u = n * q + r
  <2>1. m * u = u * (c * q) + u * s
    BY <1>1
  <2>2. u * (c * q) = (u * c) * q
    BY <1>1
  <2> QED
    BY <2>1, <2>2
<1>5. r \in 0..n - 1
  BY <1>2, <1>3
<1>6. (m * u) \div n = q
  <2> HIDE DEF n, r
  <2> QED
    BY <1>1, <1>2, <1>4, <1>5, Division
<1>7. (m * u) \div u = m /\ (m * u) % u = 0
  <2>1. 0 \in 0..u - 1 /\ u * m + 0 = m * u
    OBVIOUS
  <2>2. (u * m + 0) \div u = m /\ (u * m + 0) % u = 0
    BY ONLY <2>1, u \in Nat \ {0}, m \in Int, Division
  <2> QED
    BY <2>1, <2>2
<1> QED
  BY <1>2, <1>6, <1>7 DEF q, n

\* How far it is to a value of a field that turns over.
LEMMA Ahead ==
  ASSUME NEW n \in Nat \ {0}, NEW x \in Nat, NEW a \in 0..n - 1, x % n # a
  PROVE  LET d == (a + n - (x % n)) % n IN d \in 1..n - 1 /\ \A j \in 0..d - 1 : (x + j) % n # a
<1> DEFINE c == x % n
           d == (a + n - c) % n
<1>1. c \in 0..n - 1 /\ c # a
  BY Parts
<1> HIDE DEF c
<1>2. d = IF a > c THEN a - c ELSE a + n - c
  <2>1. CASE a > c
    <3>1. a - c \in 0..n - 1 /\ 1 \in Int /\ a + n - c = n * 1 + (a - c)
      BY <1>1, <2>1
    <3> QED
      BY <2>1, <3>1, Division
  <2>2. CASE a <= c
    <3>1. a + n - c \in 0..n - 1
      BY <1>1, <2>2
    <3>2. (a + n - c) % n = a + n - c
      BY <3>1, SmallRemainder
    <3> QED
      BY <1>1, <2>2, <3>2
  <2> QED
    BY <1>1, <2>1, <2>2
<1> HIDE DEF d
<1>3. d \in 1..n - 1
  BY <1>1, <1>2
<1>4. ASSUME NEW j \in 0..d - 1 PROVE (x + j) % n # a
  <2>1. (x + j) % n = (c + j) % n /\ j \in Int
    <3>1. j \in Int /\ x \in Int
      BY <1>3
    <3>2. ((x % n) + j) % n = (x + j) % n
      BY ONLY <3>1, n \in Nat \ {0}, RemainderAdded
    <3> QED
      BY <3>1, <3>2 DEF c
  <2>2. CASE c + j < n
    <3>1. c + j \in 0..n - 1
      BY <1>1, <1>3, <2>2
    <3>2. (c + j) % n = c + j
      BY <3>1, SmallRemainder
    <3> QED
      BY <1>1, <1>2, <1>3, <2>1, <3>2
  <2>3. CASE c + j >= n
    <3>1. c + j - n \in 0..n - 1 /\ 1 \in Int /\ c + j = n * 1 + (c + j - n)
      BY <1>1, <1>3, <2>3
    <3>2. (n * 1 + (c + j - n)) % n = c + j - n
      BY ONLY <3>1, n \in Nat \ {0}, Division
    <3>3. (c + j) % n = c + j - n
      BY <3>1, <3>2
    <3> QED
      BY <1>1, <1>2, <1>3, <2>1, <3>3
  <2> QED
    BY <1>1, <1>3, <2>2, <2>3
<1> QED
  BY <1>3, <1>4 DEF c, d
-----------------------------------------------------------------------------
(* The minutes that match an alarm, and the search's jumps over the others. *)
Recurrence == Clock!MinutesPerDay * DaysPerMonth * DaysPerWeek
DayOf(m) == m \div Clock!MinutesPerDay
DayOn(r, d) ==
  \/ r.alarm.day = Clock!Masked
  \/ IF r.alarm.byDay THEN r.alarm.day = (d % DaysPerMonth) + 1
     ELSE r.alarm.week \cap Clock!Rotated(r.week, d - r.base \div Clock!Day) # {}
MatchAt(r, m) ==
  /\ r.alarm.minute \in {Clock!Masked, Clock!MinuteOf(m)} /\ r.alarm.hour \in {Clock!Masked, Clock!HourOf(m)}
  /\ DayOn(r, DayOf(m))
Hits(r) == {m \in Nat : MatchAt(r, m)}

LEMMA UnitsMade ==
  /\ Clock!Minute = TicksPerSecond * SecondsPerMinute /\ Clock!MinutesPerDay = MinutesPerHour * HoursPerDay
  /\ Clock!Day = Clock!Minute * Clock!MinutesPerDay
  BY DEF Clock!Minute, Clock!MinutesPerDay, Clock!Day

LEMMA FieldsAt ==
  ASSUME NEW m \in Int, NEW week
  PROVE  LET f == Clock!Fields(m * Clock!Minute, week)
         IN /\ f.minute = Clock!MinuteOf(m) /\ f.hour = Clock!HourOf(m)
            /\ f.day = (DayOf(m) % DaysPerMonth) + 1 /\ f.week = week
            /\ (m * Clock!Minute) \div Clock!Day = DayOf(m)
<1> DEFINE u == Clock!Minute
           f == Clock!Fields(m * u, week)
<1>1. u \in Nat \ {0} /\ MinutesPerHour \in Nat \ {0} /\ Clock!MinutesPerDay \in Nat \ {0} /\ Clock!Day = u * Clock!MinutesPerDay
  BY ClockUnits, UnitsMade
<1>2. f.minute = ((m * u) \div u) % MinutesPerHour /\ f.hour = ((m * u) \div (u * MinutesPerHour)) % HoursPerDay
      /\ f.week = week /\ f.day = (((m * u) \div Clock!Day) % DaysPerMonth) + 1
  BY DEF Clock!Fields
<1> HIDE DEF u, f
<1>3. (m * u) \div u = m /\ (m * u) \div (u * MinutesPerHour) = m \div MinutesPerHour
  BY ONLY <1>1, m \in Int, Scaled
<1>4. (m * u) \div Clock!Day = m \div Clock!MinutesPerDay
  BY ONLY <1>1, m \in Int, Scaled
<1>5. f.minute = Clock!MinuteOf(m) /\ f.hour = Clock!HourOf(m)
  BY <1>2, <1>3 DEF Clock!MinuteOf, Clock!HourOf
<1>6. f.day = (DayOf(m) % DaysPerMonth) + 1 /\ (m * u) \div Clock!Day = DayOf(m)
  BY <1>2, <1>4 DEF DayOf
<1> QED
  BY <1>2, <1>5, <1>6 DEF f, u

LEMMA DayAt == ASSUME NEW r, NEW m \in Int PROVE Clock!DayMatches(r, m) <=> DayOn(r, DayOf(m))
<1> DEFINE t == m * Clock!Minute
           week == Clock!weekAt(r, t)
           f == Clock!Fields(t, week)
<1>1. f.day = (DayOf(m) % DaysPerMonth) + 1 /\ f.week = week /\ t \div Clock!Day = DayOf(m)
  BY FieldsAt
<1>2. week = Clock!Rotated(r.week, DayOf(m) - r.base \div Clock!Day)
  BY <1>1 DEF Clock!weekAt
<1>3. Clock!DayMatches(r, m) <=> (r.alarm.day = Clock!Masked \/ (IF r.alarm.byDay THEN r.alarm.day = f.day ELSE r.alarm.week \cap f.week # {}))
  BY DEF Clock!DayMatches
<1> HIDE DEF f, week
<1> QED
  BY <1>1, <1>2, <1>3 DEF DayOn

LEMMA MatchesAt == ASSUME NEW m \in Int PROVE Clock!Matches(m * Clock!Minute) <=> MatchAt(rtc, m)
<1> DEFINE t == m * Clock!Minute
           week == Clock!weekAt(rtc, t)
           f == Clock!Fields(t, week)
           a == rtc.alarm
<1>1. /\ f.minute = Clock!MinuteOf(m) /\ f.hour = Clock!HourOf(m)
      /\ f.day = (DayOf(m) % DaysPerMonth) + 1 /\ f.week = week /\ t \div Clock!Day = DayOf(m)
  BY FieldsAt
<1>2. week = Clock!Rotated(rtc.week, DayOf(m) - rtc.base \div Clock!Day)
  BY <1>1 DEF Clock!weekAt
<1>3. Clock!Matches(t) <=> /\ a.minute \in {Clock!Masked, f.minute} /\ a.hour \in {Clock!Masked, f.hour}
                           /\ a.day # Clock!Masked => (IF a.byDay THEN a.day = f.day ELSE a.week \cap f.week # {})
  BY DEF Clock!Matches
<1> HIDE DEF f, week, t
<1> QED
  BY <1>1, <1>2, <1>3 DEF MatchAt, DayOn, t

LEMMA AlarmTyped ==
  ASSUME NEW r, Typed(r)
  PROVE  /\ r.alarm.minute \in Nat \cup {Clock!Masked} /\ r.alarm.hour \in Nat \cup {Clock!Masked}
         /\ r.alarm.day \in Nat \cup {Clock!Masked} /\ r.alarm.week \in Weekdays /\ r.week \in Weekdays
<1>1. r.alarm \in Alarms /\ r.week \in Weekdays
  BY DEF Typed, ClockType
<1>2. \A a \in Alarms : {a.minute, a.hour, a.day} \subseteq Nat \cup {Clock!Masked} /\ a.week \subseteq 0..DaysPerWeek - 1
  BY TimeAssumption DEF Clock!ClockAssumption
<1> QED
  BY <1>1, <1>2 DEF Weekdays

HourJump(r, m) == m + ((r.alarm.hour + HoursPerDay - Clock!HourOf(m)) % HoursPerDay) * MinutesPerHour - Clock!MinuteOf(m)
MinuteJump(r, m) == m + ((r.alarm.minute + MinutesPerHour - Clock!MinuteOf(m)) % MinutesPerHour)
Jump(r, m) ==
  IF ~Clock!DayMatches(r, m) THEN (m \div Clock!MinutesPerDay + 1) * Clock!MinutesPerDay
  ELSE IF r.alarm.hour # Clock!Masked /\ r.alarm.hour # Clock!HourOf(m) THEN HourJump(r, m)
  ELSE MinuteJump(r, m)

\* To the next day: the day that does not match goes on until there.
LEMMA DayJumped ==
  ASSUME NEW r, NEW m \in Nat, ~Clock!DayMatches(r, m)
  PROVE  LET n == (m \div Clock!MinutesPerDay + 1) * Clock!MinutesPerDay
         IN n \in Nat /\ n > m /\ \A k \in m..n - 1 : k \notin Hits(r)
<1> DEFINE d == Clock!MinutesPerDay
           q == m \div d
           n == (q + 1) * d
<1>1. d \in Nat \ {0}
  BY ClockUnits
<1>2. q \in Nat /\ m % d \in 0..d - 1 /\ m = d * q + (m % d)
  <2>1. q \in Int /\ m % d \in 0..d - 1 /\ m = d * q + (m % d)
    BY ONLY <1>1, m \in Nat, Parts
  <2>2. q >= 0
    BY <1>1
  <2> QED
    BY <2>1, <2>2
<1>3. DayOf(m) = q
  BY DEF DayOf
<1> HIDE DEF d, q
<1>4. n \in Nat /\ n = d * q + d
  BY <1>1, <1>2
<1>5. n > m
  BY <1>1, <1>2, <1>4
<1>6. ASSUME NEW k \in m..n - 1 PROVE k \notin Hits(r)
  <2>1. k \in Int /\ d * q <= k /\ k < n /\ n = d * (q + 1)
    <3>1. k \in Int /\ k >= m /\ k < n
      BY <1>4
    <3>2. d * (q + 1) = d * q + d
      BY <1>1, <1>2
    <3>3. d * q <= m
      BY <1>1, <1>2
    <3> HIDE DEF n
    <3>4. d * q \in Int /\ d * q <= k
      BY <1>1, <1>2, <3>1, <3>3
    <3> QED
      BY <1>4, <3>1, <3>2, <3>4
  <2>2. k \div d = q
    <3>1. k \in Int /\ d * q <= k /\ k < d * (q + 1) /\ q \in Int
      BY <1>2, <2>1
    <3> QED
      BY ONLY <1>1, <3>1, SameQuotient
  <2>3. DayOf(k) = DayOf(m)
    BY <1>3, <2>2 DEF DayOf, d
  <2>4. ~DayOn(r, DayOf(k))
    BY <2>3, DayAt
  <2> QED
    BY <2>4 DEF Hits, MatchAt
<1> QED
  BY <1>4, <1>5, <1>6 DEF q, d

\* To the hour: those in between are others.
LEMMA HourJumped ==
  ASSUME NEW r, NEW m \in Nat, r.alarm.hour \in 0..HoursPerDay - 1, r.alarm.hour # Clock!HourOf(m)
  PROVE  HourJump(r, m) \in Nat /\ HourJump(r, m) > m /\ \A k \in m..HourJump(r, m) - 1 : k \notin Hits(r)
<1> DEFINE u == MinutesPerHour
           n == HoursPerDay
           a == r.alarm.hour
           h == m \div u
           s == m % u
           c == h % n
           d == (a + n - c) % n
           j == HourJump(r, m)
<1>1. u \in Nat \ {0} /\ n \in Nat \ {0} /\ a \in 0..n - 1
  BY ClockUnits
<1>2. h \in Nat /\ s \in 0..u - 1 /\ m = u * h + s
  <2>1. h \in Int /\ s \in 0..u - 1 /\ m = u * h + s
    BY ONLY <1>1, m \in Nat, Parts
  <2>2. h >= 0
    BY <1>1
  <2> QED
    BY <2>1, <2>2
<1>3. c # a /\ Clock!HourOf(m) = c /\ Clock!MinuteOf(m) = s
  BY DEF Clock!HourOf, Clock!MinuteOf
<1>4. j = m + d * u - s
  BY <1>3 DEF HourJump
<1> HIDE DEF h, s, j
<1>5. d \in 1..n - 1 /\ \A i \in 0..d - 1 : (h + i) % n # a
  <2> HIDE DEF n, a, u
  <2> QED
    BY ONLY <1>1, <1>2, <1>3, Ahead
<1> HIDE DEF d, c, n, a, u
<1>6. d * u \in Nat /\ d * u >= u /\ u * (h + d) = u * h + d * u
  BY <1>1, <1>2, <1>5
<1>7. j = u * (h + d) /\ j \in Nat /\ j > m
  BY <1>1, <1>2, <1>4, <1>6
<1>8. ASSUME NEW k \in m..j - 1 PROVE k \notin Hits(r)
  <2> DEFINE q == k \div u
             i == q - h
  <2>1. k \in Int /\ k >= m /\ k < j
    BY <1>7
  <2>2. q \in Int /\ k % u \in 0..u - 1 /\ k = u * q + (k % u)
    BY ONLY <1>1, <2>1, Parts
  <2> HIDE DEF q
  <2>3. q >= h
    <3>1. CASE q < h
      <4>1. u * (h - q) >= u /\ u * (h - q) = u * h - u * q
        BY <1>1, <1>2, <2>2, <3>1
      <4> QED
        BY <1>1, <1>2, <2>1, <2>2, <4>1
    <3> QED
      BY <1>2, <2>2, <3>1
  <2>4. q < h + d
    <3>1. CASE q >= h + d
      <4>1. u * (q - (h + d)) >= 0 /\ u * (q - (h + d)) = u * q - u * (h + d)
        BY <1>1, <1>2, <1>5, <2>2, <3>1
      <4> QED
        BY <1>1, <1>7, <2>1, <2>2, <4>1
    <3> QED
      BY <1>2, <1>5, <2>2, <3>1
  <2>5. i \in 0..d - 1 /\ h + i = q
    BY <1>2, <1>5, <2>2, <2>3, <2>4
  <2>6. q % n # a
    <3> HIDE DEF i
    <3> QED
      BY <1>5, <2>5
  <2>7. Clock!HourOf(k) = q % n
    BY DEF Clock!HourOf, q, u, n
  <2>8. r.alarm.hour # Clock!HourOf(k) /\ r.alarm.hour # Clock!Masked
    BY <1>1, <2>6, <2>7 DEF a, Clock!Masked
  <2> QED
    BY <2>8 DEF Hits, MatchAt
<1> QED
  BY <1>7, <1>8 DEF j

\* To the minute.
LEMMA MinuteJumped ==
  ASSUME NEW r, NEW m \in Nat, r.alarm.minute \in 0..MinutesPerHour - 1, r.alarm.minute # Clock!MinuteOf(m)
  PROVE  MinuteJump(r, m) \in Nat /\ MinuteJump(r, m) > m /\ \A k \in m..MinuteJump(r, m) - 1 : k \notin Hits(r)
<1> DEFINE n == MinutesPerHour
           a == r.alarm.minute
           c == m % n
           d == (a + n - c) % n
           j == MinuteJump(r, m)
<1>1. n \in Nat \ {0} /\ a \in 0..n - 1
  BY ClockUnits
<1>2. c # a /\ j = m + d
  BY DEF Clock!MinuteOf, MinuteJump
<1>3. d \in 1..n - 1 /\ \A i \in 0..d - 1 : (m + i) % n # a
  <2> HIDE DEF n, a
  <2> QED
    BY ONLY <1>1, <1>2, m \in Nat, Ahead
<1> HIDE DEF d, c, n, a, j
<1>4. j \in Nat /\ j > m
  BY <1>1, <1>2, <1>3
<1>5. ASSUME NEW k \in m..j - 1 PROVE k \notin Hits(r)
  <2>1. k - m \in 0..d - 1 /\ m + (k - m) = k
    BY <1>1, <1>2, <1>3, <1>4
  <2>2. k % n # a
    BY <1>3, <2>1
  <2>3. r.alarm.minute # Clock!MinuteOf(k) /\ r.alarm.minute # Clock!Masked
    BY <1>1, <2>2 DEF a, n, Clock!MinuteOf, Clock!Masked
  <2> QED
    BY <2>3 DEF Hits, MatchAt
<1> QED
  BY <1>4, <1>5 DEF j

\* The jumps of an alarm that can match.
LEMMA Jumped ==
  ASSUME NEW r, Typed(r), ~Clock!Unmatchable(r), NEW m \in Nat, m \notin Hits(r)
  PROVE  Jump(r, m) \in Nat /\ Jump(r, m) > m /\ \A k \in m..Jump(r, m) - 1 : k \notin Hits(r)
<1>1. /\ r.alarm.minute \in 0..MinutesPerHour - 1 \/ r.alarm.minute = Clock!Masked
      /\ r.alarm.hour \in 0..HoursPerDay - 1 \/ r.alarm.hour = Clock!Masked
  BY AlarmTyped, ClockUnits DEF Clock!Unmatchable
<1>2. CASE ~Clock!DayMatches(r, m)
  BY <1>2, DayJumped DEF Jump
<1>3. CASE Clock!DayMatches(r, m) /\ r.alarm.hour # Clock!Masked /\ r.alarm.hour # Clock!HourOf(m)
  <2>1. Jump(r, m) = HourJump(r, m) /\ r.alarm.hour \in 0..HoursPerDay - 1 /\ r.alarm.hour # Clock!HourOf(m)
    BY <1>1, <1>3 DEF Jump
  <2> QED
    BY <2>1, HourJumped
<1>4. CASE Clock!DayMatches(r, m) /\ r.alarm.hour \in {Clock!Masked, Clock!HourOf(m)}
  <2>1. r.alarm.minute \notin {Clock!Masked, Clock!MinuteOf(m)}
    BY <1>4, DayAt DEF Hits, MatchAt
  <2>2. Jump(r, m) = MinuteJump(r, m) /\ r.alarm.minute \in 0..MinutesPerHour - 1 /\ r.alarm.minute # Clock!MinuteOf(m)
    BY <1>1, <1>4, <2>1 DEF Jump
  <2> QED
    BY <2>2, MinuteJumped
<1> QED
  BY <1>2, <1>3, <1>4

\* What NextMatch returns is the first match, if there is one.
LEMMA FirstMatch ==
  ASSUME NEW r, Typed(r), ~Clock!Unmatchable(r), Clock!calendarTime(r) \div Clock!Minute + 1 \in Nat,
         NEW f \in Hits(r), f >= Clock!calendarTime(r) \div Clock!Minute + 1,
         \A k \in (Clock!calendarTime(r) \div Clock!Minute + 1)..f - 1 : k \notin Hits(r)
  PROVE  Clock!NextMatch(r) = f
<1> DEFINE P == Hits(r)
           J == [m \in Nat |-> Jump(r, m)]
           body(g) == [m \in Nat |->
             IF ~Clock!DayMatches(r, m) THEN g[(m \div Clock!MinutesPerDay + 1) * Clock!MinutesPerDay]
             ELSE IF r.alarm.hour # Clock!Masked /\ r.alarm.hour # Clock!HourOf(m)
               THEN g[m + ((r.alarm.hour + HoursPerDay - Clock!HourOf(m)) % HoursPerDay) * MinutesPerHour - Clock!MinuteOf(m)]
             ELSE IF r.alarm.minute # Clock!Masked /\ r.alarm.minute # Clock!MinuteOf(m)
               THEN g[m + ((r.alarm.minute + MinutesPerHour - Clock!MinuteOf(m)) % MinutesPerHour)]
             ELSE m]
           search == CHOOSE g : g = body(g)
           first == Clock!calendarTime(r) \div Clock!Minute + 1
<1>1. Clock!NextMatch(r) = search[first]
  BY DEF Clock!NextMatch
<1>2. ASSUME NEW g, NEW m \in Nat PROVE body(g)[m] = IF m \in P THEN m ELSE g[J[m]]
  <2>1. m \in P <=> /\ r.alarm.minute \in {Clock!Masked, Clock!MinuteOf(m)} /\ r.alarm.hour \in {Clock!Masked, Clock!HourOf(m)}
                    /\ Clock!DayMatches(r, m)
    BY DayAt DEF Hits, MatchAt
  <2>2. J[m] = Jump(r, m)
    OBVIOUS
  <2> HIDE DEF J, P
  <2>3. CASE ~Clock!DayMatches(r, m)
    BY <2>1, <2>2, <2>3 DEF Jump
  <2>4. CASE Clock!DayMatches(r, m) /\ r.alarm.hour # Clock!Masked /\ r.alarm.hour # Clock!HourOf(m)
    BY <2>1, <2>2, <2>4 DEF Jump, HourJump
  <2>5. CASE Clock!DayMatches(r, m) /\ ~(r.alarm.hour # Clock!Masked /\ r.alarm.hour # Clock!HourOf(m))
    BY <2>1, <2>2, <2>5 DEF Jump, MinuteJump
  <2> QED
    BY <2>3, <2>4, <2>5
<1>3. JumpsOver(P, J)
  <2>1. P \subseteq Nat
    BY DEF Hits
  <2>2. ASSUME NEW m \in Nat \ P PROVE J[m] \in Nat /\ J[m] > m /\ \A k \in m..J[m] - 1 : k \notin P
    BY Jumped
  <2> HIDE DEF P, J
  <2> QED
    BY <2>1, <2>2 DEF JumpsOver, NoneWithin
<1>4. ASSUME NEW g PROVE body(g) = [m \in Nat |-> body(g)[m]]
  OBVIOUS
<1> HIDE DEF body, J, P
<1>5. PICK s : s = [m \in Nat |-> s[m]] /\ Searches(s, P, J)
  BY ONLY <1>3, SearchExists
<1>6. s = body(s)
  <2>1. \A m \in Nat : s[m] = body(s)[m]
    BY <1>2, <1>5 DEF Searches
  <2> QED
    BY <1>4, <1>5, <2>1
<1>7. search = body(search)
  BY <1>6
<1> HIDE DEF search
<1>8. Searches(search, P, J)
  BY <1>2, <1>7 DEF Searches
<1>9. first \in Nat /\ IsFirst(P, first, f)
  BY DEF P, IsFirst, NoneWithin
<1> HIDE DEF first
<1>10. search[first] = f
  BY ONLY <1>3, <1>8, <1>9, SearchReaches
<1> QED
  BY <1>1, <1>10

\* A minute of the day comes again on a day of any cycle of days.
Again(d, k, s, x, m) == \E f \in m + 1..m + d * k : (f \div d) % k = x /\ f % d = s

LEMMA ComesAgain ==
  ASSUME NEW d \in Nat \ {0}, NEW k \in Nat \ {0}, NEW s \in 0..d - 1, NEW x \in 0..k - 1, NEW m \in Nat
  PROVE  Again(d, k, s, x, m)
<1> SUFFICES \E f \in m + 1..m + d * k : (f \div d) % k = x /\ f % d = s
  BY DEF Again
<1> DEFINE n == d * k
           t == d * x + s
           q == (m + 1) \div n
           p == (m + 1) % n
<1>1. n \in Nat \ {0} /\ t \in 0..n - 1
  <2>1. d * (k - 1 - x) >= 0 /\ d * (k - 1 - x) = d * k - d - d * x /\ d * x >= 0
    OBVIOUS
  <2> QED
    BY <2>1
<1> HIDE DEF n
<1>2. q \in Nat /\ p \in 0..n - 1 /\ m + 1 = n * q + p
  <2>1. m + 1 \in Nat
    OBVIOUS
  <2>2. q \in Int /\ p \in 0..n - 1 /\ m + 1 = n * q + p
    BY ONLY <1>1, <2>1, Parts
  <2>3. q >= 0
    BY <1>1
  <2> QED
    BY <2>2, <2>3
<1> HIDE DEF q, p
<1>3. ASSUME NEW c \in Nat PROVE ((n * c + t) \div d) % k = x /\ (n * c + t) % d = s /\ n * c + t \in Int
  <2> DEFINE y == k * c + x
  <2>1. y \in Int /\ n * c + t = d * y + s
    <3>1. n * c = d * (k * c) /\ d * y = d * (k * c) + d * x
      BY <1>3 DEF n
    <3> QED
      BY <3>1
  <2>2. y % k = x
    BY <1>3, Division
  <2> HIDE DEF y, t
  <2>3. (d * y + s) \div d = y /\ (d * y + s) % d = s /\ d * y + s \in Int
    BY ONLY <2>1, d \in Nat \ {0}, s \in 0..d - 1, Division
  <2> QED
    BY <2>1, <2>2, <2>3
<1> HIDE DEF t
<1>4. CASE p <= t
  <2>1. n * q + t \in m + 1..m + n
    <3>1. n * q \in Int
      BY <1>1, <1>2
    <3> QED
      BY <1>1, <1>2, <1>4, <3>1
  <2> QED
    BY <1>2, <1>3, <2>1 DEF n
<1>5. CASE p > t
  <2> DEFINE c == q + 1
  <2>1. n * c + t \in m + 1..m + n /\ c \in Nat
    <3>1. n * q \in Int /\ n * c = n * q + n
      BY <1>1, <1>2
    <3> QED
      BY <1>1, <1>2, <1>5, <3>1
  <2> HIDE DEF c
  <2> QED
    BY <1>3, <2>1 DEF n
<1> QED
  BY <1>1, <1>2, <1>4, <1>5

\* The hour and the minute of a minute of the day.
LEMMA OfDay ==
  ASSUME NEW f \in Int, NEW h \in 0..HoursPerDay - 1, NEW a \in 0..MinutesPerHour - 1,
         f % Clock!MinutesPerDay = MinutesPerHour * h + a
  PROVE  Clock!HourOf(f) = h /\ Clock!MinuteOf(f) = a
<1> DEFINE u == MinutesPerHour
           v == HoursPerDay
           d == Clock!MinutesPerDay
           y == f \div d
           z == v * y + h
<1>1. u \in Nat \ {0} /\ v \in Nat \ {0} /\ d \in Nat \ {0} /\ d = u * v
  BY ClockUnits, UnitsMade
<1>2. y \in Int /\ f = d * y + (f % d)
  BY ONLY <1>1, f \in Int, Parts
<1>3. f % d = u * h + a
  OBVIOUS
<1>4. h \in 0..v - 1 /\ a \in 0..u - 1
  OBVIOUS
<1>5. Clock!HourOf(f) = (f \div u) % v /\ Clock!MinuteOf(f) = f % u
  BY DEF Clock!HourOf, Clock!MinuteOf
<1> HIDE DEF y, d, u, v
<1>6. z \in Int /\ f = u * z + a /\ z % v = h
  <2>1. d * y = u * (v * y) /\ u * z = u * (v * y) + u * h
    BY <1>1, <1>2, <1>4
  <2>2. z \in Int /\ z % v = h
    <3>1. v \in Nat \ {0} /\ y \in Int /\ h \in 0..v - 1
      BY <1>1, <1>2, <1>4
    <3> QED
      BY ONLY <3>1, Division
  <2>3. u * h \in Int /\ u * (v * y) \in Int
    BY <1>1, <1>2, <1>4
  <2>4. f = u * z + a
    <3> DEFINE b == u * (v * y)
               c == u * h
               e == f % d
    <3>1. b \in Int /\ c \in Int /\ d * y = b /\ u * z = b + c /\ e = c + a /\ f = d * y + e
      BY <1>2, <1>3, <2>1, <2>3
    <3> HIDE DEF b, c, e, z
    <3> QED
      BY <1>4, <3>1
  <2> QED
    BY <2>2, <2>4
<1> HIDE DEF z
<1>7. f \div u = z /\ f % u = a
  <2>1. (u * z + a) \div u = z /\ (u * z + a) % u = a
    BY ONLY <1>1, <1>4, <1>6, Division
  <2> QED
    BY <1>6, <2>1
<1> QED
  BY <1>5, <1>6, <1>7 DEF u

LEMMA Longer == ASSUME NEW a \in Nat \ {0}, NEW b \in Nat \ {0} PROVE a * b \in Nat \ {0} /\ a * b >= a /\ a * b >= b
<1>1. a * (b - 1) >= 0 /\ a * (b - 1) = a * b - a /\ (a - 1) * b >= 0 /\ (a - 1) * b = a * b - b
  OBVIOUS
<1> QED
  BY <1>1

\* An alarm that can match does so on the days of a cycle.
Cycle(r, k, x) ==
  /\ k \in Nat \ {0} /\ x \in 0..k - 1 /\ Clock!MinutesPerDay * k <= Recurrence
  /\ \A d \in Int : d % k = x => DayOn(r, d)

LEMMA Cycles == ASSUME NEW r, Typed(r), ~Clock!Unmatchable(r) PROVE \E k, x : Cycle(r, k, x)
<1> DEFINE l == Clock!MinutesPerDay
           a == l * DaysPerMonth
           b == l * DaysPerWeek
<1>1. l \in Nat \ {0} /\ DaysPerMonth \in Nat \ {0} /\ DaysPerWeek \in Nat \ {0} /\ Recurrence = a * DaysPerWeek
  BY ClockUnits DEF Recurrence
<1>2. a <= Recurrence /\ l <= Recurrence /\ b <= Recurrence /\ l * 1 = l
  <2>1. a \in Nat \ {0} /\ a >= l /\ b \in Nat \ {0} /\ a * DaysPerWeek = b * DaysPerMonth
    BY <1>1, Longer
  <2> HIDE DEF a, b
  <2>2. a * DaysPerWeek >= a /\ b * DaysPerMonth >= b /\ a * DaysPerWeek \in Nat
    BY <1>1, <2>1, Longer
  <2> QED
    BY <1>1, <2>1, <2>2
<1>3. CASE r.alarm.day = Clock!Masked
  <2>1. \A d \in Int : DayOn(r, d)
    BY <1>3 DEF DayOn
  <2>2. Cycle(r, 1, 0)
    BY <1>1, <1>2, <2>1 DEF Cycle
  <2> QED
    BY <2>2
<1>4. CASE r.alarm.day # Clock!Masked /\ r.alarm.byDay
  <2> DEFINE x == r.alarm.day - 1
  <2>1. x \in 0..DaysPerMonth - 1 /\ x + 1 = r.alarm.day
    BY <1>1, <1>4, AlarmTyped DEF Clock!Unmatchable
  <2> HIDE DEF x
  <2>2. ASSUME NEW d \in Int, d % DaysPerMonth = x PROVE DayOn(r, d)
    BY <1>4, <2>1, <2>2 DEF DayOn
  <2>3. Cycle(r, DaysPerMonth, x)
    BY <1>1, <1>2, <2>1, <2>2 DEF Cycle
  <2> QED
    BY <2>3
<1>5. CASE r.alarm.day # Clock!Masked /\ ~r.alarm.byDay
  <2>1. r.alarm.week # {} /\ r.week # {} /\ r.alarm.week \in Weekdays /\ r.week \in Weekdays
    BY <1>5, AlarmTyped DEF Clock!Unmatchable
  <2>2. PICK e \in r.alarm.week, w \in r.week : TRUE
    BY <2>1
  <2> DEFINE n == DaysPerWeek
             c == r.base \div Clock!Day
             x == (e - w + c) % n
  <2>3. e \in 0..n - 1 /\ w \in 0..n - 1 /\ n \in Nat \ {0}
    BY <1>1, <2>1, <2>2 DEF Weekdays
  <2>4. c \in Int
    <3>1. r.base \in Int /\ Clock!Day \in Nat \ {0}
      BY ClockUnits DEF Typed, ClockType
    <3> QED
      BY ONLY <3>1, Parts
  <2> HIDE DEF c
  <2>5. x \in 0..n - 1
    <3>1. e - w + c \in Int
      BY <2>3, <2>4
    <3> QED
      BY ONLY <2>3, <3>1, Parts
  <2>6. ASSUME NEW d \in Int, d % n = x PROVE DayOn(r, d)
    <3>1. e - w + c \in Int /\ w - c \in Int /\ d \in Int
      BY <2>3, <2>4
    <3>2. ((d % n) + (w - c)) % n = (d + (w - c)) % n
      BY ONLY <2>3, <3>1, RemainderAdded
    <3>3. (((e - w + c) % n) + (w - c)) % n = ((e - w + c) + (w - c)) % n
      BY ONLY <2>3, <3>1, RemainderAdded
    <3>4. (e - w + c) + (w - c) = e /\ d + (w - c) = w + (d - c)
      BY <2>3, <2>4
    <3>5. e % n = e
      BY ONLY <2>3, SmallRemainder
    <3>6. (w + (d - c)) % n = e
      BY <2>6, <3>2, <3>3, <3>4, <3>5
    <3>7. e \in Clock!Rotated(r.week, d - c)
      BY <2>2, <3>6 DEF Clock!Rotated
    <3> QED
      BY <1>5, <2>2, <3>7 DEF DayOn, c
  <2> HIDE DEF x
  <2>7. Cycle(r, n, x)
    BY <1>2, <2>3, <2>5, <2>6 DEF Cycle
  <2> QED
    BY <2>7
<1> QED
  BY <1>3, <1>4, <1>5

LEMMA MatchComes ==
  ASSUME NEW r, Typed(r), ~Clock!Unmatchable(r), NEW m \in Nat
  PROVE  \E f \in Hits(r) : f \in m + 1..m + Recurrence
<1> DEFINE h == IF r.alarm.hour = Clock!Masked THEN 0 ELSE r.alarm.hour
           a == IF r.alarm.minute = Clock!Masked THEN 0 ELSE r.alarm.minute
           d == Clock!MinutesPerDay
           s == MinutesPerHour * h + a
<1>1. h \in 0..HoursPerDay - 1 /\ a \in 0..MinutesPerHour - 1
  <2>1. r.alarm.minute \in Nat \cup {Clock!Masked} /\ r.alarm.hour \in Nat \cup {Clock!Masked}
    BY AlarmTyped
  <2>2. ~(r.alarm.minute >= MinutesPerHour) /\ ~(r.alarm.hour >= HoursPerDay)
    BY DEF Clock!Unmatchable
  <2>3. MinutesPerHour \in Nat \ {0} /\ HoursPerDay \in Nat \ {0}
    BY ClockUnits
  <2> QED
    BY <2>1, <2>2, <2>3
<1>2. h = r.alarm.hour \/ r.alarm.hour = Clock!Masked
  OBVIOUS
<1>3. a = r.alarm.minute \/ r.alarm.minute = Clock!Masked
  OBVIOUS
<1>4. d \in Nat \ {0} /\ d = MinutesPerHour * HoursPerDay /\ MinutesPerHour \in Nat \ {0} /\ HoursPerDay \in Nat \ {0}
  BY ClockUnits, UnitsMade
<1> HIDE DEF h, a, d
<1>5. s \in 0..d - 1
  <2>1. MinutesPerHour * (HoursPerDay - 1 - h) >= 0
        /\ MinutesPerHour * (HoursPerDay - 1 - h) = MinutesPerHour * HoursPerDay - MinutesPerHour - MinutesPerHour * h
        /\ MinutesPerHour * h >= 0
    BY <1>1, <1>4
  <2> QED
    BY <1>1, <1>4, <2>1
<1> HIDE DEF s
<1>6. PICK k, x : Cycle(r, k, x)
  BY Cycles
<1>7. k \in Nat \ {0} /\ x \in 0..k - 1 /\ d * k <= Recurrence
  BY <1>6 DEF Cycle, d
<1>8. PICK f \in m + 1..m + d * k : (f \div d) % k = x /\ f % d = s
  <2>1. Again(d, k, s, x, m)
    BY ONLY <1>4, <1>5, <1>7, m \in Nat, ComesAgain
  <2> QED
    BY <2>1 DEF Again
<1>9. f \in Nat /\ f \in m + 1..m + Recurrence
  <2>1. d * k \in Int /\ Recurrence \in Int
    BY <1>4, <1>7, ClockUnits, Longer DEF Recurrence
  <2> QED
    BY <1>7, <1>8, <2>1
<1>10. Clock!HourOf(f) = h /\ Clock!MinuteOf(f) = a
  <2>1. f % Clock!MinutesPerDay = MinutesPerHour * h + a
    BY <1>8 DEF s, d
  <2> QED
    BY <1>1, <1>9, <2>1, OfDay
<1>11. DayOn(r, DayOf(f))
  <2>1. f \div d \in Int
    BY ONLY <1>4, <1>9, Parts
  <2> QED
    BY <1>6, <1>8, <2>1 DEF Cycle, DayOf, d
<1>12. f \in Hits(r)
  <2>1. r.alarm.minute \in {Clock!Masked, Clock!MinuteOf(f)}
    BY <1>3, <1>10
  <2>2. r.alarm.hour \in {Clock!Masked, Clock!HourOf(f)}
    BY <1>2, <1>10
  <2>3. MatchAt(r, f)
    BY <1>11, <2>1, <2>2 DEF MatchAt
  <2> QED
    BY <1>9, <2>3 DEF Hits
<1> QED
  BY <1>9, <1>12

\* An alarm that cannot match has no minute.
LEMMA Never == ASSUME NEW r, Typed(r), Clock!Unmatchable(r) PROVE Hits(r) = {}
<1> SUFFICES ASSUME NEW m \in Hits(r) PROVE FALSE
  OBVIOUS
<1>1. m \in Nat /\ MatchAt(r, m)
  BY DEF Hits
<1>2. MinutesPerHour \in Nat \ {0} /\ HoursPerDay \in Nat \ {0} /\ DaysPerMonth \in Nat \ {0} /\ Clock!MinutesPerDay \in Nat \ {0}
  BY ClockUnits
<1>3. Clock!MinuteOf(m) \in 0..MinutesPerHour - 1
  BY ONLY <1>1, <1>2, Parts DEF Clock!MinuteOf
<1>4. Clock!HourOf(m) \in 0..HoursPerDay - 1
  <2>1. m \div MinutesPerHour \in Int
    BY ONLY <1>1, <1>2, Parts
  <2> QED
    BY ONLY <1>2, <2>1, Parts DEF Clock!HourOf
<1>5. (DayOf(m) % DaysPerMonth) + 1 \in 1..DaysPerMonth
  <2>1. DayOf(m) \in Int
    BY ONLY <1>1, <1>2, Parts DEF DayOf
  <2>2. DayOf(m) % DaysPerMonth \in 0..DaysPerMonth - 1
    BY ONLY <1>2, <2>1, Parts
  <2> QED
    BY <1>2, <2>2
<1>6. r.alarm.minute < MinutesPerHour /\ r.alarm.hour < HoursPerDay
  BY <1>1, <1>2, <1>3, <1>4 DEF MatchAt, Clock!Masked
<1>7. r.alarm.byDay /\ r.alarm.day # Clock!Masked => r.alarm.day \in 1..DaysPerMonth
  BY <1>1, <1>5 DEF MatchAt, DayOn
<1>8. ~r.alarm.byDay /\ r.alarm.day # Clock!Masked => r.alarm.week # {} /\ r.week # {}
  BY <1>1 DEF MatchAt, DayOn, Clock!Rotated
<1> QED
  <2>1. ~(r.alarm.minute >= MinutesPerHour) /\ ~(r.alarm.hour >= HoursPerDay)
    BY <1>2, <1>6, AlarmTyped DEF Clock!Masked
  <2> QED
    BY <1>7, <1>8, <2>1 DEF Clock!Unmatchable

-----------------------------------------------------------------------------
(* The timer: it stands at the first minute that matches.                   *)
Natural(r) ==
  /\ r.base \in Nat /\ r.elapsed \in 0..MaxTime
  /\ r.shown.second \in Nat /\ r.shown.minute \in Nat /\ r.shown.hour \in Nat /\ r.shown.day \in Nat /\ r.shown.month \in Nat
  /\ r.secondsWritten => r.dirty

MinuteNow(r) == Clock!calendarTime(r) \div Clock!Minute
FirstFrom(r, f) == f <= MinuteNow(r) + Recurrence /\ \A k \in (MinuteNow(r) + 1)..f - 1 : k \notin Hits(r)
StandsAt(r, f) == f \in Hits(r) /\ Clock!calendarTime(r) + r.timer = f * Clock!Minute /\ (r.timer > 0 => FirstFrom(r, f))
TimerSet(r) ==
  IF r.timer = Clock!NoTimer THEN r.stop \/ r.flag \/ Clock!Unmatchable(r)
  ELSE ~r.stop /\ ~r.flag /\ r.timer \in Nat /\ \E f : StandsAt(r, f)
AlarmSet(r) == (r.irq <=> (r.flag /\ r.enable)) /\ TimerSet(r)

AlarmInv == ClockInv /\ Natural(rtc) /\ AlarmSet(rtc)

SameAlarm(r, y) ==
  /\ y.base = r.base /\ y.elapsed = r.elapsed /\ y.stop = r.stop /\ y.week = r.week /\ y.alarm = r.alarm
  /\ y.flag = r.flag /\ y.enable = r.enable /\ y.timer = r.timer /\ y.irq = r.irq

LEMMA SameHits ==
  ASSUME NEW r, NEW y, y.alarm = r.alarm, y.week = r.week, y.base = r.base
  PROVE  Hits(y) = Hits(r) /\ (Clock!Unmatchable(y) <=> Clock!Unmatchable(r))
  BY DEF Hits, MatchAt, DayOn, Clock!Unmatchable

LEMMA SameTimer == ASSUME NEW r, NEW y, SameAlarm(r, y), AlarmSet(r) PROVE AlarmSet(y)
<1>1. Hits(y) = Hits(r) /\ (Clock!Unmatchable(y) <=> Clock!Unmatchable(r))
  BY SameHits DEF SameAlarm
<1>2. Clock!calendarTime(y) = Clock!calendarTime(r) /\ MinuteNow(y) = MinuteNow(r)
  BY DEF SameAlarm, Clock!calendarTime, MinuteNow
<1>3. ASSUME NEW f PROVE StandsAt(y, f) <=> StandsAt(r, f)
  BY <1>1, <1>2 DEF StandsAt, FirstFrom, SameAlarm
<1>4. TimerSet(y) <=> TimerSet(r)
  BY <1>1, <1>3 DEF TimerSet, SameAlarm
<1> QED
  BY <1>4 DEF AlarmSet, SameAlarm

LEMMA TimeNatural ==
  ASSUME NEW r, Typed(r), Natural(r)
  PROVE  /\ Clock!calendarTime(r) \in Nat /\ MinuteNow(r) \in Nat
         /\ Clock!Minute * MinuteNow(r) <= Clock!calendarTime(r)
         /\ Clock!calendarTime(r) < Clock!Minute * (MinuteNow(r) + 1)
<1> DEFINE t == Clock!calendarTime(r)
           u == Clock!Minute
           m == t \div u
<1>1. t \in Nat
  <2>1. r.base \in Nat /\ r.elapsed \in Nat
    BY TimeAssumption DEF Natural, Clock!ClockAssumption
  <2> QED
    BY <2>1 DEF Clock!calendarTime
<1>2. u \in Nat \ {0}
  BY ClockUnits
<1>3. MinuteNow(r) = m
  BY DEF MinuteNow
<1> HIDE DEF t, u
<1>4. m \in Int /\ t % u \in 0..u - 1 /\ t = u * m + (t % u) /\ m >= 0
  <2>1. m \in Int /\ t % u \in 0..u - 1 /\ t = u * m + (t % u)
    BY ONLY <1>1, <1>2, Parts
  <2>2. m >= 0
    BY <1>1, <1>2
  <2> QED
    BY <2>1, <2>2
<1> HIDE DEF m
<1>5. m \in Nat /\ u * m <= t /\ t < u * (m + 1)
  <2> DEFINE a == u * m
             e == t % u
  <2>1. a \in Int /\ u * (m + 1) = a + u /\ t = a + e /\ e \in 0..u - 1
    BY <1>2, <1>4
  <2> HIDE DEF a, e
  <2>2. a <= t /\ t < u * (m + 1)
    BY <1>2, <2>1
  <2> QED
    BY <1>4, <2>2 DEF a
<1> QED
  BY <1>1, <1>3, <1>5 DEF t, u

\* A multiple of the minute that is still to come.
LEMMA StillToCome ==
  ASSUME NEW u \in Nat \ {0}, NEW m \in Nat, NEW f \in Nat, NEW t \in Nat, u * m <= t, t < u * (m + 1)
  PROVE  (f * u > t) <=> (f >= m + 1)
<1>1. CASE f >= m + 1
  <2>1. u * (f - (m + 1)) >= 0 /\ u * (f - (m + 1)) = f * u - u * (m + 1)
    BY <1>1
  <2> QED
    BY <1>1, <2>1
<1>2. CASE f < m + 1
  <2>1. u * (m - f) >= 0 /\ u * (m - f) = u * m - f * u
    BY <1>2
  <2> QED
    BY <1>2, <2>1
<1> QED
  BY <1>1, <1>2

\* updateAlarm: the flag gates the line, and the timer stands at the first match.
LEMMA AlarmFound ==
  ASSUME NEW r, Typed(r), Natural(r)
  PROVE  LET y == Clock!updateAlarm(r) IN Natural(y) /\ AlarmSet(y)
<1> DEFINE line == r.flag /\ r.enable
           time == IF r.stop \/ r.flag \/ Clock!Unmatchable(r) THEN Clock!NoTimer ELSE Clock!NextMatch(r) * Clock!Minute - Clock!calendarTime(r)
           y == Clock!updateAlarm(r)
           t == Clock!calendarTime(r)
           m == MinuteNow(r)
           u == Clock!Minute
<1>1. r \in ClockType({r.timer}) /\ line \in BOOLEAN
  BY DEF Typed, ClockType
<1>2. y = [r EXCEPT !.irq = line, !.timer = time]
  BY DEF Clock!updateAlarm
<1> HIDE DEF y
<1>3. /\ y.timer = time /\ y.base = r.base /\ y.elapsed = r.elapsed /\ y.stop = r.stop /\ y.week = r.week /\ y.shown = r.shown
      /\ y.alarm = r.alarm /\ y.flag = r.flag /\ y.enable = r.enable
      /\ y.dirty = r.dirty /\ y.secondsWritten = r.secondsWritten
  <2> HIDE DEF line, time
  <2> QED
    BY <1>1, <1>2 DEF ClockType
<1>4. y.irq <=> (y.flag /\ y.enable)
  <2>1. y.irq = line
    <3> HIDE DEF line, time
    <3> QED
      BY <1>1, <1>2 DEF ClockType
  <2> HIDE DEF time
  <2> QED
    BY <1>3, <2>1
<1>5. Natural(y)
  BY <1>3 DEF Natural
<1>6. Hits(y) = Hits(r) /\ (Clock!Unmatchable(y) <=> Clock!Unmatchable(r))
  BY <1>3, SameHits
<1>7. Clock!calendarTime(y) = t /\ MinuteNow(y) = m
  BY <1>3 DEF Clock!calendarTime, MinuteNow
<1>8. ASSUME r.stop \/ r.flag \/ Clock!Unmatchable(r) PROVE TimerSet(y)
  <2>1. y.timer = Clock!NoTimer
    BY <1>3, <1>8
  <2>2. y.stop \/ y.flag \/ Clock!Unmatchable(y)
    <3> HIDE DEF time
    <3> QED
      BY <1>3, <1>6, <1>8
  <2> QED
    BY ONLY <2>1, <2>2 DEF TimerSet
<1>9. ASSUME ~(r.stop \/ r.flag \/ Clock!Unmatchable(r)) PROVE TimerSet(y)
  <2>1. t \in Nat /\ m \in Nat /\ u \in Nat \ {0} /\ u * m <= t /\ t < u * (m + 1)
    BY TimeNatural, ClockUnits
  <2>2. \E f \in Hits(r) : f \in m + 1..m + Recurrence
    BY <1>9, <2>1, MatchComes
  <2>3. PICK f : f \in Hits(r) /\ f \in m + 1..m + Recurrence /\ \A k \in (m + 1)..f - 1 : k \notin Hits(r)
    <3> DEFINE S == {k \in Hits(r) : k \in m + 1..m + Recurrence}
    <3>1. Recurrence \in Int
      BY ClockUnits, Longer DEF Recurrence
    <3>2. S \subseteq Nat /\ S # {}
      BY <2>2 DEF Hits
    <3>3. PICK f \in S : \A k \in S : f <= k
      <4> HIDE DEF S
      <4> QED
        BY <3>2, LeastOf
    <3>4. ASSUME NEW k \in (m + 1)..f - 1, k \in Hits(r) PROVE FALSE
      <4>1. f \in m + 1..m + Recurrence /\ k \in m + 1..m + Recurrence /\ k < f
        BY <2>1, <3>1, <3>3
      <4>2. f <= k
        BY <3>3, <3>4, <4>1
      <4> QED
        BY <2>1, <3>1, <4>1, <4>2
    <3> QED
      BY <3>3, <3>4
  <2>4. f \in Nat /\ f >= m + 1 /\ f <= m + Recurrence
    <3>1. f \in Nat
      BY <2>3 DEF Hits
    <3>2. Recurrence \in Int
      BY ClockUnits, Longer DEF Recurrence
    <3> QED
      BY <2>1, <2>3, <3>1, <3>2
  <2>5. Clock!NextMatch(r) = f
    <3>1. Clock!calendarTime(r) \div Clock!Minute + 1 = m + 1
      BY DEF MinuteNow
    <3> HIDE DEF m
    <3>2. m + 1 \in Nat
      BY <2>1
    <3> QED
      BY <1>9, <2>3, <2>4, <3>1, <3>2, FirstMatch
  <2>6. y.timer = f * u - t
    BY <1>3, <1>9, <2>5
  <2>7. f * u > t /\ f * u \in Nat
    <3> HIDE DEF u, m, t
    <3>1. f * u > t
      BY ONLY <2>1, <2>4, StillToCome
    <3> QED
      BY <2>1, <2>4, <3>1
  <2>8. y.timer \in Nat /\ y.timer > 0 /\ t + y.timer = f * u /\ y.timer # Clock!NoTimer
    <3> DEFINE a == f * u
    <3>1. y.timer = a - t /\ a \in Nat /\ a > t
      BY <2>6, <2>7
    <3> HIDE DEF a, u, t
    <3>2. y.timer \in Nat /\ y.timer > 0 /\ t + y.timer = a
      BY <2>1, <3>1
    <3> QED
      BY <3>2 DEF Clock!NoTimer, a
  <2>9. StandsAt(y, f)
    <3>1. FirstFrom(y, f)
      BY <1>6, <1>7, <2>3, <2>4 DEF FirstFrom
    <3> QED
      BY <1>6, <1>7, <2>3, <2>8, <3>1 DEF StandsAt
  <2>10. ~y.stop /\ ~y.flag
    <3> HIDE DEF time
    <3> QED
      BY <1>3, <1>9
  <2>11. \E g : StandsAt(y, g)
    BY ONLY <2>9
  <2>12. y.timer \in Nat /\ y.timer # Clock!NoTimer
    BY <2>8
  <2> QED
    BY ONLY <2>10, <2>11, <2>12 DEF TimerSet
<1> QED
  BY <1>4, <1>5, <1>8, <1>9 DEF AlarmSet, y

\* The registers show natural numbers.
LEMMA FieldsNatural ==
  ASSUME NEW t \in Nat, NEW week
  PROVE  LET f == Clock!Fields(t, week)
         IN f.second \in Nat /\ f.minute \in Nat /\ f.hour \in Nat /\ f.day \in Nat /\ f.month \in Nat
<1> DEFINE hour == Clock!Minute * MinutesPerHour
           month == Clock!Day * DaysPerMonth
           f == Clock!Fields(t, week)
<1>1. ASSUME NEW a \in Nat \ {0}, NEW b \in Nat \ {0} PROVE t \div a \in Nat /\ (t \div a) % b \in Nat
  <2>1. t \div a \in Nat
    OBVIOUS
  <2>2. (t \div a) % b \in 0..b - 1
    BY ONLY <2>1, b \in Nat \ {0}, Parts
  <2> QED
    BY <2>1, <2>2
<1>2. hour \in Nat \ {0} /\ month \in Nat \ {0}
  <2>1. \A a, b \in Nat \ {0} : a * b \in Nat \ {0}
    BY Longer
  <2> QED
    BY <2>1, ClockUnits
<1> HIDE DEF hour, month
<1>3. (t \div TicksPerSecond) % SecondsPerMinute \in Nat /\ (t \div Clock!Minute) % MinutesPerHour \in Nat
  BY <1>1, ClockUnits
<1>4. (t \div hour) % HoursPerDay \in Nat /\ (t \div Clock!Day) % DaysPerMonth \in Nat /\ t \div month \in Nat
  BY <1>1, <1>2, ClockUnits
<1>5. /\ f.second = (t \div TicksPerSecond) % SecondsPerMinute /\ f.minute = (t \div Clock!Minute) % MinutesPerHour
      /\ f.hour = (t \div hour) % HoursPerDay /\ f.day = ((t \div Clock!Day) % DaysPerMonth) + 1 /\ f.month = t \div month
  BY DEF Clock!Fields, hour, month
<1> HIDE DEF f
<1> QED
  BY <1>3, <1>4, <1>5 DEF f

LEMMA ShownKept ==
  ASSUME NEW r, Typed(r), Natural(r)
  PROVE  LET y == Clock!snapshot(r) IN Natural(y) /\ (AlarmSet(r) => AlarmSet(y))
<1> DEFINE fields == Clock!Fields(Clock!calendarTime(r), Clock!weekAt(r, Clock!calendarTime(r)))
           y == Clock!snapshot(r)
<1>1. r \in ClockType({r.timer})
  BY DEF Typed
<1>2. fields.second \in Nat /\ fields.minute \in Nat /\ fields.hour \in Nat /\ fields.day \in Nat /\ fields.month \in Nat
  BY TimeNatural, FieldsNatural
<1> HIDE DEF fields
<1>3. CASE r.dirty \/ r.stop
  BY <1>3 DEF Clock!snapshot
<1>4. CASE ~(r.dirty \/ r.stop)
  <2>1. y = [r EXCEPT !.shown = fields]
    BY <1>4 DEF Clock!snapshot, fields
  <2> HIDE DEF y
  <2>2. SameAlarm(r, y) /\ y.shown = fields /\ y.dirty = r.dirty /\ y.secondsWritten = r.secondsWritten
    BY <1>1, <2>1 DEF ClockType, SameAlarm
  <2>3. Natural(y)
    BY <1>2, <2>2 DEF Natural, SameAlarm
  <2>4. AlarmSet(r) => AlarmSet(y)
    BY <2>2, SameTimer
  <2> QED
    BY <2>3, <2>4 DEF y
<1> QED
  BY <1>3, <1>4

LEMMA TimeOfNatural ==
  ASSUME NEW f \in ShownType, f.second \in Nat, f.minute \in Nat, f.hour \in Nat, f.month \in Nat, f.day \in 1..DaysPerMonth
  PROVE  Clock!Time(f) \in Nat
<1> DEFINE days == DaysPerMonth * f.month + f.day - 1
           minutes == MinutesPerHour * f.hour + f.minute
           a == Clock!Day * days
           b == Clock!Minute * minutes
           c == TicksPerSecond * f.second
<1>1. /\ DaysPerMonth \in Nat \ {0} /\ MinutesPerHour \in Nat \ {0} /\ TicksPerSecond \in Nat \ {0}
      /\ Clock!Minute \in Nat \ {0} /\ Clock!Day \in Nat \ {0}
  BY ClockUnits
<1>2. \A x, y \in Nat : x * y \in Nat
  OBVIOUS
<1>3. days \in Nat
  <2> DEFINE x == DaysPerMonth * f.month
  <2>1. x \in Nat
    BY <1>1, <1>2
  <2> HIDE DEF x
  <2> QED
    BY <1>1, <2>1 DEF x
<1>4. minutes \in Nat
  <2> DEFINE x == MinutesPerHour * f.hour
  <2>1. x \in Nat
    BY <1>1, <1>2
  <2> HIDE DEF x
  <2> QED
    BY <1>1, <2>1 DEF x
<1> HIDE DEF days, minutes
<1>5. a \in Nat /\ b \in Nat /\ c \in Nat
  BY <1>1, <1>2, <1>3, <1>4
<1>6. Clock!Time(f) = a + b + c
  BY DEF Clock!Time, days, minutes
<1> HIDE DEF a, b, c
<1> QED
  BY <1>5, <1>6

\* What was written is a calendar of natural numbers, of which the alarm is found again.
LEMMA CommitKept ==
  ASSUME NEW r, Typed(r), Natural(r)
  PROVE  LET y == Clock!commit(r) IN Natural(y) /\ (AlarmSet(r) => AlarmSet(y))
<1> DEFINE clean == [r EXCEPT !.dirty = FALSE, !.secondsWritten = FALSE]
           fraction == IF r.secondsWritten THEN 0 ELSE Clock!calendarTime(r) % TicksPerSecond
           time == Clock!Time(r.shown) + fraction
           set == [clean EXCEPT !.base = time, !.elapsed = 0, !.week = r.shown.week]
           y == Clock!commit(r)
<1>1. r \in ClockType({r.timer}) /\ r.shown \in ShownType
  BY DEF Typed, ClockType
<1>2. fraction \in Nat
  <2>1. Clock!calendarTime(r) \in Int /\ TicksPerSecond \in Nat \ {0}
    BY TimeTyped, ClockUnits
  <2>2. Clock!calendarTime(r) % TicksPerSecond \in 0..TicksPerSecond - 1
    BY ONLY <2>1, Parts
  <2> QED
    BY <2>1, <2>2
<1> HIDE DEF fraction
<1>3. clean \in ClockType({r.timer}) /\ clean.timer = r.timer
  <2> DEFINE none == FALSE
  <2>1. none \in BOOLEAN /\ clean = [r EXCEPT !.dirty = none, !.secondsWritten = none]
    OBVIOUS
  <2> HIDE DEF none, clean
  <2> QED
    BY <1>1, <2>1 DEF ClockType
<1>4. SameAlarm(r, clean) /\ clean.shown = r.shown /\ ~clean.secondsWritten
  <2>1. SameAlarm(r, clean) /\ clean.shown = r.shown
    <3> DEFINE none == FALSE
    <3>1. clean = [r EXCEPT !.dirty = none, !.secondsWritten = none]
      OBVIOUS
    <3> HIDE DEF none, clean
    <3> QED
      BY <1>1, <3>1 DEF ClockType, SameAlarm
  <2>2. ~clean.secondsWritten
    BY <1>1 DEF ClockType
  <2> QED
    BY <2>1, <2>2
<1> HIDE DEF clean
<1>5. CASE ~r.dirty \/ r.stop
  <2>1. y = r
    BY <1>5 DEF Clock!commit
  <2> QED
    BY <2>1
<1>6. CASE r.dirty /\ ~r.stop /\ ~Clock!Valid(r.shown)
  <2> DEFINE true == TRUE
  <2>1. y = [clean EXCEPT !.low = true]
    BY <1>6 DEF Clock!commit, clean
  <2> HIDE DEF y, true
  <2>2. SameAlarm(clean, y) /\ y.shown = clean.shown /\ y.secondsWritten = clean.secondsWritten
    BY <1>3, <2>1 DEF ClockType, SameAlarm
  <2>3. SameAlarm(r, y)
    BY <1>4, <2>2 DEF SameAlarm
  <2>4. Natural(y)
    <3>1. ~y.secondsWritten /\ y.shown = r.shown
      BY <1>4, <2>2
    <3> QED
      BY <2>3, <3>1 DEF Natural, SameAlarm
  <2>5. AlarmSet(r) => AlarmSet(y)
    BY <2>3, SameTimer
  <2> QED
    BY <2>4, <2>5 DEF y
<1>7. CASE r.dirty /\ ~r.stop /\ Clock!Valid(r.shown)
  <2> DEFINE zero == 0
  <2>1. y = Clock!updateAlarm(set)
    BY <1>7 DEF Clock!commit, clean, fraction
  <2>2. time \in Nat
    <3>1. Clock!Time(r.shown) \in Nat
      BY <1>1, <1>7, TimeOfNatural DEF Natural, Clock!Valid
    <3> QED
      BY <1>2, <3>1
  <2>3. zero \in Int /\ zero \in 0..MaxTime /\ r.shown.week \in Weekdays /\ time \in Int
        /\ set = [clean EXCEPT !.base = time, !.elapsed = zero, !.week = r.shown.week]
    BY <1>1, <2>2, TimeAssumption DEF ShownType, Clock!ClockAssumption
  <2> HIDE DEF zero, set, time, y
  <2>4. set \in ClockType({r.timer}) /\ set.timer = r.timer
    BY <1>3, <2>3 DEF ClockType
  <2>5. set.base = time /\ set.elapsed = zero /\ set.shown = clean.shown /\ set.secondsWritten = clean.secondsWritten
    BY <1>3, <2>3 DEF ClockType
  <2>6. Typed(set)
    BY <2>4 DEF Typed
  <2>7. Natural(set)
    <3>1. ~set.secondsWritten /\ set.shown = r.shown
      BY <1>4, <2>5
    <3> QED
      BY <2>2, <2>3, <2>5, <3>1 DEF Natural
  <2>8. Natural(y) /\ AlarmSet(y)
    BY <2>1, <2>6, <2>7, AlarmFound
  <2> QED
    BY <2>8 DEF y
<1> QED
  BY <1>5, <1>6, <1>7

\* What a handler leaves is the alarm of the next state.
LEMMA AlarmBecomes ==
  ASSUME NEW r, Clock!Becomes(r) \/ rtc' = r, Natural(r), AlarmSet(r)
  PROVE  Natural(rtc)' /\ AlarmSet(rtc)'
<1>1. rtc' = r
  BY DEF Clock!Becomes
<1>2. Natural(rtc') /\ AlarmSet(rtc')
  BY <1>1
<1>3. Natural(rtc)' <=> Natural(rtc')
  BY DEF Natural
<1>4. AlarmSet(rtc)' <=> AlarmSet(rtc')
  BY DEF AlarmSet, TimerSet, StandsAt, FirstFrom, MinuteNow, Hits, MatchAt, DayOn, DayOf, Recurrence, Clock!Unmatchable, Clock!NoTimer,
         Clock!Masked, Clock!MinuteOf, Clock!HourOf, Clock!Rotated, Clock!calendarTime, Clock!Day, Clock!Minute, Clock!MinutesPerDay
<1> QED
  BY <1>2, <1>3, <1>4

LEMMA AlarmTransfer ==
  ASSUME AlarmInv, Clock!StartTransfer \/ Clock!Finish
  PROVE  Natural(rtc)' /\ AlarmSet(rtc)'
<1> SUFFICES ASSUME NEW on \in BOOLEAN, NEW r, Clock!Becomes(r),
                    LET c == Clock!commit([rtc EXCEPT !.transfer = on]) IN r \in {c, Clock!snapshot(c)}
             PROVE  Natural(rtc)' /\ AlarmSet(rtc)'
  BY DEF Clock!StartTransfer, Clock!Finish
<1> DEFINE m == [rtc EXCEPT !.transfer = on]
           c == Clock!commit(m)
<1>1. rtc \in ClockType({rtc.timer}) /\ Natural(rtc) /\ AlarmSet(rtc)
  BY DEF AlarmInv, ClockInv, Typed
<1>2. m \in ClockType({rtc.timer}) /\ m.timer = rtc.timer
  BY <1>1 DEF ClockType
<1>3. SameAlarm(rtc, m) /\ m.shown = rtc.shown /\ m.dirty = rtc.dirty /\ m.secondsWritten = rtc.secondsWritten
  BY <1>1 DEF ClockType, SameAlarm
<1>4. r \in {c, Clock!snapshot(c)}
  OBVIOUS
<1> HIDE DEF m
<1>5. Typed(m) /\ Natural(m) /\ AlarmSet(m)
  <2>1. Typed(m)
    BY <1>2 DEF Typed
  <2>2. Natural(m)
    BY <1>1, <1>3 DEF Natural, SameAlarm
  <2> QED
    BY <1>1, <1>3, <2>1, <2>2, SameTimer
<1>6. Typed(c) /\ Natural(c) /\ AlarmSet(c)
  BY <1>5, CommitTaken, CommitKept
<1> HIDE DEF c
<1>7. Natural(Clock!snapshot(c)) /\ AlarmSet(Clock!snapshot(c))
  BY <1>6, ShownKept
<1>8. Natural(r) /\ AlarmSet(r)
  BY <1>4, <1>6, <1>7
<1> QED
  BY <1>8, AlarmBecomes

LEMMA AlarmRegisters ==
  ASSUME AlarmInv,
         \/ Clock!AlarmExpired
         \/ \E a \in Alarms : Clock!WriteAlarm(a)
         \/ \E came, low \in BOOLEAN : Clock!WriteFlags(came, low)
  PROVE  Natural(rtc)' /\ AlarmSet(rtc)'
<1>1. rtc \in ClockType({rtc.timer}) /\ Natural(rtc)
  BY DEF AlarmInv, ClockInv, Typed
<1> SUFFICES ASSUME NEW m, Typed(m), Natural(m), Clock!Becomes(Clock!updateAlarm(m))
             PROVE  Natural(rtc)' /\ AlarmSet(rtc)'
  <2>1. CASE Clock!AlarmExpired
    <3> DEFINE true == TRUE
               m == [rtc EXCEPT !.flag = true]
    <3>1. Clock!Becomes(Clock!updateAlarm(m)) /\ true \in BOOLEAN
      BY <2>1 DEF Clock!AlarmExpired
    <3> HIDE DEF true
    <3>2. m \in ClockType({rtc.timer}) /\ m.timer = rtc.timer /\ SameCalendar(rtc, m) /\ m.shown = rtc.shown
      BY <1>1, <3>1 DEF ClockType, SameCalendar
    <3> HIDE DEF m
    <3>3. Typed(m) /\ Natural(m)
      BY <1>1, <3>2 DEF Typed, Natural, SameCalendar
    <3> QED
      BY <3>1, <3>3
  <2>2. ASSUME NEW a \in Alarms, Clock!WriteAlarm(a)
        PROVE  Natural(rtc)' /\ AlarmSet(rtc)'
    <3> DEFINE m == [rtc EXCEPT !.alarm = a]
    <3>1. Clock!Becomes(Clock!updateAlarm(m))
      BY <2>2 DEF Clock!WriteAlarm
    <3>2. m \in ClockType({rtc.timer}) /\ m.timer = rtc.timer /\ SameCalendar(rtc, m) /\ m.shown = rtc.shown
      BY <1>1 DEF ClockType, SameCalendar
    <3> HIDE DEF m
    <3>3. Typed(m) /\ Natural(m)
      BY <1>1, <3>2 DEF Typed, Natural, SameCalendar
    <3> QED
      BY <3>1, <3>3
  <2>3. ASSUME NEW came \in BOOLEAN, NEW low \in BOOLEAN, Clock!WriteFlags(came, low)
        PROVE  Natural(rtc)' /\ AlarmSet(rtc)'
    <3> DEFINE kept == rtc.flag /\ came
               lost == rtc.low /\ low
               m == [rtc EXCEPT !.flag = kept, !.low = lost]
    <3>1. Clock!Becomes(Clock!updateAlarm(m)) /\ kept \in BOOLEAN /\ lost \in BOOLEAN
      BY <1>1, <2>3 DEF Clock!WriteFlags, ClockType
    <3> HIDE DEF kept, lost
    <3>2. m \in ClockType({rtc.timer}) /\ m.timer = rtc.timer /\ SameCalendar(rtc, m) /\ m.shown = rtc.shown
      BY <1>1, <3>1 DEF ClockType, SameCalendar
    <3> HIDE DEF m
    <3>3. Typed(m) /\ Natural(m)
      BY <1>1, <3>2 DEF Typed, Natural, SameCalendar
    <3> QED
      BY <3>1, <3>3
  <2> QED
    BY <2>1, <2>2, <2>3
<1>2. Natural(Clock!updateAlarm(m)) /\ AlarmSet(Clock!updateAlarm(m))
  BY AlarmFound
<1> QED
  BY <1>2, AlarmBecomes

LEMMA AlarmCalendar ==
  ASSUME AlarmInv, NEW w \in CalendarWrites, Clock!WriteCalendar(w[1], w[2])
  PROVE  Natural(rtc)' /\ AlarmSet(rtc)'
<1> DEFINE f == w[1]
           v == w[2]
           true == TRUE
           seconds == rtc.secondsWritten \/ f = "second"
           new == [rtc.shown EXCEPT ![f] = v]
           r == [rtc EXCEPT !.shown = new, !.dirty = true, !.secondsWritten = seconds]
<1>1. rtc \in ClockType({rtc.timer}) /\ rtc.shown \in ShownType /\ Natural(rtc) /\ AlarmSet(rtc)
  BY DEF AlarmInv, ClockInv, Typed, ClockType
<1>2. \/ f = "week"
      \/ f \in {"second", "minute", "hour", "day", "month"} /\ v \in Nat
  BY TimeAssumption DEF Clock!ClockAssumption
<1>3. new.second \in Nat /\ new.minute \in Nat /\ new.hour \in Nat /\ new.day \in Nat /\ new.month \in Nat
  <2> HIDE DEF f, v
  <2> QED
    BY <1>1, <1>2 DEF ShownType, Natural
<1>4. Clock!Becomes(r) /\ true
  BY <1>1 DEF Clock!WriteCalendar, ClockType
<1> HIDE DEF new, true, seconds
<1>5. SameAlarm(rtc, r)
  BY <1>1 DEF ClockType, SameAlarm
<1>6. r.shown = new /\ r.dirty
  BY <1>1, <1>4 DEF ClockType
<1> HIDE DEF r
<1>7. Natural(r)
  BY <1>1, <1>3, <1>5, <1>6 DEF Natural, SameAlarm
<1>8. AlarmSet(r)
  BY <1>1, <1>5, SameTimer
<1> QED
  BY <1>4, <1>7, <1>8, AlarmBecomes

LEMMA AlarmControl ==
  ASSUME AlarmInv, NEW stop \in BOOLEAN, NEW enable \in BOOLEAN, Clock!WriteControl(stop, enable)
  PROVE  Natural(rtc)' /\ AlarmSet(rtc)'
<1> DEFINE c == Clock!commit(rtc)
           seen == Clock!snapshot(c)
           t == Clock!calendarTime(seen)
           now == Clock!weekAt(seen, t)
           stays == IF stop = seen.stop THEN seen ELSE [seen EXCEPT !.week = now, !.base = t, !.elapsed = 0]
           m == [stays EXCEPT !.stop = stop, !.enable = enable]
           d == Clock!commit(m)
           y == Clock!updateAlarm(d)
<1>1. Typed(rtc) /\ Natural(rtc)
  BY DEF AlarmInv, ClockInv
<1>2. Typed(c) /\ Natural(c)
  BY <1>1, CommitTaken, CommitKept
<1>3. Typed(seen) /\ Natural(seen)
  BY <1>2, SnapshotTaken, ShownKept
<1>4. Clock!Becomes(y)
  BY DEF Clock!WriteControl
<1> HIDE DEF c, seen
<1>5. seen \in ClockType({seen.timer}) /\ t \in Nat /\ t \in Int /\ now \in Weekdays
  BY <1>3, TimeTyped, TimeNatural DEF Typed, WeekNow
<1>6. stays \in ClockType({seen.timer}) /\ stays.timer = seen.timer /\ Natural(stays)
  <2>1. CASE stop = seen.stop
    BY <1>3, <1>5, <2>1
  <2>2. CASE stop # seen.stop
    <3> DEFINE zero == 0
    <3>1. zero \in Int /\ zero \in 0..MaxTime /\ stays = [seen EXCEPT !.week = now, !.base = t, !.elapsed = zero]
      BY <2>2, TimeAssumption DEF Clock!ClockAssumption
    <3> HIDE DEF stays, now, t, zero
    <3>2. stays.timer = seen.timer /\ stays.shown = seen.shown /\ stays.dirty = seen.dirty
          /\ stays.secondsWritten = seen.secondsWritten /\ stays.base = t /\ stays.elapsed = zero
      BY <1>5, <3>1 DEF ClockType
    <3>3. stays \in ClockType({seen.timer})
      BY <1>5, <3>1 DEF ClockType
    <3>4. Natural(stays)
      BY <1>3, <1>5, <3>1, <3>2 DEF Natural
    <3> QED
      BY <3>2, <3>3, <3>4
  <2> QED
    BY <2>1, <2>2
<1> HIDE DEF stays
<1>7. m \in ClockType({seen.timer}) /\ m.timer = seen.timer
  BY <1>6 DEF ClockType
<1>8. SameCalendar([stays EXCEPT !.stop = stop], m) /\ m.shown = stays.shown /\ m.base = stays.base /\ m.elapsed = stays.elapsed
      /\ m.dirty = stays.dirty /\ m.secondsWritten = stays.secondsWritten
  BY <1>6 DEF ClockType, SameCalendar
<1> HIDE DEF m
<1>9. Typed(m) /\ Natural(m)
  BY <1>6, <1>7, <1>8 DEF Typed, Natural
<1>10. Typed(d) /\ Natural(d)
  BY <1>9, CommitTaken, CommitKept
<1> HIDE DEF d
<1>11. Natural(y) /\ AlarmSet(y)
  BY <1>10, AlarmFound
<1> HIDE DEF y
<1> QED
  BY <1>4, <1>11, AlarmBecomes

\* The host dispatches the timer before anything else: a due timer does not tick.
LEMMA AlarmTicks ==
  ASSUME ~Late, AlarmInv, Clock!Tick
  PROVE  Natural(rtc)' /\ AlarmSet(rtc)'
<1> DEFINE next == rtc.elapsed + 1
           time == IF rtc.timer > 0 THEN rtc.timer - 1 ELSE rtc.timer
           r == [rtc EXCEPT !.elapsed = next, !.timer = time]
           t == Clock!calendarTime(rtc)
           u == Clock!Minute
           m == MinuteNow(rtc)
<1>1. rtc \in ClockType({rtc.timer}) /\ Natural(rtc) /\ AlarmSet(rtc) /\ Typed(rtc)
  BY DEF AlarmInv, ClockInv, Typed
<1>2. rtc' = r
  BY <1>1 DEF Clock!Tick, ClockType
<1>3. rtc.timer # 0 /\ rtc.elapsed < MaxTime
  BY DEF Clock!Tick, Clock!Dispatched, Clock!Due
<1>4. next \in Int /\ next \in 0..MaxTime
  BY <1>1, <1>3, TimeAssumption DEF Natural, Clock!ClockAssumption
<1> HIDE DEF next, time
<1>5. /\ r.timer = time /\ r.base = rtc.base /\ r.week = rtc.week /\ r.elapsed = next /\ r.shown = rtc.shown /\ r.stop = rtc.stop
      /\ r.alarm = rtc.alarm /\ r.flag = rtc.flag /\ r.enable = rtc.enable /\ r.irq = rtc.irq
      /\ r.dirty = rtc.dirty /\ r.secondsWritten = rtc.secondsWritten /\ r \in ClockType({time})
  BY <1>1, <1>4 DEF ClockType
<1> HIDE DEF r
<1>6. Natural(r) /\ Typed(r)
  BY <1>1, <1>4, <1>5 DEF Natural, Typed
<1>7. Hits(r) = Hits(rtc) /\ (Clock!Unmatchable(r) <=> Clock!Unmatchable(rtc))
  BY <1>5, SameHits
<1>8. ASSUME rtc.timer = Clock!NoTimer PROVE TimerSet(r)
  <2>1. r.timer = Clock!NoTimer
    BY <1>5, <1>8 DEF time, Clock!NoTimer
  <2>2. rtc.stop \/ rtc.flag \/ Clock!Unmatchable(rtc)
    BY <1>1, <1>8 DEF AlarmSet, TimerSet
  <2> QED
    BY <1>5, <1>7, <2>1, <2>2 DEF TimerSet
<1>9. ASSUME rtc.timer # Clock!NoTimer PROVE TimerSet(r)
  <2>1. ~rtc.stop /\ ~rtc.flag /\ rtc.timer \in Nat
    BY <1>1, <1>9 DEF AlarmSet, TimerSet
  <2>2. PICK f : StandsAt(rtc, f)
    BY <1>1, <1>9 DEF AlarmSet, TimerSet
  <2>3. rtc.timer > 0 /\ time = rtc.timer - 1 /\ time \in Nat /\ time # Clock!NoTimer
    BY <1>3, <2>1 DEF time, Clock!NoTimer
  <2>4. f \in Hits(rtc) /\ t + rtc.timer = f * u /\ FirstFrom(rtc, f) /\ f \in Nat
    BY <2>2, <2>3 DEF StandsAt, Hits
  <2>5. t \in Nat /\ m \in Nat /\ u \in Nat \ {0} /\ u * m <= t
    BY <1>1, TimeNatural, ClockUnits
  <2>6. Clock!calendarTime(r) = t + 1
    BY <1>1, <1>5, <2>1 DEF Clock!calendarTime, next, Natural
  <2>7. MinuteNow(r) \in Nat /\ MinuteNow(r) >= m
    <3>1. MinuteNow(r) \in Nat /\ t + 1 < u * (MinuteNow(r) + 1)
      BY <1>6, <2>6, TimeNatural
    <3> DEFINE k == MinuteNow(r)
    <3> HIDE DEF k, t, u, m
    <3>2. CASE k < m
      <4>1. u * (m - (k + 1)) >= 0 /\ u * (m - (k + 1)) = u * m - u * (k + 1)
        BY <2>5, <3>1, <3>2 DEF k
      <4> QED
        BY <2>5, <3>1, <4>1 DEF k
    <3> QED
      BY <2>5, <3>1, <3>2 DEF k
  <2>8. FirstFrom(r, f)
    <3>1. Recurrence \in Int
      BY ClockUnits, Longer DEF Recurrence
    <3>2. f <= m + Recurrence /\ \A k \in (m + 1)..f - 1 : k \notin Hits(r)
      BY <1>7, <2>4 DEF FirstFrom
    <3> HIDE DEF m
    <3>3. f <= MinuteNow(r) + Recurrence
      BY <2>4, <2>5, <2>7, <3>1, <3>2
    <3>4. \A k \in (MinuteNow(r) + 1)..f - 1 : k \in (m + 1)..f - 1
      BY <2>4, <2>5, <2>7
    <3> QED
      BY <3>2, <3>3, <3>4 DEF FirstFrom
  <2>9. (t + 1) + time = f * u
    <3> DEFINE a == f * u
    <3>1. t + rtc.timer = a /\ a \in Int
      BY <2>4, <2>5
    <3> HIDE DEF a, t
    <3>2. (t + 1) + time = a
      BY <2>1, <2>3, <2>5, <3>1
    <3> QED
      BY <3>2 DEF a
  <2>10. StandsAt(r, f)
    <3>1. f \in Hits(r) /\ Clock!calendarTime(r) + r.timer = f * u
      BY <1>5, <1>7, <2>4, <2>6, <2>9
    <3> QED
      BY <2>8, <3>1 DEF StandsAt
  <2>11. r.timer \in Nat /\ r.timer # Clock!NoTimer
    BY <1>5, <2>3
  <2>12. ~r.stop /\ ~r.flag
    BY <1>5, <2>1
  <2>13. \E g : StandsAt(r, g)
    BY ONLY <2>10
  <2> QED
    BY ONLY <2>11, <2>12, <2>13 DEF TimerSet
<1>10. AlarmSet(r)
  <2>1. r.irq <=> (r.flag /\ r.enable)
    BY <1>1, <1>5 DEF AlarmSet
  <2> QED
    BY <1>8, <1>9, <2>1 DEF AlarmSet
<1> QED
  BY <1>2, <1>6, <1>10, AlarmBecomes

LEMMA AlarmInit == Clock!Init => AlarmInv
<1> SUFFICES ASSUME Clock!Init PROVE Natural(rtc) /\ AlarmSet(rtc)
  BY ClockInit DEF AlarmInv
<1>0. PICK a \in Alarms :
        rtc = Clock!updateAlarm([base |-> 1, elapsed |-> 0, stop |-> FALSE, week |-> {0}, shown |-> Clock!Fields(1, {0}),
                dirty |-> FALSE, secondsWritten |-> FALSE, alarm |-> a, flag |-> FALSE, low |-> FALSE,
                enable |-> FALSE, timer |-> Clock!NoTimer, irq |-> FALSE, transfer |-> FALSE])
  BY DEF Clock!Init
<1> DEFINE one == 1
           zero == 0
           none == FALSE
           sunday == {0}
           fields == Clock!Fields(one, sunday)
           r == [base |-> one, elapsed |-> zero, stop |-> none, week |-> sunday, shown |-> fields,
                 dirty |-> none, secondsWritten |-> none, alarm |-> a, flag |-> none, low |-> none,
                 enable |-> none, timer |-> Clock!NoTimer, irq |-> none, transfer |-> none]
<1>1. one \in Nat /\ one \in Int /\ zero \in Int /\ zero \in 0..MaxTime /\ none \in BOOLEAN /\ ~none /\ sunday \in Weekdays
  BY ClockUnits, TimeAssumption DEF Weekdays, Clock!ClockAssumption
<1>2. /\ fields \in ShownType
      /\ fields.second \in Nat /\ fields.minute \in Nat /\ fields.hour \in Nat /\ fields.day \in Nat /\ fields.month \in Nat
  BY <1>1, FieldsTyped, FieldsNatural
<1>3. rtc = Clock!updateAlarm(r)
  BY <1>0
<1> HIDE DEF fields, sunday, one, zero
<1>4. ~r.secondsWritten
  BY <1>1
<1> HIDE DEF none
<1>5. r \in ClockType({Clock!NoTimer}) /\ r.timer = Clock!NoTimer
  BY <1>1, <1>2 DEF ClockType
<1>6. r.base = one /\ r.elapsed = zero /\ r.shown = fields
  OBVIOUS
<1> HIDE DEF r
<1>7. Typed(r) /\ Natural(r)
  BY <1>1, <1>2, <1>4, <1>5, <1>6 DEF Typed, Natural
<1> QED
  BY <1>3, <1>7, AlarmFound

LEMMA AlarmStep == ASSUME ~Late PROVE AlarmInv /\ [Clock!Next]_Clock!vars => AlarmInv'
<1> SUFFICES ASSUME AlarmInv, [Clock!Next]_Clock!vars PROVE Natural(rtc)' /\ AlarmSet(rtc)'
  BY ClockStep DEF AlarmInv
<1> DEFINE Fine == Natural(rtc)' /\ AlarmSet(rtc)'
<1>1. CASE Clock!Tick
  BY <1>1, AlarmTicks
<1>2. CASE Clock!StartTransfer \/ Clock!Finish
  BY <1>2, AlarmTransfer
<1>3. CASE \/ Clock!AlarmExpired
           \/ \E a \in Alarms : Clock!WriteAlarm(a)
           \/ \E came, low \in BOOLEAN : Clock!WriteFlags(came, low)
  BY <1>3, AlarmRegisters
<1>4. ASSUME NEW w \in CalendarWrites, Clock!WriteCalendar(w[1], w[2]) PROVE Fine
  BY <1>4, AlarmCalendar
<1>5. ASSUME NEW stop \in BOOLEAN, NEW enable \in BOOLEAN, Clock!WriteControl(stop, enable) PROVE Fine
  BY <1>5, AlarmControl
<1>6. CASE UNCHANGED Clock!vars
  <2>1. rtc' = rtc
    BY <1>6 DEF Clock!vars
  <2> QED
    BY <2>1, AlarmBecomes DEF AlarmInv
<1> QED
  BY <1>1, <1>2, <1>3, <1>4, <1>5, <1>6 DEF Clock!Next

\* The next match, minute by minute, of what the timer is set for.
LEMMA AlarmIsExact == AlarmInv => Clock!TypeOK /\ Clock!AlarmExact
<1> SUFFICES ASSUME AlarmInv PROVE Clock!TypeOK /\ Clock!AlarmExact
  OBVIOUS
<1> DEFINE t == Clock!calendarTime(rtc)
           u == Clock!Minute
           m == MinuteNow(rtc)
           next == t + rtc.timer
<1>1. rtc \in ClockType({rtc.timer}) /\ Typed(rtc) /\ Natural(rtc) /\ AlarmSet(rtc)
  BY DEF AlarmInv, ClockInv, Typed
<1>2. t \in Nat /\ m \in Nat /\ u \in Nat \ {0} /\ u * m <= t /\ t < u * (m + 1) /\ Recurrence \in Int
  BY <1>1, TimeNatural, ClockUnits, Longer DEF Recurrence
<1>3. ASSUME NEW c \in Clock!Carries PROVE \E k \in m + 1..m + Recurrence : c = k * u /\ k \in Nat
  <2>1. PICK k \in m + 1..m + Recurrence : c = k * u
    BY DEF Clock!Carries, MinuteNow, Recurrence
  <2> QED
    BY <1>2, <2>1
<1>4. Clock!TypeOK
  <2>1. rtc.timer \in Nat \cup {Clock!NoTimer}
    BY <1>1 DEF AlarmSet, TimerSet
  <2>2. rtc.stop => rtc.timer = Clock!NoTimer
    BY <1>1 DEF AlarmSet, TimerSet
  <2>3. {rtc.stop, rtc.dirty, rtc.secondsWritten, rtc.flag, rtc.low, rtc.enable, rtc.irq, rtc.transfer} \subseteq BOOLEAN
    BY <1>1 DEF ClockType
  <2>4. rtc.week \subseteq 0..DaysPerWeek - 1 /\ rtc.alarm \in Alarms
    BY <1>1 DEF ClockType, Weekdays
  <2>5. rtc.base \in Nat /\ rtc.elapsed \in 0..MaxTime /\ (rtc.secondsWritten => rtc.dirty)
    BY <1>1 DEF Natural
  <2> QED
    BY <2>1, <2>2, <2>3, <2>4, <2>5 DEF Clock!TypeOK
<1>5. rtc.irq = (rtc.flag /\ rtc.enable)
  <2>1. rtc.irq <=> (rtc.flag /\ rtc.enable)
    BY <1>1 DEF AlarmSet
  <2>2. rtc.irq \in BOOLEAN
    BY <1>1 DEF ClockType
  <2> QED
    BY <2>1, <2>2
<1>6. ASSUME rtc.timer = Clock!NoTimer, ~rtc.stop, ~rtc.flag, NEW c \in Clock!Carries PROVE ~Clock!Matches(c)
  <2>1. Clock!Unmatchable(rtc)
    BY <1>1, <1>6 DEF AlarmSet, TimerSet
  <2>2. Hits(rtc) = {}
    BY <1>1, <2>1, Never
  <2>3. PICK k \in Nat : c = k * u
    BY <1>3
  <2>4. ~MatchAt(rtc, k)
    BY <2>2, <2>3 DEF Hits
  <2> QED
    BY <2>3, <2>4, MatchesAt
<1>7. ASSUME rtc.timer # Clock!NoTimer
      PROVE  /\ ~rtc.stop /\ ~rtc.flag /\ next % u = 0 /\ Clock!Matches(next)
             /\ rtc.timer > 0 => next \in Clock!Carries /\ \A c \in Clock!Carries : c < next => ~Clock!Matches(c)
  <2>1. ~rtc.stop /\ ~rtc.flag /\ rtc.timer \in Nat
    BY <1>1, <1>7 DEF AlarmSet, TimerSet
  <2>2. PICK f : StandsAt(rtc, f)
    BY <1>1, <1>7 DEF AlarmSet, TimerSet
  <2>3. f \in Nat /\ MatchAt(rtc, f) /\ next = f * u
    BY <2>2 DEF StandsAt, Hits
  <2> HIDE DEF t, u, m, next
  <2>4. next % u = 0
    <3>1. (f * u) % u = 0
      <4>1. 1 \in Nat \ {0} /\ f \in Int /\ u \in Nat \ {0}
        BY <1>2, <2>3
      <4> QED
        BY ONLY <4>1, Scaled
    <3> QED
      BY <2>3, <3>1
  <2>5. Clock!Matches(next)
    <3>1. f \in Int /\ next = f * Clock!Minute
      BY <2>3 DEF u
    <3> QED
      BY <2>3, <3>1, MatchesAt
  <2>6. ASSUME rtc.timer > 0 PROVE next \in Clock!Carries
    <3>1. f <= m + Recurrence
      BY <2>2, <2>6 DEF StandsAt, FirstFrom, m
    <3>2. f * u > t
      <4> DEFINE a == f * u
      <4>1. a = t + rtc.timer
        BY <2>3 DEF next
      <4> HIDE DEF a
      <4>2. a > t
        BY <1>2, <2>1, <2>6, <4>1
      <4> QED
        BY <4>2 DEF a
    <3>3. f >= m + 1
      BY ONLY <1>2, <2>3, <3>2, StillToCome
    <3>4. f \in m + 1..m + Recurrence
      BY <1>2, <2>3, <3>1, <3>3
    <3> QED
      BY <2>3, <3>4 DEF Clock!Carries, m, u, MinuteNow, Recurrence
  <2>7. ASSUME rtc.timer > 0, NEW c \in Clock!Carries, c < next PROVE ~Clock!Matches(c)
    <3>1. PICK k \in m + 1..m + Recurrence : c = k * u /\ k \in Nat
      BY <1>3
    <3>2. k < f
      <4>1. CASE k >= f
        <5>1. u * (k - f) >= 0 /\ u * (k - f) = k * u - f * u
          BY <1>2, <2>3, <3>1, <4>1
        <5>2. k * u < f * u
          BY <2>3, <2>7, <3>1
        <5> QED
          BY <1>2, <2>3, <3>1, <5>1, <5>2
      <4> QED
        BY <2>3, <3>1, <4>1
    <3>3. k \in (m + 1)..f - 1
      BY <1>2, <2>3, <3>1, <3>2
    <3>4. k \notin Hits(rtc)
      BY <2>2, <2>7, <3>3 DEF StandsAt, FirstFrom, m
    <3>5. ~MatchAt(rtc, k)
      BY <3>1, <3>4 DEF Hits
    <3>6. k \in Int /\ c = k * Clock!Minute
      BY <3>1 DEF u
    <3> QED
      BY <3>5, <3>6, MatchesAt
  <2> QED
    BY <2>1, <2>4, <2>5, <2>6, <2>7
<1>8. rtc.timer > 0 => rtc.timer # Clock!NoTimer
  BY <1>4 DEF Clock!TypeOK, Clock!NoTimer
<1> HIDE DEF t, u, m, next
<1>9. Clock!AlarmExact
  BY <1>5, <1>6, <1>7, <1>8 DEF Clock!AlarmExact, t, u, next
<1> QED
  BY <1>4, <1>9

(* However the alarm, the calendar and STOP are written, the timer stands   *)
(* at the first minute that the alarm matches, there is none if it matches  *)
(* none, and WEEK follows the calendar: rx8130ce_alarm_update, of which the *)
(* search is shown to end at the first match, and to find one if there is.  *)
THEOREM RtcCorrect == ASSUME ~Late PROVE Clock!Spec => []RtcSafety
<1>1. AlarmInv => Clock!RtcSafety
  BY AlarmIsExact DEF AlarmInv, ClockInv, WeekNow, Clock!WeekExact, Clock!RtcSafety
<1>2. AlarmInv /\ [Clock!Next]_Clock!vars => AlarmInv'
  BY AlarmStep
<1> QED
  BY AlarmInit, <1>1, <1>2, PTL DEF Clock!Spec, RtcSafety

-----------------------------------------------------------------------------
(* What a step of the clock, the motion sensor and the panel may never do,  *)
(* together: shift the clock's second, a sensor's samples or a refresh, or  *)
(* change the picture without an update.                                    *)
THEOREM DeviceStepsCorrect ==
  ASSUME \A r, q \in Rates : Period[r] = Period[q] => r = q
  PROVE  Clock!Spec /\ Motion!Spec /\ Display!Spec => DeviceSteps
<1>1. Motion!Spec => Motion!CadenceKept
  BY CadenceCorrect
<1> QED
  BY <1>1, PhaseCorrect, UpdatesCorrect, TeCorrect DEF DeviceSteps
=============================================================================
