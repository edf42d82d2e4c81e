----------------------------- MODULE TouchPanel -----------------------------
(* CST820, the touch controller, and the pin of the M5IOE1 expander that     *)
(* resets it.  The board writes the finger into the chip on every tick; the  *)
(* chip shows it in its report registers and pulses its interrupt line when  *)
(* the report changes.  The pulse is a timer: one that has run down releases *)
(* the line before time goes on, but another event of the same moment may    *)
(* come first.                                                               *)
EXTENDS Integers

CONSTANTS
  Points,         \* where a finger can be
  Origin,         \* the point of a cleared report
  Values,         \* bound: values written to IrqPulseWidthReg
  MaxWidth,       \* the longest pulse
  DefaultWidth,   \* the one after a reset
  StartupDelay    \* time from the end of a reset until the chip scans

ASSUME TouchAssumption ==
  /\ Origin \in Points /\ Values \subseteq Nat /\ MaxWidth \in Nat /\ DefaultWidth \in 1..MaxWidth
  /\ StartupDelay \in Nat \ {0}

VARIABLES
  ioe,            \* M5IOE1: direction, output and open-drain bits of the reset pin
  touch,          \* what the board wrote last: down, and where
  resetAsserted,
  readyIn,        \* time until touchReadyAtNs
  asleep, enabled, width,   \* SleepModeReg = 3, ChangeInterrupt in IrqControlReg, IrqPulseWidthReg
  report,         \* TouchCountReg and the point of TouchXHighReg..TouchYLowReg
  irq, timer,     \* the line, high when TRUE; time until irqTimer, or NoTimer
  guest           \* history: a change that was not read, an edge since the last read,
                  \* and whether that read came within the pulse

chip == <<resetAsserted, readyIn, asleep, enabled, width>>
vars == <<ioe, touch, resetAsserted, readyIn, asleep, enabled, width, report, irq, timer, guest>>

NoTimer == -1
NoTouch == [down |-> FALSE, at |-> Origin]
Ready == ~resetAsserted /\ ~asleep /\ readyIn = 0

\* connectFrontend has no input yet; powerInput was called once and starts the delay.
Init ==
  /\ ioe = [direction |-> FALSE, output |-> FALSE, openDrain |-> FALSE]
  /\ touch = NoTouch /\ report = NoTouch
  /\ resetAsserted = FALSE /\ readyIn = StartupDelay
  /\ asleep = FALSE /\ enabled = FALSE /\ width = DefaultWidth
  /\ irq = TRUE /\ timer = NoTimer
  /\ guest = [owed |-> FALSE, edge |-> FALSE, early |-> FALSE]

-----------------------------------------------------------------------------
(* updateTouch, from the report as it was and everything else as it now is   *)

Down == Ready' /\ touch'.down

\* Plausible bug: a finger that moves is not a change.
ChangedCount(old) == Down # old.down

Changed(old) == Down # old.down \/ (Down /\ touch'.at # old.at)

\* Plausible bug: masking raises the line and leaves the timer.
MaskedLine == irq' = TRUE /\ timer' = timer

Masked == irq' = TRUE /\ timer' = NoTimer

Pulse == irq' = FALSE /\ timer' = width'

\* Plausible bug: every change starts the pulse anew.
InterruptExtends(old) ==
  \/ ~(Ready' /\ enabled') /\ Masked
  \/ Ready' /\ enabled' /\ Changed(old) /\ Pulse
  \/ Ready' /\ enabled' /\ ~Changed(old) /\ UNCHANGED <<irq, timer>>

Interrupt(old) ==
  \/ ~(Ready' /\ enabled') /\ Masked
  \/ Ready' /\ enabled' /\ Changed(old) /\ timer = NoTimer /\ Pulse
  \/ Ready' /\ enabled' /\ ~(Changed(old) /\ timer = NoTimer) /\ UNCHANGED <<irq, timer>>

Report(old) ==
  /\ report' = [down |-> Down, at |-> touch'.at]
  /\ Interrupt(old)

Told(old) ==
  IF ~(Ready' /\ enabled') THEN [guest EXCEPT !.owed = FALSE, !.early = FALSE]
  ELSE LET falls == irq /\ ~irq' IN
       [owed  |-> guest.owed \/ Down # old.down \/ (Down /\ touch'.at # old.at),
        edge  |-> guest.edge \/ falls,
        early |-> guest.early /\ ~falls]

UpdateTouch(old) == Report(old) /\ guest' = Told(old)

-----------------------------------------------------------------------------
(* The board and the chip's timers                                           *)

\* Plausible bug: an unchanged finger is not written again.
SetTouchIfChanged(t) == t # touch /\ touch' = t /\ UNCHANGED <<ioe, chip>> /\ UpdateTouch(report)

\* boardTick: cst820SetTouch, with an old or with a new finger.
SetTouch(t) == touch' = t /\ UNCHANGED <<ioe, chip>> /\ UpdateTouch(report)

\* Plausible bug: the timer runs and nobody raises the line.
ReleaseIrqSilently == timer = 0 /\ timer' = NoTimer /\ UNCHANGED <<ioe, touch, chip, report, irq, guest>>

ReleaseIrq ==
  /\ timer = 0
  /\ timer' = NoTimer /\ irq' = TRUE /\ UNCHANGED <<ioe, touch, chip, report, guest>>

Elapse ==
  /\ timer # 0 /\ (timer > 0 \/ readyIn > 0)
  /\ timer' = IF timer > 0 THEN timer - 1 ELSE timer
  /\ readyIn' = IF readyIn > 0 THEN readyIn - 1 ELSE 0
  /\ UNCHANGED <<ioe, touch, resetAsserted, asleep, enabled, width, report, irq, guest>>

-----------------------------------------------------------------------------
(* I2C: an address the chip acknowledges is a report brought up to date      *)

\* deviceEvent, and deviceReceive of the report.
ReadReport ==
  /\ ~resetAsserted /\ UNCHANGED <<ioe, touch, chip>>
  /\ Report(report)
  /\ guest' = [owed |-> FALSE, edge |-> FALSE, early |-> timer' # NoTimer]

\* Plausible bug: sleep takes effect at the next tick.
WriteSleepLater(on) ==
  /\ ~resetAsserted /\ asleep' = on
  /\ UNCHANGED <<ioe, touch, resetAsserted, readyIn, enabled, width, report, irq, timer, guest>>

WriteSleep(on) ==
  /\ ~resetAsserted /\ asleep' = on
  /\ UNCHANGED <<ioe, touch, resetAsserted, readyIn, enabled, width>> /\ UpdateTouch(report)

WriteControl(on) ==
  /\ ~resetAsserted /\ enabled' = on
  /\ UNCHANGED <<ioe, touch, resetAsserted, readyIn, asleep, width>> /\ UpdateTouch(report)

Clamp(v) == IF v < 1 THEN 1 ELSE IF v > MaxWidth THEN MaxWidth ELSE v

\* Plausible bug: the width is taken as written.
WriteWidthRaw(v) ==
  /\ ~resetAsserted /\ width' = v
  /\ UNCHANGED <<ioe, touch, resetAsserted, readyIn, asleep, enabled, report, irq, timer, guest>>

\* The width is read when the next pulse begins.
WriteWidth(v) ==
  /\ ~resetAsserted /\ width' = Clamp(v)
  /\ UNCHANGED <<ioe, touch, resetAsserted, readyIn, asleep, enabled, report, irq, timer, guest>>

-----------------------------------------------------------------------------
(* The expander: every write drives the reset line again                     *)

\* resetRegisters
Cleared == asleep' = FALSE /\ enabled' = FALSE /\ width' = DefaultWidth

\* drive[]: released unless an output, and unless high with an open drain.
Drive(r) == IF r.direction /\ ~(r.output /\ r.openDrain) THEN (IF r.output THEN "high" ELSE "low") ELSE "released"

ResetInput(asserted) ==
  \/ asserted = resetAsserted /\ UNCHANGED <<chip, report, irq, timer, guest>>
  \/ /\ asserted /\ ~resetAsserted
     /\ resetAsserted' = TRUE /\ Cleared /\ readyIn' = readyIn
     /\ UpdateTouch(NoTouch)
  \/ /\ ~asserted /\ resetAsserted
     /\ resetAsserted' = FALSE /\ readyIn' = StartupDelay /\ UNCHANGED <<asleep, enabled, width>>
     /\ UpdateTouch(report)

UpdateOutputs == ResetInput(Drive(ioe') = "low")

\* Plausible bug: the direction alone does not drive the pin.
WriteIoeOutput(r) ==
  /\ ioe' = r /\ UNCHANGED touch
  /\ IF r.output # ioe.output THEN UpdateOutputs ELSE UNCHANGED <<chip, report, irq, timer, guest>>

WriteIoe(r) == ioe' = r /\ UNCHANGED touch /\ UpdateOutputs

WriteDirection(on) == WriteIoe([ioe EXCEPT !.direction = on])
WriteOutput(on) == WriteIoe([ioe EXCEPT !.output = on])
WriteOpenDrain(on) == WriteIoe([ioe EXCEPT !.openDrain = on])

\* A one-wire mode selection leaves the pin an output, and high.
OneWire == WriteIoe([ioe EXCEPT !.direction = TRUE, !.output = TRUE])

\* CommandReg 0x3A: resetRegisters.
IoeReset == WriteIoe([direction |-> FALSE, output |-> FALSE, openDrain |-> FALSE])

-----------------------------------------------------------------------------
Touches == [down : BOOLEAN, at : Points]

Next ==
  \/ \E t \in Touches : SetTouch(t)
  \/ ReleaseIrq \/ Elapse \/ ReadReport
  \/ \E on \in BOOLEAN : WriteSleep(on)
  \/ \E on \in BOOLEAN : WriteControl(on)
  \/ \E v \in Values : WriteWidth(v)
  \/ \E on \in BOOLEAN : WriteDirection(on)
  \/ \E on \in BOOLEAN : WriteOutput(on)
  \/ \E on \in BOOLEAN : WriteOpenDrain(on)
  \/ OneWire \/ IoeReset

Spec == Init /\ [][Next]_vars

\* The board ticks and time passes, whatever the guest does.
Tick == SetTouch(touch)
LiveSpec == Spec /\ WF_vars(Elapse) /\ WF_vars(ReleaseIrq) /\ WF_vars(Tick)

-----------------------------------------------------------------------------
(* Types of the state.                                                        *)
TypeOK ==
  /\ ioe \in [direction : BOOLEAN, output : BOOLEAN, openDrain : BOOLEAN]
  /\ touch \in Touches /\ report \in Touches
  /\ resetAsserted \in BOOLEAN /\ readyIn \in 0..StartupDelay
  /\ asleep \in BOOLEAN /\ enabled \in BOOLEAN /\ width \in 1..MaxWidth
  /\ irq \in BOOLEAN /\ timer \in {NoTimer} \cup 0..MaxWidth
  /\ guest \in [owed : BOOLEAN, edge : BOOLEAN, early : BOOLEAN]

(* A chip in reset, asleep or starting reports no finger, and a finger it      *)
(* reports is the one the board wrote last: no path through reset, sleep and   *)
(* delay leaves an old report behind (updateTouch's callers).                  *)
NoGhostTouch == report.down => Ready /\ touch = report

(* The line is low exactly while its release is scheduled, and only in a chip  *)
(* that scans with its interrupt enabled: a cancelled pulse neither stays low  *)
(* nor leaves a timer that would cut the next one short.                       *)
LineHeldByTimer == (~irq <=> timer # NoTimer) /\ (~irq => Ready /\ enabled)

(* The chip is in reset exactly when the expander drives its pin low: an input *)
(* or an open drain that is high releases it, whichever register came last.    *)
ResetFollowsPin == resetAsserted <=> ioe.direction /\ ~ioe.output

(* A guest that reads the report once the pulse is over misses no change: what *)
(* changed since its last read has an edge, the changes that were coalesced    *)
(* into a running pulse included.  Only a read within the pulse can leave a    *)
(* later change of that pulse without an edge of its own.                      *)
ChangeSignalled == guest.owed /\ ~guest.early => guest.edge

(* All of the above, the state's invariants, for runs that take the chip with others. *)
TouchSafety == TypeOK /\ NoGhostTouch /\ LineHeldByTimer /\ ResetFollowsPin /\ ChangeSignalled

(* A pulse ends at its own deadline or is cancelled with the line raised:      *)
(* neither another change, nor a new width, nor a read extends it.             *)
OwnDeadline == [][timer # NoTimer => timer' \in {timer, timer - 1} \/ (timer' = NoTimer /\ irq')]_vars

(* However the finger moves and whatever the guest writes, a low line rises.   *)
LineRises == ~irq ~> irq

(* A finger that stays on a chip that is left alone awake is reported.         *)
TouchReported ==
  <>[](touch.down /\ ~resetAsserted /\ ~asleep) => <>[](report.down)
=============================================================================
