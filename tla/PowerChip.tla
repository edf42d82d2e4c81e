----------------------------- MODULE PowerChip -----------------------------
(* M5PM1, the power chip: its interrupt output, the pins that feed it, and    *)
(* the power button's clicks.  One unit of time is the shortest delay that    *)
(* can be configured; a timer whose time has come runs before time goes on,   *)
(* but an input of the same moment may come first.                            *)
EXTENDS Integers, FiniteSets

CONSTANTS
  Pins,           \* pins of the chip
  NetPin,         \* the one that the clock's and the motion sensor's interrupts share
  PinValues,      \* bound: function, direction and output of a pin
  MaskValues,     \* bound: interrupt masks
  Delays,         \* bound: delays for a single and for a double click
  LongDelay,      \* when a press is long
  MaxClicks       \* bound: short presses of the button

Functions == {"gpio", "irq", "other"}
ButtonIrqs == {"single", "double"}

ASSUME PowerAssumption ==
  /\ PinValues \subseteq [function : Functions, direction : BOOLEAN, output : BOOLEAN]
  /\ MaskValues \subseteq SUBSET (Pins \cup ButtonIrqs)
  /\ NetPin \in Pins /\ LongDelay \in Nat \ {0} /\ MaxClicks \in Nat
  /\ Delays \subseteq Nat \ {0} /\ \E d \in Delays : \A e \in Delays : d >= e

VARIABLES
  function, direction, output,  \* GPIO function, direction and output registers
  masks, status,                \* interrupt masks and status: pins and button
  click, action,                \* ButtonClickReg, ButtonActionReg
  inputs, levels,               \* what the board drives; what the pins show
  net,                          \* the board: interrupts of the clock and the motion sensor
  pressed, flag,                \* ButtonStatusReg
  second, timer,                \* secondClick; time to the click timer, or -1
  held, since,                  \* time since the press, while pressed; since the release, while the timer runs
  clicks                        \* history: short presses and what became of them

gpio == <<function, direction, output, masks, inputs, net>>
button == <<click, action, pressed, flag, second, timer, held, since, clicks>>
vars == <<function, direction, output, masks, status, click, action, inputs, levels, net,
          pressed, flag, second, timer, held, since, clicks>>

MaxDelay == CHOOSE d \in Delays : \A e \in Delays : d >= e
Max(a, b) == IF a >= b THEN a ELSE b
NoTimer == -1

-----------------------------------------------------------------------------
(* updateOutputs: a function of the registers and of the status it leaves     *)

HasIrqOutput(f) == \E p \in Pins : f[p] = "irq"

\* Plausible bug: what was latched before is kept for the next interrupt output.
KeptAlways(f, s) == s

Kept(f, s) == IF HasIrqOutput(f) THEN s ELSE {}

LevelsOf(f, d, o, m, s, i) ==
  [p \in Pins |-> CASE f[p] = "irq"         -> s \subseteq m
                    [] f[p] # "irq" /\ d[p] -> o[p]
                    [] OTHER                -> i[p]]

\* With the primed registers, and "latched" added to the status.
UpdateOutputs(latched) ==
  /\ status' = Kept(function', latched)
  /\ levels' = LevelsOf(function', direction', output', masks', status', inputs')

Init ==
  /\ function = [p \in Pins |-> "gpio"] /\ direction = [p \in Pins |-> FALSE] /\ output = [p \in Pins |-> FALSE]
  /\ masks = {} /\ status = {} /\ action = FALSE
  /\ click \in [report : {FALSE}, single : Delays, double : Delays]
  /\ inputs = [p \in Pins |-> TRUE] /\ levels = inputs
  /\ net = [clock |-> FALSE, motion |-> FALSE]
  /\ pressed = FALSE /\ flag = FALSE /\ second = FALSE /\ timer = NoTimer /\ held = 0 /\ since = 0
  /\ clicks = [made |-> 0, singles |-> 0, doubles |-> 0, dropped |-> 0]

-----------------------------------------------------------------------------
(* Pins                                                                       *)

\* gpioInput, "level" being new.
Input(p, level) ==
  /\ inputs' = [inputs EXCEPT ![p] = level] /\ UNCHANGED <<function, direction, output, masks, button>>
  /\ UpdateOutputs(IF inputs[p] # level /\ ~direction[p] /\ function[p] = "gpio" THEN status \cup {p} ELSE status)

GpioInput(p, level) == p # NetPin /\ Input(p, level) /\ UNCHANGED net

\* Plausible bug: the line follows the device that changed last.
RtcImuInterruptLast(source, asserted) ==
  net' = [net EXCEPT ![source] = asserted] /\ Input(NetPin, ~asserted)

\* rtcImuInterrupt: two open-drain outputs on one line.
RtcImuInterrupt(source, asserted) ==
  net' = [net EXCEPT ![source] = asserted] /\ Input(NetPin, ~net'.clock /\ ~net'.motion)

-----------------------------------------------------------------------------
(* Registers                                                                  *)

WritePins(p, v) ==
  /\ function' = [function EXCEPT ![p] = v.function] /\ direction' = [direction EXCEPT ![p] = v.direction]
  /\ output' = [output EXCEPT ![p] = v.output]
  /\ UNCHANGED <<masks, inputs, net>> /\ UpdateOutputs(status) /\ UNCHANGED button

\* Plausible bug: a mask takes effect with the next event.
WriteMasksLater(m) == masks' = m /\ UNCHANGED <<function, direction, output, inputs, net, status, levels, button>>

WriteMasks(m) ==
  /\ masks' = m /\ UNCHANGED <<function, direction, output, inputs, net>>
  /\ UpdateOutputs(status) /\ UNCHANGED button

\* Write zero to clear.
WriteStatus(kept) == UNCHANGED gpio /\ UpdateOutputs(status \cap kept) /\ UNCHANGED button

\* The click and action registers are read when they are used.
WriteClick(c, a) ==
  /\ click' = c /\ action' = a
  /\ UNCHANGED <<gpio, status, levels, pressed, flag, second, timer, held, since, clicks>>

\* deviceReceive: reading clears the press flag, even while held.
ReadButton == flag' = FALSE /\ UNCHANGED <<gpio, status, levels, click, action, pressed, second, timer, held, since, clicks>>

-----------------------------------------------------------------------------
(* The button                                                                 *)

\* clickExpired: a single click is reported, or would reset.
Report(kind, reports) == UNCHANGED gpio /\ UpdateOutputs(IF reports THEN status \cup {kind} ELSE status)

ClickExpired ==
  /\ timer = 0 /\ timer' = NoTimer /\ since' = 0 /\ Report("single", click.report)
  /\ clicks' = [clicks EXCEPT !.singles = @ + 1]
  /\ UNCHANGED <<click, action, pressed, flag, second, held>>

\* Plausible bug: the earlier click is forgotten by a press that is not part of it.
PressForgets ==
  /\ ~pressed /\ clicks.made < MaxClicks
  /\ pressed' = TRUE /\ flag' = TRUE /\ held' = 0 /\ timer' = NoTimer /\ since' = 0
  /\ second' = (timer # NoTimer /\ since <= click.double)
  /\ UNCHANGED <<gpio, status, levels, clicks, click, action>>

\* buttonInput, pressed: within the time for a double click, or a press by itself.
Press ==
  /\ ~pressed /\ clicks.made < MaxClicks
  /\ pressed' = TRUE /\ flag' = TRUE /\ held' = 0 /\ timer' = NoTimer /\ since' = 0
  /\ second' = (timer # NoTimer /\ since <= click.double)
  /\ IF timer # NoTimer /\ ~second'
     THEN Report("single", click.report) /\ clicks' = [clicks EXCEPT !.singles = @ + 1]
     ELSE UNCHANGED <<gpio, status, levels, clicks>>
  /\ UNCHANGED <<click, action>>

\* Plausible bug: a long press is not told from a short one.
ReleaseLongCounts ==
  /\ pressed /\ held >= LongDelay
  /\ pressed' = FALSE /\ held' = 0 /\ since' = 0 /\ timer' = Max(click.single, click.double)
  /\ UNCHANGED <<gpio, status, levels, flag, click, action, second, clicks>>

\* Released after a long press: no click, and the one before it is dropped.
ReleaseLong ==
  /\ pressed /\ held >= LongDelay
  /\ pressed' = FALSE /\ held' = 0 /\ second' = FALSE
  /\ clicks' = [clicks EXCEPT !.dropped = IF second THEN @ + 1 ELSE @]
  /\ UNCHANGED <<gpio, status, levels, flag, click, action, timer, since>>

ReleaseSecond ==
  /\ pressed /\ held < LongDelay /\ second
  /\ pressed' = FALSE /\ held' = 0 /\ second' = FALSE /\ Report("double", action)
  /\ clicks' = [clicks EXCEPT !.made = @ + 1, !.doubles = @ + 1]
  /\ UNCHANGED <<flag, click, action, timer, since>>

ReleaseFirst ==
  /\ pressed /\ held < LongDelay /\ ~second
  /\ pressed' = FALSE /\ held' = 0 /\ since' = 0 /\ timer' = Max(click.single, click.double)
  /\ clicks' = [clicks EXCEPT !.made = @ + 1]
  /\ UNCHANGED <<gpio, status, levels, flag, click, action, second>>

Tick ==
  /\ timer # 0 /\ timer' = IF timer = NoTimer THEN NoTimer ELSE timer - 1
  /\ held' = IF pressed /\ held < LongDelay THEN held + 1 ELSE held
  /\ since' = IF timer # NoTimer THEN since + 1 ELSE since
  /\ UNCHANGED <<gpio, status, levels, click, action, pressed, flag, second, clicks>>

Next ==
  \/ \E p \in Pins, l \in BOOLEAN : GpioInput(p, l)
  \/ \E s \in {"clock", "motion"}, a \in BOOLEAN : RtcImuInterrupt(s, a)
  \/ \E p \in Pins, v \in PinValues : WritePins(p, v)
  \/ \E m \in MaskValues : WriteMasks(m)
  \/ \E s \in SUBSET status : WriteStatus(s)
  \/ \E c \in [report : BOOLEAN, single : Delays, double : Delays], a \in BOOLEAN : WriteClick(c, a)
  \/ ReadButton
  \/ Press \/ ReleaseLong \/ ReleaseSecond \/ ReleaseFirst
  \/ ClickExpired
  \/ Tick

Spec == Init /\ [][Next]_vars

-----------------------------------------------------------------------------
TypeOK ==
  /\ function \in [Pins -> Functions] /\ direction \in [Pins -> BOOLEAN] /\ output \in [Pins -> BOOLEAN]
  /\ masks \subseteq Pins \cup ButtonIrqs /\ status \subseteq Pins \cup ButtonIrqs
  /\ click \in [report : BOOLEAN, single : Delays, double : Delays] /\ action \in BOOLEAN
  /\ inputs \in [Pins -> BOOLEAN] /\ levels \in [Pins -> BOOLEAN]
  /\ net \in [clock : BOOLEAN, motion : BOOLEAN]
  /\ pressed \in BOOLEAN /\ flag \in BOOLEAN /\ second \in BOOLEAN
  /\ timer \in NoTimer..MaxDelay /\ held \in 0..LongDelay /\ since \in 0..MaxDelay
  /\ clicks \in [made : 0..MaxClicks, singles : 0..MaxClicks, doubles : 0..MaxClicks, dropped : 0..MaxClicks]

\* The pins show what the registers say now: no event and no register write
\* leaves the interrupt line, or an output, as it was before.
OutputsCurrent == levels = LevelsOf(function, direction, output, masks, status, inputs)

\* "No stale event appears when IRQ output is restored": while no pin carries
\* interrupts, nothing is latched.
NoStaleEvent == ~HasIrqOutput(function) => status = {}

\* The shared line is low as long as one of its two devices asserts it.
SharedLine == inputs[NetPin] = (~net.clock /\ ~net.motion)

\* Every short press is counted once: as a single click, in a double click, or
\* it still waits for one or the other ("a separate press commits the previous
\* click instead of losing it").  Only a long press that begins in the time of a
\* double click takes the click before it away.
ClicksConserved ==
  clicks.made = clicks.singles + 2 * clicks.doubles + clicks.dropped
                  + (IF timer # NoTimer THEN 1 ELSE 0) + (IF second THEN 1 ELSE 0)

\* Reported clicks are the user's: a double click is never also a single one,
\* and the timer does not run while the second click is made.
OneCandidate == second => pressed /\ timer = NoTimer

\* The pins follow the registers, and the clicks the button, through every
\* register write, interrupt and press.
PowerSafety ==
  TypeOK /\ OutputsCurrent /\ NoStaleEvent /\ SharedLine /\ ClicksConserved /\ OneCandidate
=============================================================================
