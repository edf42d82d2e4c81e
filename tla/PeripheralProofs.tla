-------------------------- MODULE PeripheralProofs --------------------------
(***************************************************************************)
(* The touch controller for every set of points, pulse width and delay:    *)
(* what it reports, how its interrupt line behaves, and what a guest that  *)
(* follows the line can miss.  The GPIO pads, for every set of pads,       *)
(* signals and values of the registers.  The I2C master, for every command *)
(* list, set of devices and depth of its FIFOs.  The I2S streams, for all  *)
(* lists of descriptors, frames and delays of their timers, and the audio  *)
(* codec, for every capacity of its FIFOs and every burst of the host.     *)
(***************************************************************************)
EXTENDS Peripherals, TLAPS

\* A pulse that runs has had its edge, unless the guest has read within it.
EdgeOfPulse == ~irq /\ ~guest.early => guest.edge

TouchInv == TypeOK /\ NoGhostTouch /\ LineHeldByTimer /\ ResetFollowsPin /\ ChangeSignalled /\ EdgeOfPulse

\* What updateTouch decides anew.
Shown == NoGhostTouch /\ LineHeldByTimer /\ ChangeSignalled /\ EdgeOfPulse

\* The chip and the finger, in their types, as updateTouch finds them.
ChipTypes ==
  /\ touch \in Touches /\ resetAsserted \in BOOLEAN /\ readyIn \in 0..StartupDelay
  /\ asleep \in BOOLEAN /\ enabled \in BOOLEAN /\ width \in 1..MaxWidth

ShownTypes ==
  /\ report \in Touches /\ irq \in BOOLEAN /\ timer \in {NoTimer} \cup 0..MaxWidth
  /\ guest \in [owed : BOOLEAN, edge : BOOLEAN, early : BOOLEAN]

IoeTypes == ioe \in [direction : BOOLEAN, output : BOOLEAN, openDrain : BOOLEAN]

LEMMA TypesApart == (TypeOK <=> IoeTypes /\ ChipTypes /\ ShownTypes) /\ (TypeOK' <=> IoeTypes' /\ ChipTypes' /\ ShownTypes')
  BY DEF TypeOK, IoeTypes, ChipTypes, ShownTypes

-----------------------------------------------------------------------------
(* Whatever has changed, updateTouch leaves a report and a line that fit.  *)

\* The report, for updateTouch and for a read of the report registers.
LEMMA Reported ==
  ASSUME ChipTypes', NEW old, Report(old)
  PROVE  report' \in Touches /\ NoGhostTouch' /\ report'.down = Down /\ Down \in BOOLEAN
<1>1. Down \in BOOLEAN
  BY DEF ChipTypes, Touches, Down, Ready
<1>2. report' = [down |-> Down, at |-> touch'.at]
  BY DEF Report
<1>3. touch' = [down |-> touch'.down, at |-> touch'.at] /\ touch'.down \in BOOLEAN /\ touch'.at \in Points
  BY DEF ChipTypes, Touches
<1>4. Down => Ready' /\ touch' = report'
  BY <1>1, <1>2, <1>3 DEF Down
<1>5. report' \in Touches /\ report'.down = Down
  BY <1>1, <1>2, <1>3 DEF Touches
<1> QED
  BY <1>1, <1>4, <1>5 DEF NoGhostTouch

\* The line and its timer.
LEMMA LineKept ==
  ASSUME TouchInv, ChipTypes', NEW old, Interrupt(old)
  PROVE  irq' \in BOOLEAN /\ timer' \in {NoTimer} \cup 0..MaxWidth /\ LineHeldByTimer'
<1>1. CASE ~(Ready' /\ enabled') /\ Masked
  BY <1>1 DEF Masked, LineHeldByTimer
<1>2. CASE Ready' /\ enabled' /\ Pulse
  <2>1. timer' = width' /\ irq' = FALSE /\ width' \in 1..MaxWidth /\ MaxWidth \in Nat
    BY <1>2, TouchAssumption DEF Pulse, ChipTypes
  <2>2. timer' \in 0..MaxWidth /\ timer' # -1
    BY <2>1
  <2>3. irq' \in BOOLEAN /\ ~irq'
    BY <2>1
  <2> QED
    BY <1>2, <2>2, <2>3 DEF LineHeldByTimer, NoTimer
<1>3. CASE Ready' /\ enabled' /\ UNCHANGED <<irq, timer>>
  BY <1>3 DEF TouchInv, TypeOK, LineHeldByTimer
<1> QED
  BY <1>1, <1>2, <1>3 DEF Interrupt

LEMMA Updated ==
  ASSUME TouchInv, ChipTypes', NEW old, UpdateTouch(old)
  PROVE  ShownTypes' /\ Shown'
<1>1. report' \in Touches /\ NoGhostTouch'
  BY Reported DEF UpdateTouch
<1>2. Interrupt(old)
  BY DEF UpdateTouch, Report
<1>3. irq' \in BOOLEAN /\ timer' \in {NoTimer} \cup 0..MaxWidth /\ LineHeldByTimer'
  BY <1>2, LineKept
<1> DEFINE changed == Down # old.down \/ (Down /\ touch'.at # old.at)
           falls == irq /\ ~irq'
<1>4. CASE ~(Ready' /\ enabled')
  <2>1. guest' = [guest EXCEPT !.owed = FALSE, !.early = FALSE] /\ irq' = TRUE
    BY <1>2, <1>4 DEF UpdateTouch, Told, Interrupt, Masked
  <2>2. guest' \in [owed : BOOLEAN, edge : BOOLEAN, early : BOOLEAN] /\ ~guest'.owed
    BY <2>1 DEF TouchInv, TypeOK
  <2> QED
    BY <1>1, <1>3, <2>1, <2>2 DEF ShownTypes, Shown, ChangeSignalled, EdgeOfPulse
<1>5. CASE Ready' /\ enabled'
  <2>1. guest' = [owed |-> guest.owed \/ changed, edge |-> guest.edge \/ falls, early |-> guest.early /\ ~falls]
    BY <1>5 DEF UpdateTouch, Told
  <2>2. guest' \in [owed : BOOLEAN, edge : BOOLEAN, early : BOOLEAN]
    BY <2>1
  <2>3. changed => ~irq'
    BY <1>2, <1>5 DEF Interrupt, Changed, Pulse, TouchInv, LineHeldByTimer
  <2>4. EdgeOfPulse'
    BY <2>1, <1>3, <1>5 DEF TouchInv, EdgeOfPulse, TypeOK
  <2>5. ChangeSignalled'
    BY <2>1, <2>3, <2>4 DEF TouchInv, ChangeSignalled, EdgeOfPulse, TypeOK
  <2> QED
    BY <1>1, <1>3, <2>2, <2>4, <2>5 DEF ShownTypes, Shown
<1> QED
  BY <1>4, <1>5

-----------------------------------------------------------------------------
(* The expander: a write to its registers may reset the chip.              *)
LEMMA Driven ==
  ASSUME TouchInv, NEW r \in [direction : BOOLEAN, output : BOOLEAN, openDrain : BOOLEAN], WriteIoe(r)
  PROVE  TouchInv'
<1>1. ioe' = r /\ touch' = touch /\ ResetInput(Drive(ioe') = "low")
  BY DEF WriteIoe, UpdateOutputs
<1>2. (Drive(ioe') = "low") <=> (ioe'.direction /\ ~ioe'.output)
  BY <1>1 DEF Drive
<1> DEFINE low == Drive(ioe') = "low"
<1>3. low \in BOOLEAN /\ ResetInput(low) /\ (low <=> (ioe'.direction /\ ~ioe'.output)) /\ IoeTypes'
  BY <1>1, <1>2 DEF IoeTypes
<1> HIDE DEF low
<1>4. CASE low = resetAsserted /\ UNCHANGED <<chip, report, irq, timer, guest>>
  <2>1. ChipTypes' /\ ShownTypes' /\ Shown'
    BY <1>1, <1>4, TypesApart DEF TouchInv, Shown, ChipTypes, ShownTypes, NoGhostTouch, LineHeldByTimer,
                                   ChangeSignalled, EdgeOfPulse, chip, Ready
  <2> QED
    BY <1>3, <1>4, <2>1, TypesApart DEF TouchInv, Shown, ResetFollowsPin, chip
<1>5. CASE low /\ resetAsserted' = TRUE /\ Cleared /\ readyIn' = readyIn /\ UpdateTouch(NoTouch)
  <2>1. ChipTypes'
    BY <1>1, <1>5, TouchAssumption DEF TouchInv, TypeOK, ChipTypes, Cleared
  <2>2. ShownTypes' /\ Shown'
    BY <1>5, <2>1, Updated
  <2> QED
    BY <1>3, <1>5, <2>1, <2>2, TypesApart DEF TouchInv, Shown, ResetFollowsPin
<1>6. CASE ~low /\ resetAsserted' = FALSE /\ readyIn' = StartupDelay /\ UNCHANGED <<asleep, enabled, width>> /\ UpdateTouch(report)
  <2>1. ChipTypes'
    <3>1. readyIn' \in 0..StartupDelay
      BY <1>6, TouchAssumption
    <3> QED
      BY <1>1, <1>6, <3>1 DEF TouchInv, TypeOK, ChipTypes
  <2>2. ShownTypes' /\ Shown'
    BY <1>6, <2>1, Updated
  <2> QED
    BY <1>3, <1>6, <2>1, <2>2, TypesApart DEF TouchInv, Shown, ResetFollowsPin
<1> QED
  BY <1>3, <1>4, <1>5, <1>6 DEF ResetInput

\* A step that brings the report up to date and leaves the expander alone.
LEMMA Refreshed ==
  ASSUME TouchInv, ChipTypes', UpdateTouch(report), UNCHANGED <<ioe, resetAsserted>>
  PROVE  TouchInv'
<1>1. ShownTypes' /\ Shown'
  BY Updated
<1> QED
  BY <1>1, TypesApart DEF TouchInv, Shown, IoeTypes, ResetFollowsPin

LEMMA TouchInit == Init => TouchInv
<1> SUFFICES ASSUME Init PROVE TouchInv
  OBVIOUS
<1>1. TypeOK
  <2>1. ioe \in [direction : BOOLEAN, output : BOOLEAN, openDrain : BOOLEAN]
    BY DEF Init
  <2>2. touch \in Touches /\ report \in Touches
    BY TouchAssumption DEF Init, NoTouch, Touches
  <2>3. readyIn \in 0..StartupDelay /\ width \in 1..MaxWidth
    BY TouchAssumption DEF Init
  <2>4. guest \in [owed : BOOLEAN, edge : BOOLEAN, early : BOOLEAN]
    BY DEF Init
  <2>5. {resetAsserted, asleep, enabled, irq} \subseteq BOOLEAN /\ timer = NoTimer
    BY DEF Init
  <2> QED
    BY <2>1, <2>2, <2>3, <2>4, <2>5 DEF TypeOK
<1>2. ~report.down /\ irq /\ timer = NoTimer /\ ~resetAsserted /\ ~ioe.direction /\ ~guest.owed
  BY DEF Init, NoTouch
<1> QED
  BY <1>1, <1>2 DEF TouchInv, NoGhostTouch, LineHeldByTimer, ResetFollowsPin, ChangeSignalled, EdgeOfPulse

LEMMA TouchStep == TouchInv /\ [Next]_vars => TouchInv'
<1> SUFFICES ASSUME TouchInv, [Next]_vars PROVE TouchInv'
  OBVIOUS
<1> USE TypesApart
<1>1. ASSUME NEW t \in Touches, SetTouch(t) PROVE TouchInv'
  <2>1. ChipTypes' /\ UpdateTouch(report) /\ UNCHANGED <<ioe, resetAsserted>>
    BY <1>1 DEF SetTouch, TouchInv, ChipTypes, chip
  <2> QED
    BY <2>1, Refreshed
<1>2. CASE ReleaseIrq
  BY <1>2 DEF ReleaseIrq, chip, TouchInv, TypeOK, NoGhostTouch, LineHeldByTimer, ResetFollowsPin, ChangeSignalled, EdgeOfPulse, Ready
<1>3. CASE Elapse
  <2>1. /\ readyIn' \in 0..StartupDelay /\ timer' \in {NoTimer} \cup 0..MaxWidth
        /\ (readyIn = 0 => readyIn' = 0) /\ (timer = NoTimer <=> timer' = NoTimer)
    BY <1>3, TouchAssumption DEF Elapse, TouchInv, TypeOK, NoTimer
  <2>2. UNCHANGED <<ioe, touch, resetAsserted, asleep, enabled, width, report, irq, guest>>
    BY <1>3 DEF Elapse
  <2> QED
    BY <2>1, <2>2 DEF TouchInv, TypeOK, NoGhostTouch, LineHeldByTimer, ResetFollowsPin, ChangeSignalled, EdgeOfPulse, Ready
<1>4. CASE ReadReport
  <2>1. ChipTypes' /\ IoeTypes' /\ ResetFollowsPin'
    BY <1>4 DEF ReadReport, TouchInv, ChipTypes, IoeTypes, ResetFollowsPin, chip
  <2>2. report' \in Touches /\ NoGhostTouch' /\ irq' \in BOOLEAN /\ timer' \in {NoTimer} \cup 0..MaxWidth /\ LineHeldByTimer'
    BY <1>4, <2>1, Reported, LineKept DEF ReadReport, Report
  <2>3. guest' = [owed |-> FALSE, edge |-> FALSE, early |-> timer' # NoTimer]
    BY <1>4 DEF ReadReport
  <2> QED
    BY <2>1, <2>2, <2>3 DEF TouchInv, ShownTypes, ChangeSignalled, EdgeOfPulse, LineHeldByTimer
<1>5. ASSUME NEW on \in BOOLEAN, WriteSleep(on) PROVE TouchInv'
  <2>1. ChipTypes' /\ UpdateTouch(report) /\ UNCHANGED <<ioe, resetAsserted>>
    BY <1>5 DEF WriteSleep, TouchInv, ChipTypes
  <2> QED
    BY <2>1, Refreshed
<1>6. ASSUME NEW on \in BOOLEAN, WriteControl(on) PROVE TouchInv'
  <2>1. ChipTypes' /\ UpdateTouch(report) /\ UNCHANGED <<ioe, resetAsserted>>
    BY <1>6 DEF WriteControl, TouchInv, ChipTypes
  <2> QED
    BY <2>1, Refreshed
<1>7. ASSUME NEW v \in Values, WriteWidth(v) PROVE TouchInv'
  <2>1. width' \in 1..MaxWidth
    BY <1>7, TouchAssumption DEF WriteWidth, Clamp
  <2> QED
    BY <1>7, <2>1 DEF WriteWidth, TouchInv, TypeOK, NoGhostTouch, LineHeldByTimer, ResetFollowsPin, ChangeSignalled, EdgeOfPulse, Ready
<1>8. ASSUME NEW on \in BOOLEAN, WriteDirection(on) PROVE TouchInv'
  BY <1>8, Driven DEF WriteDirection, TouchInv, TypeOK
<1>9. ASSUME NEW on \in BOOLEAN, WriteOutput(on) PROVE TouchInv'
  BY <1>9, Driven DEF WriteOutput, TouchInv, TypeOK
<1>10. ASSUME NEW on \in BOOLEAN, WriteOpenDrain(on) PROVE TouchInv'
  BY <1>10, Driven DEF WriteOpenDrain, TouchInv, TypeOK
<1>11. CASE OneWire
  BY <1>11, Driven DEF OneWire, TouchInv, TypeOK
<1>12. CASE IoeReset
  BY <1>12, Driven DEF IoeReset
<1>13. CASE UNCHANGED vars
  BY <1>13 DEF vars, TouchInv, TypeOK, NoGhostTouch, LineHeldByTimer, ResetFollowsPin, ChangeSignalled, EdgeOfPulse, Ready
<1> QED
  BY <1>1, <1>2, <1>3, <1>4, <1>5, <1>6, <1>7, <1>8, <1>9, <1>10, <1>11, <1>12, <1>13 DEF Next

(* A chip that does not scan reports no finger and what it reports is the  *)
(* board's; it is in reset exactly when its pin is low; the line is low    *)
(* while its release is scheduled, and every change has an edge that a     *)
(* guest can see: updateTouch, touchInterrupt, releaseIrq and the          *)
(* expander's updateOutputs.                                               *)
THEOREM TouchCorrect == Spec => []TouchSafety
<1>1. TouchInv => TouchSafety
  BY DEF TouchInv, TouchSafety
<1> QED
  BY TouchInit, TouchStep, <1>1, PTL DEF Spec

-----------------------------------------------------------------------------
\* What updateTouch may do to a pulse that runs.
LEMMA PulseKept ==
  ASSUME NEW old, Interrupt(old), timer # NoTimer
  PROVE  timer' = timer \/ (timer' = NoTimer /\ irq')
  BY DEF Interrupt, Masked

(* Nothing extends a pulse or cuts it short with the line low.             *)
THEOREM PulseDeadline == Spec => OwnDeadline
<1> DEFINE Deadline == timer # NoTimer => timer' \in {timer, timer - 1} \/ (timer' = NoTimer /\ irq')
<1>1. ASSUME NEW r, WriteIoe(r) PROVE Deadline
  <2>1. CASE UNCHANGED timer
    BY <2>1
  <2>2. ASSUME NEW old, UpdateTouch(old) PROVE Deadline
    BY <2>2, PulseKept DEF UpdateTouch, Report
  <2> QED
    BY <1>1, <2>1, <2>2 DEF WriteIoe, UpdateOutputs, ResetInput
<1>2. ASSUME NEW old, UpdateTouch(old) PROVE Deadline
  BY <1>2, PulseKept DEF UpdateTouch, Report
<1>3. ReadReport => Deadline
  BY PulseKept DEF ReadReport, Report
<1>4. ReleaseIrq \/ Elapse => Deadline
  BY DEF ReleaseIrq, Elapse
<1>5. [Next]_vars => [Deadline]_vars
  <2> SUFFICES ASSUME Next PROVE Deadline
    OBVIOUS
  <2>1. ASSUME NEW t, SetTouch(t) PROVE Deadline
    BY <1>2, <2>1 DEF SetTouch
  <2>2. ASSUME NEW on, WriteSleep(on) \/ WriteControl(on) PROVE Deadline
    BY <1>2, <2>2 DEF WriteSleep, WriteControl
  <2>3. ASSUME NEW v, WriteWidth(v) PROVE Deadline
    BY <2>3 DEF WriteWidth
  <2>4. ASSUME NEW on, WriteDirection(on) \/ WriteOutput(on) \/ WriteOpenDrain(on) PROVE Deadline
    BY <1>1, <2>4 DEF WriteDirection, WriteOutput, WriteOpenDrain
  <2>5. OneWire \/ IoeReset => Deadline
    BY <1>1 DEF OneWire, IoeReset
  <2> QED
    BY <1>3, <1>4, <2>1, <2>2, <2>3, <2>4, <2>5 DEF Next
<1> QED
  BY <1>5, PTL DEF Spec, OwnDeadline
-----------------------------------------------------------------------------
(* The GPIO pads: their safety is inductive as it stands, since what a     *)
(* handler has made stale is in "todo".                                    *)

LEMMA DriveIsDrive == \A p : Pads!Drive(p) \in Pads!Drives
  BY DEF Pads!Drive, Pads!Drives, Pads!Released

LEMMA ResolveIsLevel == ASSUME NEW p, NEW board \in Pads!Drives PROVE Pads!Resolve(p, board) \in Pads!Levels
<1>1. Pads!Drive(p) \in Pads!Drives
  BY DriveIsDrive
<1> QED
  BY <1>1 DEF Pads!Resolve, Pads!Drives, Pads!Levels, Pads!Released

\* A pad is what its registers, its signal, the board and its resistors make of it.
LEMMA PadKept ==
  ASSUME NEW p, output'[p] = output[p], driven'[p] = driven[p], config'[p] = config[p], route'[p] = route[p],
         Pads!PeripheralDrive(p)' = Pads!PeripheralDrive(p), external'[p] = external[p], pulls'[p] = pulls[p]
  PROVE  Pads!Drive(p)' = Pads!Drive(p) /\ Pads!Resolve(p, external[p])' = Pads!Resolve(p, external[p])
<1>1. Pads!Enabled(p)' = Pads!Enabled(p) /\ Pads!High(p)' = Pads!High(p)
  BY DEF Pads!Enabled, Pads!High, Pads!Xor
<1>2. Pads!Drive(p)' = Pads!Drive(p)
  BY <1>1 DEF Pads!Drive
<1> QED
  BY <1>2 DEF Pads!Resolve

\* A handler that has marked every pad it changes.
LEMMA Marked ==
  ASSUME GpioSafety, Pads!Idle, Pads!TypeOK', Pads!InterruptLine', UNCHANGED <<drive, levels>>,
         \A p \in Pins \ todo' :
           /\ output'[p] = output[p] /\ driven'[p] = driven[p] /\ config'[p] = config[p] /\ route'[p] = route[p]
           /\ Pads!PeripheralDrive(p)' = Pads!PeripheralDrive(p) /\ external'[p] = external[p] /\ pulls'[p] = pulls[p]
  PROVE  GpioSafety'
<1>1. ASSUME NEW p \in Pins \ todo' PROVE drive'[p] = Pads!Drive(p)' /\ levels'[p] = Pads!Resolve(p, external[p])'
  <2>1. p \in Pins \ todo /\ drive[p] = Pads!Drive(p) /\ levels[p] = Pads!Resolve(p, external[p])
    BY DEF GpioSafety, Pads!GpioSafety, Pads!PadsResolved, Pads!Idle
  <2>2. Pads!Drive(p)' = Pads!Drive(p) /\ Pads!Resolve(p, external[p])' = Pads!Resolve(p, external[p])
    BY PadKept
  <2> QED
    BY <2>1, <2>2
<1>2. Pads!PadsResolved'
  BY <1>1 DEF Pads!PadsResolved
<1> QED
  BY <1>2 DEF GpioSafety, Pads!GpioSafety

LEMMA GpioInit == Pads!Init => GpioSafety
<1> SUFFICES ASSUME Pads!Init PROVE GpioSafety
  OBVIOUS
<1>1. Pads!TypeOK
  <2>1. Pads!ResetConfig \in Pads!Config /\ Pads!ResetRoute \in Pads!Route /\ [up |-> FALSE, down |-> FALSE] \in Pads!Pull
    BY DEF Pads!ResetConfig, Pads!Config, Pads!ResetRoute, Pads!Route, Pads!Pull, Pads!Software
  <2>2. Pads!Released \in Pads!Drives /\ 1 \in Pads!Levels
    BY DEF Pads!Released, Pads!Drives, Pads!Levels
  <2>3. /\ output \in [Pins -> BOOLEAN] /\ driven \in [Pins -> BOOLEAN] /\ status \in [Pins -> BOOLEAN] /\ cpu \in BOOLEAN
        /\ todo \subseteq Pins
    BY DEF Pads!Init
  <2>4. config \in [Pins -> Pads!Config] /\ route \in [Pins -> Pads!Route] /\ pulls \in [Pins -> Pads!Pull]
    BY <2>1 DEF Pads!Init
  <2>5. /\ peripheral \in [Signals -> Pads!Drives] /\ external \in [Pins -> Pads!Drives] /\ drive \in [Pins -> Pads!Drives]
        /\ levels \in [Pins -> Pads!Levels]
    BY <2>2 DEF Pads!Init
  <2> QED
    BY <2>3, <2>4, <2>5 DEF Pads!TypeOK
<1>2. ASSUME NEW p \in Pins PROVE drive[p] = Pads!Drive(p) /\ levels[p] = Pads!Resolve(p, external[p])
  <2>1. Pads!Drive(p) = Pads!Released
    BY DEF Pads!Init, Pads!Drive, Pads!Enabled, Pads!Xor, Pads!ResetRoute, Pads!Software
  <2> QED
    BY <2>1 DEF Pads!Init, Pads!Resolve
<1>3. Pads!InterruptLine
  BY DEF Pads!Init, Pads!InterruptLine, Pads!Pending
<1> QED
  BY <1>1, <1>2, <1>3 DEF GpioSafety, Pads!GpioSafety, Pads!PadsResolved

\* An update brings its pad up to date and, when the bus is told, the level of SDA with it.
LEMMA PadUpdated ==
  ASSUME GpioSafety, NEW p \in todo, Pads!UpdatePin(p)
  PROVE  GpioSafety'
<1> USE PadsAssumption DEF Pads!GpioAssumption
<1>1. Pads!TypeOK /\ Pads!PadsResolved /\ p \in Pins
  BY DEF GpioSafety, Pads!GpioSafety, Pads!TypeOK
<1> DEFINE told == drive[p] # Pads!Drive(p) /\ p \in {Sda, Scl}
           updated == IF told THEN {p, Sda} ELSE {p}
<1>2. PICK answer \in {Pads!Released, 0} :
        /\ external' = IF told THEN [external EXCEPT ![Sda] = answer] ELSE external
        /\ Pads!SetLevels([q \in updated |-> Pads!Resolve(q, external'[q])])
  BY DEF Pads!UpdatePin
<1>3. /\ drive' = [drive EXCEPT ![p] = Pads!Drive(p)] /\ todo' = todo \ {p}
      /\ UNCHANGED <<output, driven, config, route, peripheral, pulls>>
  BY DEF Pads!UpdatePin, Pads!registers
<1>4. told => Sda \in Pins
  BY <1>1
<1>5. external' \in [Pins -> Pads!Drives]
  BY <1>1, <1>2, <1>4 DEF Pads!TypeOK, Pads!Drives, Pads!Released
<1>6. drive' \in [Pins -> Pads!Drives]
  BY <1>1, <1>3, DriveIsDrive DEF Pads!TypeOK
<1>7. \A q \in Pins : Pads!Resolve(q, external'[q]) \in Pads!Levels
  BY <1>5, ResolveIsLevel
<1>8. levels' = [q \in Pins |-> IF q \in updated THEN Pads!Resolve(q, external'[q]) ELSE levels[q]]
  BY <1>2 DEF Pads!SetLevels
<1>9. levels' \in [Pins -> Pads!Levels]
  BY <1>1, <1>7, <1>8 DEF Pads!TypeOK
<1>10. status' \in [Pins -> BOOLEAN] /\ cpu' = Pads!Pending(config, status')
  BY <1>2 DEF Pads!SetLevels, Pads!Latches
<1>11. Pads!InterruptLine' /\ cpu' \in BOOLEAN
  BY <1>3, <1>10 DEF Pads!InterruptLine, Pads!Pending
<1>12. Pads!TypeOK'
  BY <1>1, <1>3, <1>5, <1>6, <1>9, <1>10, <1>11 DEF Pads!TypeOK
<1>13. ASSUME NEW q \in Pins \ todo' PROVE drive'[q] = Pads!Drive(q)' /\ levels'[q] = Pads!Resolve(q, external[q])'
  <2>1. Pads!Drive(q)' = Pads!Drive(q) /\ Pads!Resolve(q, external[q])' = Pads!Resolve(q, external'[q])
    BY <1>3 DEF Pads!Drive, Pads!Enabled, Pads!High, Pads!PeripheralDrive, Pads!Resolve, Pads!Xor
  <2>2. CASE q = p
    BY <1>1, <1>3, <1>8, <2>1, <2>2 DEF Pads!TypeOK
  <2>3. CASE q # p
    <3>1. q \in Pins \ todo /\ drive[q] = Pads!Drive(q) /\ levels[q] = Pads!Resolve(q, external[q])
      BY <1>1, <1>3, <2>3 DEF Pads!PadsResolved
    <3>2. drive'[q] = drive[q]
      BY <1>1, <1>3, <2>3 DEF Pads!TypeOK
    <3>3. CASE q \in updated
      BY <1>8, <2>1, <3>1, <3>2, <3>3
    <3>4. CASE q \notin updated
      <4>1. external'[q] = external[q]
        BY <1>1, <1>2, <3>4 DEF Pads!TypeOK
      <4> QED
        BY <1>8, <2>1, <3>1, <3>2, <3>4, <4>1
    <3> QED
      BY <3>3, <3>4
  <2> QED
    BY <2>2, <2>3
<1> QED
  BY <1>11, <1>12, <1>13 DEF GpioSafety, Pads!GpioSafety, Pads!PadsResolved

LEMMA BitsAreBits ==
  ASSUME NEW old \in [Pins -> BOOLEAN], NEW kind \in Pads!Kinds, NEW pins
  PROVE  Pads!BitsWritten(old, kind, pins) \in [Pins -> BOOLEAN]
<1>1. CASE kind = "write"
  BY <1>1 DEF Pads!BitsWritten
<1>2. CASE kind = "set"
  BY <1>2 DEF Pads!BitsWritten
<1>3. CASE kind = "clear"
  BY <1>3 DEF Pads!BitsWritten
<1> QED
  BY <1>1, <1>2, <1>3 DEF Pads!Kinds

LEMMA GpioStep == GpioSafety /\ [Pads!Next]_Pads!vars => GpioSafety'
<1> SUFFICES ASSUME GpioSafety, [Pads!Next]_Pads!vars PROVE GpioSafety'
  OBVIOUS
<1> USE PadsAssumption DEF Pads!GpioAssumption
<1>a. Pads!TypeOK /\ Pads!PadsResolved /\ Pads!InterruptLine
  BY DEF GpioSafety, Pads!GpioSafety
<1>b. \A c, s : Pads!Pending(c, s) \in BOOLEAN
  BY DEF Pads!Pending
<1>1. CASE Pads!UpdateNext
  BY <1>1, PadUpdated DEF Pads!UpdateNext
<1>2. ASSUME NEW k \in Pads!Kinds, NEW s \in SUBSET Pins, Pads!WriteOutput(k, s) PROVE GpioSafety'
  <2>1. Pads!TypeOK' /\ Pads!InterruptLine'
    BY <1>a, <1>2, BitsAreBits DEF Pads!WriteOutput, Pads!TypeOK, Pads!InterruptLine, Pads!inputs
  <2> QED
    BY <1>2, <2>1, Marked DEF Pads!WriteOutput
<1>3. ASSUME NEW k \in Pads!Kinds, NEW s \in SUBSET Pins, Pads!WriteEnable(k, s) PROVE GpioSafety'
  <2>1. Pads!TypeOK' /\ Pads!InterruptLine'
    BY <1>a, <1>3, BitsAreBits DEF Pads!WriteEnable, Pads!TypeOK, Pads!InterruptLine, Pads!inputs
  <2> QED
    BY <1>3, <2>1, Marked DEF Pads!WriteEnable
<1>4. ASSUME NEW k \in Pads!Kinds, NEW s \in SUBSET Pins, Pads!WriteStatus(k, s) PROVE GpioSafety'
  <2>1. Pads!Idle /\ UNCHANGED <<output, driven, config, route, peripheral, external, pulls, drive, levels, todo>>
    BY <1>4 DEF Pads!WriteStatus, Pads!registers, Pads!inputs
  <2>2. status' \in [Pins -> BOOLEAN] /\ cpu' = Pads!Pending(config', status')
    BY <1>a, <1>4, <2>1, BitsAreBits DEF Pads!WriteStatus, Pads!TypeOK
  <2>3. Pads!TypeOK' /\ Pads!InterruptLine'
    BY <1>a, <1>b, <2>1, <2>2 DEF Pads!TypeOK, Pads!InterruptLine
  <2>4. \A p : Pads!PeripheralDrive(p)' = Pads!PeripheralDrive(p)
    BY <2>1 DEF Pads!PeripheralDrive
  <2> QED
    BY <2>1, <2>3, <2>4, Marked
<1>5. ASSUME NEW p \in Pins, NEW c \in Configs, Pads!WriteConfig(p, c) PROVE GpioSafety'
  <2>1. /\ Pads!Idle /\ UNCHANGED <<output, driven, route, peripheral, external, pulls, drive, levels, status>>
        /\ config' = [config EXCEPT ![p] = c] /\ todo' = {p} /\ cpu' = Pads!Pending(config', status)
    BY <1>5 DEF Pads!WriteConfig, Pads!inputs
  <2>2. config' \in [Pins -> Pads!Config] /\ \A q \in Pins \ {p} : config'[q] = config[q]
    BY <1>a, <2>1 DEF Pads!TypeOK
  <2>3. Pads!TypeOK' /\ Pads!InterruptLine'
    BY <1>a, <1>b, <2>1, <2>2 DEF Pads!TypeOK, Pads!InterruptLine
  <2>4. \A q : Pads!PeripheralDrive(q)' = Pads!PeripheralDrive(q)
    BY <2>1 DEF Pads!PeripheralDrive
  <2> QED
    BY <2>1, <2>2, <2>3, <2>4, Marked
<1>6. ASSUME NEW p \in Pins, NEW r \in Routes, Pads!WriteRoute(p, r) PROVE GpioSafety'
  <2>1. /\ Pads!Idle /\ UNCHANGED <<output, driven, config, peripheral, external, pulls, drive, levels, status, cpu>>
        /\ route' = [route EXCEPT ![p] = r] /\ todo' = {p}
    BY <1>6 DEF Pads!WriteRoute, Pads!inputs
  <2>2. route' \in [Pins -> Pads!Route] /\ \A q \in Pins \ {p} : route'[q] = route[q]
    BY <1>a, <2>1 DEF Pads!TypeOK
  <2>3. Pads!TypeOK' /\ Pads!InterruptLine'
    BY <1>a, <2>1, <2>2 DEF Pads!TypeOK, Pads!InterruptLine
  <2>4. \A q \in Pins \ {p} : Pads!PeripheralDrive(q)' = Pads!PeripheralDrive(q)
    BY <2>1, <2>2 DEF Pads!PeripheralDrive
  <2> QED
    BY <2>1, <2>2, <2>3, <2>4, Marked
<1>7. CASE Pads!GpioReset
  <2>1. /\ Pads!Idle /\ UNCHANGED <<peripheral, external, pulls, drive, levels>> /\ todo' = Pins
        /\ output' = [p \in Pins |-> FALSE] /\ driven' = [p \in Pins |-> FALSE]
        /\ config' = [p \in Pins |-> Pads!ResetConfig] /\ route' = [p \in Pins |-> Pads!ResetRoute]
        /\ status' = [p \in Pins |-> FALSE] /\ cpu' = Pads!Pending(config', status')
    BY <1>7 DEF Pads!GpioReset, Pads!inputs
  <2>2. config' \in [Pins -> Pads!Config] /\ route' \in [Pins -> Pads!Route]
    BY <2>1 DEF Pads!ResetConfig, Pads!Config, Pads!ResetRoute, Pads!Route, Pads!Software
  <2>3. Pads!TypeOK' /\ Pads!InterruptLine'
    BY <1>a, <1>b, <2>1, <2>2 DEF Pads!TypeOK, Pads!InterruptLine
  <2> QED
    BY <2>1, <2>3, Marked
<1>8. ASSUME NEW p \in Pins, NEW l \in Pads!Drives, external' = [external EXCEPT ![p] = l], todo' = {p}, Pads!Idle,
             UNCHANGED <<output, driven, config, route, peripheral, pulls, drive, levels, status, cpu>>
      PROVE  GpioSafety'
  <2>1. external' \in [Pins -> Pads!Drives] /\ \A q \in Pins \ {p} : external'[q] = external[q]
    BY <1>a, <1>8 DEF Pads!TypeOK
  <2>2. Pads!TypeOK' /\ Pads!InterruptLine'
    BY <1>a, <1>8, <2>1 DEF Pads!TypeOK, Pads!InterruptLine
  <2>3. \A q : Pads!PeripheralDrive(q)' = Pads!PeripheralDrive(q)
    BY <1>8 DEF Pads!PeripheralDrive
  <2> QED
    BY <1>8, <2>1, <2>2, <2>3, Marked
<1>9. ASSUME NEW p \in Pins, NEW l \in Pads!Drives, Pads!GpioInput(p, l) PROVE GpioSafety'
  BY <1>8, <1>9 DEF Pads!GpioInput, Pads!registers
<1>10. CASE Pads!BoardReset
  <2>1. Pads!Released \in Pads!Drives
    BY DEF Pads!Drives
  <2> QED
    BY <1>8, <1>10, <2>1 DEF Pads!BoardReset, Pads!registers
<1>11. ASSUME NEW s \in Signals, NEW l \in Pads!Drives, Pads!PeripheralInput(s, l) PROVE GpioSafety'
  <2>1. /\ Pads!Idle /\ UNCHANGED <<output, driven, config, route, external, pulls, drive, levels, status, cpu>>
        /\ peripheral' = [peripheral EXCEPT ![s] = l] /\ todo' = {p \in Pins : route[p].signal = s}
    BY <1>11 DEF Pads!PeripheralInput, Pads!registers
  <2>2. peripheral' \in [Signals -> Pads!Drives] /\ \A r \in Signals \ {s} : peripheral'[r] = peripheral[r]
    BY <1>a, <2>1 DEF Pads!TypeOK
  <2>3. Pads!TypeOK' /\ Pads!InterruptLine'
    BY <1>a, <2>1, <2>2 DEF Pads!TypeOK, Pads!InterruptLine
  <2>4. \A p \in Pins \ todo' : Pads!PeripheralDrive(p)' = Pads!PeripheralDrive(p)
    BY <2>1, <2>2 DEF Pads!PeripheralDrive
  <2> QED
    BY <2>1, <2>3, <2>4, Marked
<1>12. ASSUME NEW p \in Pins, NEW r \in PullValues, Pads!PullInput(p, r) PROVE GpioSafety'
  <2>1. /\ Pads!Idle /\ UNCHANGED <<output, driven, config, route, peripheral, external, drive, levels, status, cpu>>
        /\ pulls' = [pulls EXCEPT ![p] = r] /\ todo' = {p}
    BY <1>12 DEF Pads!PullInput, Pads!registers
  <2>2. pulls' \in [Pins -> Pads!Pull] /\ \A q \in Pins \ {p} : pulls'[q] = pulls[q]
    BY <1>a, <2>1 DEF Pads!TypeOK
  <2>3. Pads!TypeOK' /\ Pads!InterruptLine'
    BY <1>a, <2>1, <2>2 DEF Pads!TypeOK, Pads!InterruptLine
  <2>4. \A q : Pads!PeripheralDrive(q)' = Pads!PeripheralDrive(q)
    BY <2>1 DEF Pads!PeripheralDrive
  <2> QED
    BY <2>1, <2>2, <2>3, <2>4, Marked
<1>13. CASE UNCHANGED Pads!vars
  <2>1. UNCHANGED <<output, driven, config, route, peripheral, external, pulls, drive, levels, status, cpu, todo>>
    BY <1>13 DEF Pads!vars
  <2>2. Pads!TypeOK' /\ Pads!InterruptLine'
    BY <1>a, <2>1 DEF Pads!TypeOK, Pads!InterruptLine
  <2>3. ASSUME NEW p \in Pins \ todo' PROVE drive'[p] = Pads!Drive(p)' /\ levels'[p] = Pads!Resolve(p, external[p])'
    <3>1. p \in Pins \ todo /\ drive[p] = Pads!Drive(p) /\ levels[p] = Pads!Resolve(p, external[p])
      BY <1>a, <2>1 DEF Pads!PadsResolved
    <3>2. Pads!PeripheralDrive(p)' = Pads!PeripheralDrive(p)
      BY <2>1 DEF Pads!PeripheralDrive
    <3>3. Pads!Drive(p)' = Pads!Drive(p) /\ Pads!Resolve(p, external[p])' = Pads!Resolve(p, external[p])
      BY <2>1, <3>2, PadKept
    <3> QED
      BY <2>1, <3>1, <3>3
  <2>4. Pads!PadsResolved'
    BY <2>3 DEF Pads!PadsResolved
  <2> QED
    BY <2>2, <2>4 DEF GpioSafety, Pads!GpioSafety
<1> QED
  BY <1>1, <1>2, <1>3, <1>4, <1>5, <1>6, <1>7, <1>9, <1>10, <1>11, <1>12, <1>13 DEF Pads!Next

(* After every handler, whatever it changed and whichever pads it brought  *)
(* up to date, no pad is stale, and the CPU's line is up exactly when an   *)
(* enabled pin has a latched interrupt: updatePin, setLevel, gpioWrite and *)
(* the inputs of boards, peripherals and resistors.                        *)
THEOREM GpioCorrect == Pads!Spec => []GpioSafety
  BY GpioInit, GpioStep, PTL DEF Pads!Spec

(* The software I2C bus is never told of SCL while SDA's own drive is out  *)
(* of date: updates run in ascending order, and no handler that leaves SDA *)
(* stale leaves it out.                                                    *)
THEOREM SdaToldFirst == ASSUME Scl \in Pins PROVE Pads!Spec => Pads!SdaFirst
<1>1. ASSUME GpioSafety, Pads!Next PROVE Pads!SdaBeforeScl
  <2> USE PadsAssumption DEF Pads!GpioAssumption
  <2>1. CASE UNCHANGED drive
    BY <2>1 DEF Pads!SdaBeforeScl
  <2>2. ASSUME NEW p \in todo, \A q \in todo : p <= q, Pads!UpdatePin(p) PROVE Pads!SdaBeforeScl
    <3>1. CASE p = Scl
      <4>a. Sda \in Pins /\ Sda \in Int /\ Scl \in Int /\ Sda < Scl
        OBVIOUS
      <4>1. Sda \in Pins /\ ~(Scl <= Sda)
        BY <4>a
      <4>2. Sda \notin todo
        BY <2>2, <3>1, <4>1
      <4> QED
        BY <1>1, <4>1, <4>2 DEF GpioSafety, Pads!GpioSafety, Pads!PadsResolved, Pads!SdaBeforeScl
    <3>2. CASE p # Scl
      BY <1>1, <2>2, <3>2 DEF GpioSafety, Pads!GpioSafety, Pads!TypeOK, Pads!UpdatePin, Pads!SdaBeforeScl
    <3> QED
      BY <3>1, <3>2
  <2>3. UNCHANGED drive \/ Pads!UpdateNext
    BY <1>1 DEF Pads!Next, Pads!WriteOutput, Pads!WriteEnable, Pads!WriteStatus, Pads!WriteConfig, Pads!WriteRoute, Pads!GpioReset,
                Pads!GpioInput, Pads!BoardReset, Pads!PeripheralInput, Pads!PullInput
  <2> QED
    BY <2>1, <2>2, <2>3 DEF Pads!UpdateNext
<1>2. GpioSafety /\ [Pads!Next]_Pads!vars => [Pads!SdaBeforeScl]_Pads!vars
  BY <1>1
<1> QED
  BY <1>2, GpioCorrect, PTL DEF Pads!Spec, Pads!SdaFirst

-----------------------------------------------------------------------------
(* The I2C master                                                            *)

\* Each FIFO with the bytes that went through it.
Written == [n : Nat, to : I2c!Addresses, read : BOOLEAN]
TxInv == tx \in Seq(Written) /\ Len(tx) <= FifoCapacity /\ written \in Nat /\ wired \in Nat /\ I2c!TxConserved
RxInv == rx \in Seq(Nat) /\ Len(rx) <= FifoCapacity /\ served \in Nat /\ taken \in Nat /\ taken <= served /\ I2c!RxConserved

ListInv == index \in 1..CommandCount + 1 /\ byteIndex \in Nat /\ running \in BOOLEAN /\ engine \in BOOLEAN

\* The bus is taken by a list that runs or ended with END, on an access's way too;
\* the device that is selected has the last address, addressed again or not.
BusInv ==
  /\ busy \in BOOLEAN /\ addressed \in BOOLEAN /\ addressPhase \in BOOLEAN /\ read \in BOOLEAN
  /\ lastNack \in BOOLEAN /\ address \in I2c!Addresses /\ current \in Devices \cup {I2c!Nobody}
  /\ busy => running \/ stopped = "end"
  /\ ~busy => current = I2c!Nobody /\ ~addressed /\ ~addressPhase
  /\ addressed => current # I2c!Nobody
  /\ current # I2c!Nobody => current = address
  /\ heard.device = heard.meant

IrqInv == conf \in Confs \cup {I2c!Reset} /\ enable \subseteq Flags /\ raw \subseteq Flags /\ line \in BOOLEAN /\ I2c!IrqCurrent

I2cInv == TxInv /\ RxInv /\ ListInv /\ BusInv /\ IrqInv /\ I2c!WaitsForFifo

\* How an access or a command moves bytes through the FIFOs.
Sent == tx # <<>> /\ tx' = Tail(tx) /\ wired' = Head(tx).n /\ written' = written
Filled ==
  \E b \in Bytes : /\ Len(tx) < FifoCapacity /\ written' = written + 1 /\ wired' = wired
                   /\ tx' = Append(tx, [n |-> written', to |-> b.to, read |-> b.read])
TxMoves ==
  UNCHANGED <<tx, written, wired>> \/ Sent \/ Filled \/ (tx' = <<>> /\ written' = wired /\ wired' = wired)
RxMoves ==
  \/ UNCHANGED <<rx, served, taken>>
  \/ Len(rx) < FifoCapacity /\ served' = served + 1 /\ rx' = Append(rx, served') /\ taken' = taken
  \/ rx # <<>> /\ rx' = Tail(rx) /\ taken' = Head(rx) /\ served' = served
  \/ rx' = <<>> /\ taken' = served /\ served' = served

LEMMA BytesMove == ASSUME I2c!Next PROVE TxMoves /\ RxMoves
<1> USE DEF TxMoves, RxMoves, I2c!flow, I2c!Take
<1>1. ASSUME NEW b \in Bytes, I2c!WriteData(b) PROVE TxMoves /\ RxMoves
  BY <1>1 DEF I2c!WriteData, Filled
<1>2. ASSUME NEW c \in Confs, NEW r \in BOOLEAN, NEW t \in BOOLEAN, I2c!WriteConf(c, r, t) PROVE TxMoves /\ RxMoves
  BY <1>2 DEF I2c!WriteConf
<1>3. CASE I2c!StepWrite \/ I2c!StepRefused \/ I2c!StepRead
  BY <1>3 DEF I2c!StepWrite, I2c!StepRefused, I2c!StepRead, Sent
<1>4. CASE I2c!ReadData \/ I2c!Restarted
  BY <1>4 DEF I2c!ReadData, I2c!Restarted
<1>5. CASE \/ I2c!StepRestart \/ I2c!StepWaits \/ I2c!StepDone \/ I2c!StepStop \/ I2c!StepEnd \/ I2c!StepTimeout \/ I2c!StepIdle
           \/ I2c!ReadEmpty \/ I2c!StartList \/ I2c!StartUnsupported \/ I2c!FsmReset \/ I2c!WriteClear
  BY <1>5 DEF I2c!StepRestart, I2c!StepWaits, I2c!StepDone, I2c!StepStop, I2c!StepEnd, I2c!StepTimeout, I2c!StepIdle,
              I2c!ReadEmpty, I2c!StartList, I2c!StartUnsupported, I2c!FsmReset, I2c!WriteClear
<1>6. ASSUME NEW l \in Lists, I2c!WriteCommands(l) PROVE TxMoves /\ RxMoves
  BY <1>6 DEF I2c!WriteCommands
<1>7. ASSUME NEW e \in Enables, I2c!WriteEnable(e) PROVE TxMoves /\ RxMoves
  BY <1>7 DEF I2c!WriteEnable
<1> QED
  BY <1>1, <1>2, <1>3, <1>4, <1>5, <1>6, <1>7 DEF I2c!Next

LEMMA TxStep == ASSUME TxInv, TxMoves PROVE TxInv'
<1>a. /\ tx \in Seq(Written) /\ Len(tx) \in Nat /\ Len(tx) <= FifoCapacity /\ written \in Nat /\ wired \in Nat
      /\ Len(tx) = written - wired /\ \A i \in 1..Len(tx) : tx[i].n = wired + i
  BY DEF TxInv, I2c!TxConserved
<1> DEFINE Whole == /\ tx' \in Seq(Written) /\ Len(tx') <= FifoCapacity /\ written' \in Nat /\ wired' \in Nat
                    /\ Len(tx') = written' - wired' /\ \A i \in 1..Len(tx') : tx'[i].n = wired' + i
<1>b. ASSUME Whole PROVE TxInv'
  <2>1. DOMAIN tx' = 1..Len(tx')
    BY <1>b
  <2> QED
    BY <1>b, <2>1 DEF TxInv, I2c!TxConserved
<1>1. CASE UNCHANGED <<tx, written, wired>>
  BY <1>1, <1>a, <1>b
<1>2. CASE Sent
  <2>1. Len(tx) > 0 /\ Head(tx) = tx[1] /\ tx[1].n = wired + 1
    BY <1>2, <1>a DEF Sent
  <2>2. tx' \in Seq(Written) /\ Len(tx') = Len(tx) - 1 /\ \A i \in 1..Len(tx') : tx'[i] = tx[i + 1]
    BY <1>2, <1>a, <2>1 DEF Sent
  <2>3. \A i \in 1..Len(tx') : tx[i + 1].n = wired + (i + 1)
    BY <1>a, <2>2
  <2>4. FifoCapacity \in Nat
    BY PadsAssumption DEF I2c!I2cAssumption
  <2>5. wired' = wired + 1 /\ written' = written
    BY <1>2, <2>1 DEF Sent
  <2>6. Len(tx') = written' - wired' /\ Len(tx') <= FifoCapacity /\ wired' \in Nat /\ written' \in Nat
    BY <1>a, <2>2, <2>4, <2>5
  <2>7. ASSUME NEW i \in 1..Len(tx') PROVE tx'[i].n = wired' + i
    <3>1. tx'[i].n = wired + (i + 1)
      BY <2>2, <2>3
    <3> QED
      BY <1>a, <2>2, <2>5, <3>1
  <2> QED
    BY <1>b, <2>2, <2>6, <2>7
<1>3. ASSUME NEW b \in Bytes, Len(tx) < FifoCapacity, written' = written + 1, wired' = wired,
             tx' = Append(tx, [n |-> written', to |-> b.to, read |-> b.read])
      PROVE  TxInv'
  <2>1. b.to \in I2c!Addresses /\ b.read \in BOOLEAN
    BY PadsAssumption DEF I2c!I2cAssumption
  <2> DEFINE e == [n |-> written', to |-> b.to, read |-> b.read]
  <2>2. e \in Written /\ e.n = written + 1
    BY <1>3, <1>a, <2>1 DEF Written
  <2>3. tx' = Append(tx, e)
    BY <1>3
  <2> HIDE DEF e
  <2>4. tx' \in Seq(Written) /\ Len(tx') = Len(tx) + 1 /\ tx'[Len(tx) + 1] = e /\ \A i \in 1..Len(tx) : tx'[i] = tx[i]
    <3>1. tx \in Seq(Written) /\ e \in Written
      BY <1>a, <2>2
    <3> QED
      BY ONLY <2>3, <3>1
  <2>5. FifoCapacity \in Nat
    BY PadsAssumption DEF I2c!I2cAssumption
  <2>6. Len(tx') = written' - wired' /\ Len(tx') <= FifoCapacity /\ wired' \in Nat /\ written' \in Nat
    BY <1>3, <1>a, <2>4, <2>5
  <2>7. ASSUME NEW i \in 1..Len(tx') PROVE tx'[i].n = wired' + i
    <3>1. CASE i \in 1..Len(tx)
      BY <1>3, <1>a, <2>4, <3>1
    <3>2. CASE i \notin 1..Len(tx)
      <4>1. i = Len(tx) + 1
        BY <1>a, <2>4, <3>2
      <4> QED
        BY <1>3, <1>a, <2>2, <2>4, <4>1
    <3> QED
      BY <3>1, <3>2
  <2> QED
    BY <1>b, <2>4, <2>6, <2>7
<1>4. CASE tx' = <<>> /\ written' = wired /\ wired' = wired
  <2>1. <<>> \in Seq(Written) /\ FifoCapacity \in Nat
    BY PadsAssumption DEF I2c!I2cAssumption
  <2> QED
    BY <1>4, <1>a, <1>b, <2>1
<1> QED
  BY <1>1, <1>2, <1>3, <1>4 DEF TxMoves, Filled

LEMMA RxStep == ASSUME RxInv, RxMoves PROVE RxInv'
<1>0. FifoCapacity \in Nat
  BY PadsAssumption DEF I2c!I2cAssumption
<1>a. Len(rx) = served - taken /\ served - taken \in Nat /\ \A i \in 1..Len(rx) : rx[i] = taken + i
  <2> QED
    BY DEF RxInv, I2c!RxConserved
<1> DEFINE Whole == /\ rx' \in Seq(Nat) /\ Len(rx') <= FifoCapacity /\ served' \in Nat /\ taken' \in Nat
                    /\ taken' <= served' /\ Len(rx') = served' - taken' /\ \A i \in 1..Len(rx') : rx'[i] = taken' + i
<1>b. ASSUME Whole PROVE RxInv'
  <2>1. DOMAIN rx' = 1..served' - taken'
    BY <1>b
  <2>2. rx' = [i \in 1..served' - taken' |-> rx'[i]]
    BY <1>b, <2>1
  <2>3. \A i \in 1..served' - taken' : rx'[i] = taken' + i
    BY <1>b
  <2> QED
    BY <1>b, <2>2, <2>3 DEF RxInv, I2c!RxConserved
<1>1. CASE UNCHANGED <<rx, served, taken>>
  BY <1>1 DEF RxInv, I2c!RxConserved
<1>2. CASE Len(rx) < FifoCapacity /\ served' = served + 1 /\ rx' = Append(rx, served') /\ taken' = taken
  <2>1. rx' \in Seq(Nat) /\ Len(rx') = Len(rx) + 1 /\ rx'[Len(rx) + 1] = served + 1 /\ \A i \in 1..Len(rx) : rx'[i] = rx[i]
    BY <1>2 DEF RxInv
  <2>2. Len(rx) \in Nat /\ served \in Nat /\ taken \in Nat
    BY DEF RxInv
  <2>3. served' \in Nat /\ taken' \in Nat /\ taken' <= served' /\ Len(rx') = served' - taken' /\ Len(rx') <= FifoCapacity
    BY <1>0, <1>2, <1>a, <2>1, <2>2
  <2>4. \A i \in 1..Len(rx') : rx'[i] = taken' + i
    BY <1>2, <1>a, <2>1, <2>2
  <2> QED
    BY <1>b, <2>1, <2>3, <2>4
<1>3. CASE rx # <<>> /\ rx' = Tail(rx) /\ taken' = Head(rx) /\ served' = served
  <2>1. Len(rx) > 0 /\ Head(rx) = rx[1]
    BY <1>3 DEF RxInv
  <2>2. rx' \in Seq(Nat) /\ Len(rx') = Len(rx) - 1 /\ \A i \in 1..Len(rx') : rx'[i] = rx[i + 1]
    BY <1>3, <2>1 DEF RxInv
  <2>3. taken' = taken + 1
    BY <1>3, <1>a, <2>1
  <2>4. \A i \in 1..Len(rx') : rx[i + 1] = taken + (i + 1)
    BY <1>a, <2>2 DEF RxInv
  <2>5. Len(rx) \in Nat /\ Len(rx) <= FifoCapacity /\ served \in Nat /\ taken \in Nat
    BY DEF RxInv
  <2>6. served' \in Nat /\ taken' \in Nat /\ taken' <= served' /\ Len(rx') = served' - taken' /\ Len(rx') <= FifoCapacity
    BY <1>0, <1>3, <1>a, <2>1, <2>2, <2>3, <2>5
  <2>7. \A i \in 1..Len(rx') : rx'[i] = taken' + i
    BY <2>2, <2>3, <2>4, <2>5
  <2> QED
    BY <1>b, <2>2, <2>6, <2>7
<1>4. CASE rx' = <<>> /\ taken' = served /\ served' = served
  <2>1. <<>> \in Seq(Nat)
    OBVIOUS
  <2> QED
    BY <1>0, <1>4, <1>b, <2>1 DEF RxInv
<1> QED
  BY <1>1, <1>2, <1>3, <1>4 DEF RxMoves

\* An access returns with the line and the watermarks up to date, or goes on.
Returns == engine' = FALSE /\ \E f : I2c!UpdateIrq(f)
GoesOn == engine' = TRUE /\ raw' \subseteq Flags /\ line' = line

LEMMA LineMoves ==
  ASSUME I2c!Next, IrqInv
  PROVE  (Returns \/ GoesOn) /\ conf' \in Confs \cup {I2c!Reset} /\ enable' \subseteq Flags
<1> DEFINE Goal == (Returns \/ GoesOn) /\ conf' \in Confs \cup {I2c!Reset} /\ enable' \subseteq Flags
<1>l. ASSUME NEW f, I2c!Leave(f) PROVE Returns
  BY <1>l DEF I2c!Leave, Returns
<1>s. ASSUME NEW f, I2c!Stay(f) PROVE GoesOn
  BY <1>s DEF I2c!Stay, GoesOn
<1> HIDE DEF Returns, GoesOn
<1>1. CASE I2c!StepRestart \/ I2c!StepWrite \/ I2c!StepRefused \/ I2c!StepRead
  BY <1>1, <1>l, <1>s DEF I2c!StepRestart, I2c!StepWrite, I2c!StepRefused, I2c!StepRead, I2c!registers, IrqInv
<1>2. CASE I2c!StepWaits \/ I2c!StepDone \/ I2c!StepStop \/ I2c!StepEnd \/ I2c!StepTimeout \/ I2c!StepIdle
  BY <1>2, <1>l, <1>s DEF I2c!StepWaits, I2c!StepDone, I2c!StepStop, I2c!StepEnd, I2c!StepTimeout, I2c!StepIdle, I2c!registers, IrqInv
<1>3. CASE I2c!ReadData \/ I2c!ReadEmpty \/ I2c!StartList \/ I2c!StartUnsupported \/ I2c!FsmReset \/ I2c!WriteClear
  BY <1>3, <1>l, <1>s DEF I2c!ReadData, I2c!ReadEmpty, I2c!StartList, I2c!StartUnsupported, I2c!FsmReset, I2c!WriteClear,
                          I2c!registers, IrqInv
<1>4. CASE I2c!Restarted
  BY <1>4, <1>l DEF I2c!Restarted
<1>5. ASSUME NEW b \in Bytes, I2c!WriteData(b) PROVE Goal
  BY <1>5, <1>l, <1>s DEF I2c!WriteData, I2c!registers, IrqInv
<1>6. ASSUME NEW c \in Confs, NEW r \in BOOLEAN, NEW t \in BOOLEAN, I2c!WriteConf(c, r, t) PROVE Goal
  BY <1>6, <1>l DEF I2c!WriteConf, IrqInv
<1>7. ASSUME NEW l \in Lists, I2c!WriteCommands(l) PROVE Goal
  BY <1>7, <1>l DEF I2c!WriteCommands, IrqInv
<1>8. ASSUME NEW e \in Enables, I2c!WriteEnable(e) PROVE Goal
  BY <1>8, <1>l, PadsAssumption DEF I2c!WriteEnable, IrqInv, I2c!I2cAssumption
<1> QED
  BY <1>1, <1>2, <1>3, <1>4, <1>5, <1>6, <1>7, <1>8 DEF I2c!Next

LEMMA IrqStep == ASSUME IrqInv, I2c!Next PROVE IrqInv'
<1>1. CASE GoesOn
  BY <1>1, LineMoves DEF GoesOn, IrqInv, I2c!IrqCurrent
<1>2. ASSUME NEW f, I2c!UpdateIrq(f) PROVE raw' \subseteq Flags /\ line' \in BOOLEAN /\ I2c!IrqCurrent'
  <2>1. raw' = Flags \cap ((f \ {"RxWm", "TxWm"}) \cup I2c!Watermarks(conf', rx', tx')) /\ line' = (raw' \cap enable' # {})
    BY <1>2 DEF I2c!UpdateIrq
  <2>2. I2c!Watermarks(conf', rx', tx') \subseteq {"RxWm", "TxWm"}
    BY DEF I2c!Watermarks
  <2>3. raw' \cap {"RxWm", "TxWm"} = I2c!Watermarks(conf', rx', tx') \cap Flags
    BY <2>1, <2>2
  <2>4. I2c!Watermarks(conf, rx, tx)' = I2c!Watermarks(conf', rx', tx')
    BY DEF I2c!Watermarks
  <2> QED
    BY <2>1, <2>3, <2>4 DEF I2c!IrqCurrent
<1> QED
  BY <1>1, <1>2, LineMoves DEF Returns, IrqInv

LEMMA ListStep == ASSUME ListInv, I2c!Next PROVE ListInv'
<1> DEFINE Flagged == running' \in BOOLEAN /\ engine' \in BOOLEAN
           Counts == UNCHANGED <<index, byteIndex>> \/ (index' = index /\ byteIndex' = byteIndex + 1)
                     \/ (index <= CommandCount /\ index' = index + 1 /\ byteIndex' = 0) \/ (index' = 1 /\ byteIndex' = 0)
<1>0. CommandCount \in Nat \ {0}
  BY PadsAssumption DEF I2c!I2cAssumption
<1>a. ASSUME Flagged, Counts PROVE ListInv'
  <2>1. index \in 1..CommandCount + 1 /\ byteIndex \in Nat
    BY DEF ListInv
  <2>2. index' \in 1..CommandCount + 1 /\ byteIndex' \in Nat
    BY <1>0, <1>a, <2>1
  <2> QED
    BY <1>a, <2>2 DEF ListInv
<1>b. running \in BOOLEAN
  BY DEF ListInv
<1> USE DEF I2c!Leave, I2c!Stay, I2c!NextCommand, I2c!Active, I2c!list
<1>1. CASE I2c!StepRestart \/ I2c!StepWrite \/ I2c!StepRefused \/ I2c!StepRead
  BY <1>a, <1>b, <1>1 DEF I2c!StepRestart, I2c!StepWrite, I2c!StepRefused, I2c!StepRead
<1>2. CASE I2c!StepWaits \/ I2c!StepDone \/ I2c!StepStop \/ I2c!StepEnd \/ I2c!StepTimeout \/ I2c!StepIdle
  BY <1>a, <1>b, <1>2 DEF I2c!StepWaits, I2c!StepDone, I2c!StepStop, I2c!StepEnd, I2c!StepTimeout, I2c!TimesOut, I2c!StepIdle
<1>3. CASE I2c!ReadData \/ I2c!ReadEmpty \/ I2c!StartList \/ I2c!StartUnsupported \/ I2c!FsmReset \/ I2c!WriteClear \/ I2c!Restarted
  BY <1>a, <1>b, <1>3 DEF I2c!ReadData, I2c!ReadEmpty, I2c!StartList, I2c!StartUnsupported, I2c!FsmReset, I2c!WriteClear, I2c!Restarted
<1>5. ASSUME NEW b \in Bytes, I2c!WriteData(b) PROVE ListInv'
  BY <1>a, <1>b, <1>5 DEF I2c!WriteData
<1>6. ASSUME NEW c \in Confs, NEW r \in BOOLEAN, NEW t \in BOOLEAN, I2c!WriteConf(c, r, t) PROVE ListInv'
  BY <1>a, <1>b, <1>6 DEF I2c!WriteConf
<1>7. ASSUME NEW l \in Lists, I2c!WriteCommands(l) PROVE ListInv'
  BY <1>a, <1>b, <1>7 DEF I2c!WriteCommands
<1>8. ASSUME NEW e \in Enables, I2c!WriteEnable(e) PROVE ListInv'
  BY <1>a, <1>b, <1>8 DEF I2c!WriteEnable
<1> QED
  BY <1>1, <1>2, <1>3, <1>5, <1>6, <1>7, <1>8 DEF I2c!Next

\* What a step does to the bus.
Keeps == UNCHANGED <<busy, addressed, addressPhase, address, read, current, heard>> /\ lastNack' \in BOOLEAN
Ends ==
  /\ I2c!EndBus /\ heard' \in {heard, I2c!Hears} /\ address' \in I2c!Addresses /\ read' \in BOOLEAN /\ lastNack' \in BOOLEAN

LEMMA BusKept == ASSUME BusInv, Keeps, running' \/ stopped' = "end" \/ (running' = running /\ stopped' = stopped) PROVE BusInv'
  BY DEF BusInv, Keeps

LEMMA BusEnds == ASSUME BusInv, Ends PROVE BusInv'
<1>1. I2c!Hears.device = I2c!Hears.meant
  BY DEF I2c!Hears, BusInv
<1>2. heard'.device = heard'.meant
  BY <1>1 DEF Ends, BusInv
<1> QED
  BY <1>2 DEF BusInv, Ends, I2c!EndBus

LEMMA BusStep == ASSUME BusInv, TxInv, ListInv, I2c!Next PROVE BusInv'
<1>0. (~I2c!Acked) \in BOOLEAN
  OBVIOUS
<1>h. ASSUME tx # <<>> PROVE Head(tx).to \in I2c!Addresses /\ Head(tx).read \in BOOLEAN
  <2>1. tx \in Seq(Written)
    BY DEF TxInv
  <2>2. Head(tx) \in Written
    BY <1>h, <2>1
  <2> QED
    BY <2>2 DEF Written
<1>1. CASE I2c!StepRestart
  BY <1>1 DEF I2c!StepRestart, BusInv, I2c!Active
<1>2. CASE I2c!StepWrite
  <2>1. running' = running /\ stopped' = stopped /\ running /\ lastNack' \in BOOLEAN
    BY <1>2, <1>0 DEF I2c!StepWrite, I2c!Active
  <2>2. CASE addressPhase
    <3> DEFINE b == Head(tx)
    <3>1. b.to \in I2c!Addresses /\ b.read \in BOOLEAN /\ I2c!AddressDevice(b) /\ busy
      BY <1>2, <1>h, <2>2 DEF I2c!StepWrite, BusInv
    <3> HIDE DEF b
    <3> QED
      BY <2>1, <3>1 DEF I2c!AddressDevice, I2c!StartTransfer, BusInv
  <2>3. CASE ~addressPhase
    <3>1. I2c!SendByte
      BY <1>2, <2>3 DEF I2c!StepWrite
    <3> QED
      BY <2>1, <3>1 DEF I2c!SendByte, I2c!Hears, BusInv
  <2> QED
    BY <2>2, <2>3 DEF BusInv
<1>3. CASE I2c!StepRefused
  <2>1. Ends
    BY <1>3, <1>0, <1>h DEF I2c!StepRefused, Ends, BusInv
  <2> QED
    BY <2>1, BusEnds
<1>4. CASE I2c!StepStop \/ I2c!StepTimeout \/ I2c!StartUnsupported \/ I2c!FsmReset \/ I2c!Restarted
  <2>1. Ends
    BY <1>4 DEF I2c!StepStop, I2c!StepTimeout, I2c!TimesOut, I2c!StartUnsupported, I2c!FsmReset, I2c!Restarted, Ends, BusInv
  <2> QED
    BY <2>1, BusEnds
<1>5. CASE I2c!StepRead \/ I2c!StepWaits \/ I2c!StepDone \/ I2c!StepEnd \/ I2c!StepIdle
  <2>1. Keeps /\ (stopped' = "end" \/ (running' = running /\ stopped' = stopped))
    BY <1>5 DEF I2c!StepRead, I2c!StepWaits, I2c!StepDone, I2c!StepEnd, I2c!StepIdle, I2c!bus, I2c!list, Keeps, BusInv
  <2> QED
    BY <2>1, BusKept
<1>6. CASE I2c!ReadData \/ I2c!ReadEmpty \/ I2c!StartList \/ I2c!WriteClear
  <2>1. Keeps /\ (running' \/ (running' = running /\ stopped' = stopped))
    BY <1>6 DEF I2c!ReadData, I2c!ReadEmpty, I2c!StartList, I2c!WriteClear, I2c!bus, I2c!list, Keeps, BusInv
  <2> QED
    BY <2>1, BusKept
<1>7. ASSUME \/ \E b \in Bytes : I2c!WriteData(b)
             \/ \E l \in Lists : I2c!WriteCommands(l)
             \/ \E c \in Confs, r \in BOOLEAN, t \in BOOLEAN : I2c!WriteConf(c, r, t)
             \/ \E e \in Enables : I2c!WriteEnable(e)
      PROVE  BusInv'
  <2>1. Keeps /\ running' = running /\ stopped' = stopped
    BY <1>7 DEF I2c!WriteData, I2c!WriteCommands, I2c!WriteConf, I2c!WriteEnable, I2c!bus, I2c!list, Keeps, BusInv
  <2> QED
    BY <2>1, BusKept
<1> QED
  BY <1>1, <1>2, <1>3, <1>4, <1>5, <1>6, <1>7 DEF I2c!Next

LEMMA WaitsStep == ASSUME I2c!WaitsForFifo, TxInv, RxInv, ListInv, I2c!Next PROVE I2c!WaitsForFifo'
<1> USE DEF I2c!WaitsForFifo, I2c!Command, I2c!Leave, I2c!Stay, I2c!Access, I2c!list, I2c!registers
<1>1. CASE I2c!StepRestart \/ I2c!StepWrite \/ I2c!StepRefused \/ I2c!StepRead \/ I2c!StepDone \/ I2c!StepStop \/ I2c!StepEnd
  BY <1>1 DEF I2c!StepRestart, I2c!StepWrite, I2c!StepRefused, I2c!StepRead, I2c!StepDone, I2c!StepStop, I2c!StepEnd
<1>2. CASE I2c!StepTimeout \/ I2c!StepIdle
  BY <1>2 DEF I2c!StepTimeout, I2c!TimesOut, I2c!StepIdle
<1>3. CASE I2c!StepWaits
  BY <1>3 DEF I2c!StepWaits, I2c!Active
<1>4. CASE I2c!ReadData \/ I2c!StartList \/ I2c!StartUnsupported \/ I2c!FsmReset \/ I2c!Restarted
  BY <1>4 DEF I2c!ReadData, I2c!StartList, I2c!StartUnsupported, I2c!FsmReset, I2c!Restarted
<1>5. CASE I2c!ReadEmpty \/ I2c!WriteClear
  BY <1>5 DEF I2c!ReadEmpty, I2c!WriteClear
<1>6. ASSUME NEW b \in Bytes, I2c!WriteData(b) PROVE I2c!WaitsForFifo'
  BY <1>6 DEF I2c!WriteData
<1>7. ASSUME NEW c \in Confs, NEW r \in BOOLEAN, NEW t \in BOOLEAN, I2c!WriteConf(c, r, t) PROVE I2c!WaitsForFifo'
  BY <1>7 DEF I2c!WriteConf
<1>8. ASSUME NEW l \in Lists, I2c!WriteCommands(l) PROVE I2c!WaitsForFifo'
  BY <1>8 DEF I2c!WriteCommands
<1>9. ASSUME NEW e \in Enables, I2c!WriteEnable(e) PROVE I2c!WaitsForFifo'
  BY <1>9 DEF I2c!WriteEnable
<1> QED
  BY <1>1, <1>2, <1>3, <1>4, <1>5, <1>6, <1>7, <1>8, <1>9 DEF I2c!Next

LEMMA I2cInit == I2c!Init => I2cInv
<1> SUFFICES ASSUME I2c!Init PROVE I2cInv
  OBVIOUS
<1>0. FifoCapacity \in Nat /\ CommandCount \in Nat \ {0} /\ <<>> \in Seq(Written) /\ <<>> \in Seq(Nat)
  BY PadsAssumption DEF I2c!I2cAssumption
<1>1. TxInv
  BY <1>0 DEF TxInv, I2c!TxConserved, I2c!Init
<1>2. RxInv
  <2>1. rx = <<>> /\ served = 0 /\ taken = 0
    BY DEF I2c!Init
  <2>2. <<>> = [i \in 1..0 - 0 |-> 0 + i]
    OBVIOUS
  <2> QED
    BY <1>0, <2>1, <2>2 DEF RxInv, I2c!RxConserved
<1>3. ListInv
  <2>1. 1 \in 1..CommandCount + 1 /\ 0 \in Nat
    BY <1>0
  <2> QED
    BY <2>1 DEF ListInv, I2c!Init
<1>4. BusInv
  BY DEF BusInv, I2c!Init, I2c!Nothing
<1>5. IrqInv
  <2>1. I2c!Watermarks(conf, rx, tx) = {"TxWm"}
    <3>1. conf.protect /\ conf.txEmpty = 1 /\ conf.rxFull = FifoCapacity \div 3 /\ rx = <<>> /\ tx = <<>>
      BY DEF I2c!Init, I2c!Reset
    <3>2. ~(0 > FifoCapacity \div 3)
      BY <1>0
    <3> QED
      BY <3>1, <3>2 DEF I2c!Watermarks
  <2> QED
    BY <2>1 DEF IrqInv, I2c!IrqCurrent, I2c!Init
<1>6. I2c!WaitsForFifo
  BY DEF I2c!WaitsForFifo, I2c!Init
<1> QED
  BY <1>1, <1>2, <1>3, <1>4, <1>5, <1>6 DEF I2cInv

LEMMA I2cStep == I2cInv /\ [I2c!Next]_I2c!vars => I2cInv'
<1> SUFFICES ASSUME I2cInv, [I2c!Next]_I2c!vars PROVE I2cInv'
  OBVIOUS
<1>1. CASE I2c!Next
  BY <1>1, BytesMove, TxStep, RxStep, ListStep, BusStep, IrqStep, WaitsStep DEF I2cInv
<1>2. CASE UNCHANGED I2c!vars
  BY <1>2 DEF I2c!vars, I2c!list, I2cInv, TxInv, RxInv, ListInv, BusInv, IrqInv, I2c!TxConserved, I2c!RxConserved,
              I2c!IrqCurrent, I2c!Watermarks, I2c!WaitsForFifo, I2c!Command
<1> QED
  BY <1>1, <1>2

(* Whatever software programs and whenever it touches the registers, no byte  *)
(* is lost, repeated or out of order on its way through the FIFOs, a device   *)
(* hears only what was addressed to it, no access leaves the bus taken by a   *)
(* list that is over or a command waiting that could go on, and the line is   *)
(* what the flags say: runCommands, addressDevice, endBus, updateIrq.         *)
THEOREM I2cCorrect == I2c!Spec => []I2cSafety
<1>1. I2cInv => I2cSafety
  BY DEF I2cInv, TxInv, RxInv, ListInv, BusInv, IrqInv, Written, I2cSafety, I2c!I2cSafety, I2c!TypeOK, I2c!RightDevice, I2c!BusReleased
<1> QED
  BY I2cInit, I2cStep, <1>1, PTL DEF I2c!Spec

-----------------------------------------------------------------------------
(* The audio codec.                                                         *)
(* A sum is the same modulo n whether its terms were reduced or not.        *)
LEMMA Remainders ==
  ASSUME NEW n \in Nat \ {0}, NEW a \in Int, NEW b \in Int, NEW r \in 0..n - 1, NEW s \in 0..n - 1, n * a + r = n * b + s
  PROVE  r = s
<1>1. CASE a = b
  BY <1>1
<1>2. CASE a < b
  <2>1. n * (b - a) >= n
    BY <1>2
  <2>2. n * (b - a) = n * b - n * a
    OBVIOUS
  <2> QED
    BY <2>1, <2>2
<1>3. CASE a > b
  <2>1. n * (a - b) >= n
    BY <1>3
  <2>2. n * (a - b) = n * a - n * b
    OBVIOUS
  <2> QED
    BY <2>1, <2>2
<1> QED
  BY <1>1, <1>2, <1>3

LEMMA Modulo == ASSUME NEW n \in Nat \ {0}, NEW a \in Int PROVE a % n \in 0..n - 1 /\ a \div n \in Int /\ a = n * (a \div n) + (a % n)
  OBVIOUS

LEMMA SumModulo == ASSUME NEW n \in Nat \ {0}, NEW a \in Int, NEW b \in Int PROVE ((a % n) + b) % n = (a + b) % n
<1> DEFINE p == a \div n
           q == ((a % n) + b) \div n
           s == (a + b) \div n
<1>1. a % n \in Int /\ p \in Int /\ a = n * p + (a % n)
  BY Modulo
<1>2. /\ ((a % n) + b) % n \in 0..n - 1 /\ q \in Int
      /\ (a % n) + b = n * q + (((a % n) + b) % n)
  <2>1. (a % n) + b \in Int
    BY <1>1
  <2> QED
    BY ONLY <2>1, n \in Nat \ {0}, Modulo
<1>3. (a + b) % n \in 0..n - 1 /\ s \in Int /\ a + b = n * s + ((a + b) % n)
  <2>1. a + b \in Int
    OBVIOUS
  <2> QED
    BY ONLY <2>1, n \in Nat \ {0}, Modulo
<1>4. n * (p + q) = n * p + n * q /\ p + q \in Int
  BY <1>1, <1>2
<1>5. n * (p + q) + (((a % n) + b) % n) = n * s + ((a + b) % n)
  BY <1>1, <1>2, <1>3, <1>4
<1> QED
  BY ONLY <1>2, <1>3, <1>4, <1>5, n \in Nat \ {0}, Remainders

LEMMA SmallModulo == ASSUME NEW n \in Nat \ {0}, NEW a \in 0..n - 1 PROVE a % n = a
<1>1. a \in Int /\ a % n \in 0..n - 1 /\ a \div n \in Int /\ a = n * (a \div n) + (a % n)
  BY Modulo
<1>2. n * 0 + a = n * (a \div n) + (a % n)
  BY <1>1
<1> QED
  BY ONLY <1>1, <1>2, 0 \in Int, n \in Nat \ {0}, a \in 0..n - 1, Remainders
-----------------------------------------------------------------------------
Number == 0..Samples - 1
Sound == [n : Number, sound : BOOLEAN]
CodecType ==
  [powered : BOOLEAN, amplifier : BOOLEAN, registers : [dac : BOOLEAN, adc : BOOLEAN, mute : BOOLEAN],
   rate : [input : Rates, output : Rates], active : [input : BOOLEAN, output : BOOLEAN],
   playback : Seq(Sound), capture : Seq(Number), primed : BOOLEAN]

Plays(q, sent) == Len(q) <= Capacity /\ \A i \in 1..Len(q) : q[i].n = (sent - Len(q) + i - 1) % Samples
Captures(q, end, fresh) ==
  Len(q) <= Capacity /\ Len(q) <= fresh /\ \A i \in 1..Len(q) : q[i] = (end - Len(q) + i - 1) % Samples
Follows(q, next, end) == next # Codec!Free => next = IF Len(q) = 0 THEN end ELSE q[1]
Silent(c) == (c.active.output /\ Codec!Audible(c)) \/ \A i \in 1..Len(c.playback) : ~c.playback[i].sound

HostType == [sent : Number, heard : Number, fresh : Nat]
GuestType == [block : {"none", "silence", "sound"}, next : Codec!Free..Samples - 1]

CodecInv ==
  /\ codec \in CodecType /\ host \in HostType /\ listener \in GuestType
  /\ Plays(codec.playback, host.sent) /\ Captures(codec.capture, host.heard, host.fresh)
  /\ Follows(codec.capture, listener.next, host.heard) /\ Silent(codec)

LEMMA CodecBounds ==
  /\ Capacity \in Nat /\ Block \in 1..Capacity /\ Burst \in Nat /\ Samples \in Nat \ {0}
  /\ 0 \in Rates /\ Number \subseteq Int /\ 0 \in Number /\ Codec!Free \in Codec!Free..Samples - 1 /\ Codec!Free \notin Number
  /\ Number \subseteq Codec!Free..Samples - 1
  BY AudioAssumption DEF Codec!CodecAssumption, Number, Codec!Free

(* es8311UpdateAudio keeps of either buffer all or nothing.                 *)
LEMMA Settled ==
  ASSUME NEW c \in CodecType, NEW opened, codec' = Codec!Updated(c, opened),
         host \in HostType, listener \in GuestType,
         c.playback = <<>> \/ Plays(c.playback, host.sent),
         NEW restart \in BOOLEAN, Codec!Restarts(restart),
         \/ restart /\ (c.capture = <<>> \/ ~codec'.active.input)
         \/ ~restart /\ codec'.active.input /\ Captures(c.capture, host.heard, host.fresh)
            /\ Follows(c.capture, listener.next, host.heard)
  PROVE  CodecInv'
<1> USE CodecBounds
<1> DEFINE on == [output |-> c.powered /\ c.registers.dac /\ c.rate.output \in Supported /\ "output" \in opened,
                  input |-> c.powered /\ c.registers.adc /\ c.rate.input \in Supported /\ "input" \in opened]
           sound == IF on.output /\ Codec!Audible(c) THEN c.playback ELSE <<>>
           kept == IF on.input THEN c.capture ELSE <<>>
           ready == c.primed /\ on.input
<1>0. codec' = [c EXCEPT !.active = on, !.playback = sound, !.capture = kept, !.primed = ready]
  BY DEF Codec!Updated
<1>a. on \in [input : BOOLEAN, output : BOOLEAN] /\ ready \in BOOLEAN
  <2>1. /\ (c.powered /\ c.registers.dac /\ c.rate.output \in Supported /\ "output" \in opened) \in BOOLEAN
        /\ (c.powered /\ c.registers.adc /\ c.rate.input \in Supported /\ "input" \in opened) \in BOOLEAN
    OBVIOUS
  <2> QED
    BY <2>1
<1>b. c.playback \in Seq(Sound) /\ c.capture \in Seq(Number) /\ <<>> \in Seq(Sound) /\ <<>> \in Seq(Number)
  BY DEF CodecType
<1>c. sound \in Seq(Sound) /\ kept \in Seq(Number)
  BY <1>b
<1> HIDE DEF on, sound, kept, ready
<1>1. codec' \in CodecType
  BY <1>0, <1>a, <1>c DEF CodecType
<1>2. codec'.active = on /\ codec'.playback = sound /\ codec'.capture = kept /\ codec'.amplifier = c.amplifier /\ codec'.registers = c.registers
  BY <1>0 DEF CodecType
<1>3. host' \in HostType /\ listener' \in GuestType /\ host'.sent = host.sent /\ host'.heard = host.heard
  BY DEF Codec!Restarts, HostType, GuestType
<1>4. Plays(codec'.playback, host'.sent) /\ Silent(codec')
  <2>1. CASE sound = <<>>
    BY <2>1, <1>2 DEF Plays, Silent
  <2>2. CASE sound # <<>>
    <3>1. sound = c.playback /\ on.output /\ Codec!Audible(c)
      BY <2>2 DEF sound
    <3> QED
      BY <2>2, <3>1, <1>2, <1>3 DEF Silent, Codec!Audible
  <2> QED
    BY <2>1, <2>2
<1>5. Captures(codec'.capture, host'.heard, host'.fresh) /\ Follows(codec'.capture, listener'.next, host'.heard)
  <2>1. CASE restart
    <3>1. kept = <<>> /\ host'.fresh = 0 /\ listener'.next = Codec!Free
      BY <2>1, <1>2 DEF kept, Codec!Restarts, HostType
    <3> QED
      BY <3>1, <1>2 DEF Captures, Follows
  <2>2. CASE ~restart
    BY <2>2, <1>2 DEF kept, Codec!Restarts
  <2> QED
    BY <2>1, <2>2
<1> QED
  BY <1>1, <1>3, <1>4, <1>5 DEF CodecInv
LEMMA AudioUpdated ==
  ASSUME CodecInv, NEW c \in CodecType, c.playback \in {codec.playback, <<>>}, c.capture = codec.capture, Codec!UpdateAudio(c)
  PROVE  CodecInv'
<1>1. PICK opened \in SUBSET {"input", "output"} : codec' = Codec!Updated(c, opened) /\ Codec!Restarts(~codec'.active.input)
  BY DEF Codec!UpdateAudio
<1> DEFINE restart == ~codec'.active.input
<1>2. restart \in BOOLEAN /\ Codec!Restarts(restart)
  BY <1>1
<1>3. /\ host \in HostType /\ listener \in GuestType /\ (c.playback = <<>> \/ Plays(c.playback, host.sent))
      /\ Captures(c.capture, host.heard, host.fresh) /\ Follows(c.capture, listener.next, host.heard)
  BY DEF CodecInv
<1>4. (restart /\ ~codec'.active.input) \/ (~restart /\ codec'.active.input)
  OBVIOUS
<1> HIDE DEF restart
<1> QED
  BY ONLY <1>1, <1>2, <1>3, <1>4, c \in CodecType, Settled

\* What is left of a queue once its first k elements are dropped.
Rest(q, rest, k) == k \in 0..Len(q) /\ Len(rest) = Len(q) - k /\ \A i \in 1..Len(rest) : k + i \in 1..Len(q) /\ rest[i] = q[k + i]

LEMMA Dropped ==
  ASSUME NEW X, NEW q \in Seq(X), NEW k \in 0..Len(q)
  PROVE  SubSeq(q, k + 1, Len(q)) \in Seq(X) /\ Rest(q, SubSeq(q, k + 1, Len(q)), k)
<1> DEFINE rest == SubSeq(q, k + 1, Len(q))
<1>1. Len(q) \in Nat /\ k \in Nat /\ k <= Len(q)
  OBVIOUS
<1>2. \A i \in k + 1..Len(q) : q[i] \in X
  BY <1>1
<1>3. rest \in Seq(X)
  BY <1>1, <1>2
<1>4. Len(rest) = Len(q) - k
  BY <1>1
<1>5. \A i \in 1..Len(q) - k : rest[i] = q[k + i]
  BY <1>1
<1> HIDE DEF rest
<1>6. Rest(q, rest, k)
  BY <1>1, <1>4, <1>5 DEF Rest
<1> QED
  BY <1>3, <1>6 DEF rest

LEMMA DroppedTwice ==
  ASSUME NEW X, NEW q \in Seq(X), NEW m \in Seq(X), NEW rest \in Seq(X), NEW k \in Nat, NEW t \in Nat, Rest(q, m, k), Rest(m, rest, t)
  PROVE  Rest(q, rest, k + t)
<1>1. Len(q) \in Nat /\ Len(m) \in Nat /\ Len(rest) \in Nat /\ Len(m) = Len(q) - k /\ Len(rest) = Len(m) - t
  BY DEF Rest
<1>2. k + t \in 0..Len(q) /\ Len(rest) = Len(q) - (k + t)
  BY <1>1
<1>3. ASSUME NEW i \in 1..Len(rest) PROVE k + t + i \in 1..Len(q) /\ rest[i] = q[k + t + i]
  <2>1. t + i \in 1..Len(m) /\ rest[i] = m[t + i] /\ k + (t + i) = k + t + i
    BY <1>1 DEF Rest
  <2>2. k + (t + i) \in 1..Len(q) /\ m[t + i] = q[k + (t + i)]
    BY <2>1 DEF Rest
  <2> QED
    BY <2>1, <2>2
<1> QED
  BY <1>2, <1>3 DEF Rest

\* Dropping the first of a queue leaves the rest as old as it was.
LEMMA RestDated ==
  ASSUME NEW X, NEW q \in Seq(X), NEW rest \in Seq(X), NEW k, Rest(q, rest, k), NEW end \in Int
  PROVE  \A i \in 1..Len(rest) : /\ k + i \in 1..Len(q) /\ rest[i] = q[k + i]
                                 /\ end - Len(rest) + i - 1 = end - Len(q) + (k + i) - 1
<1>1. Len(q) \in Nat /\ Len(rest) \in Nat /\ k \in Nat /\ Len(rest) = Len(q) - k
  BY DEF Rest
<1> QED
  BY <1>1 DEF Rest

LEMMA Joined ==
  ASSUME NEW X, NEW a \in Seq(X), NEW b \in Seq(X)
  PROVE  /\ a \o b \in Seq(X) /\ Len(a \o b) = Len(a) + Len(b)
         /\ \A i \in 1..Len(a) : (a \o b)[i] = a[i]
         /\ \A i \in 1..Len(b) : (a \o b)[Len(a) + i] = b[i]
  OBVIOUS

LEMMA NewestIsRest ==
  ASSUME NEW X, NEW q \in Seq(X)
  PROVE  /\ Codec!Newest(q) \in Seq(X) /\ Len(Codec!Newest(q)) <= Capacity
         /\ \E k \in Nat : Rest(q, Codec!Newest(q), k) /\ (k > 0 => Len(q) > Capacity)
<1>0. Capacity \in Nat /\ Len(q) \in Nat
  BY CodecBounds
<1>1. CASE Len(q) > Capacity
  <2> DEFINE k == Len(q) - Capacity
  <2>1. k \in 0..Len(q) /\ k \in Nat /\ Len(q) - k = Capacity
    BY <1>0, <1>1
  <2>2. Codec!Newest(q) = SubSeq(q, k + 1, Len(q))
    BY <1>1 DEF Codec!Newest
  <2> HIDE DEF k
  <2>3. Codec!Newest(q) \in Seq(X) /\ Rest(q, Codec!Newest(q), k)
    BY <2>1, <2>2, Dropped
  <2> QED
    BY <1>0, <1>1, <2>1, <2>3 DEF Rest
<1>2. CASE Len(q) <= Capacity
  <2>1. Codec!Newest(q) = q /\ Rest(q, q, 0)
    BY <1>0, <1>2 DEF Codec!Newest, Rest
  <2> QED
    BY <1>2, <2>1
<1> QED
  BY <1>0, <1>1, <1>2

LEMMA NumbersCount ==
  ASSUME NEW first \in Number, NEW count \in Nat
  PROVE  /\ Codec!Numbers(first, count) \in Seq(Number) /\ Len(Codec!Numbers(first, count)) = count
         /\ \A i \in 1..count : Codec!Numbers(first, count)[i] = (first + i - 1) % Samples
<1>1. \A i \in 1..count : (first + i - 1) % Samples \in Number
  <2> SUFFICES ASSUME NEW i \in 1..count PROVE (first + i - 1) % Samples \in Number
    OBVIOUS
  <2>1. first + i - 1 \in Int
    BY CodecBounds
  <2> QED
    BY ONLY <2>1, CodecBounds, Modulo DEF Number
<1> QED
  BY <1>1 DEF Codec!Numbers

\* Both ends of a queue that grows are dated by the new end.
LEMMA Dated ==
  ASSUME NEW end \in Number, NEW length \in Nat, NEW count \in Nat
  PROVE  LET later == (end + count) % Samples
         IN /\ later \in Number
            /\ \A i \in 1..length : (end - length + i - 1) % Samples = (later - (length + count) + i - 1) % Samples
            /\ \A i \in 1..count : (end + i - 1) % Samples = (later - (length + count) + (length + i) - 1) % Samples
<1> DEFINE later == (end + count) % Samples
<1> USE CodecBounds
<1>1. end + count \in Int /\ Samples \in Nat \ {0}
  OBVIOUS
<1>2. later \in Number
  BY ONLY <1>1, Modulo DEF Number
<1>3. ASSUME NEW b \in Int PROVE (later + b) % Samples = (end + count + b) % Samples
  BY ONLY <1>1, <1>3, SumModulo
<1> HIDE DEF later
<1>4. ASSUME NEW i \in 1..length PROVE (end - length + i - 1) % Samples = (later - (length + count) + i - 1) % Samples
  <2>1. (later + (i - 1 - length - count)) % Samples = (end + count + (i - 1 - length - count)) % Samples
    BY <1>3
  <2>2. /\ later + (i - 1 - length - count) = later - (length + count) + i - 1
        /\ end + count + (i - 1 - length - count) = end - length + i - 1
    BY <1>2
  <2> QED
    BY <2>1, <2>2
<1>5. ASSUME NEW i \in 1..count PROVE (end + i - 1) % Samples = (later - (length + count) + (length + i) - 1) % Samples
  <2>1. (later + (i - 1 - count)) % Samples = (end + count + (i - 1 - count)) % Samples
    BY <1>3
  <2>2. /\ later + (i - 1 - count) = later - (length + count) + (length + i) - 1
        /\ end + count + (i - 1 - count) = end + i - 1
    BY <1>2
  <2> QED
    BY <2>1, <2>2
<1> QED
  BY <1>2, <1>4, <1>5 DEF later

(* The newest sound, without a gap, however much of it the host takes.      *)
LEMMA SoundSent ==
  ASSUME CodecInv, NEW count \in 1..Block, Codec!TransferOutput(count)
  PROVE  CodecInv'
<1> DEFINE old == codec.playback
           block == [i \in 1..count |-> [n |-> Codec!Numbers(host.sent, count)[i], sound |-> Codec!Audible(codec)]]
           all == old \o block
           queue == Codec!Newest(all)
           later == (host.sent + count) % Samples
           length == Len(old)
           rest == codec'.playback
<1>0. codec \in CodecType /\ host \in HostType /\ listener \in GuestType /\ Plays(codec.playback, host.sent) /\ codec.active.output
  BY DEF CodecInv, Codec!TransferOutput
<1>a. old \in Seq(Sound) /\ host.sent \in Number /\ length \in Nat /\ codec.active \in [input : BOOLEAN, output : BOOLEAN]
  BY <1>0 DEF CodecType, HostType
<1>b. count \in Nat
  BY CodecBounds
<1>c. \A i \in 1..length : old[i].n = (host.sent - length + i - 1) % Samples
  BY <1>0 DEF Plays
<1>1. block \in Seq(Sound) /\ Len(block) = count /\ \A i \in 1..count : block[i].n = (host.sent + i - 1) % Samples /\ (block[i].sound <=> Codec!Audible(codec))
  <2>1. /\ Codec!Numbers(host.sent, count) \in Seq(Number) /\ Len(Codec!Numbers(host.sent, count)) = count
        /\ \A i \in 1..count : Codec!Numbers(host.sent, count)[i] = (host.sent + i - 1) % Samples
    BY <1>a, <1>b, NumbersCount
  <2>2. Codec!Audible(codec) \in BOOLEAN
    BY DEF Codec!Audible
  <2>3. \A i \in 1..count : Codec!Numbers(host.sent, count)[i] \in Number
    BY <2>1
  <2> QED
    BY <1>b, <2>1, <2>2, <2>3 DEF Sound
<1>2. /\ later \in Number
      /\ \A i \in 1..length : (host.sent - length + i - 1) % Samples = (later - (length + count) + i - 1) % Samples
      /\ \A i \in 1..count : (host.sent + i - 1) % Samples = (later - (length + count) + (length + i) - 1) % Samples
  BY ONLY <1>a, <1>b, Dated
<1>3. /\ codec' = [codec EXCEPT !.playback = rest] /\ host' = [host EXCEPT !.sent = later] /\ listener' = listener
      /\ \E k \in 0..Len(queue) : rest = SubSeq(queue, k + 1, Len(queue))
  BY <1>0 DEF Codec!TransferOutput, CodecType
<1> HIDE DEF block, later
<1>4. /\ all \in Seq(Sound) /\ Len(all) = length + count
      /\ \A i \in 1..length : all[i] = old[i]
      /\ \A i \in 1..count : all[length + i] = block[i]
  <2>1. old \in Seq(Sound) /\ block \in Seq(Sound)
    BY <1>a, <1>1
  <2>2. /\ old \o block \in Seq(Sound) /\ Len(old \o block) = Len(old) + Len(block)
        /\ \A i \in 1..Len(old) : (old \o block)[i] = old[i]
        /\ \A i \in 1..Len(block) : (old \o block)[Len(old) + i] = block[i]
    BY ONLY <2>1, Joined
  <2> QED
    BY ONLY <2>2, <1>1
<1> HIDE DEF all, old, length
<1>5. ASSUME NEW j \in 1..length + count
      PROVE  /\ all[j].n = (later - (length + count) + j - 1) % Samples
             /\ (all[j].sound => Codec!Audible(codec) \/ \E i \in 1..length : old[i].sound)
  <2>1. CASE j \in 1..length
    BY <2>1, <1>c, <1>2, <1>4
  <2>2. CASE j \notin 1..length
    <3>1. j - length \in 1..count /\ j = length + (j - length)
      BY <2>2, <1>a, <1>b
    <3> DEFINE i == j - length
    <3>2. all[length + i] = block[i] /\ (host.sent + i - 1) % Samples = (later - (length + count) + (length + i) - 1) % Samples
      BY <3>1, <1>2, <1>4
    <3>3. block[i].n = (host.sent + i - 1) % Samples /\ (block[i].sound <=> Codec!Audible(codec))
      BY <3>1, <1>1
    <3>4. length + i = j
      BY <3>1
    <3> HIDE DEF i
    <3> QED
      BY <3>2, <3>3, <3>4
  <2> QED
    BY <2>1, <2>2
<1>6. queue \in Seq(Sound) /\ Len(queue) <= Capacity /\ \E k \in Nat : Rest(all, queue, k)
  BY <1>4, NewestIsRest
<1>7. PICK first \in Nat : Rest(all, queue, first)
  BY <1>6
<1> HIDE DEF queue
<1>8. PICK dropped \in 0..Len(queue) : rest = SubSeq(queue, dropped + 1, Len(queue))
  BY <1>3
<1> HIDE DEF rest
<1>9. rest \in Seq(Sound) /\ Rest(queue, rest, dropped) /\ Len(queue) \in Nat /\ dropped \in Nat
  BY <1>6, <1>8, Dropped
<1>10. Len(rest) \in Nat /\ Len(rest) <= Capacity
  <2>1. Len(rest) \in Nat /\ Len(rest) = Len(queue) - dropped /\ Capacity \in Nat
    BY <1>9, CodecBounds DEF Rest
  <2> QED
    BY <2>1, <1>6, <1>9
<1>11. Rest(all, rest, first + dropped)
  BY <1>4, <1>6, <1>7, <1>9, DroppedTwice
<1>12. \A i \in 1..Len(rest) : /\ first + dropped + i \in 1..length + count /\ rest[i] = all[first + dropped + i]
                               /\ later - Len(rest) + i - 1 = later - (length + count) + (first + dropped + i) - 1
  <2> DEFINE k == first + dropped
  <2>1. later \in Int /\ all \in Seq(Sound) /\ rest \in Seq(Sound) /\ Rest(all, rest, k)
    BY <1>2, <1>4, <1>9, <1>11, CodecBounds
  <2> HIDE DEF k
  <2>2. \A i \in 1..Len(rest) : /\ k + i \in 1..Len(all) /\ rest[i] = all[k + i]
                                /\ later - Len(rest) + i - 1 = later - Len(all) + (k + i) - 1
    BY ONLY <2>1, RestDated
  <2> QED
    BY <2>2, <1>4 DEF k
<1>13. Plays(rest, later)
  <2>1. ASSUME NEW i \in 1..Len(rest) PROVE rest[i].n = (later - Len(rest) + i - 1) % Samples
    BY <1>5, <1>12
  <2> QED
    BY <2>1, <1>10 DEF Plays
<1>14. Silent(codec')
  <2>1. /\ codec'.active = codec.active /\ codec'.amplifier = codec.amplifier /\ codec'.registers = codec.registers /\ codec'.playback = rest
    BY <1>0, <1>3 DEF CodecType, rest
  <2>2. CASE Codec!Audible(codec)
    BY <1>0, <2>1, <2>2 DEF Silent, Codec!Audible
  <2>3. CASE ~Codec!Audible(codec)
    <3>1. \A i \in 1..length : ~old[i].sound
      BY <2>3 DEF CodecInv, Silent, old, length
    <3>2. \A i \in 1..Len(rest) : ~rest[i].sound
      BY <3>1, <2>3, <1>5, <1>12
    <3> QED
      BY <3>2, <2>1 DEF Silent
  <2> QED
    BY <2>2, <2>3
<1>15. codec' \in CodecType /\ codec'.capture = codec.capture
  BY <1>0, <1>3, <1>9 DEF CodecType
<1>16. host' \in HostType /\ host'.sent = later /\ host'.heard = host.heard /\ host'.fresh = host.fresh
  BY <1>0, <1>2, <1>3 DEF HostType
<1> QED
  BY <1>3, <1>13, <1>14, <1>15, <1>16 DEF CodecInv, rest

LEMMA SoundPlayed ==
  ASSUME CodecInv, Codec!PlaybackAvailable
  PROVE  CodecInv'
<1> DEFINE old == codec.playback
           rest == codec'.playback
<1>0. codec \in CodecType /\ host \in HostType /\ Plays(old, host.sent) /\ Silent(codec) /\ UNCHANGED <<host, listener>>
  BY DEF CodecInv, Codec!PlaybackAvailable
<1>1. old \in Seq(Sound) /\ host.sent \in Int /\ Len(old) \in Nat
  <2>1. old \in Seq(Sound)
    BY <1>0 DEF CodecType
  <2>2. host.sent \in Number
    BY <1>0 DEF HostType
  <2>3. host.sent \in Int
    BY <2>2, CodecBounds
  <2> QED
    BY ONLY <2>1, <2>3
<1>2. PICK k \in 1..Len(old) : codec' = [codec EXCEPT !.playback = SubSeq(old, k + 1, Len(old))]
  BY <1>0 DEF Codec!PlaybackAvailable, CodecType
<1>3. rest = SubSeq(old, k + 1, Len(old)) /\ k \in 0..Len(old)
  BY <1>0, <1>1, <1>2 DEF CodecType
<1> HIDE DEF old, rest
<1>4. rest \in Seq(Sound) /\ Rest(old, rest, k)
  BY ONLY <1>1, <1>3, Dropped
<1>5. \A i \in 1..Len(rest) : /\ k + i \in 1..Len(old) /\ rest[i] = old[k + i]
                              /\ host.sent - Len(rest) + i - 1 = host.sent - Len(old) + (k + i) - 1
  <2> DEFINE end == host.sent
  <2>1. end \in Int /\ old \in Seq(Sound) /\ rest \in Seq(Sound) /\ Rest(old, rest, k)
    BY <1>1, <1>4
  <2> HIDE DEF end
  <2>2. \A i \in 1..Len(rest) : /\ k + i \in 1..Len(old) /\ rest[i] = old[k + i]
                                /\ end - Len(rest) + i - 1 = end - Len(old) + (k + i) - 1
    BY ONLY <2>1, RestDated
  <2> QED
    BY <2>2 DEF end
<1>6. Len(rest) <= Capacity
  <2>1. Len(rest) = Len(old) - k /\ Capacity \in Nat /\ Len(old) <= Capacity
    BY <1>0, <1>4, CodecBounds DEF Rest, Plays
  <2> QED
    BY <2>1, <1>1, <1>3
<1>7. Plays(rest, host.sent)
  BY <1>0, <1>5, <1>6 DEF Plays
<1>8. /\ codec' \in CodecType /\ codec'.capture = codec.capture /\ codec'.active = codec.active /\ codec'.amplifier = codec.amplifier
      /\ codec'.registers = codec.registers
  BY <1>0, <1>2, <1>3, <1>4 DEF CodecType, old
<1>9. Silent(codec')
  <2>1. CASE codec.active.output /\ Codec!Audible(codec)
    BY <1>8, <2>1 DEF Silent, Codec!Audible
  <2>2. CASE \A i \in 1..Len(old) : ~old[i].sound
    BY <1>5, <2>2 DEF Silent, rest
  <2> QED
    BY <1>0, <2>1, <2>2 DEF Silent, old
<1> QED
  BY <1>0, <1>7, <1>8, <1>9 DEF CodecInv, rest

(* The newest input, without a gap.  What follows the last block delivered  *)
(* is still the first that waits, unless some of it was dropped.            *)
LEMMA InputHeard ==
  ASSUME CodecInv, NEW count \in 1..Burst, Codec!CaptureAvailable(count)
  PROVE  CodecInv'
<1> DEFINE old == codec.capture
           block == Codec!Numbers(host.heard, count)
           queue == old \o block
           rest == codec'.capture
           later == (host.heard + count) % Samples
<1>0. /\ codec \in CodecType /\ host \in HostType /\ listener \in GuestType /\ Captures(old, host.heard, host.fresh)
      /\ Follows(old, listener.next, host.heard) /\ Silent(codec) /\ Plays(codec.playback, host.sent)
  BY DEF CodecInv
<1>1. old \in Seq(Number) /\ host.heard \in Number /\ host.fresh \in Nat /\ Len(old) \in Nat /\ count \in Nat /\ count >= 1
  BY <1>0, CodecBounds DEF CodecType, HostType
<1>2. block \in Seq(Number) /\ Len(block) = count /\ \A i \in 1..count : block[i] = (host.heard + i - 1) % Samples
  BY ONLY <1>1, NumbersCount
<1>3. /\ later \in Number
      /\ \A i \in 1..Len(old) : (host.heard - Len(old) + i - 1) % Samples = (later - (Len(old) + count) + i - 1) % Samples
      /\ \A i \in 1..count : (host.heard + i - 1) % Samples = (later - (Len(old) + count) + (Len(old) + i) - 1) % Samples
  BY ONLY <1>1, Dated
<1>4. /\ codec' = [codec EXCEPT !.capture = Codec!Newest(queue)]
      /\ listener' = [listener EXCEPT !.next = IF Len(queue) > Capacity THEN Codec!Free ELSE @]
      /\ host' = [host EXCEPT !.heard = later, !.fresh = IF @ + count > Capacity THEN Capacity ELSE @ + count]
  BY DEF Codec!CaptureAvailable
<1>5. rest = Codec!Newest(queue)
  BY <1>0, <1>4 DEF CodecType
<1> HIDE DEF old, block, rest, later
<1>6. /\ queue \in Seq(Number) /\ Len(queue) = Len(old) + count
      /\ \A i \in 1..Len(old) : queue[i] = old[i]
      /\ \A i \in 1..count : queue[Len(old) + i] = block[i]
  <2>0. old \in Seq(Number) /\ block \in Seq(Number)
    BY <1>1, <1>2
  <2>1. /\ old \o block \in Seq(Number) /\ Len(old \o block) = Len(old) + Len(block)
        /\ \A i \in 1..Len(old) : (old \o block)[i] = old[i]
        /\ \A i \in 1..Len(block) : (old \o block)[Len(old) + i] = block[i]
    BY ONLY <2>0, Joined
  <2> QED
    BY ONLY <2>1, <1>2
<1> HIDE DEF queue
<1>7. ASSUME NEW j \in 1..Len(queue) PROVE queue[j] = (later - Len(queue) + j - 1) % Samples
  <2>1. CASE j \in 1..Len(old)
    BY <2>1, <1>0, <1>3, <1>6 DEF Captures
  <2>2. CASE j \notin 1..Len(old)
    <3>1. j - Len(old) \in 1..count /\ j = Len(old) + (j - Len(old))
      BY <2>2, <1>1, <1>6
    <3> DEFINE i == j - Len(old)
    <3>2. queue[Len(old) + i] = block[i] /\ (host.heard + i - 1) % Samples = (later - (Len(old) + count) + (Len(old) + i) - 1) % Samples
      BY <3>1, <1>3, <1>6
    <3>3. block[i] = (host.heard + i - 1) % Samples
      BY <3>1, <1>2
    <3>4. Len(old) + i = j
      BY <3>1
    <3> HIDE DEF i
    <3> QED
      BY <3>2, <3>3, <3>4, <1>6
  <2> QED
    BY <2>1, <2>2
<1>8. rest \in Seq(Number) /\ Len(rest) <= Capacity /\ \E k \in Nat : Rest(queue, rest, k) /\ (k > 0 => Len(queue) > Capacity)
  BY ONLY <1>5, <1>6, NewestIsRest
<1>9. PICK k \in Nat : Rest(queue, rest, k) /\ (k > 0 => Len(queue) > Capacity)
  BY <1>8
<1>10. \A i \in 1..Len(rest) : /\ k + i \in 1..Len(queue) /\ rest[i] = queue[k + i]
                               /\ later - Len(rest) + i - 1 = later - Len(queue) + (k + i) - 1
  <2>1. later \in Int /\ queue \in Seq(Number) /\ rest \in Seq(Number) /\ Rest(queue, rest, k)
    BY <1>3, <1>6, <1>8, <1>9, CodecBounds
  <2>2. Len(queue) \in Nat /\ Len(rest) \in Nat /\ Len(rest) = Len(queue) - k
    BY <2>1 DEF Rest
  <2> QED
    BY ONLY <2>1, <2>2, k \in Nat DEF Rest
<1>11. \A i \in 1..Len(rest) : rest[i] = (later - Len(rest) + i - 1) % Samples
  BY <1>7, <1>10
<1>12. /\ host' \in HostType /\ host'.heard = later /\ host'.sent = host.sent
       /\ host'.fresh = IF host.fresh + count > Capacity THEN Capacity ELSE host.fresh + count
  <2> DEFINE fresh == IF host.fresh + count > Capacity THEN Capacity ELSE host.fresh + count
  <2>0. Capacity \in Nat /\ host.fresh \in Nat /\ count \in Nat
    BY <1>1, CodecBounds
  <2>1. fresh \in Nat
    BY ONLY <2>0
  <2>2. host' = [host EXCEPT !.heard = later, !.fresh = fresh]
    BY <1>4
  <2> HIDE DEF fresh
  <2>3. host' \in HostType /\ host'.heard = later /\ host'.sent = host.sent /\ host'.fresh = fresh
    BY <1>0, <1>3, <2>1, <2>2 DEF HostType
  <2> QED
    BY <2>3 DEF fresh
<1>13. Len(rest) <= host'.fresh
  <2>1. Len(rest) \in Nat /\ Len(rest) = Len(old) + count - k /\ Len(old) <= host.fresh /\ Capacity \in Nat
    <3>1. Len(rest) = Len(queue) - k /\ Len(old) <= host.fresh
      BY <1>0, <1>9 DEF Rest, Captures
    <3> QED
      BY <3>1, <1>6, <1>8, CodecBounds
  <2> QED
    BY <2>1, <1>1, <1>8, <1>12
<1>14. Captures(rest, host'.heard, host'.fresh)
  BY <1>8, <1>11, <1>12, <1>13 DEF Captures
<1>15. listener' \in GuestType /\ listener'.next = IF Len(queue) > Capacity THEN Codec!Free ELSE listener.next
  BY <1>0, <1>4, CodecBounds DEF GuestType
<1>16. Follows(rest, listener'.next, host'.heard)
  <2>1. CASE Len(queue) > Capacity
    BY <2>1, <1>15 DEF Follows
  <2>2. CASE ~(Len(queue) > Capacity)
    <3>1. k = 0 /\ Len(queue) \in Nat /\ Len(queue) >= 1
      BY <2>2, <1>1, <1>6, <1>9
    <3>2. Len(rest) = Len(queue) /\ Len(rest) >= 1
      BY <3>1, <1>9 DEF Rest
    <3>3. rest[1] = queue[1]
      BY <3>1, <3>2, <1>9 DEF Rest
    <3>4. Len(old) # 0 => queue[1] = old[1]
      BY <1>1, <1>6
    <3>5. Len(old) = 0 => queue[1] = host.heard
      <4>0. host.heard \in Int
        BY <1>1, CodecBounds
      <4>1. host.heard % Samples = host.heard
        BY <1>1, CodecBounds, SmallModulo DEF Number
      <4>2. host.heard + 1 - 1 = host.heard
        BY <4>0
      <4>3. block[1] = host.heard % Samples
        BY <4>2, <1>1, <1>2
      <4>4. Len(old) = 0 => queue[1] = block[1]
        BY <1>1, <1>6
      <4> QED
        BY <4>1, <4>3, <4>4
    <3> QED
      BY <2>2, <1>0, <1>15, <3>2, <3>3, <3>4, <3>5 DEF Follows
  <2> QED
    BY <2>1, <2>2
<1>17. /\ codec' \in CodecType /\ codec'.playback = codec.playback /\ codec'.active = codec.active /\ codec'.amplifier = codec.amplifier
       /\ codec'.registers = codec.registers
  BY <1>0, <1>4, <1>5, <1>8 DEF CodecType
<1>18. Silent(codec')
  BY <1>0, <1>17 DEF Silent, Codec!Audible
<1> QED
  BY <1>0, <1>12, <1>14, <1>15, <1>16, <1>17, <1>18 DEF CodecInv, rest

\* The number after a block's last is that of what waits first, or of what the
\* host gives next.
LEMMA NextNumber ==
  ASSUME NEW end \in Number, NEW left \in Nat
  PROVE  /\ (((end - left - 1) % Samples) + 1) % Samples = (end - left) % Samples
         /\ (((end - left - 1) % Samples) + 1) % Samples \in Number
         /\ (left = 0 => (end - left) % Samples = end)
<1>1. end \in Int /\ Samples \in Nat \ {0} /\ left \in Int
  <2>1. end \in Int /\ Samples \in Nat \ {0}
    BY CodecBounds
  <2> QED
    BY ONLY <2>1, left \in Nat
<1>2. end - left - 1 \in Int /\ end - left \in Int /\ (end - left - 1) + 1 = end - left /\ 1 \in Int
  BY ONLY <1>1
<1>3. (((end - left - 1) % Samples) + 1) % Samples = ((end - left - 1) + 1) % Samples
  BY ONLY <1>1, <1>2, SumModulo
<1>4. (end - left) % Samples \in Number
  BY ONLY <1>1, <1>2, Modulo DEF Number
<1>5. left = 0 => (end - left) % Samples = end
  <2>1. end % Samples = end
    BY ONLY <1>1, end \in Number, SmallModulo DEF Number
  <2>2. left = 0 => end - left = end
    BY <1>1
  <2> QED
    BY <2>1, <2>2
<1> QED
  BY <1>2, <1>3, <1>4, <1>5

(* Input that is delivered goes on where the last block ended.              *)
LEMMA InputDelivered ==
  ASSUME CodecInv, NEW count \in 1..Block, Codec!TransferInput(count)
  PROVE  CodecInv'
<1> DEFINE old == codec.capture
           rest == codec'.capture
           sound == codec.active.input /\ Codec!Primed(count)
           primed == Codec!Primed(count)
           after == (old[count] + 1) % Samples
<1>0. /\ codec \in CodecType /\ host \in HostType /\ listener \in GuestType /\ Captures(old, host.heard, host.fresh)
      /\ Follows(old, listener.next, host.heard) /\ Silent(codec) /\ Plays(codec.playback, host.sent) /\ host' = host
  BY DEF CodecInv, Codec!TransferInput
<1>1. old \in Seq(Number) /\ Len(old) \in Nat /\ host.heard \in Number /\ host.fresh \in Nat /\ count \in Nat /\ count >= 1
  <2>1. old \in Seq(Number)
    BY <1>0 DEF CodecType
  <2>2. host.heard \in Number /\ host.fresh \in Nat
    BY <1>0 DEF HostType
  <2>3. count \in Nat /\ count >= 1
    BY CodecBounds
  <2> QED
    BY ONLY <2>1, <2>2, <2>3
<1>2. primed \in BOOLEAN /\ sound \in BOOLEAN
  BY DEF Codec!Primed
<1>3. /\ codec' = [codec EXCEPT !.primed = primed, !.capture = IF sound THEN SubSeq(old, count + 1, Len(old)) ELSE old]
      /\ listener' = IF sound THEN [block |-> "sound", next |-> after] ELSE [listener EXCEPT !.block = "silence"]
  BY DEF Codec!TransferInput
<1>4. sound => Len(old) >= count
  BY DEF Codec!Primed
<1> HIDE DEF sound, primed
<1>5. rest = IF sound THEN SubSeq(old, count + 1, Len(old)) ELSE old
  BY <1>0, <1>3 DEF CodecType
<1> HIDE DEF old, rest, after
<1>6. rest \in Seq(Number) /\ Captures(rest, host.heard, host.fresh) /\ listener' \in GuestType /\ Follows(rest, listener'.next, host.heard)
  <2>1. CASE ~sound
    BY <2>1, <1>0, <1>1, <1>3, <1>5 DEF GuestType
  <2>2. CASE sound
    <3>1. count \in 0..Len(old) /\ count \in 1..Len(old) /\ rest = SubSeq(old, count + 1, Len(old))
      BY <2>2, <1>1, <1>4, <1>5
    <3>2. rest \in Seq(Number) /\ Rest(old, rest, count)
      BY ONLY <3>1, <1>1, Dropped
    <3>3. Len(rest) \in Nat /\ Len(rest) = Len(old) - count
      BY <3>2 DEF Rest
    <3>4. \A i \in 1..Len(rest) : /\ count + i \in 1..Len(old) /\ rest[i] = old[count + i]
                                  /\ host.heard - Len(rest) + i - 1 = host.heard - Len(old) + (count + i) - 1
      <4>1. host.heard \in Int
        BY <1>1, CodecBounds
      <4> QED
        BY ONLY <4>1, <1>1, <3>2, <3>3 DEF Rest
    <3>5. Captures(rest, host.heard, host.fresh)
      <4>1. \A i \in 1..Len(rest) : rest[i] = (host.heard - Len(rest) + i - 1) % Samples
        BY <1>0, <3>4 DEF Captures
      <4>2. Len(rest) <= Capacity /\ Len(rest) <= host.fresh
        <5>1. Len(old) <= Capacity /\ Len(old) <= host.fresh /\ Capacity \in Nat
          BY <1>0, CodecBounds DEF Captures
        <5> QED
          BY ONLY <5>1, <1>1, <3>3
      <4> QED
        BY <4>1, <4>2 DEF Captures
    <3>6. old[count] = (host.heard - Len(rest) - 1) % Samples
      <4>1. host.heard - Len(old) + count - 1 = host.heard - Len(rest) - 1
        <5>1. host.heard \in Int
          BY <1>1, CodecBounds
        <5> QED
          BY ONLY <5>1, <1>1, <3>3
      <4>2. old[count] = (host.heard - Len(old) + count - 1) % Samples
        BY <1>0, <3>1 DEF Captures
      <4> QED
        BY <4>1, <4>2
    <3>7. after = (host.heard - Len(rest)) % Samples /\ after \in Number /\ (Len(rest) = 0 => after = host.heard)
      <4> DEFINE left == Len(rest)
                 end == host.heard
      <4>1. left \in Nat /\ end \in Number
        BY <1>1, <3>3
      <4>2. after = (((end - left - 1) % Samples) + 1) % Samples
        BY <3>6 DEF after
      <4> HIDE DEF left, end
      <4>3. /\ (((end - left - 1) % Samples) + 1) % Samples = (end - left) % Samples
            /\ (((end - left - 1) % Samples) + 1) % Samples \in Number
            /\ (left = 0 => (end - left) % Samples = end)
        BY ONLY <4>1, NextNumber
      <4>4. after = (end - left) % Samples /\ after \in Number /\ (left = 0 => after = end)
        BY ONLY <4>2, <4>3
      <4> QED
        BY <4>4 DEF left, end
    <3>8. Len(rest) # 0 => rest[1] = (host.heard - Len(rest)) % Samples
      <4> SUFFICES ASSUME Len(rest) # 0 PROVE rest[1] = (host.heard - Len(rest)) % Samples
        OBVIOUS
      <4>1. 1 \in 1..Len(rest)
        BY <3>3
      <4>2. rest[1] = (host.heard - Len(rest) + 1 - 1) % Samples
        BY <4>1, <3>5 DEF Captures
      <4>3. host.heard - Len(rest) + 1 - 1 = host.heard - Len(rest)
        <5>1. host.heard \in Int
          BY <1>1, CodecBounds
        <5> QED
          BY ONLY <5>1, <3>3
      <4> QED
        BY <4>2, <4>3
    <3>9. listener' = [block |-> "sound", next |-> after]
      BY <2>2, <1>3
    <3>10. listener' \in GuestType /\ listener'.next = after
      BY <3>7, <3>9, CodecBounds DEF GuestType
    <3>11. Follows(rest, listener'.next, host.heard)
      BY <3>7, <3>8, <3>10 DEF Follows
    <3> QED
      BY <3>2, <3>5, <3>10, <3>11
  <2> QED
    BY <1>2, <2>1, <2>2
<1>7. /\ codec' \in CodecType /\ codec'.playback = codec.playback /\ codec'.active = codec.active /\ codec'.amplifier = codec.amplifier
      /\ codec'.registers = codec.registers
  <2>1. codec' = [codec EXCEPT !.primed = primed, !.capture = rest]
    BY <1>3, <1>5
  <2> QED
    BY <2>1, <1>0, <1>2, <1>6 DEF CodecType
<1>8. Silent(codec')
  BY <1>0, <1>7 DEF Silent, Codec!Audible
<1> QED
  BY <1>0, <1>6, <1>7, <1>8 DEF CodecInv, rest

LEMMA CodecInit == Codec!Init => CodecInv
<1> SUFFICES ASSUME Codec!Init PROVE CodecInv
  OBVIOUS
<1>1. <<>> \in Seq(Sound) /\ <<>> \in Seq(Number) /\ 0 \in Rates /\ 0 \in Number /\ Capacity \in Nat /\ Codec!Free \in Codec!Free..Samples - 1
  BY CodecBounds
<1>2. codec \in CodecType /\ codec.playback = <<>> /\ codec.capture = <<>>
  BY <1>1 DEF Codec!Init, Codec!Powerless, CodecType
<1>3. host \in HostType /\ listener \in GuestType /\ host.fresh = 0 /\ listener.next = Codec!Free
  BY <1>1 DEF Codec!Init, HostType, GuestType
<1>4. Plays(codec.playback, host.sent) /\ Captures(codec.capture, host.heard, host.fresh) /\ Silent(codec)
  BY <1>1, <1>2, <1>3 DEF Plays, Captures, Silent
<1> QED
  BY <1>2, <1>3, <1>4 DEF CodecInv, Follows

LEMMA CodecStep == CodecInv /\ [Codec!Next]_Codec!vars => CodecInv'
<1> SUFFICES ASSUME CodecInv, [Codec!Next]_Codec!vars PROVE CodecInv'
  OBVIOUS
<1>a. codec \in CodecType /\ host \in HostType /\ listener \in GuestType /\ Plays(codec.playback, host.sent)
  BY DEF CodecInv
<1>1. ASSUME NEW level \in BOOLEAN, Codec!PowerInput(level) PROVE CodecInv'
  <2> DEFINE c == [codec EXCEPT !.powered = level, !.registers = IF level THEN Codec!Powerless ELSE @]
  <2>1. c \in CodecType /\ c.playback = codec.playback /\ c.capture = codec.capture /\ Codec!UpdateAudio(c)
    BY <1>a, <1>1 DEF CodecType, Codec!Powerless, Codec!PowerInput
  <2> HIDE DEF c
  <2> QED
    BY <2>1, AudioUpdated
<1>2. ASSUME NEW level \in BOOLEAN, Codec!AmplifierInput(level) PROVE CodecInv'
  <2> DEFINE c == [codec EXCEPT !.amplifier = level]
  <2>1. c \in CodecType /\ c.playback = codec.playback /\ c.capture = codec.capture /\ Codec!UpdateAudio(c)
    BY <1>a, <1>2 DEF CodecType, Codec!AmplifierInput
  <2> HIDE DEF c
  <2> QED
    BY <2>1, AudioUpdated
<1>3. ASSUME NEW name \in DOMAIN Codec!Powerless, NEW value \in BOOLEAN, Codec!WriteRegister(name, value) PROVE CodecInv'
  <2> DEFINE c == [codec EXCEPT !.registers[name] = value]
  <2>0. name \in {"dac", "adc", "mute"}
    BY DEF Codec!Powerless
  <2>1. c \in CodecType /\ c.playback = codec.playback /\ c.capture = codec.capture /\ Codec!UpdateAudio(c)
    BY <1>a, <1>3, <2>0 DEF CodecType, Codec!WriteRegister
  <2> HIDE DEF c
  <2> QED
    BY <2>1, AudioUpdated
<1>4. ASSUME NEW r \in Rates, Codec!SetOutputRate(r) PROVE CodecInv'
  <2> DEFINE c == [codec EXCEPT !.rate.output = r, !.playback = <<>>]
  <2>0. <<>> \in Seq(Sound)
    OBVIOUS
  <2>1. c \in CodecType /\ c.playback = <<>> /\ c.capture = codec.capture /\ Codec!UpdateAudio(c)
    BY <1>a, <1>4, <2>0 DEF CodecType, Codec!SetOutputRate
  <2> HIDE DEF c
  <2> QED
    BY <2>1, AudioUpdated
<1>5. ASSUME NEW r \in Rates, Codec!SetInputRate(r) PROVE CodecInv'
  <2> DEFINE c == [codec EXCEPT !.rate.input = r, !.capture = <<>>, !.primed = FALSE]
  <2>0. <<>> \in Seq(Number)
    OBVIOUS
  <2>1. c \in CodecType /\ c.playback = codec.playback /\ c.capture = <<>> /\ \E opened : codec' = Codec!Updated(c, opened)
    BY <1>a, <1>5, <2>0 DEF CodecType, Codec!SetInputRate
  <2>2. Codec!Restarts(TRUE)
    BY <1>5 DEF Codec!SetInputRate
  <2> HIDE DEF c
  <2>3. PICK opened : codec' = Codec!Updated(c, opened)
    BY <2>1
  <2> QED
    BY <1>a, <2>1, <2>2, <2>3, Settled
<1>6. ASSUME NEW count \in 1..Block, Codec!TransferOutput(count) PROVE CodecInv'
  BY <1>6, SoundSent
<1>7. ASSUME NEW count \in 1..Block, Codec!TransferInput(count) PROVE CodecInv'
  BY <1>7, InputDelivered
<1>8. ASSUME NEW count \in 1..Burst, Codec!CaptureAvailable(count) PROVE CodecInv'
  BY <1>8, InputHeard
<1>9. CASE UNCHANGED Codec!vars
  BY <1>9 DEF Codec!vars, CodecInv, Silent, Codec!Audible
<1> QED
  BY <1>1, <1>2, <1>3, <1>4, <1>5, <1>6, <1>7, <1>8, <1>9, SoundPlayed DEF Codec!Next, Codec!Counts

LEMMA CodecSafe == CodecInv => Codec!CodecSafety
<1> SUFFICES ASSUME CodecInv PROVE Codec!CodecSafety
  OBVIOUS
<1>1. Codec!TypeOK
  BY DEF CodecInv, CodecType, HostType, GuestType, Plays, Captures, Codec!TypeOK, Sound, Number
<1>2. codec.playback \in Seq(Sound) /\ codec.capture \in Seq(Number)
  BY DEF CodecInv, CodecType
<1>3. DOMAIN codec.playback = 1..Len(codec.playback) /\ DOMAIN codec.capture = 1..Len(codec.capture) /\ (Len(codec.capture) = 0 <=> codec.capture = <<>>)
  BY <1>2
<1>4. Codec!PlaybackRecent /\ Codec!CaptureRecent
  BY <1>3 DEF CodecInv, Plays, Captures, Codec!PlaybackRecent, Codec!CaptureRecent
<1>5. Codec!SilentWhenMuted
  BY <1>3 DEF CodecInv, Silent, Codec!SilentWhenMuted
<1>6. Codec!NoneSkipped
  BY <1>3 DEF CodecInv, Follows, Codec!NoneSkipped
<1> QED
  BY <1>1, <1>4, <1>5, <1>6 DEF Codec!CodecSafety

-----------------------------------------------------------------------------
(* The I2S streams.                                                         *)
Address == Descriptors \cup {0}
LinkType ==
  [start : BOOLEAN, restart : BOOLEAN, stop : BOOLEAN, park : BOOLEAN, reset : BOOLEAN,
   first : Address, descAddr : Address, raw : SUBSET {"error", "done", "eof", "end"}]
StreamType ==
  [armed : BOOLEAN, timer : Int, deadline : Int, chosen : Channels \cup {None}, selected : Channels \cup {None},
   descriptor : Address, pending : BOOLEAN, bytes : Nat, eofBytes : Nat, rate : BOOLEAN,
   channel : [Channels \cup {None} -> LinkType]]
Flagged == [Streams!Both -> BOOLEAN]
RegsType == [start : Flagged, reset : Flagged, slave : Flagged, active : Flagged, share : BOOLEAN, enabled : BOOLEAN]
OwnerType == [Streams!Both -> [Descriptors -> BOOLEAN]]

\* The timer, as far as it may lie in the past or ahead.
InReach(x) ==
  /\ x.timer >= -(Poll + MaxLate) /\ x.deadline >= -(Poll + MaxLate)
  /\ x.timer <= Poll \/ \E a \in Descriptors : x.timer <= Size[a]

\* A buffer that could be under way.
Held(x, d, own) ==
  /\ x.descriptor # 0 /\ x.chosen # None /\ x.bytes \in 1..Size[x.descriptor]
  /\ d = "in" => x.eofBytes + x.bytes <= RxEof
  /\ Check[d] => own[d][x.descriptor]

Failed(x) == \E c \in Channels : "error" \in x.channel[c].raw

Good(x, d, r, own) ==
  /\ InReach(x) /\ (x.armed => x.deadline <= x.timer \/ x.deadline <= 0)
  /\ (d = "in" => x.eofBytes < RxEof)
  /\ (x.rate <=> Streams!Running(r, d))
  /\ (~Streams!Running(r, d) => ~x.armed /\ ~x.pending)
  /\ (x.pending => x.armed /\ Held(x, d, own))
  /\ (Streams!Running(r, d) /\ ~x.armed => Failed(x))

StreamInv ==
  /\ regs \in RegsType /\ owner \in OwnerType /\ stream \in [Streams!Both -> StreamType]
  /\ \A d \in Streams!Both : Good(stream[d], d, regs, owner)

LEMMA StreamBounds ==
  /\ Poll \in Nat /\ Poll >= 1 /\ MaxLate \in Nat /\ RxEof \in Nat /\ RxEof >= 1
  /\ Size \in [Descriptors -> Nat] /\ Length \in [Descriptors -> Nat] /\ Located \in [Descriptors -> BOOLEAN] /\ Link \in [Descriptors -> Address] /\ 0 \notin Descriptors /\ None \notin Channels
  /\ Check \in [Streams!Both -> BOOLEAN] /\ Directions \subseteq Streams!Both /\ Selections \subseteq Channels \cup {None}
  /\ Eof \in [Descriptors -> BOOLEAN] /\ Readable \in [Descriptors -> BOOLEAN] /\ WriteBack \in BOOLEAN
  BY AudioAssumption DEF Streams!I2sAssumption, Streams!Both, Address

\* What every look at the channel leaves alone.
SameTime(x, y) == y.armed = x.armed /\ y.timer = x.timer /\ y.rate = x.rate /\ y.selected = x.selected /\ y.bytes = x.bytes
SameErrors(x, y) == \A c \in Channels : y.channel[c].raw = x.channel[c].raw

\* A stream with its timer and its buffer written.
LEMMA Retimed ==
  ASSUME NEW x \in StreamType, NEW armed \in BOOLEAN, NEW time \in Int, NEW deadline \in Int, NEW pending \in BOOLEAN
  PROVE  [x EXCEPT !.armed = armed, !.timer = time, !.deadline = deadline, !.pending = pending] \in StreamType
  BY DEF StreamType

LEMMA Zeros == 0 \in Int /\ 0 \in Nat /\ 0 \in Address
  BY DEF Address

LEMMA BegunAnew ==
  ASSUME NEW x \in StreamType
  PROVE  LET y == Streams!Begun(x)
         IN /\ y \in StreamType /\ SameTime(x, y) /\ SameErrors(x, y)
            /\ (y = x \/ (y.deadline = 0 /\ y.eofBytes = 0 /\ ~y.pending))
<1> DEFINE c == x.selected
           link == x.channel[c]
           y == Streams!Begun(x)
<1>1. CASE c = None \/ ~(link.start \/ link.restart)
  BY <1>1 DEF Streams!Begun, SameTime, SameErrors
<1>2. CASE ~(c = None \/ ~(link.start \/ link.restart))
  <2> DEFINE addr == IF link.start \/ link.descAddr = 0 THEN link.first ELSE link.descAddr
             cleared == [link EXCEPT !.start = FALSE, !.restart = FALSE, !.stop = FALSE, !.park = FALSE]
             channels == [x.channel EXCEPT ![c] = cleared]
  <2>1. c \in Channels \cup {None} /\ link \in LinkType /\ x.channel \in [Channels \cup {None} -> LinkType]
    BY DEF StreamType
  <2>2. addr \in Address /\ cleared \in LinkType /\ cleared.raw = link.raw
    <3>1. link.first \in Address /\ link.descAddr \in Address
      BY <2>1 DEF LinkType
    <3>2. addr \in Address
      BY <3>1
    <3>3. cleared \in LinkType /\ cleared.raw = link.raw
      BY <2>1 DEF LinkType
    <3> QED
      BY <3>2, <3>3
  <2>3. y = [x EXCEPT !.deadline = 0, !.chosen = c, !.pending = FALSE, !.eofBytes = 0, !.descriptor = addr, !.channel = channels]
    BY <1>2 DEF Streams!Begun, StreamType
  <2> HIDE DEF addr, cleared, y
  <2>4. channels \in [Channels \cup {None} -> LinkType] /\ \A e \in Channels : channels[e].raw = x.channel[e].raw
    BY <2>1, <2>2
  <2> HIDE DEF channels
  <2>5. y \in StreamType /\ y.channel = channels /\ y.deadline = 0 /\ y.eofBytes = 0 /\ ~y.pending /\ SameTime(x, y)
    <3>1. y \in StreamType
      <4> DEFINE zero == 0
                 none == FALSE
      <4>1. zero \in Int /\ zero \in Nat /\ none \in BOOLEAN
        OBVIOUS
      <4>2. y = [x EXCEPT !.deadline = zero, !.chosen = c, !.pending = none, !.eofBytes = zero, !.descriptor = addr, !.channel = channels]
        BY <2>3
      <4> HIDE DEF zero, none
      <4> QED
        BY <2>1, <2>2, <2>4, <4>1, <4>2 DEF StreamType
    <3>2. y.channel = channels /\ y.deadline = 0 /\ y.eofBytes = 0 /\ ~y.pending
      BY <2>3 DEF StreamType
    <3>3. SameTime(x, y)
      BY <2>3 DEF StreamType, SameTime
    <3> QED
      BY <3>1, <3>2, <3>3
  <2> QED
    BY <2>4, <2>5 DEF SameErrors, y
<1> QED
  BY <1>1, <1>2

LEMMA ChannelLooked ==
  ASSUME NEW x \in StreamType
  PROVE  LET y == Streams!streamChannel(x)
         IN /\ y \in StreamType /\ SameTime(x, y) /\ SameErrors(x, y)
            /\ y.deadline \in {x.deadline, 0} /\ y.eofBytes \in {x.eofBytes, 0}
            /\ (y.pending => y = x)
<1> DEFINE b == Streams!Begun(x)
           c == b.selected
           link == b.channel[c]
           y == Streams!streamChannel(x)
<1>1. /\ b \in StreamType /\ SameTime(x, b) /\ SameErrors(x, b)
      /\ (b = x \/ (b.deadline = 0 /\ b.eofBytes = 0 /\ ~b.pending))
  BY BegunAnew
<1>2. y = IF Streams!Mine(b) /\ (link.reset \/ link.stop \/ link.park)
          THEN [b EXCEPT !.channel[c].stop = FALSE, !.channel[c].park = TRUE, !.descriptor = 0, !.pending = FALSE]
          ELSE b
  BY DEF Streams!streamChannel
<1> HIDE DEF b, y
<1>3. CASE Streams!Mine(b) /\ (link.reset \/ link.stop \/ link.park)
  <2> DEFINE parked == [link EXCEPT !.stop = FALSE, !.park = TRUE]
             channels == [b.channel EXCEPT ![c] = parked]
  <2>1. c \in Channels \cup {None} /\ link \in LinkType /\ b.channel \in [Channels \cup {None} -> LinkType]
    BY <1>1 DEF StreamType
  <2>2. parked \in LinkType /\ parked.raw = link.raw
    BY <2>1 DEF LinkType
  <2>3. y = [b EXCEPT !.channel = channels, !.descriptor = 0, !.pending = FALSE]
    BY <1>1, <1>2, <1>3, <2>1 DEF StreamType
  <2> HIDE DEF parked
  <2>4. channels \in [Channels \cup {None} -> LinkType] /\ \A e \in Channels : channels[e].raw = b.channel[e].raw
    BY <2>1, <2>2
  <2> HIDE DEF channels
  <2>5. /\ y \in StreamType /\ y.channel = channels /\ y.deadline = b.deadline /\ y.eofBytes = b.eofBytes /\ ~y.pending
        /\ y.armed = b.armed /\ y.timer = b.timer /\ y.rate = b.rate /\ y.selected = b.selected /\ y.bytes = b.bytes
    BY <1>1, <2>3, <2>4 DEF StreamType, Address
  <2> QED
    BY <1>1, <2>4, <2>5 DEF SameErrors, SameTime, y
<1>4. CASE ~(Streams!Mine(b) /\ (link.reset \/ link.stop \/ link.park))
  <2>1. y = b
    BY <1>2, <1>4
  <2> QED
    BY <1>1, <2>1 DEF y
<1> QED
  BY <1>3, <1>4

LEMMA ErrorRaised ==
  ASSUME NEW x \in StreamType, x.selected \in Channels
  PROVE  LET y == Streams!dmaError(x)
         IN /\ y \in StreamType /\ SameTime(x, y) /\ y.deadline = x.deadline /\ y.eofBytes = x.eofBytes
            /\ ~y.pending /\ Failed(y)
<1> DEFINE c == x.selected
           link == x.channel[c]
           failed == [link EXCEPT !.raw = @ \cup {"error"}, !.park = TRUE]
           channels == [x.channel EXCEPT ![c] = failed]
           y == Streams!dmaError(x)
<1>1. c \in Channels \cup {None} /\ link \in LinkType /\ x.channel \in [Channels \cup {None} -> LinkType]
  BY DEF StreamType
<1>2. failed \in LinkType /\ "error" \in failed.raw
  BY <1>1 DEF LinkType
<1>3. y = [x EXCEPT !.channel = channels, !.descriptor = 0, !.pending = FALSE]
  BY <1>1 DEF Streams!dmaError, StreamType, LinkType
<1> HIDE DEF failed, y
<1>4. channels \in [Channels \cup {None} -> LinkType] /\ "error" \in channels[c].raw
  BY <1>1, <1>2
<1> HIDE DEF channels
<1>5. /\ y \in StreamType /\ y.channel = channels /\ y.deadline = x.deadline /\ y.eofBytes = x.eofBytes /\ ~y.pending
      /\ y.armed = x.armed /\ y.timer = x.timer /\ y.rate = x.rate /\ y.selected = x.selected /\ y.bytes = x.bytes
  BY <1>3, <1>4 DEF StreamType, Address
<1> QED
  BY <1>4, <1>5 DEF Failed, SameTime, y

\* What is carried out of a descriptor that is fit fills at most its buffer and its frame.
LEMMA BytesFit ==
  ASSUME NEW d \in Streams!Both, NEW x \in StreamType, NEW own, x.descriptor # 0, d = "in" => x.eofBytes < RxEof,
         ~Streams!Unfit(d, own, x)
  PROVE  LET bytes == Streams!BytesOf(x, d)
         IN /\ bytes \in Nat /\ bytes \in 1..Size[x.descriptor] /\ (d = "in" => x.eofBytes + bytes <= RxEof)
            /\ (Check[d] => own[d][x.descriptor])
<1>1. Size[x.descriptor] \in Nat /\ Length[x.descriptor] \in Nat /\ x.eofBytes \in Nat /\ RxEof \in Nat
  BY StreamBounds DEF StreamType, Address
<1>2. Streams!BytesOf(x, d) \in 1..Size[x.descriptor] /\ (Check[d] => own[d][x.descriptor])
  BY DEF Streams!Unfit
<1>3. d = "in" => x.eofBytes + Streams!BytesOf(x, d) <= RxEof
  BY <1>1 DEF Streams!BytesOf, Streams!Least
<1> QED
  BY <1>1, <1>2, <1>3

\* A descriptor is unfit for what it is, never for what is left of the frame.
LEMMA UnfitFaulty ==
  ASSUME NEW d \in Streams!Both, NEW x \in StreamType, NEW own, x.descriptor # 0, d = "in" => x.eofBytes < RxEof,
         Streams!Unfit(d, own, x)
  PROVE  Streams!Faulty(d, x.descriptor, own)
<1>1. /\ Size[x.descriptor] \in Nat /\ Length[x.descriptor] \in Nat /\ x.eofBytes \in Nat /\ RxEof \in Nat
      /\ x.descriptor \in Descriptors
  BY StreamBounds DEF StreamType, Address
<1>2. CASE d = "in"
  <2>1. Streams!BytesOf(x, d) \notin 1..Size[x.descriptor] => Size[x.descriptor] = 0
    BY <1>1, <1>2 DEF Streams!BytesOf, Streams!Least
  <2> QED
    BY <1>1, <2>1 DEF Streams!Unfit, Streams!Faulty
<1>3. CASE d = "out"
  <2>1. Streams!BytesOf(x, d) = Length[x.descriptor]
    BY <1>3 DEF Streams!BytesOf
  <2> QED
    BY <1>1, <1>3, <2>1 DEF Streams!Unfit, Streams!Faulty
<1> QED
  BY <1>2, <1>3 DEF Streams!Both

(* Whatever was written since, streamSchedule leaves a stream that fits its *)
(* clock, its channel and its frame.                                        *)
LEMMA Scheduled ==
  ASSUME NEW d \in Streams!Both, NEW r, NEW own \in OwnerType, NEW x0 \in StreamType,
         InReach(x0), x0.deadline <= 0, d = "in" => x0.eofBytes < RxEof,
         x0.pending => ~Streams!Running(r, d) \/ (~Streams!Served(x0) /\ Held(x0, d, own))
  PROVE  LET y == Streams!streamSchedule(d, r, own, x0) IN y \in StreamType /\ Good(y, d, r, own)
<1> DEFINE run == Streams!Running(r, d)
           told == [x0 EXCEPT !.rate = run]
           x == Streams!streamChannel(told)
           bytes == Streams!BytesOf(x, d)
           due == Streams!Due(x, bytes)
           y == Streams!streamSchedule(d, r, own, x0)
<1>1. run \in BOOLEAN
  BY DEF Streams!Running
<1>2. /\ told \in StreamType /\ (told.rate <=> run) /\ told.deadline = x0.deadline /\ told.eofBytes = x0.eofBytes /\ told.timer = x0.timer
      /\ told.selected = x0.selected /\ told.chosen = x0.chosen /\ told.descriptor = x0.descriptor /\ told.channel = x0.channel
      /\ told.bytes = x0.bytes /\ told.pending = x0.pending
  BY <1>1 DEF StreamType
<1>3. y = IF ~run THEN Streams!Unarmed([told EXCEPT !.pending = FALSE, !.deadline = 0])
          ELSE IF ~Streams!Served(x) THEN Streams!Idle(x)
          ELSE IF x.pending THEN x
          ELSE IF Streams!Unfit(d, own, x) THEN Streams!dmaError(x)
          ELSE Streams!At([x EXCEPT !.pending = TRUE, !.bytes = bytes, !.deadline = due], due)
  BY DEF Streams!streamSchedule
<1>4. /\ x \in StreamType /\ SameTime(told, x) /\ SameErrors(told, x)
      /\ x.deadline \in {told.deadline, 0} /\ x.eofBytes \in {told.eofBytes, 0}
      /\ (x.pending => x = told)
  BY <1>2, ChannelLooked
<1> HIDE DEF run, told, x, y
<1>5. x.timer = x0.timer /\ (x.rate <=> run) /\ x.deadline \in {x0.deadline, 0} /\ (d = "in" => x.eofBytes < RxEof) /\ x.deadline \in Int /\ x.deadline <= 0
  BY <1>2, <1>4, StreamBounds DEF SameTime, StreamType
<1>6. x.deadline >= -(Poll + MaxLate)
  BY <1>2, <1>4, <1>5, StreamBounds DEF InReach
<1>7. CASE ~run
  <2>1. y = [told EXCEPT !.armed = FALSE, !.timer = 0, !.deadline = 0, !.pending = FALSE]
    BY <1>2, <1>3, <1>7 DEF Streams!Unarmed, StreamType
  <2>2. y \in StreamType /\ ~y.pending /\ ~y.armed /\ y.deadline = 0 /\ y.timer = 0 /\ (y.rate <=> run) /\ y.eofBytes = told.eofBytes
    <3>1. y \in StreamType
      BY ONLY <1>2, <2>1, Zeros, FALSE \in BOOLEAN, Retimed
    <3>2. ~y.pending /\ ~y.armed /\ y.deadline = 0 /\ y.timer = 0 /\ y.rate = told.rate /\ y.eofBytes = told.eofBytes
      BY <1>2, <2>1 DEF StreamType
    <3> QED
      BY <1>2, <3>1, <3>2
  <2>3. InReach(y)
    BY <2>2, StreamBounds DEF InReach
  <2> QED
    BY <2>2, <2>3, <1>2, <1>7 DEF Good, run, y
<1>8. CASE run /\ ~Streams!Served(x)
  <2>1. y = [x EXCEPT !.deadline = 0, !.armed = TRUE, !.timer = Poll]
    BY <1>3, <1>8, <1>4 DEF Streams!Idle, Streams!At, StreamType
  <2>2. /\ y \in StreamType /\ y.armed /\ y.deadline = 0 /\ y.timer = Poll /\ (y.rate <=> run) /\ y.eofBytes = x.eofBytes
        /\ y.pending = x.pending /\ y.bytes = x.bytes /\ y.descriptor = x.descriptor /\ y.chosen = x.chosen
    <3>1. Poll \in Int
      BY StreamBounds
    <3>2. y \in StreamType
      <4> DEFINE zero == 0
      <4>1. zero \in Int /\ y = [x EXCEPT !.deadline = zero, !.armed = TRUE, !.timer = Poll]
        BY <2>1
      <4> HIDE DEF zero
      <4> QED
        BY <1>4, <3>1, <4>1 DEF StreamType
    <3>3. /\ y.armed /\ y.deadline = 0 /\ y.timer = Poll /\ y.rate = x.rate /\ y.eofBytes = x.eofBytes
          /\ y.pending = x.pending /\ y.bytes = x.bytes /\ y.descriptor = x.descriptor /\ y.chosen = x.chosen
      BY <1>4, <2>1 DEF StreamType
    <3> QED
      BY <1>5, <3>2, <3>3
  <2>3. InReach(y)
    BY <2>2, StreamBounds DEF InReach
  <2>4. x.pending => Held(y, d, own)
    <3> SUFFICES ASSUME x.pending PROVE Held(y, d, own)
      OBVIOUS
    <3>1. x = told /\ x0.pending
      BY <1>2, <1>4
    <3>2. Held(x0, d, own)
      BY <3>1, <1>8 DEF run
    <3> QED
      BY <3>1, <3>2, <2>2, <1>2 DEF Held
  <2> QED
    BY <2>2, <2>3, <2>4, <1>5, <1>8 DEF Good, run, y
<1>9. CASE run /\ Streams!Served(x)
  <2>1. ~x.pending
    <3> SUFFICES ASSUME x.pending PROVE FALSE
      OBVIOUS
    <3>1. x = told /\ x0.pending
      BY <1>2, <1>4
    <3>2. Streams!Served(x0)
      BY <3>1, <1>2, <1>9 DEF Streams!Served, Streams!Mine
    <3> QED
      BY <3>1, <3>2, <1>9 DEF run
  <2>2. x.selected \in Channels /\ x.chosen # None /\ x.descriptor # 0 /\ x.descriptor \in Descriptors
    BY <1>4, <1>9 DEF Streams!Served, Streams!Mine, StreamType, Address
  <2>3. CASE Streams!Unfit(d, own, x)
    <3>1. y = Streams!dmaError(x)
      BY <1>3, <1>9, <2>1, <2>3
    <3>2. y \in StreamType /\ SameTime(x, y) /\ y.deadline = x.deadline /\ y.eofBytes = x.eofBytes /\ ~y.pending /\ Failed(y)
      BY <1>4, <2>2, <3>1, ErrorRaised
    <3>3. InReach(y)
      BY <1>5, <1>6, <3>2 DEF InReach, SameTime
    <3> QED
      BY <3>2, <3>3, <1>5, <1>9 DEF Good, SameTime, run, y
  <2>4. CASE ~Streams!Unfit(d, own, x)
    <3>1. /\ bytes \in Nat /\ bytes \in 1..Size[x.descriptor] /\ (d = "in" => x.eofBytes + bytes <= RxEof)
          /\ Size[x.descriptor] \in Nat /\ (Check[d] => own[d][x.descriptor])
      BY <1>4, <1>5, <2>2, <2>4, BytesFit, StreamBounds
    <3> HIDE DEF bytes
    <3>2. due = x.deadline + bytes /\ due \in Int
      BY <3>1, <1>5 DEF Streams!Due, Streams!Most
    <3>3. y = [x EXCEPT !.pending = TRUE, !.bytes = bytes, !.deadline = due, !.armed = TRUE, !.timer = due]
      BY <1>3, <1>4, <1>9, <2>1, <2>4 DEF Streams!At, StreamType, bytes
    <3> HIDE DEF due
    <3>4. /\ y \in StreamType /\ y.armed /\ y.pending /\ y.deadline = due /\ y.timer = due /\ (y.rate <=> run) /\ y.eofBytes = x.eofBytes
          /\ y.bytes = bytes /\ y.descriptor = x.descriptor /\ y.chosen = x.chosen
      BY <1>4, <1>5, <3>1, <3>2, <3>3 DEF StreamType
    <3>5. InReach(y)
      <4>1. due >= -(Poll + MaxLate) /\ due <= Size[x.descriptor]
        BY <1>5, <1>6, <3>1, <3>2, StreamBounds
      <4> QED
        BY <4>1, <3>4, <2>2 DEF InReach
    <3>6. Held(y, d, own)
      BY <2>2, <2>4, <3>1, <3>2, <3>4 DEF Held
    <3>7. y.deadline <= y.timer
      BY <3>4, <3>2
    <3> QED
      BY <1>5, <1>9, <3>4, <3>5, <3>6, <3>7 DEF Good, run, y
  <2> QED
    BY <2>3, <2>4
<1> QED
  BY <1>1, <1>7, <1>8, <1>9

\* One stream changes, or its registers; the other is as it was.
LEMMA OneChanged ==
  ASSUME StreamInv, NEW d \in Streams!Both, NEW y \in StreamType, stream' = [stream EXCEPT ![d] = y], regs' = regs,
         owner' \in OwnerType, \A e \in Streams!Both \ {d} : owner'[e] = owner[e],
         Good(y, d, regs, owner')
  PROVE  StreamInv'
<1>1. /\ stream \in [Streams!Both -> StreamType] /\ regs \in RegsType
      /\ \A e \in Streams!Both : Good(stream[e], e, regs, owner)
  BY DEF StreamInv
<1>2. stream' \in [Streams!Both -> StreamType] /\ stream'[d] = y /\ \A e \in Streams!Both \ {d} : stream'[e] = stream[e]
  BY <1>1
<1>3. ASSUME NEW e \in Streams!Both PROVE Good(stream'[e], e, regs', owner')
  <2>1. CASE e = d
    BY <2>1, <1>2
  <2>2. CASE e # d
    <3>1. Good(stream[e], e, regs, owner) /\ stream'[e] = stream[e] /\ owner'[e] = owner[e]
      BY <2>2, <1>1, <1>2
    <3> QED
      BY <3>1 DEF Good, Held
  <2> QED
    BY <2>1, <2>2
<1> QED
  BY <1>1, <1>2, <1>3 DEF StreamInv

\* What the guest writes to the GDMA does not disturb a stream that goes on.
LEMMA GoodKept ==
  ASSUME NEW d \in Streams!Both, NEW x, NEW y, NEW r, NEW own, Good(x, d, r, own),
         y.armed = x.armed, y.timer = x.timer, y.deadline = x.deadline, y.chosen = x.chosen, y.descriptor = x.descriptor,
         y.pending = x.pending, y.bytes = x.bytes, y.eofBytes = x.eofBytes, y.rate = x.rate,
         Failed(x) => Failed(y) \/ ~Streams!Running(r, d)
  PROVE  Good(y, d, r, own)
  BY DEF Good, InReach, Held

LEMMA ChannelWritten ==
  ASSUME StreamInv, NEW d \in Directions, NEW c \in Channels, NEW link \in LinkType, Streams!WriteChannel(d, c, link),
         "error" \in stream[d].channel[c].raw => "error" \in link.raw \/ ~Streams!Running(regs, d)
  PROVE  StreamInv'
<1> DEFINE x == stream[d]
           y == [x EXCEPT !.channel = [x.channel EXCEPT ![c] = link]]
<1>1. d \in Streams!Both /\ x \in StreamType /\ Good(x, d, regs, owner) /\ owner \in OwnerType /\ stream \in [Streams!Both -> StreamType]
  BY StreamBounds DEF StreamInv
<1>2. /\ y \in StreamType /\ y.channel = [x.channel EXCEPT ![c] = link] /\ x.channel \in [Channels \cup {None} -> LinkType]
      /\ y.armed = x.armed /\ y.timer = x.timer /\ y.deadline = x.deadline /\ y.chosen = x.chosen /\ y.descriptor = x.descriptor
      /\ y.pending = x.pending /\ y.bytes = x.bytes /\ y.eofBytes = x.eofBytes /\ y.rate = x.rate
  BY <1>1 DEF StreamType
<1>3. stream' = [stream EXCEPT ![d] = y] /\ regs' = regs /\ owner' = owner
  BY <1>1, <1>2 DEF Streams!WriteChannel, StreamType
<1> HIDE DEF x, y
<1>4. Failed(x) => Failed(y) \/ ~Streams!Running(regs, d)
  <2> SUFFICES ASSUME NEW e \in Channels, "error" \in x.channel[e].raw PROVE Failed(y) \/ ~Streams!Running(regs, d)
    BY DEF Failed
  <2>1. CASE e = c
    BY <2>1, <1>2 DEF Failed, x
  <2>2. CASE e # c
    BY <2>2, <1>2 DEF Failed
  <2> QED
    BY <2>1, <2>2
<1>5. Good(y, d, regs, owner)
  BY <1>1, <1>2, <1>4, GoodKept
<1> QED
  BY <1>1, <1>2, <1>3, <1>5, OneChanged

LEMMA ChannelSelected ==
  ASSUME StreamInv, NEW d \in Directions, NEW c \in Selections, Streams!SelectChannel(d, c)
  PROVE  StreamInv'
<1> DEFINE x == stream[d]
           y == [x EXCEPT !.selected = c]
<1>1. /\ d \in Streams!Both /\ x \in StreamType /\ Good(x, d, regs, owner) /\ owner \in OwnerType /\ stream \in [Streams!Both -> StreamType]
      /\ c \in Channels \cup {None}
  BY StreamBounds DEF StreamInv
<1>2. /\ y \in StreamType /\ y.channel = x.channel
      /\ y.armed = x.armed /\ y.timer = x.timer /\ y.deadline = x.deadline /\ y.chosen = x.chosen /\ y.descriptor = x.descriptor
      /\ y.pending = x.pending /\ y.bytes = x.bytes /\ y.eofBytes = x.eofBytes /\ y.rate = x.rate
  BY <1>1 DEF StreamType
<1>3. stream' = [stream EXCEPT ![d] = y] /\ regs' = regs /\ owner' = owner
  BY <1>1 DEF Streams!SelectChannel
<1> HIDE DEF x, y
<1>4. Failed(x) => Failed(y)
  BY <1>2 DEF Failed
<1>5. Good(y, d, regs, owner)
  BY <1>1, <1>2, <1>4, GoodKept
<1> QED
  BY <1>1, <1>2, <1>3, <1>5, OneChanged

\* A direction that runs keeps the descriptors it was given.
LEMMA OwnerChanged ==
  ASSUME StreamInv, NEW d \in Directions, NEW a \in Descriptors, Streams!GiveDescriptor(d, a) \/ Streams!TakeDescriptor(d, a)
  PROVE  StreamInv'
<1>1. /\ d \in Streams!Both /\ owner \in OwnerType /\ stream' = stream /\ regs' = regs
      /\ \A e \in Streams!Both : stream[e] \in StreamType /\ Good(stream[e], e, regs, owner)
  BY StreamBounds DEF StreamInv, Streams!GiveDescriptor, Streams!TakeDescriptor
<1>2. owner' \in OwnerType /\ \A e \in Streams!Both \ {d} : owner'[e] = owner[e]
  <2>1. PICK v \in BOOLEAN : owner' = [owner EXCEPT ![d][a] = v]
    BY DEF Streams!GiveDescriptor, Streams!TakeDescriptor
  <2>2. owner' \in OwnerType
    BY <1>1, <2>1 DEF OwnerType
  <2>3. \A e \in Streams!Both \ {d} : owner'[e] = owner[e]
    BY <1>1, <2>1 DEF OwnerType
  <2> QED
    BY <2>2, <2>3
<1>3. ~Streams!Running(regs, d) \/ \A b \in Descriptors : owner[d][b] => owner'[d][b]
  <2>1. CASE Streams!GiveDescriptor(d, a)
    BY <2>1, <1>1 DEF OwnerType, Streams!GiveDescriptor
  <2>2. CASE Streams!TakeDescriptor(d, a)
    BY <2>2 DEF Streams!TakeDescriptor
  <2> QED
    BY <2>1, <2>2
<1>4. ASSUME NEW e \in Streams!Both PROVE Good(stream[e], e, regs, owner')
  <2>1. Good(stream[e], e, regs, owner)
    BY <1>1
  <2>2. stream[e].pending => Held(stream[e], e, owner')
    <3> SUFFICES ASSUME stream[e].pending PROVE Held(stream[e], e, owner')
      OBVIOUS
    <3>1. Held(stream[e], e, owner) /\ Streams!Running(regs, e)
      BY <2>1 DEF Good
    <3>2. stream[e].descriptor \in Descriptors
      BY <1>1, <3>1 DEF Held, StreamType, Address
    <3> QED
      BY <1>2, <1>3, <3>1, <3>2 DEF Held
  <2> QED
    BY <2>1, <2>2 DEF Good
<1> QED
  BY <1>1, <1>2, <1>4 DEF StreamInv

(* A register that is written has both directions look at their clocks.     *)
LEMMA BothScheduled ==
  ASSUME owner \in OwnerType, NEW r \in RegsType, NEW d, NEW streams \in [Streams!Both -> StreamType],
         \A e \in Streams!Both : InReach(streams[e]) /\ (e = "in" => streams[e].eofBytes < RxEof),
         regs' = r, owner' = owner, stream' = Streams!Rescheduled(r, d, streams)
  PROVE  StreamInv'
<1>1. ASSUME NEW e \in Streams!Both
      PROVE  stream'[e] \in StreamType /\ Good(stream'[e], e, r, owner)
  <2> DEFINE x0 == [streams[e] EXCEPT !.pending = FALSE, !.deadline = 0]
             y == Streams!streamSchedule(e, r, owner, x0)
  <2>1. streams[e] \in StreamType /\ InReach(streams[e]) /\ (e = "in" => streams[e].eofBytes < RxEof)
    OBVIOUS
  <2>2. x0 \in StreamType
    <3> DEFINE zero == 0
    <3>1. zero \in Int /\ x0 = [streams[e] EXCEPT !.pending = FALSE, !.deadline = zero]
      OBVIOUS
    <3> HIDE DEF zero, x0
    <3> QED
      BY <2>1, <3>1 DEF StreamType
  <2>3. ~x0.pending /\ x0.deadline = 0 /\ x0.eofBytes = streams[e].eofBytes /\ x0.timer = streams[e].timer
    BY <2>1 DEF StreamType
  <2>4. stream'[e] = y
    BY DEF Streams!Rescheduled
  <2> HIDE DEF x0
  <2>5. InReach(x0) /\ x0.deadline <= 0 /\ (e = "in" => x0.eofBytes < RxEof)
    BY <2>1, <2>3, StreamBounds DEF InReach
  <2>6. y \in StreamType /\ Good(y, e, r, owner)
    BY <2>2, <2>3, <2>5, Scheduled
  <2> QED
    BY <2>4, <2>6
<1>2. stream' \in [Streams!Both -> StreamType]
  <2>1. stream' = [e \in Streams!Both |-> stream'[e]]
    BY DEF Streams!Rescheduled
  <2> QED
    BY <1>1, <2>1
<1> QED
  BY <1>1, <1>2 DEF StreamInv

LEMMA RegistersWritten ==
  ASSUME StreamInv, NEW d \in Streams!Both
  PROVE  /\ (\E start, reset, slave \in BOOLEAN : Streams!WriteConf(d, start, reset, slave)) => StreamInv'
         /\ (\E share \in BOOLEAN : Streams!WriteShare(share)) => StreamInv'
         /\ (\E active, clocked \in BOOLEAN : Streams!WriteClock(d, active, clocked)) => StreamInv'
<1>1. /\ regs \in RegsType /\ owner \in OwnerType /\ stream \in [Streams!Both -> StreamType]
      /\ \A e \in Streams!Both : InReach(stream[e]) /\ (e = "in" => stream[e].eofBytes < RxEof)
  BY DEF StreamInv, Good
<1>2. ASSUME NEW start \in BOOLEAN, NEW reset \in BOOLEAN, NEW slave \in BOOLEAN, Streams!WriteConf(d, start, reset, slave) PROVE StreamInv'
  <2> DEFINE r == [regs EXCEPT !.start[d] = start, !.reset[d] = reset, !.slave[d] = slave]
             x == stream[d]
             cleared == [Streams!Unarmed(x) EXCEPT !.descriptor = 0, !.pending = FALSE, !.eofBytes = 0]
             streams == IF reset THEN [stream EXCEPT ![d] = cleared] ELSE stream
  <2>1. regs' = r /\ owner' = owner /\ stream' = Streams!Rescheduled(r, d, streams)
    BY <1>2 DEF Streams!WriteConf
  <2>2. r \in RegsType
    BY <1>1 DEF RegsType, Flagged
  <2>3. cleared \in StreamType /\ cleared.timer = 0 /\ cleared.deadline = x.deadline /\ cleared.eofBytes = 0
    <3> DEFINE zero == 0
               none == FALSE
    <3>1. zero \in Int /\ zero \in Nat /\ zero \in Address /\ none \in BOOLEAN /\ x \in StreamType
      BY <1>1 DEF Address
    <3>2. cleared = [x EXCEPT !.armed = none, !.timer = zero, !.descriptor = zero, !.pending = none, !.eofBytes = zero]
      BY <3>1 DEF Streams!Unarmed, StreamType
    <3> HIDE DEF x, cleared
    <3>3. cleared.timer = 0 /\ cleared.deadline = x.deadline /\ cleared.eofBytes = 0
      BY <3>1, <3>2 DEF StreamType
    <3> HIDE DEF zero, none
    <3>4. cleared \in StreamType
      BY <3>1, <3>2 DEF StreamType
    <3> QED
      BY <3>3, <3>4
  <2> HIDE DEF r, cleared
  <2>4. InReach(cleared) /\ 0 < RxEof
    BY <1>1, <2>3, StreamBounds DEF InReach
  <2>5. streams \in [Streams!Both -> StreamType]
    BY <1>1, <2>3
  <2>6. \A e \in Streams!Both : InReach(streams[e]) /\ (e = "in" => streams[e].eofBytes < RxEof)
    BY <1>1, <2>3, <2>4
  <2> HIDE DEF streams
  <2> QED
    BY <1>1, <2>1, <2>2, <2>5, <2>6, BothScheduled
<1>3. ASSUME NEW share \in BOOLEAN, Streams!WriteShare(share) PROVE StreamInv'
  <2> DEFINE r == [regs EXCEPT !.share = share]
  <2>1. regs' = r /\ owner' = owner /\ stream' = Streams!Rescheduled(r, "out", stream)
    BY <1>3 DEF Streams!WriteShare
  <2>2. r \in RegsType
    BY <1>1 DEF RegsType
  <2> HIDE DEF r
  <2> QED
    BY <1>1, <2>1, <2>2, BothScheduled
<1>4. ASSUME NEW active \in BOOLEAN, NEW clocked \in BOOLEAN, Streams!WriteClock(d, active, clocked) PROVE StreamInv'
  <2> DEFINE gate == IF d = "out" THEN clocked ELSE regs.enabled
             r == [regs EXCEPT !.active[d] = active, !.enabled = gate]
  <2>0. gate \in BOOLEAN
    BY <1>1 DEF RegsType
  <2>1. regs' = r /\ owner' = owner /\ stream' = Streams!Rescheduled(r, d, stream)
    BY <1>4, <1>1 DEF Streams!WriteClock, RegsType
  <2> HIDE DEF gate
  <2>2. r \in RegsType
    BY <1>1, <2>0 DEF RegsType, Flagged
  <2> HIDE DEF r
  <2> QED
    BY <1>1, <2>1, <2>2, BothScheduled
<1> QED
  BY <1>2, <1>3, <1>4

LEMMA StoppedIsOff == ASSUME NEW d \in Streams!Both PROVE Streams!Stopped \in RegsType /\ ~Streams!Running(Streams!Stopped, d)
  BY DEF Streams!Stopped, Streams!Off, RegsType, Flagged, Streams!Running

LEMMA AllReset ==
  ASSUME StreamInv, Streams!i2sReset
  PROVE  StreamInv'
<1>1. /\ owner \in OwnerType /\ stream \in [Streams!Both -> StreamType]
      /\ \A e \in Streams!Both : InReach(stream[e])
  BY DEF StreamInv, Good
<1>2. regs' = Streams!Stopped /\ owner' = owner /\ stream' = [e \in Streams!Both |-> Streams!Initial(stream[e])]
  BY DEF Streams!i2sReset
<1>3. ASSUME NEW e \in Streams!Both
      PROVE  Streams!Initial(stream[e]) \in StreamType /\ Good(Streams!Initial(stream[e]), e, Streams!Stopped, owner)
  <2> DEFINE x == stream[e]
             y == Streams!Initial(x)
             zero == 0
             none == FALSE
  <2>1. zero \in Int /\ zero \in Nat /\ zero \in Address /\ none \in BOOLEAN /\ x \in StreamType /\ None \in Channels \cup {None} /\ InReach(x)
    BY <1>1 DEF Address
  <2>2. y = [x EXCEPT !.armed = none, !.timer = zero, !.chosen = None, !.descriptor = zero, !.eofBytes = zero, !.pending = none, !.rate = none]
    BY <2>1 DEF Streams!Initial, Streams!Unarmed, StreamType
  <2> HIDE DEF x, y
  <2>3. y.timer = 0 /\ y.deadline = x.deadline /\ y.eofBytes = 0 /\ ~y.rate /\ ~y.armed /\ ~y.pending
    BY <2>1, <2>2 DEF StreamType
  <2> HIDE DEF zero, none
  <2>4. y \in StreamType
    BY <2>1, <2>2 DEF StreamType
  <2>5. InReach(y) /\ 0 < RxEof
    BY <2>1, <2>3, StreamBounds DEF InReach
  <2>6. ~Streams!Running(Streams!Stopped, e)
    BY StoppedIsOff
  <2>7. Good(y, e, Streams!Stopped, owner)
    BY <2>3, <2>5, <2>6 DEF Good
  <2> QED
    BY <2>4, <2>7 DEF x, y
<1>4. Streams!Stopped \in RegsType
  BY StoppedIsOff DEF Streams!Both
<1> QED
  BY <1>1, <1>2, <1>3, <1>4 DEF StreamInv

LEMMA Ticked ==
  ASSUME StreamInv, Streams!Tick
  PROVE  StreamInv'
<1>1. /\ owner \in OwnerType /\ regs \in RegsType /\ regs' = regs /\ owner' = owner
      /\ \A d \in Streams!Both : stream[d] \in StreamType /\ Good(stream[d], d, regs, owner) /\ (stream[d].armed => stream[d].timer > -MaxLate)
  BY DEF StreamInv, Streams!Tick
<1> DEFINE Aged(x) == [x EXCEPT !.timer = IF x.armed THEN @ - 1 ELSE @, !.deadline = Streams!Most(@ - 1, -(Poll + MaxLate))]
<1>2. stream' = [d \in Streams!Both |-> Aged(stream[d])]
  BY DEF Streams!Tick
<1>3. ASSUME NEW d \in Streams!Both PROVE Aged(stream[d]) \in StreamType /\ Good(Aged(stream[d]), d, regs, owner)
  <2> DEFINE x == stream[d]
             y == Aged(x)
             time == IF x.armed THEN x.timer - 1 ELSE x.timer
             deadline == Streams!Most(x.deadline - 1, -(Poll + MaxLate))
  <2>1. x \in StreamType /\ Good(x, d, regs, owner) /\ (x.armed => x.timer > -MaxLate) /\ x.timer \in Int /\ x.deadline \in Int
    BY <1>1 DEF StreamType
  <2>2. /\ time \in Int /\ deadline \in Int /\ deadline >= -(Poll + MaxLate) /\ (deadline = x.deadline - 1 \/ deadline = -(Poll + MaxLate))
        /\ (x.armed => time = x.timer - 1) /\ (~x.armed => time = x.timer)
    BY <2>1, StreamBounds DEF Streams!Most
  <2>3. y = [x EXCEPT !.timer = time, !.deadline = deadline]
    BY <2>1 DEF StreamType
  <2> HIDE DEF x, y, time, deadline
  <2>4. y \in StreamType
    BY <2>1, <2>2, <2>3 DEF StreamType
  <2>5. /\ y.timer = time /\ y.deadline = deadline /\ y.armed = x.armed /\ y.pending = x.pending /\ y.rate = x.rate /\ y.eofBytes = x.eofBytes
        /\ y.bytes = x.bytes /\ y.descriptor = x.descriptor /\ y.chosen = x.chosen /\ y.channel = x.channel
    BY <2>1, <2>3 DEF StreamType
  <2>6. InReach(y)
    <3>1. InReach(x)
      BY <2>1 DEF Good
    <3>2. time >= -(Poll + MaxLate)
      BY <3>1, <2>1, <2>2, StreamBounds DEF InReach
    <3>3. time <= x.timer
      BY <2>1, <2>2
    <3>4. time <= Poll \/ \E a \in Descriptors : time <= Size[a]
      <4>1. CASE x.timer <= Poll
        BY <4>1, <3>3, <2>1, <2>2, StreamBounds
      <4>2. ASSUME NEW a \in Descriptors, x.timer <= Size[a] PROVE time <= Size[a]
        BY <4>2, <3>3, <2>1, <2>2, StreamBounds
      <4> QED
        BY <3>1, <4>1, <4>2 DEF InReach
    <3> QED
      BY <2>2, <2>5, <3>2, <3>4 DEF InReach
  <2>7. y.armed => y.deadline <= y.timer \/ y.deadline <= 0
    <3> SUFFICES ASSUME x.armed PROVE deadline <= time \/ deadline <= 0
      BY <2>5
    <3>1. x.deadline <= x.timer \/ x.deadline <= 0
      BY <2>1 DEF Good
    <3> QED
      BY <3>1, <2>1, <2>2, StreamBounds
  <2>8. (Held(x, d, owner) => Held(y, d, owner)) /\ (Failed(x) => Failed(y))
    BY <2>5 DEF Held, Failed
  <2> QED
    BY <2>1, <2>4, <2>5, <2>6, <2>7, <2>8 DEF Good, x, y
<1> QED
  BY <1>1, <1>2, <1>3 DEF StreamInv

LEMMA BufferCarried ==
  ASSUME NEW d \in Streams!Both, NEW x \in StreamType, x.selected \in Channels, x.descriptor \in Descriptors,
         d = "in" => x.eofBytes + x.bytes <= RxEof
  PROVE  LET y == Streams!Carried(d, x)
         IN /\ y \in StreamType /\ SameTime(x, y) /\ y.deadline = x.deadline /\ ~y.pending /\ (d = "in" => y.eofBytes < RxEof)
            /\ \A c \in Channels : "error" \in y.channel[c].raw => "error" \in x.channel[c].raw
            /\ \A c \in Channels \cup {None} : y.channel[c].start = x.channel[c].start /\ y.channel[c].restart = x.channel[c].restart
<1> DEFINE c == x.selected
           link == x.channel[c]
           next == Link[x.descriptor]
           eof == IF d = "in" THEN x.eofBytes + x.bytes = RxEof ELSE Eof[x.descriptor]
           raised == link.raw \cup {"done"} \cup (IF eof THEN {"eof"} ELSE {}) \cup (IF next = 0 THEN {"end"} ELSE {})
           parks == link.park \/ next = 0
           done == [link EXCEPT !.descAddr = next, !.park = parks, !.raw = raised]
           channels == [x.channel EXCEPT ![c] = done]
           frame == IF d = "in" THEN Streams!Frame(x) ELSE x.eofBytes
           none == FALSE
           y == Streams!Carried(d, x)
<1>1. c \in Channels \cup {None} /\ link \in LinkType /\ x.channel \in [Channels \cup {None} -> LinkType] /\ next \in Address
  BY StreamBounds DEF StreamType
<1>2. raised \in SUBSET {"error", "done", "eof", "end"} /\ ("error" \in raised <=> "error" \in link.raw)
  BY <1>1 DEF LinkType
<1>3. parks \in BOOLEAN
  BY <1>1 DEF LinkType
<1>4. y = [x EXCEPT !.eofBytes = frame, !.descriptor = next, !.pending = none, !.channel = channels]
  <2>1. y = [x EXCEPT !.eofBytes = IF d = "in" THEN Streams!Frame(x) ELSE @, !.descriptor = next, !.pending = FALSE,
                      !.channel[c] = Streams!Ended(@, next, eof)]
    BY DEF Streams!Carried
  <2>2. done = Streams!Ended(link, next, eof)
    BY <1>1 DEF LinkType, Streams!Ended
  <2> HIDE DEF next, eof, y, done
  <2>3. y = [x EXCEPT !.eofBytes = frame, !.descriptor = next, !.pending = FALSE, !.channel = [x.channel EXCEPT ![c] = done]]
    BY <2>1, <2>2, <1>1 DEF StreamType
  <2> QED
    BY <2>3
<1>5. frame \in Nat /\ (d = "in" => frame < RxEof)
  <2>1. x.eofBytes \in Nat /\ x.bytes \in Nat /\ RxEof \in Nat /\ RxEof >= 1
    BY StreamBounds DEF StreamType
  <2>2. CASE d = "in"
    <3>1. frame = IF x.eofBytes + x.bytes = RxEof THEN 0 ELSE x.eofBytes + x.bytes
      BY <2>2 DEF Streams!Frame
    <3>2. x.eofBytes + x.bytes <= RxEof
      BY <2>2
    <3> HIDE DEF frame
    <3> QED
      BY <2>1, <3>1, <3>2
  <2>3. CASE d # "in"
    BY <2>1, <2>3
  <2> QED
    BY <2>2, <2>3
<1> HIDE DEF raised, parks, next, eof
<1>6. done \in LinkType /\ done.raw = raised /\ done.start = link.start /\ done.restart = link.restart
  BY <1>1, <1>2, <1>3 DEF LinkType
<1> HIDE DEF done
<1>7. /\ channels \in [Channels \cup {None} -> LinkType]
      /\ \A e \in Channels : "error" \in channels[e].raw => "error" \in x.channel[e].raw
      /\ \A e \in Channels \cup {None} : channels[e].start = x.channel[e].start /\ channels[e].restart = x.channel[e].restart
  BY <1>1, <1>2, <1>6
<1>8. none \in BOOLEAN /\ ~none
  OBVIOUS
<1> HIDE DEF channels, frame, none, y
<1>9. y \in StreamType
  BY <1>1, <1>4, <1>5, <1>7, <1>8 DEF StreamType
<1>10. /\ y.channel = channels /\ y.deadline = x.deadline /\ y.pending = none /\ y.eofBytes = frame
       /\ y.armed = x.armed /\ y.timer = x.timer /\ y.rate = x.rate /\ y.selected = x.selected /\ y.bytes = x.bytes
  BY <1>4 DEF StreamType
<1> QED
  BY <1>5, <1>7, <1>8, <1>9, <1>10 DEF SameTime, y

(* The timer of a direction expired and the channel was looked at.           *)
LEMMA Expired ==
  ASSUME StreamInv, NEW d \in Directions, Streams!streamComplete(d)
  PROVE  LET u == Streams!Unarmed(stream[d])
             x == Streams!streamChannel(u)
         IN /\ d \in Streams!Both /\ stream[d] \in StreamType /\ Good(stream[d], d, regs, owner) /\ x \in StreamType
            /\ ~x.armed /\ x.timer = 0 /\ (x.rate <=> Streams!Running(regs, d)) /\ SameErrors(stream[d], x)
            /\ InReach(x) /\ x.deadline <= 0 /\ (d = "in" => x.eofBytes < RxEof)
            /\ (x.pending => x = u /\ Held(x, d, owner))
<1> DEFINE s == stream[d]
           u == Streams!Unarmed(s)
           x == Streams!streamChannel(u)
<1>1. d \in Streams!Both /\ s \in StreamType /\ Good(s, d, regs, owner) /\ s.armed /\ s.timer <= 0
  BY StreamBounds DEF StreamInv, Streams!streamComplete
<1>2. u \in StreamType /\ ~u.armed /\ u.timer = 0
  <2> DEFINE zero == 0
             none == FALSE
  <2>1. zero \in Int /\ none \in BOOLEAN /\ u = [s EXCEPT !.armed = none, !.timer = zero]
    BY DEF Streams!Unarmed
  <2> HIDE DEF s, u
  <2>2. ~u.armed /\ u.timer = 0
    BY <1>1, <2>1 DEF StreamType
  <2> HIDE DEF zero, none
  <2>3. u \in StreamType
    BY <1>1, <2>1 DEF StreamType
  <2> QED
    BY <2>2, <2>3
<1>3. /\ u.deadline = s.deadline /\ u.eofBytes = s.eofBytes /\ u.pending = s.pending /\ u.rate = s.rate /\ u.channel = s.channel
      /\ u.descriptor = s.descriptor /\ u.chosen = s.chosen /\ u.bytes = s.bytes
  BY <1>1 DEF Streams!Unarmed, StreamType
<1>4. /\ x \in StreamType /\ SameTime(u, x) /\ SameErrors(u, x)
      /\ x.deadline \in {u.deadline, 0} /\ x.eofBytes \in {u.eofBytes, 0} /\ (x.pending => x = u)
  BY <1>2, ChannelLooked
<1> HIDE DEF s, u, x
<1>5. s.deadline <= 0 /\ s.deadline \in Int /\ s.deadline >= -(Poll + MaxLate) /\ s.eofBytes \in Nat
  <2>1. s.timer \in Int /\ s.deadline \in Int /\ s.eofBytes \in Nat
    BY <1>1 DEF StreamType
  <2>2. s.deadline <= s.timer \/ s.deadline <= 0
    BY <1>1 DEF Good
  <2> QED
    BY <1>1, <2>1, <2>2 DEF Good, InReach
<1>6. ~x.armed /\ x.timer = 0 /\ x.rate = s.rate /\ SameErrors(s, x)
  BY <1>2, <1>3, <1>4 DEF SameTime, SameErrors
<1>7. x.deadline <= 0 /\ x.deadline >= -(Poll + MaxLate)
  BY <1>3, <1>4, <1>5, StreamBounds
<1>8. InReach(x)
  BY <1>6, <1>7, StreamBounds DEF InReach
<1>9. d = "in" => x.eofBytes < RxEof
  BY <1>1, <1>3, <1>4, StreamBounds DEF Good
<1>10. x.pending => x = u /\ Held(x, d, owner)
  BY <1>1, <1>3, <1>4 DEF Good, Held
<1> QED
  BY <1>1, <1>4, <1>6, <1>7, <1>8, <1>9, <1>10 DEF Good, s, u, x

LEMMA Completed ==
  ASSUME StreamInv, NEW d \in Directions, Streams!streamComplete(d)
  PROVE  StreamInv'
<1> DEFINE u == Streams!Unarmed(stream[d])
           x == Streams!streamChannel(u)
           run == Streams!Running(regs, d)
           carries == Streams!Served(x) /\ x.pending /\ run
           returned == [owner EXCEPT ![d][x.descriptor] = IF d = "in" \/ WriteBack THEN FALSE ELSE @]
<1>1. /\ d \in Streams!Both /\ stream[d] \in StreamType /\ Good(stream[d], d, regs, owner) /\ x \in StreamType
      /\ ~x.armed /\ x.timer = 0 /\ (x.rate <=> run) /\ SameErrors(stream[d], x)
      /\ InReach(x) /\ x.deadline <= 0 /\ (d = "in" => x.eofBytes < RxEof)
      /\ (x.pending => x = u /\ Held(x, d, owner))
  BY Expired
<1>2. /\ regs' = regs
      /\ \/ ~carries /\ stream' = [stream EXCEPT ![d] = Streams!streamSchedule(d, regs, owner, x)] /\ owner' = owner
         \/ carries /\ ~Readable[x.descriptor] /\ stream' = [stream EXCEPT ![d] = Streams!dmaError(x)] /\ owner' = owner
         \/ /\ carries /\ Readable[x.descriptor] /\ owner' = returned
            /\ stream' = [stream EXCEPT ![d] = Streams!streamSchedule(d, regs, returned, Streams!Carried(d, x))]
  BY DEF Streams!streamComplete
<1>3. owner \in OwnerType
  BY DEF StreamInv
<1> HIDE DEF u, x
<1>4. CASE ~carries /\ stream' = [stream EXCEPT ![d] = Streams!streamSchedule(d, regs, owner, x)] /\ owner' = owner
  <2> DEFINE y == Streams!streamSchedule(d, regs, owner, x)
  <2>1. x.pending => ~run \/ (~Streams!Served(x) /\ Held(x, d, owner))
    BY <1>1, <1>4
  <2>2. y \in StreamType /\ Good(y, d, regs, owner)
    BY <1>1, <1>3, <2>1, Scheduled
  <2> HIDE DEF y
  <2>3. stream' = [stream EXCEPT ![d] = y]
    BY <1>4 DEF y
  <2> QED
    BY <1>1, <1>2, <1>3, <1>4, <2>2, <2>3, OneChanged
<1>5. ASSUME carries
      PROVE  x.selected \in Channels /\ x.descriptor \in Descriptors /\ Held(x, d, owner)
  BY <1>1, <1>5 DEF Streams!Served, Streams!Mine, StreamType, Address
<1>6. CASE carries /\ ~Readable[x.descriptor] /\ stream' = [stream EXCEPT ![d] = Streams!dmaError(x)] /\ owner' = owner
  <2> DEFINE y == Streams!dmaError(x)
  <2>1. y \in StreamType /\ SameTime(x, y) /\ y.deadline = x.deadline /\ y.eofBytes = x.eofBytes /\ ~y.pending /\ Failed(y)
    BY <1>1, <1>5, <1>6, ErrorRaised
  <2> HIDE DEF y
  <2>2. InReach(y)
    BY <1>1, <2>1 DEF InReach, SameTime
  <2>3. Good(y, d, regs, owner)
    BY <1>1, <2>1, <2>2 DEF Good, SameTime
  <2>4. stream' = [stream EXCEPT ![d] = y]
    BY <1>6 DEF y
  <2> QED
    BY <1>1, <1>2, <1>3, <1>6, <2>1, <2>3, <2>4, OneChanged
<1>7. CASE /\ carries /\ Readable[x.descriptor] /\ owner' = returned
           /\ stream' = [stream EXCEPT ![d] = Streams!streamSchedule(d, regs, returned, Streams!Carried(d, x))]
  <2> DEFINE z == Streams!Carried(d, x)
             y == Streams!streamSchedule(d, regs, returned, z)
  <2>1. z \in StreamType /\ SameTime(x, z) /\ z.deadline = x.deadline /\ ~z.pending /\ (d = "in" => z.eofBytes < RxEof)
    <3>1. d = "in" => x.eofBytes + x.bytes <= RxEof
      BY <1>5, <1>7 DEF Held
    <3> QED
      BY <1>1, <1>5, <1>7, <3>1, BufferCarried
  <2>2. returned \in OwnerType /\ \A e \in Streams!Both \ {d} : returned[e] = owner[e]
    <3> DEFINE given == IF d = "in" \/ WriteBack THEN FALSE ELSE owner[d][x.descriptor]
    <3>1. given \in BOOLEAN /\ returned = [owner EXCEPT ![d] = [owner[d] EXCEPT ![x.descriptor] = given]]
      BY <1>1, <1>3, <1>5, <1>7 DEF OwnerType
    <3> HIDE DEF given, returned
    <3> QED
      BY <1>1, <1>3, <1>5, <1>7, <3>1 DEF OwnerType
  <2> HIDE DEF z
  <2>3. InReach(z) /\ z.deadline <= 0
    BY <1>1, <2>1 DEF InReach, SameTime
  <2> HIDE DEF returned
  <2>4. y \in StreamType /\ Good(y, d, regs, returned)
    BY <1>1, <2>1, <2>2, <2>3, Scheduled
  <2>5. stream' = [stream EXCEPT ![d] = y] /\ owner' = returned
    BY <1>7 DEF z, returned
  <2> HIDE DEF y
  <2> QED
    BY <1>1, <1>2, <2>2, <2>4, <2>5, OneChanged
<1> QED
  BY <1>2, <1>4, <1>6, <1>7

LEMMA StreamInit == Streams!Init => StreamInv
<1> SUFFICES ASSUME Streams!Init PROVE StreamInv
  OBVIOUS
<1>1. PICK c \in Selections :
        stream = [d \in Streams!Both |->
          [armed |-> FALSE, timer |-> 0, deadline |-> 0, chosen |-> None, selected |-> c, descriptor |-> 0, pending |-> FALSE,
           bytes |-> 0, eofBytes |-> 0, rate |-> FALSE, channel |-> [e \in Channels \cup {None} |-> Streams!NoLink]]]
  BY DEF Streams!Init
<1>2. regs = Streams!Stopped /\ owner = [d \in Streams!Both |-> [a \in Descriptors |-> TRUE]] /\ c \in Channels \cup {None}
  BY StreamBounds DEF Streams!Init
<1>3. Streams!NoLink \in LinkType
  BY DEF Streams!NoLink, LinkType, Address
<1>4. ASSUME NEW d \in Streams!Both PROVE stream[d] \in StreamType /\ Good(stream[d], d, regs, owner)
  <2> DEFINE zero == 0
             none == FALSE
             channels == [e \in Channels \cup {None} |-> Streams!NoLink]
  <2>1. zero \in Int /\ zero \in Nat /\ zero \in Address /\ none \in BOOLEAN /\ None \in Channels \cup {None} /\ channels \in [Channels \cup {None} -> LinkType]
    BY <1>3 DEF Address
  <2>2. stream[d] = [armed |-> none, timer |-> zero, deadline |-> zero, chosen |-> None, selected |-> c, descriptor |-> zero, pending |-> none,
                     bytes |-> zero, eofBytes |-> zero, rate |-> none, channel |-> channels]
    BY <1>1
  <2> HIDE DEF channels
  <2>3. /\ stream[d].timer = 0 /\ stream[d].deadline = 0 /\ stream[d].eofBytes = 0
        /\ ~stream[d].armed /\ ~stream[d].pending /\ ~stream[d].rate
    BY <2>2
  <2> HIDE DEF zero, none
  <2>4. stream[d] \in StreamType
    BY <1>2, <2>1, <2>2 DEF StreamType
  <2>5. ~Streams!Running(regs, d)
    BY <1>2, StoppedIsOff
  <2>6. InReach(stream[d]) /\ 0 < RxEof
    BY <2>3, StreamBounds DEF InReach
  <2> QED
    BY <2>3, <2>4, <2>5, <2>6 DEF Good
<1>5. regs \in RegsType
  BY <1>2, StoppedIsOff DEF Streams!Both
<1>6. owner \in OwnerType
  BY <1>2 DEF OwnerType
<1>7. stream \in [Streams!Both -> StreamType]
  BY <1>1, <1>4
<1> QED
  BY <1>4, <1>5, <1>6, <1>7 DEF StreamInv

\* The registers of the GDMA are written: the link, the order to stop or reset, the raw interrupts.
LEMMA LinkWritten ==
  ASSUME StreamInv, NEW d \in Directions, NEW c \in Channels
  PROVE  /\ (\E a \in Descriptors : Streams!StartLink(d, c, a)) => StreamInv'
         /\ Streams!RestartLink(d, c) => StreamInv'
         /\ Streams!StopLink(d, c) => StreamInv'
         /\ Streams!ResetChannel(d, c) => StreamInv'
         /\ Streams!ClearRaw(d, c) => StreamInv'
<1> DEFINE link == stream[d].channel[c]
<1>1. link \in LinkType
  BY StreamBounds DEF StreamInv, StreamType
<1> HIDE DEF link
<1>2. ASSUME NEW a \in Descriptors, Streams!StartLink(d, c, a) PROVE StreamInv'
  <2> DEFINE new == [link EXCEPT !.start = TRUE, !.first = a]
  <2>1. new \in LinkType /\ new.raw = link.raw
    BY <1>1 DEF LinkType, Address
  <2>2. Streams!WriteChannel(d, c, new)
    BY <1>2 DEF Streams!StartLink, link
  <2> HIDE DEF new
  <2> QED
    BY <2>1, <2>2, ChannelWritten DEF link
<1>3. ASSUME Streams!RestartLink(d, c) PROVE StreamInv'
  <2> DEFINE new == [link EXCEPT !.restart = TRUE]
  <2>1. new \in LinkType /\ new.raw = link.raw
    BY <1>1 DEF LinkType
  <2>2. Streams!WriteChannel(d, c, new)
    BY <1>3 DEF Streams!RestartLink, link
  <2> HIDE DEF new
  <2> QED
    BY <2>1, <2>2, ChannelWritten DEF link
<1>4. ASSUME Streams!StopLink(d, c) PROVE StreamInv'
  <2> DEFINE new == [link EXCEPT !.stop = TRUE]
  <2>1. new \in LinkType /\ new.raw = link.raw
    BY <1>1 DEF LinkType
  <2>2. Streams!WriteChannel(d, c, new)
    BY <1>4 DEF Streams!StopLink, link
  <2> HIDE DEF new
  <2> QED
    BY <2>1, <2>2, ChannelWritten DEF link
<1>5. ASSUME Streams!ResetChannel(d, c) PROVE StreamInv'
  <2> DEFINE new == [link EXCEPT !.reset = ~link.reset]
  <2>1. new \in LinkType /\ new.raw = link.raw
    BY <1>1 DEF LinkType
  <2>2. Streams!WriteChannel(d, c, new)
    BY <1>1, <1>5 DEF Streams!ResetChannel, link, LinkType
  <2> HIDE DEF new
  <2> QED
    BY <2>1, <2>2, ChannelWritten DEF link
<1>6. ASSUME Streams!ClearRaw(d, c) PROVE StreamInv'
  <2> DEFINE new == [link EXCEPT !.raw = {}]
  <2>1. new \in LinkType
    BY <1>1 DEF LinkType
  <2>2. Streams!WriteChannel(d, c, new) /\ ("error" \in link.raw => ~Streams!Running(regs, d))
    BY <1>6 DEF Streams!ClearRaw, link
  <2> HIDE DEF new
  <2> QED
    BY <2>1, <2>2, ChannelWritten DEF link
<1> QED
  BY <1>2, <1>3, <1>4, <1>5, <1>6

LEMMA StreamStep == StreamInv /\ [Streams!Next]_Streams!vars => StreamInv'
<1> SUFFICES ASSUME StreamInv, [Streams!Next]_Streams!vars PROVE StreamInv'
  OBVIOUS
<1>1. ASSUME Streams!Tick PROVE StreamInv'
  BY <1>1, Ticked
<1>2. ASSUME NEW d \in Directions, Streams!streamComplete(d) PROVE StreamInv'
  BY <1>2, Completed
<1>3. ASSUME NEW d \in Streams!Both, NEW start \in BOOLEAN, NEW reset \in BOOLEAN, NEW slave \in BOOLEAN, Streams!WriteConf(d, start, reset, slave)
      PROVE  StreamInv'
  BY <1>3, RegistersWritten
<1>4. ASSUME NEW share \in BOOLEAN, Streams!WriteShare(share) PROVE StreamInv'
  BY <1>4, RegistersWritten DEF Streams!Both
<1>5. ASSUME NEW d \in Streams!Both, NEW active \in BOOLEAN, NEW clocked \in BOOLEAN, Streams!WriteClock(d, active, clocked) PROVE StreamInv'
  BY <1>5, RegistersWritten
<1>6. ASSUME Streams!i2sReset PROVE StreamInv'
  BY <1>6, AllReset
<1>7. ASSUME NEW d \in Directions, NEW c \in Channels,
             \/ \E a \in Descriptors : Streams!StartLink(d, c, a)
             \/ Streams!RestartLink(d, c) \/ Streams!StopLink(d, c) \/ Streams!ResetChannel(d, c) \/ Streams!ClearRaw(d, c)
      PROVE  StreamInv'
  BY <1>7, LinkWritten
<1>8. ASSUME NEW d \in Directions, NEW c \in Selections, Streams!SelectChannel(d, c) PROVE StreamInv'
  BY <1>8, ChannelSelected
<1>9. ASSUME NEW d \in Directions, NEW a \in Descriptors, Streams!GiveDescriptor(d, a) \/ Streams!TakeDescriptor(d, a) PROVE StreamInv'
  BY <1>9, OwnerChanged
<1>10. CASE UNCHANGED Streams!vars
  BY <1>10 DEF StreamInv, Good, Streams!vars
<1>11. "out" \in Streams!Both /\ \A d \in Directions : d \in Streams!Both
  BY StreamBounds DEF Streams!Both
<1>12. CASE Streams!Next
  BY <1>1, <1>2, <1>3, <1>4, <1>5, <1>6, <1>7, <1>8, <1>9, <1>11, <1>12 DEF Streams!Next
<1> QED
  BY <1>10, <1>12

LEMMA StreamSafe == StreamInv => Streams!I2sSafety
<1> SUFFICES ASSUME StreamInv PROVE Streams!I2sSafety
  OBVIOUS
<1>1. /\ owner \in OwnerType
      /\ \A d \in Streams!Both : stream[d] \in StreamType /\ Good(stream[d], d, regs, owner)
  BY DEF StreamInv
<1>2. Streams!TypeOK
  <2> SUFFICES ASSUME NEW d \in Streams!Both
               PROVE  /\ stream[d].descriptor \in Descriptors \cup {0} /\ stream[d].chosen \in Channels \cup {None}
                      /\ stream[d].bytes \in Nat /\ stream[d].eofBytes \in Nat
                      /\ stream[d].timer >= -(Poll + MaxLate)
                      /\ stream[d].timer <= Poll \/ \E a \in Descriptors : stream[d].timer <= Size[a]
    BY <1>1 DEF Streams!TypeOK, OwnerType
  <2>1. stream[d] \in StreamType /\ InReach(stream[d])
    BY <1>1 DEF Good
  <2> QED
    BY <2>1 DEF StreamType, Address, InReach
<1>3. Streams!StoppedIsStill
  <2> SUFFICES ASSUME NEW d \in Directions
               PROVE  /\ stream[d].rate = Streams!Running(regs, d)
                      /\ ~Streams!Running(regs, d) => ~stream[d].armed /\ ~stream[d].pending
    BY DEF Streams!StoppedIsStill
  <2>1. Good(stream[d], d, regs, owner) /\ stream[d].rate \in BOOLEAN
    BY <1>1, StreamBounds DEF StreamType
  <2>2. Streams!Running(regs, d) \in BOOLEAN
    BY DEF Streams!Running
  <2>3. stream[d].rate <=> Streams!Running(regs, d)
    BY <2>1 DEF Good
  <2>4. stream[d].rate = Streams!Running(regs, d)
    BY <2>1, <2>2, <2>3
  <2> QED
    BY <2>1, <2>4 DEF Good
<1>4. Streams!Polls
  BY <1>1, StreamBounds DEF Streams!Polls, Streams!Errors, Good, Failed
<1>5. Streams!PendingServed
  BY <1>1, StreamBounds DEF Streams!PendingServed, Good, Held
<1>6. Streams!FramesExact
  BY <1>1 DEF Streams!FramesExact, Good, Streams!Both
<1> QED
  BY <1>2, <1>3, <1>4, <1>5, <1>6 DEF Streams!I2sSafety

-----------------------------------------------------------------------------
(* The steps of a stream.                                                    *)
NoMore(x, y) == \A c \in Channels : "error" \in y.channel[c].raw => "error" \in x.channel[c].raw

\* A step told of no error of a stream that its descriptor does not deserve.
Excused(d) == NoMore(stream[d], stream'[d]) \/ Streams!Deserves(d, Streams!Begun(stream[d]), owner, owner')

\* A stream whose channel has no order to begin anew goes on where it was.
LEMMA NotBegun ==
  ASSUME NEW x \in StreamType, x.selected \in Channels
  PROVE  Streams!Begun(x) = x <=> ~(x.channel[x.selected].start \/ x.channel[x.selected].restart)
<1> DEFINE c == x.selected
           link == x.channel[c]
           y == Streams!Begun(x)
<1>1. c # None /\ x.channel \in [Channels \cup {None} -> LinkType] /\ link \in LinkType
  BY StreamBounds DEF StreamType
<1>2. ASSUME ~(link.start \/ link.restart) PROVE y = x
  BY <1>2 DEF Streams!Begun
<1>3. ASSUME link.start \/ link.restart PROVE y # x
  <2> DEFINE cleared == [link EXCEPT !.start = FALSE, !.restart = FALSE, !.stop = FALSE, !.park = FALSE]
  <2>1. y.channel = [x.channel EXCEPT ![c] = cleared]
    BY <1>1, <1>3 DEF Streams!Begun, StreamType
  <2>2. ~cleared.start /\ ~cleared.restart
    BY <1>1 DEF LinkType
  <2> HIDE DEF cleared, y
  <2>3. ~y.channel[c].start /\ ~y.channel[c].restart
    BY <1>1, <2>1, <2>2
  <2> QED
    BY <1>3, <2>3
<1> QED
  BY <1>2, <1>3

\* A channel that goes on is either left alone or parked, with no buffer under way.
LEMMA ChannelKept ==
  ASSUME NEW x \in StreamType, Streams!Begun(x) = x
  PROVE  LET y == Streams!streamChannel(x)
         IN y = x \/ (~y.pending /\ ~Streams!Served(y) /\ y.selected = x.selected /\ Streams!Begun(y) = y)
<1> DEFINE c == x.selected
           link == x.channel[c]
           y == Streams!streamChannel(x)
<1>1. y = IF Streams!Mine(x) /\ (link.reset \/ link.stop \/ link.park)
          THEN [x EXCEPT !.channel[c].stop = FALSE, !.channel[c].park = TRUE, !.descriptor = 0, !.pending = FALSE]
          ELSE x
  BY DEF Streams!streamChannel
<1>2. CASE Streams!Mine(x) /\ (link.reset \/ link.stop \/ link.park)
  <2> DEFINE parked == [link EXCEPT !.stop = FALSE, !.park = TRUE]
             channels == [x.channel EXCEPT ![c] = parked]
  <2>1. c \in Channels /\ link \in LinkType /\ x.channel \in [Channels \cup {None} -> LinkType]
    BY <1>2 DEF StreamType, Streams!Mine
  <2>2. y = [x EXCEPT !.channel = channels, !.descriptor = 0, !.pending = FALSE]
    BY <1>1, <1>2, <2>1 DEF StreamType
  <2>3. parked.start = link.start /\ parked.restart = link.restart
    BY <2>1 DEF LinkType
  <2> HIDE DEF parked, y
  <2>4. channels[c] = parked
    BY <2>1
  <2>5. y.channel = channels /\ y.descriptor = 0 /\ ~y.pending /\ y.selected = c
    BY <2>2 DEF StreamType
  <2>6. ~(link.start \/ link.restart)
    BY <2>1, NotBegun
  <2>7. Streams!Begun(y) = y
    BY <2>3, <2>4, <2>5, <2>6 DEF Streams!Begun
  <2> QED
    BY <2>5, <2>7 DEF Streams!Served, y
<1>3. CASE ~(Streams!Mine(x) /\ (link.reset \/ link.stop \/ link.park))
  BY <1>1, <1>3
<1> QED
  BY <1>2, <1>3

\* What is begun follows from the channel, unless it goes on with the descriptor it is at.
LEMMA BegunFields ==
  ASSUME NEW x \in StreamType, NEW y \in StreamType, y.selected = x.selected, y.channel = x.channel, y.descriptor \in {x.descriptor, 0}
  PROVE  /\ Streams!Begun(y).descriptor \in {Streams!Begun(x).descriptor, 0}
         /\ y.descriptor = x.descriptor => Streams!Begun(y).descriptor = Streams!Begun(x).descriptor
         /\ y.descriptor = x.descriptor /\ (y.pending <=> x.pending) => (Streams!Begun(y).pending <=> Streams!Begun(x).pending)
<1> DEFINE c == x.selected
           link == x.channel[c]
           addr == IF link.start \/ link.descAddr = 0 THEN link.first ELSE link.descAddr
<1>1. CASE c = None \/ ~(link.start \/ link.restart)
  <2>1. Streams!Begun(x) = x /\ Streams!Begun(y) = y
    BY <1>1 DEF Streams!Begun
  <2> QED
    BY <2>1
<1>2. CASE ~(c = None \/ ~(link.start \/ link.restart))
  <2>1. Streams!Begun(x).descriptor = addr /\ ~Streams!Begun(x).pending
    BY <1>2 DEF Streams!Begun, StreamType
  <2>2. Streams!Begun(y).descriptor = addr /\ ~Streams!Begun(y).pending
    BY <1>2 DEF Streams!Begun, StreamType
  <2> QED
    BY <2>1, <2>2
<1> QED
  BY <1>1, <1>2

\* An order to begin anew is carried out once.
LEMMA BegunOnce ==
  ASSUME NEW x \in StreamType
  PROVE  Streams!Begun(Streams!Begun(x)) = Streams!Begun(x)
<1> DEFINE c == x.selected
           link == x.channel[c]
           y == Streams!Begun(x)
<1>1. CASE c = None \/ ~(link.start \/ link.restart)
  BY <1>1 DEF Streams!Begun
<1>2. CASE ~(c = None \/ ~(link.start \/ link.restart))
  <2> DEFINE cleared == [link EXCEPT !.start = FALSE, !.restart = FALSE, !.stop = FALSE, !.park = FALSE]
  <2>1. c \in Channels \cup {None} /\ link \in LinkType /\ x.channel \in [Channels \cup {None} -> LinkType]
    BY DEF StreamType
  <2>2. y.channel = [x.channel EXCEPT ![c] = cleared] /\ y.selected = c
    BY <1>2 DEF Streams!Begun, StreamType
  <2>3. ~cleared.start /\ ~cleared.restart
    BY <2>1 DEF LinkType
  <2> HIDE DEF cleared, y
  <2>4. ~y.channel[c].start /\ ~y.channel[c].restart
    BY <2>1, <2>2, <2>3
  <2>5. Streams!Begun(y) = y
    BY <2>2, <2>4 DEF Streams!Begun
  <2> QED
    BY <2>5 DEF y
<1> QED
  BY <1>1, <1>2

\* A second look at the channel finds nothing to begin; it serves what the first began, or nothing.
LEMMA ChannelOnce ==
  ASSUME NEW x \in StreamType
  PROVE  LET y == Streams!streamChannel(x)
         IN /\ Streams!Begun(y) = y /\ y.descriptor \in {Streams!Begun(x).descriptor, 0}
            /\ (Streams!Served(y) => y = Streams!Begun(x))
<1> DEFINE b == Streams!Begun(x)
           c == b.selected
           link == b.channel[c]
           y == Streams!streamChannel(x)
<1>1. b \in StreamType /\ Streams!Begun(b) = b
  BY BegunAnew, BegunOnce
<1>2. /\ y = Streams!streamChannel(b)
      /\ y = IF Streams!Mine(b) /\ (link.reset \/ link.stop \/ link.park)
             THEN [b EXCEPT !.channel[c].stop = FALSE, !.channel[c].park = TRUE, !.descriptor = 0, !.pending = FALSE]
             ELSE b
  BY <1>1 DEF Streams!streamChannel
<1> HIDE DEF b, y
<1>3. y = b \/ (~Streams!Served(y) /\ Streams!Begun(y) = y)
  BY <1>1, <1>2, ChannelKept
<1>4. y.descriptor \in {b.descriptor, 0}
  BY <1>1, <1>2 DEF StreamType
<1> QED
  BY <1>1, <1>3, <1>4 DEF b, y

\* streamSchedule raises an error for the descriptor that its channel has come to, if at all.
LEMMA ScheduledErrors ==
  ASSUME NEW d \in Streams!Both, NEW r, NEW own \in OwnerType, NEW x0 \in StreamType, d = "in" => x0.eofBytes < RxEof
  PROVE  NoMore(x0, Streams!streamSchedule(d, r, own, x0)) \/ Streams!Faulty(d, Streams!Begun(x0).descriptor, own)
<1> DEFINE run == Streams!Running(r, d)
           told == [x0 EXCEPT !.rate = run]
           x == Streams!streamChannel(told)
           bytes == Streams!BytesOf(x, d)
           due == Streams!Due(x, bytes)
           y == Streams!streamSchedule(d, r, own, x0)
<1>1. run \in BOOLEAN
  BY DEF Streams!Running
<1>2. /\ told \in StreamType /\ told.eofBytes = x0.eofBytes /\ told.channel = x0.channel
      /\ told.selected = x0.selected /\ told.descriptor = x0.descriptor
  BY <1>1 DEF StreamType
<1>3. y = IF ~run THEN Streams!Unarmed([told EXCEPT !.pending = FALSE, !.deadline = 0])
          ELSE IF ~Streams!Served(x) THEN Streams!Idle(x)
          ELSE IF x.pending THEN x
          ELSE IF Streams!Unfit(d, own, x) THEN Streams!dmaError(x)
          ELSE Streams!At([x EXCEPT !.pending = TRUE, !.bytes = bytes, !.deadline = due], due)
  BY DEF Streams!streamSchedule
<1>4. /\ x \in StreamType /\ SameErrors(told, x) /\ x.eofBytes \in {told.eofBytes, 0}
      /\ (Streams!Served(x) => x = Streams!Begun(told))
  BY <1>2, ChannelLooked, ChannelOnce
<1> HIDE DEF run, told, x, y
<1>11. Streams!Begun(told).descriptor = Streams!Begun(x0).descriptor
  BY <1>2, BegunFields
<1>5. NoMore(x0, x) /\ NoMore(x0, told)
  BY <1>2, <1>4 DEF NoMore, SameErrors
<1>6. CASE ~run
  <2>1. y.channel = told.channel
    BY <1>2, <1>3, <1>6 DEF Streams!Unarmed, StreamType
  <2> QED
    BY <2>1, <1>5 DEF NoMore, y
<1>7. CASE run /\ ~Streams!Served(x)
  <2>1. y.channel = x.channel
    BY <1>4, <1>3, <1>7 DEF Streams!Idle, Streams!At, StreamType
  <2> QED
    BY <2>1, <1>5 DEF NoMore, y
<1>8. CASE run /\ Streams!Served(x) /\ x.pending
  BY <1>3, <1>5, <1>8 DEF y
<1>9. CASE run /\ Streams!Served(x) /\ ~x.pending /\ Streams!Unfit(d, own, x)
  <2>1. x.descriptor # 0
    BY <1>9 DEF Streams!Served
  <2>2. d = "in" => x.eofBytes < RxEof
    BY <1>2, <1>4, StreamBounds
  <2>3. Streams!Faulty(d, x.descriptor, own)
    BY <1>4, <1>9, <2>1, <2>2, UnfitFaulty
  <2> QED
    BY <1>4, <1>9, <1>11, <2>3
<1>10. CASE run /\ Streams!Served(x) /\ ~x.pending /\ ~Streams!Unfit(d, own, x)
  <2> HIDE DEF bytes, due
  <2>1. y.channel = x.channel
    BY <1>4, <1>3, <1>10 DEF Streams!At, StreamType
  <2> QED
    BY <2>1, <1>5 DEF NoMore, y
<1> QED
  BY <1>6, <1>7, <1>8, <1>9, <1>10

\* A stream that a register's write starts from, and the one it was.
SameChannel(y, x) == y.selected = x.selected /\ y.channel = x.channel /\ y.descriptor \in {x.descriptor, 0}

LEMMA RescheduledErrors ==
  ASSUME StreamInv, NEW r, NEW d, NEW streams \in [Streams!Both -> StreamType],
         \A e \in Streams!Both : (e = "in" => streams[e].eofBytes < RxEof) /\ SameChannel(streams[e], stream[e]),
         owner' = owner, stream' = Streams!Rescheduled(r, d, streams), NEW e \in Streams!Both
  PROVE  Excused(e)
<1> DEFINE x0 == [streams[e] EXCEPT !.pending = FALSE, !.deadline = 0]
           zero == 0
<1>1. stream'[e] = Streams!streamSchedule(e, r, owner, x0) /\ owner \in OwnerType /\ streams[e] \in StreamType
  BY DEF Streams!Rescheduled, StreamInv
<1>2. x0.eofBytes = streams[e].eofBytes /\ SameChannel(x0, stream[e])
  BY <1>1 DEF StreamType, SameChannel
<1>3. x0 \in StreamType
  <2>1. zero \in Int /\ x0 = [streams[e] EXCEPT !.pending = FALSE, !.deadline = zero]
    OBVIOUS
  <2> HIDE DEF zero, x0
  <2> QED
    BY <1>1, <2>1 DEF StreamType
<1> HIDE DEF x0
<1> DEFINE b == Streams!Begun(stream[e])
<1>4. NoMore(x0, stream'[e]) \/ Streams!Faulty(e, Streams!Begun(x0).descriptor, owner)
  BY <1>1, <1>2, <1>3, ScheduledErrors
<1>5. Streams!Begun(x0).descriptor \in {b.descriptor, 0}
  BY <1>2, <1>3, BegunFields DEF SameChannel, StreamInv
<1>6. ~Streams!Faulty(e, 0, owner)
  BY StreamBounds DEF Streams!Faulty
<1> HIDE DEF b
<1>7. NoMore(stream[e], stream'[e]) \/ Streams!Faulty(e, b.descriptor, owner)
  BY <1>2, <1>4, <1>5, <1>6 DEF NoMore, SameChannel
<1> QED
  BY <1>7 DEF Excused, Streams!Deserves, b

\* The streams that a register's write starts from have the channels they had.
LEMMA RegisterErrors ==
  ASSUME StreamInv, NEW d \in Streams!Both, NEW e \in Streams!Both,
         \/ \E start, reset, slave \in BOOLEAN : Streams!WriteConf(d, start, reset, slave)
         \/ \E share \in BOOLEAN : Streams!WriteShare(share)
         \/ \E active, clocked \in BOOLEAN : Streams!WriteClock(d, active, clocked)
  PROVE  Excused(e)
<1>1. /\ stream \in [Streams!Both -> StreamType]
      /\ \A f \in Streams!Both : f = "in" => stream[f].eofBytes < RxEof
  BY DEF StreamInv, Good
<1>2. ASSUME NEW start \in BOOLEAN, NEW reset \in BOOLEAN, NEW slave \in BOOLEAN, Streams!WriteConf(d, start, reset, slave)
      PROVE  Excused(e)
  <2> DEFINE r == [regs EXCEPT !.start[d] = start, !.reset[d] = reset, !.slave[d] = slave]
             x == stream[d]
             cleared == [Streams!Unarmed(x) EXCEPT !.descriptor = 0, !.pending = FALSE, !.eofBytes = 0]
             streams == IF reset THEN [stream EXCEPT ![d] = cleared] ELSE stream
  <2>1. owner' = owner /\ stream' = Streams!Rescheduled(r, d, streams)
    BY <1>2 DEF Streams!WriteConf
  <2>2. cleared \in StreamType /\ SameChannel(cleared, x) /\ cleared.eofBytes = 0
    <3> DEFINE zero == 0
               none == FALSE
    <3>1. zero \in Int /\ zero \in Nat /\ zero \in Address /\ none \in BOOLEAN /\ x \in StreamType
      BY <1>1 DEF Address
    <3>2. cleared = [x EXCEPT !.armed = none, !.timer = zero, !.descriptor = zero, !.pending = none, !.eofBytes = zero]
      BY <3>1 DEF Streams!Unarmed, StreamType
    <3> HIDE DEF x, cleared
    <3>3. SameChannel(cleared, x) /\ cleared.eofBytes = 0
      BY <3>1, <3>2 DEF StreamType, SameChannel
    <3> HIDE DEF zero, none
    <3>4. cleared \in StreamType
      BY <3>1, <3>2 DEF StreamType
    <3> QED
      BY <3>3, <3>4
  <2> HIDE DEF r, cleared
  <2>3. streams \in [Streams!Both -> StreamType]
    BY <1>1, <2>2
  <2>4. \A f \in Streams!Both : (f = "in" => streams[f].eofBytes < RxEof) /\ SameChannel(streams[f], stream[f])
    BY <1>1, <2>2, StreamBounds DEF SameChannel
  <2> HIDE DEF streams
  <2> QED
    BY <2>1, <2>3, <2>4, RescheduledErrors
<1>3. ASSUME NEW share \in BOOLEAN, Streams!WriteShare(share)
      PROVE  Excused(e)
  <2> DEFINE r == [regs EXCEPT !.share = share]
  <2>1. owner' = owner /\ stream' = Streams!Rescheduled(r, "out", stream)
    BY <1>3 DEF Streams!WriteShare
  <2> HIDE DEF r
  <2> QED
    BY <1>1, <2>1, RescheduledErrors DEF SameChannel
<1>4. ASSUME NEW active \in BOOLEAN, NEW clocked \in BOOLEAN, Streams!WriteClock(d, active, clocked)
      PROVE  Excused(e)
  <2> DEFINE r == [regs EXCEPT !.active[d] = active, !.enabled = IF d = "out" THEN clocked ELSE @]
  <2>1. owner' = owner /\ stream' = Streams!Rescheduled(r, d, stream)
    BY <1>4 DEF Streams!WriteClock
  <2> HIDE DEF r
  <2> QED
    BY <1>1, <2>1, RescheduledErrors DEF SameChannel
<1> QED
  BY <1>2, <1>3, <1>4

LEMMA CompletedErrors ==
  ASSUME StreamInv, NEW d \in Directions, Streams!streamComplete(d), NEW e \in Streams!Both
  PROVE  Excused(e)
<1> DEFINE u == Streams!Unarmed(stream[d])
           x == Streams!streamChannel(u)
           carries == Streams!Served(x) /\ x.pending /\ Streams!Running(regs, d)
           returned == [owner EXCEPT ![d][x.descriptor] = IF d = "in" \/ WriteBack THEN FALSE ELSE @]
<1>1. /\ d \in Streams!Both /\ x \in StreamType /\ SameErrors(stream[d], x)
      /\ (d = "in" => x.eofBytes < RxEof) /\ (x.pending => Held(x, d, owner))
  BY Expired
<1>2. \/ ~carries /\ stream' = [stream EXCEPT ![d] = Streams!streamSchedule(d, regs, owner, x)] /\ owner' = owner
      \/ carries /\ ~Readable[x.descriptor] /\ stream' = [stream EXCEPT ![d] = Streams!dmaError(x)] /\ owner' = owner
      \/ /\ carries /\ Readable[x.descriptor] /\ owner' = returned
         /\ stream' = [stream EXCEPT ![d] = Streams!streamSchedule(d, regs, returned, Streams!Carried(d, x))]
  BY DEF Streams!streamComplete
<1>3. owner \in OwnerType /\ stream \in [Streams!Both -> StreamType]
  BY DEF StreamInv
<1>4. CASE e # d
  <2>1. stream'[e] = stream[e]
    BY <1>2, <1>3, <1>4
  <2> QED
    BY <2>1 DEF NoMore, Excused
<1> DEFINE b == Streams!Begun(stream[d])
<1>10. /\ Streams!Begun(x) = x /\ x.descriptor \in {b.descriptor, 0}
       /\ (Streams!Served(x) => x.descriptor = b.descriptor /\ (x.pending <=> b.pending))
  <2> DEFINE s == stream[d]
  <2>1. u \in StreamType /\ u.selected = s.selected /\ u.channel = s.channel /\ u.descriptor = s.descriptor /\ u.pending = s.pending
    <3> DEFINE zero == 0
               none == FALSE
    <3>1. zero \in Int /\ none \in BOOLEAN /\ u = [s EXCEPT !.armed = none, !.timer = zero] /\ s \in StreamType
      BY <1>1, <1>3 DEF Streams!Unarmed
    <3> HIDE DEF s, u, zero, none
    <3> QED
      BY <3>1 DEF StreamType
  <2>2. s \in StreamType
    BY <1>1, <1>3
  <2>3. Streams!Begun(u).descriptor = b.descriptor /\ (Streams!Begun(u).pending <=> b.pending)
    <3> HIDE DEF s, u, b
    <3>1. /\ Streams!Begun(u).descriptor = Streams!Begun(s).descriptor
          /\ Streams!Begun(u).pending <=> Streams!Begun(s).pending
      BY <2>1, <2>2, BegunFields
    <3> QED
      BY <3>1 DEF b, s
  <2>4. /\ Streams!Begun(x) = x /\ x.descriptor \in {Streams!Begun(u).descriptor, 0}
        /\ (Streams!Served(x) => x = Streams!Begun(u))
    <3> HIDE DEF u
    <3> QED
      BY <2>1, ChannelOnce
  <2> HIDE DEF x, u, b
  <2> QED
    BY <2>3, <2>4
<1> HIDE DEF u, x, b
<1>5. NoMore(stream[d], x)
  BY <1>1 DEF NoMore, SameErrors
<1>6. carries => x.selected \in Channels /\ x.descriptor \in Descriptors /\ Held(x, d, owner)
  BY <1>1 DEF Streams!Served, Streams!Mine, StreamType, Address
<1>7. CASE e = d /\ ~carries /\ stream' = [stream EXCEPT ![d] = Streams!streamSchedule(d, regs, owner, x)] /\ owner' = owner
  <2>1. stream'[d] = Streams!streamSchedule(d, regs, owner, x)
    BY <1>1, <1>3, <1>7
  <2>2. NoMore(x, stream'[d]) \/ Streams!Faulty(d, x.descriptor, owner)
    <3>1. NoMore(x, stream'[d]) \/ Streams!Faulty(d, Streams!Begun(x).descriptor, owner)
      BY <1>1, <1>3, <2>1, ScheduledErrors
    <3> QED
      BY <1>10, <3>1
  <2>3. ~Streams!Faulty(d, 0, owner)
    BY StreamBounds DEF Streams!Faulty
  <2>4. NoMore(stream[d], stream'[d]) \/ Streams!Faulty(d, b.descriptor, owner)
    BY <1>5, <1>10, <2>2, <2>3 DEF NoMore
  <2> QED
    BY <1>7, <2>4 DEF Excused, Streams!Deserves, b
<1>8. CASE e = d /\ carries /\ ~Readable[x.descriptor] /\ owner' = owner
  <2>1. b.pending /\ ~Readable[b.descriptor] /\ b.descriptor \in Descriptors
    BY <1>6, <1>8, <1>10
  <2>2. Streams!Deserves(d, b, owner, owner')
    BY <2>1 DEF Streams!Deserves
  <2> QED
    BY <1>8, <2>2 DEF Excused, b
<1>9. CASE /\ e = d /\ carries /\ Readable[x.descriptor] /\ owner' = returned
           /\ stream' = [stream EXCEPT ![d] = Streams!streamSchedule(d, regs, returned, Streams!Carried(d, x))]
  <2> DEFINE z == Streams!Carried(d, x)
  <2>1. /\ z \in StreamType /\ (d = "in" => z.eofBytes < RxEof) /\ NoMore(x, z) /\ SameTime(x, z)
        /\ \A c \in Channels \cup {None} : z.channel[c].start = x.channel[c].start /\ z.channel[c].restart = x.channel[c].restart
    <3>1. d = "in" => x.eofBytes + x.bytes <= RxEof
      BY <1>6, <1>9 DEF Held
    <3> QED
      BY <1>1, <1>6, <1>9, <3>1, BufferCarried DEF NoMore
  <2>2. returned \in OwnerType
    <3> DEFINE given == IF d = "in" \/ WriteBack THEN FALSE ELSE owner[d][x.descriptor]
    <3>1. given \in BOOLEAN /\ returned = [owner EXCEPT ![d] = [owner[d] EXCEPT ![x.descriptor] = given]]
      BY <1>1, <1>3, <1>6, <1>9 DEF OwnerType
    <3> HIDE DEF given, returned
    <3> QED
      BY <1>1, <1>3, <1>6, <1>9, <3>1 DEF OwnerType
  <2>3. stream'[d] = Streams!streamSchedule(d, regs, returned, z)
    BY <1>1, <1>3, <1>9
  <2>6. z.descriptor = Link[x.descriptor]
    BY <1>1 DEF Streams!Carried, StreamType
  <2> HIDE DEF returned, z
  <2>7. Streams!Begun(z) = z
    <3>1. z.selected = x.selected
      BY <2>1 DEF SameTime
    <3>2. ~(x.channel[x.selected].start \/ x.channel[x.selected].restart)
      BY <1>1, <1>6, <1>9, <1>10, NotBegun
    <3>3. ~(z.channel[z.selected].start \/ z.channel[z.selected].restart)
      BY <1>6, <1>9, <2>1, <3>1, <3>2
    <3> QED
      BY <1>6, <1>9, <2>1, <3>1, <3>3, NotBegun
  <2>4. NoMore(z, stream'[d]) \/ Streams!Faulty(d, Link[x.descriptor], returned)
    <3>1. NoMore(z, stream'[d]) \/ Streams!Faulty(d, Streams!Begun(z).descriptor, returned)
      BY <1>1, <2>1, <2>2, <2>3, ScheduledErrors
    <3> QED
      BY <2>6, <2>7, <3>1
  <2>5. owner' = returned
    BY <1>9 DEF returned
  <2>8. b.pending /\ Readable[b.descriptor] /\ b.descriptor = x.descriptor
    BY <1>9, <1>10
  <2>9. NoMore(stream[d], stream'[d]) \/ Streams!Deserves(d, b, owner, owner')
    BY <1>5, <2>1, <2>4, <2>5, <2>8 DEF NoMore, Streams!Deserves
  <2> QED
    BY <1>9, <2>9 DEF Excused, b
<1> QED
  BY <1>2, <1>4, <1>7, <1>8, <1>9

\* What the guest writes to a channel raises no error.
LEMMA WrittenErrors ==
  ASSUME StreamInv, NEW d \in Directions, NEW e \in Streams!Both,
         \/ \E c \in Channels, a \in Descriptors : Streams!StartLink(d, c, a)
         \/ \E c \in Channels : Streams!RestartLink(d, c) \/ Streams!StopLink(d, c) \/ Streams!ResetChannel(d, c) \/ Streams!ClearRaw(d, c)
         \/ \E c \in Selections : Streams!SelectChannel(d, c)
         \/ \E a \in Descriptors : Streams!GiveDescriptor(d, a) \/ Streams!TakeDescriptor(d, a)
         \/ Streams!Tick \/ Streams!i2sReset \/ UNCHANGED Streams!vars
  PROVE  NoMore(stream[e], stream'[e])
<1>1. d \in Streams!Both /\ stream \in [Streams!Both -> StreamType] /\ stream[e] \in StreamType
  BY StreamBounds DEF StreamInv
<1>2. ASSUME NEW c \in Channels, NEW link, Streams!WriteChannel(d, c, link), "error" \in link.raw => "error" \in stream[d].channel[c].raw
      PROVE  NoMore(stream[e], stream'[e])
  <2>1. CASE e # d
    <3>1. stream'[e] = stream[e]
      BY <1>1, <1>2, <2>1 DEF Streams!WriteChannel
    <3> QED
      BY <3>1 DEF NoMore
  <2>2. CASE e = d
    <3>1. stream'[d].channel = [stream[d].channel EXCEPT ![c] = link] /\ stream[d].channel \in [Channels \cup {None} -> LinkType]
      BY <1>1, <1>2, <2>2 DEF Streams!WriteChannel, StreamType
    <3> QED
      BY <1>2, <2>2, <3>1 DEF NoMore
  <2> QED
    BY <2>1, <2>2
<1>3. ASSUME NEW c \in Channels PROVE stream[d].channel[c] \in LinkType
  BY <1>1 DEF StreamType
<1>4. ASSUME NEW c \in Channels, NEW a \in Descriptors, Streams!StartLink(d, c, a) PROVE NoMore(stream[e], stream'[e])
  BY <1>2, <1>3, <1>4 DEF Streams!StartLink, LinkType
<1>5. ASSUME NEW c \in Channels, Streams!RestartLink(d, c) PROVE NoMore(stream[e], stream'[e])
  BY <1>2, <1>3, <1>5 DEF Streams!RestartLink, LinkType
<1>6. ASSUME NEW c \in Channels, Streams!StopLink(d, c) PROVE NoMore(stream[e], stream'[e])
  BY <1>2, <1>3, <1>6 DEF Streams!StopLink, LinkType
<1>7. ASSUME NEW c \in Channels, Streams!ResetChannel(d, c) PROVE NoMore(stream[e], stream'[e])
  BY <1>2, <1>3, <1>7 DEF Streams!ResetChannel, LinkType
<1>8. ASSUME NEW c \in Channels, Streams!ClearRaw(d, c) PROVE NoMore(stream[e], stream'[e])
  BY <1>2, <1>3, <1>8 DEF Streams!ClearRaw, LinkType
<1>9. ASSUME NEW c \in Selections, Streams!SelectChannel(d, c) PROVE NoMore(stream[e], stream'[e])
  <2>1. stream'[e].channel = stream[e].channel
    BY <1>1, <1>9 DEF Streams!SelectChannel, StreamType
  <2> QED
    BY <2>1 DEF NoMore
<1>10. CASE stream' = stream
  BY <1>10 DEF NoMore
<1>11. CASE Streams!Tick
  <2>1. stream'[e].channel = stream[e].channel
    BY <1>1, <1>11 DEF Streams!Tick, StreamType
  <2> QED
    BY <2>1 DEF NoMore
<1>12. CASE Streams!i2sReset
  <2>1. stream'[e].channel = stream[e].channel
    BY <1>1, <1>12 DEF Streams!i2sReset, Streams!Initial, Streams!Unarmed, StreamType
  <2> QED
    BY <2>1 DEF NoMore
<1>13. ASSUME NEW a \in Descriptors, Streams!GiveDescriptor(d, a) \/ Streams!TakeDescriptor(d, a) PROVE stream' = stream
  BY <1>13 DEF Streams!GiveDescriptor, Streams!TakeDescriptor
<1>14. UNCHANGED Streams!vars => stream' = stream
  BY DEF Streams!vars
<1> QED
  BY <1>4, <1>5, <1>6, <1>7, <1>8, <1>9, <1>10, <1>11, <1>12, <1>13, <1>14

LEMMA ErrorsStep ==
  ASSUME StreamInv, [Streams!Next]_Streams!vars, NEW d \in Directions
  PROVE  Streams!Errors(d)' \subseteq Streams!Errors(d) \/ Streams!Deserves(d, Streams!Begun(stream[d]), owner, owner')
<1>1. d \in Streams!Both /\ "out" \in Streams!Both /\ \A e \in Directions : e \in Streams!Both
  BY StreamBounds DEF Streams!Both
<1> DEFINE Fine == Excused(d)
<1>2. Fine => Streams!Errors(d)' \subseteq Streams!Errors(d) \/ Streams!Deserves(d, Streams!Begun(stream[d]), owner, owner')
  BY DEF Excused, NoMore, Streams!Errors
<1>3. ASSUME NEW e \in Directions, Streams!streamComplete(e) PROVE Fine
  BY <1>1, <1>3, CompletedErrors
<1>4. ASSUME NEW e \in Streams!Both, NEW start \in BOOLEAN, NEW reset \in BOOLEAN, NEW slave \in BOOLEAN, Streams!WriteConf(e, start, reset, slave) PROVE Fine
  BY <1>1, <1>4, RegisterErrors
<1>5. ASSUME NEW share \in BOOLEAN, Streams!WriteShare(share) PROVE Fine
  BY <1>1, <1>5, RegisterErrors
<1>6. ASSUME NEW e \in Streams!Both, NEW active \in BOOLEAN, NEW clocked \in BOOLEAN, Streams!WriteClock(e, active, clocked) PROVE Fine
  BY <1>1, <1>6, RegisterErrors
<1>7. Streams!Tick \/ Streams!i2sReset \/ UNCHANGED Streams!vars => Fine
  <2>1. CASE Streams!Tick
    BY <1>1, <2>1, WrittenErrors DEF Excused
  <2>2. CASE Streams!i2sReset
    BY <1>1, <2>2, WrittenErrors DEF Excused
  <2>3. CASE UNCHANGED Streams!vars
    BY <2>3 DEF Streams!vars, NoMore, Excused
  <2> QED
    BY <2>1, <2>2, <2>3
<1>8. ASSUME NEW e \in Directions, NEW c \in Channels,
             \/ \E a \in Descriptors : Streams!StartLink(e, c, a)
             \/ Streams!RestartLink(e, c) \/ Streams!StopLink(e, c) \/ Streams!ResetChannel(e, c) \/ Streams!ClearRaw(e, c)
      PROVE  Fine
  BY <1>1, <1>8, WrittenErrors DEF Excused
<1>9. ASSUME NEW e \in Directions, NEW c \in Selections, Streams!SelectChannel(e, c) PROVE Fine
  BY <1>1, <1>9, WrittenErrors DEF Excused
<1>10. ASSUME NEW e \in Directions, NEW a \in Descriptors, Streams!GiveDescriptor(e, a) \/ Streams!TakeDescriptor(e, a) PROVE Fine
  BY <1>1, <1>10, WrittenErrors DEF Excused
<1> HIDE DEF Fine
<1> QED
  BY <1>1, <1>2, <1>3, <1>4, <1>5, <1>6, <1>7, <1>8, <1>9, <1>10 DEF Streams!Next

\* A stream that goes on and has a buffer under way again is due that buffer's length later.
LEMMA ScheduledNext ==
  ASSUME NEW d \in Streams!Both, NEW r, NEW own, NEW x0 \in StreamType, Streams!Begun(x0) = x0, ~x0.pending,
         d = "in" => x0.eofBytes < RxEof, Streams!streamSchedule(d, r, own, x0).pending
  PROVE  LET y == Streams!streamSchedule(d, r, own, x0) IN Streams!Served(x0) /\ y.deadline = x0.deadline + y.bytes
<1> DEFINE run == Streams!Running(r, d)
           told == [x0 EXCEPT !.rate = run]
           x == Streams!streamChannel(told)
           bytes == Streams!BytesOf(x, d)
           due == Streams!Due(x, bytes)
           y == Streams!streamSchedule(d, r, own, x0)
<1>1. run \in BOOLEAN
  BY DEF Streams!Running
<1>2. /\ told \in StreamType /\ told.eofBytes = x0.eofBytes /\ told.channel = x0.channel /\ told.selected = x0.selected
      /\ told.deadline = x0.deadline /\ ~told.pending /\ told.chosen = x0.chosen /\ told.descriptor = x0.descriptor
  BY <1>1 DEF StreamType
<1>3. y = IF ~run THEN Streams!Unarmed([told EXCEPT !.pending = FALSE, !.deadline = 0])
          ELSE IF ~Streams!Served(x) THEN Streams!Idle(x)
          ELSE IF x.pending THEN x
          ELSE IF Streams!Unfit(d, own, x) THEN Streams!dmaError(x)
          ELSE Streams!At([x EXCEPT !.pending = TRUE, !.bytes = bytes, !.deadline = due], due)
  BY DEF Streams!streamSchedule
<1>4. x \in StreamType
  BY <1>2, ChannelLooked
<1>5. Streams!Begun(told) = told
  <2>1. CASE told.selected = None
    BY <2>1 DEF Streams!Begun
  <2>2. CASE told.selected # None
    <3>1. told.selected \in Channels
      BY <1>2, <2>2 DEF StreamType
    <3> HIDE DEF told
    <3> QED
      BY <1>2, <3>1, NotBegun
  <2> QED
    BY <2>1, <2>2
<1> HIDE DEF run, told
<1>6. x = told \/ (~x.pending /\ ~Streams!Served(x))
  BY <1>2, <1>5, ChannelKept
<1> HIDE DEF x, y
<1>7. y.pending
  BY DEF y
<1>8. run
  <2> SUFFICES ASSUME ~run PROVE FALSE
    OBVIOUS
  <2>1. ~y.pending
    BY <1>2, <1>3 DEF Streams!Unarmed, StreamType
  <2> QED
    BY <1>7, <2>1
<1>9. Streams!Served(x)
  <2> SUFFICES ASSUME ~Streams!Served(x) PROVE FALSE
    OBVIOUS
  <2>1. y.pending = x.pending
    BY <1>3, <1>4, <1>8 DEF Streams!Idle, Streams!At, StreamType
  <2> QED
    BY <1>2, <1>6, <1>7, <2>1
<1>10. x = told /\ x.selected \in Channels /\ x.descriptor \in Descriptors /\ x.descriptor # 0
  BY <1>4, <1>6, <1>9 DEF Streams!Served, Streams!Mine, StreamType, Address
<1>11. ~Streams!Unfit(d, own, x)
  <2> SUFFICES ASSUME Streams!Unfit(d, own, x) PROVE FALSE
    OBVIOUS
  <2>1. y = Streams!dmaError(x)
    BY <1>2, <1>3, <1>8, <1>9, <1>10
  <2>2. ~y.pending
    BY <1>4, <1>10, <2>1, ErrorRaised
  <2> QED
    BY <1>7, <2>2
<1>12. bytes \in Nat /\ due = x.deadline + bytes
  <2>1. bytes \in Nat /\ bytes \in 1..Size[x.descriptor] /\ Size[x.descriptor] \in Nat
    BY <1>2, <1>4, <1>10, <1>11, BytesFit, StreamBounds
  <2> HIDE DEF bytes
  <2> QED
    BY <1>4, <2>1 DEF Streams!Due, Streams!Most, StreamType
<1>13. y = Streams!At([x EXCEPT !.pending = TRUE, !.bytes = bytes, !.deadline = due], due)
  BY <1>2, <1>3, <1>8, <1>9, <1>10, <1>11
<1> HIDE DEF bytes, due
<1>14. y.bytes = bytes /\ y.deadline = due
  BY <1>4, <1>13 DEF Streams!At, StreamType
<1>15. Streams!Served(x0)
  BY <1>2, <1>9, <1>10 DEF Streams!Served, Streams!Mine
<1> QED
  BY <1>2, <1>10, <1>12, <1>14, <1>15 DEF y

LEMMA ClockStep ==
  ASSUME StreamInv, NEW d \in Directions, stream[d].pending, stream'[d].pending, Streams!Served(stream[d]),
         Streams!Begun(stream[d]) = stream[d], Streams!streamComplete(d)
  PROVE  stream'[d].deadline = stream[d].deadline + stream'[d].bytes
<1> DEFINE s == stream[d]
           u == Streams!Unarmed(s)
           x == Streams!streamChannel(u)
           run == Streams!Running(regs, d)
           carries == Streams!Served(x) /\ x.pending /\ run
           returned == [owner EXCEPT ![d][x.descriptor] = IF d = "in" \/ WriteBack THEN FALSE ELSE @]
<1>1. /\ d \in Streams!Both /\ s \in StreamType /\ x \in StreamType /\ Good(s, d, regs, owner)
      /\ (d = "in" => x.eofBytes < RxEof) /\ (x.pending => x = u /\ Held(x, d, owner))
  BY Expired
<1>2. \/ ~carries /\ stream' = [stream EXCEPT ![d] = Streams!streamSchedule(d, regs, owner, x)] /\ owner' = owner
      \/ carries /\ ~Readable[x.descriptor] /\ stream' = [stream EXCEPT ![d] = Streams!dmaError(x)] /\ owner' = owner
      \/ /\ carries /\ Readable[x.descriptor] /\ owner' = returned
         /\ stream' = [stream EXCEPT ![d] = Streams!streamSchedule(d, regs, returned, Streams!Carried(d, x))]
  BY DEF Streams!streamComplete
<1>3. stream \in [Streams!Both -> StreamType] /\ run
  BY <1>1 DEF StreamInv, Good
<1>4. /\ u \in StreamType /\ u.selected = s.selected /\ u.channel = s.channel /\ u.descriptor = s.descriptor /\ u.chosen = s.chosen
      /\ u.pending = s.pending /\ u.deadline = s.deadline
  <2> DEFINE zero == 0
             none == FALSE
  <2>1. zero \in Int /\ none \in BOOLEAN /\ u = [s EXCEPT !.armed = none, !.timer = zero]
    BY DEF Streams!Unarmed
  <2> HIDE DEF s, u, zero, none
  <2> QED
    BY <1>1, <2>1 DEF StreamType
<1> HIDE DEF s, u, run
<1>5. s.selected \in Channels /\ s.selected # None
  BY <1>1, StreamBounds DEF Streams!Served, Streams!Mine, StreamType, s
<1>6. Streams!Begun(u) = u
  BY <1>1, <1>4, <1>5, NotBegun DEF s
<1>7. x = u \/ (~x.pending /\ ~Streams!Served(x) /\ Streams!Begun(x) = x)
  BY <1>4, <1>6, ChannelKept
<1> HIDE DEF x
<1>8. Streams!Served(u) /\ u.pending
  BY <1>4 DEF Streams!Served, Streams!Mine, s
<1>9. CASE ~carries /\ stream' = [stream EXCEPT ![d] = Streams!streamSchedule(d, regs, owner, x)]
  <2> DEFINE y == Streams!streamSchedule(d, regs, owner, x)
  <2>1. ~x.pending /\ ~Streams!Served(x) /\ Streams!Begun(x) = x
    BY <1>3, <1>7, <1>8, <1>9
  <2>2. stream'[d] = y
    BY <1>1, <1>3, <1>9
  <2>3. y.pending => FALSE
    BY <1>1, <2>1, ScheduledNext
  <2> QED
    BY <2>2, <2>3
<1>10. CASE carries /\ ~Readable[x.descriptor] /\ stream' = [stream EXCEPT ![d] = Streams!dmaError(x)]
  <2>1. x.selected \in Channels
    BY <1>1, <1>10 DEF Streams!Served, Streams!Mine, StreamType
  <2>2. stream'[d] = Streams!dmaError(x)
    BY <1>1, <1>3, <1>10
  <2> QED
    BY <1>1, <2>1, <2>2, ErrorRaised
<1>11. CASE carries /\ stream' = [stream EXCEPT ![d] = Streams!streamSchedule(d, regs, returned, Streams!Carried(d, x))]
  <2> DEFINE z == Streams!Carried(d, x)
  <2>1. x = u /\ x.selected \in Channels /\ x.descriptor \in Descriptors /\ Held(x, d, owner)
    BY <1>1, <1>11 DEF Streams!Served, Streams!Mine, StreamType, Address
  <2>2. /\ z \in StreamType /\ SameTime(x, z) /\ z.deadline = x.deadline /\ ~z.pending /\ (d = "in" => z.eofBytes < RxEof)
        /\ \A c \in Channels \cup {None} : z.channel[c].start = x.channel[c].start /\ z.channel[c].restart = x.channel[c].restart
    <3>1. d = "in" => x.eofBytes + x.bytes <= RxEof
      BY <2>1 DEF Held
    <3> QED
      BY <1>1, <2>1, <3>1, BufferCarried
  <2>3. stream'[d] = Streams!streamSchedule(d, regs, returned, z)
    BY <1>1, <1>3, <1>11
  <2> HIDE DEF returned, z
  <2>4. Streams!Begun(z) = z
    <3>1. z.selected = x.selected
      BY <2>2 DEF SameTime
    <3>2. ~(x.channel[x.selected].start \/ x.channel[x.selected].restart)
      BY <1>1, <1>6, <2>1, NotBegun
    <3>3. ~(z.channel[z.selected].start \/ z.channel[z.selected].restart)
      BY <2>1, <2>2, <3>1, <3>2
    <3> QED
      BY <2>1, <2>2, <3>1, <3>3, NotBegun
  <2>5. stream'[d].deadline = z.deadline + stream'[d].bytes
    BY <1>1, <2>2, <2>3, <2>4, ScheduledNext
  <2> QED
    BY <1>4, <2>1, <2>2, <2>5 DEF s
<1> QED
  BY <1>2, <1>9, <1>10, <1>11

-----------------------------------------------------------------------------
(* A guest is told of a descriptor error only for the descriptor that its   *)
(* channel has come to, and only when that very one cannot be read, is      *)
(* empty, longer than its buffer or software's, or its buffer is not        *)
(* memory, whatever is written, stopped or reset between and whatever is    *)
(* left of the frame.                                                       *)
THEOREM DescriptorErrors == Streams!Spec => Streams!ErrorsDeserved
<1>1. StreamInv /\ [Streams!Next]_Streams!vars
      => [\A d \in Directions : Streams!Errors(d)' \subseteq Streams!Errors(d)
            \/ Streams!Deserves(d, Streams!Begun(stream[d]), owner, owner')]_Streams!vars
  BY ErrorsStep
<1> QED
  BY StreamInit, StreamStep, <1>1, PTL DEF Streams!Spec, Streams!ErrorsDeserved

(* However late streamComplete is called, the buffer it schedules ends its  *)
(* own length after the one it completes: the sample clock of a channel     *)
(* that is not started anew does not slow down.                             *)
THEOREM SampleClock == Streams!Spec => Streams!SteadyClock
<1>1. StreamInv
      => [\A d \in Directions :
            (stream[d].pending /\ stream'[d].pending /\ Streams!Served(stream[d]) /\ Streams!Begun(stream[d]) = stream[d] /\ Streams!streamComplete(d))
            => stream'[d].deadline = stream[d].deadline + stream'[d].bytes]_Streams!vars
  BY ClockStep
<1> QED
  BY StreamInit, StreamStep, <1>1, PTL DEF Streams!Spec, Streams!SteadyClock

(* For every list of descriptors, length of a frame, delay of a timer,      *)
(* capacity of a FIFO and burst of the host: a stream without a clock has   *)
(* no timer and no buffer under way, one with a clock looks at its channel  *)
(* again unless an error ended the list, a buffer under way fits its frame  *)
(* and belongs to the DMA, and no frame is passed over; the codec plays and *)
(* hears the newest sounds once each, in order, and is silent while muted.  *)
THEOREM AudioCorrect == Streams!Spec /\ Codec!Spec => []AudioSafety
<1>1. StreamInv /\ CodecInv => AudioSafety
  BY StreamSafe, CodecSafe DEF AudioSafety
<1> QED
  BY StreamInit, StreamStep, CodecInit, CodecStep, <1>1, PTL DEF Streams!Spec, Codec!Spec

(* What a step of the touch controller, the pads and the streams may never  *)
(* do, together: a pulse keeps its deadline, SDA is told before SCL, errors *)
(* are deserved and the sample clock is steady.                             *)
THEOREM StepsCorrect == ASSUME Scl \in Pins PROVE Spec /\ Pads!Spec /\ Streams!Spec => PeripheralSteps
  BY PulseDeadline, SdaToldFirst, DescriptorErrors, SampleClock DEF PeripheralSteps
=============================================================================
