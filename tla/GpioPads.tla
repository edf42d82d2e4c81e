------------------------------ MODULE GpioPads ------------------------------
(* The GPIO controller: how each pad's level follows from registers, the GPIO *)
(* matrix, what the board drives and the pull resistors, and the interrupt.   *)
(*                                                                            *)
(* A handler changes some state and then brings some pads up to date, one     *)
(* after another ("todo"), and each update tells the devices on that pad,     *)
(* which answer at once: the software I2C bus drives SDA from inside the      *)
(* update of SDA or SCL.  Nothing else runs until the handler is done.        *)
EXTENDS Integers, FiniteSets

CONSTANTS
  Pins,      \* the pads, a set of numbers
  Sda, Scl,  \* the two on the software I2C bus, if they are among them
  Signals,   \* peripheral outputs of the matrix
  Configs,   \* bound: values of a pin's configuration register
  Routes,    \* bound: values of a pin's matrix register
  PullValues, \* bound: values of a pad's resistor bits
  Pullups    \* pads with a resistor on the board

Released == -1
Levels == {0, 1}
Drives == {Released, 0, 1}

\* A matrix register that names no known signal has one of these two sources.
Software == "software"
Unconnected == "unconnected"

Pull == [up : BOOLEAN, down : BOOLEAN]
Config == [openDrain : BOOLEAN, type : 0..5, enabled : BOOLEAN]
Route == [signal : Signals \cup {Software, Unconnected}, softwareEnable : BOOLEAN,
          invertOutput : BOOLEAN, invertEnable : BOOLEAN]
ResetConfig == [openDrain |-> FALSE, type |-> 0, enabled |-> FALSE]
ResetRoute == [signal |-> Software, softwareEnable |-> FALSE, invertOutput |-> FALSE, invertEnable |-> FALSE]

GpioAssumption ==
  /\ Pins \subseteq Int /\ Sda < Scl /\ (Scl \in Pins => Sda \in Pins)
  /\ Signals \cap {Software, Unconnected} = {}
  /\ Configs \subseteq Config /\ Routes \subseteq Route /\ PullValues \subseteq Pull /\ Pullups \subseteq Pins

VARIABLES
  output, enable,   \* OutputReg, OutputEnableReg
  config, route,    \* PinConfigReg, MatrixOutputReg
  peripheral,       \* peripheralDrive
  external, pulls,  \* what the board drives; the pad's own resistors
  drive,            \* driveLevel, as the devices on the pad know it
  levels, status,   \* resolved levels, latched interrupts
  irq,              \* the line to the CPU
  todo              \* pads the running handler has yet to update

registers == <<output, enable, config, route>>
inputs == <<peripheral, external, pulls>>
vars == <<output, enable, config, route, peripheral, external, pulls, drive, levels, status, irq, todo>>

Init ==
  /\ output = [p \in Pins |-> FALSE] /\ enable = [p \in Pins |-> FALSE]
  /\ config = [p \in Pins |-> ResetConfig] /\ route = [p \in Pins |-> ResetRoute]
  /\ peripheral = [s \in Signals |-> Released] /\ external = [p \in Pins |-> Released]
  /\ pulls = [p \in Pins |-> [up |-> FALSE, down |-> FALSE]]
  /\ drive = [p \in Pins |-> Released] /\ levels = [p \in Pins |-> 1]
  /\ status = [p \in Pins |-> FALSE] /\ irq = FALSE /\ todo = {}

-----------------------------------------------------------------------------
(* updatePin                                                                  *)

Xor(a, b) == a # b

PeripheralDrive(p) == IF route[p].signal \in Signals THEN peripheral[route[p].signal] ELSE Released

Enabled(p) ==
  Xor(IF route[p].signal = Software \/ route[p].softwareEnable THEN enable[p] ELSE PeripheralDrive(p) # Released,
      route[p].invertEnable)

High(p) ==
  Xor(IF route[p].signal = Software THEN output[p] ELSE PeripheralDrive(p) = 1, route[p].invertOutput)

Drive(p) ==
  IF /\ Enabled(p)
     /\ route[p].signal = Software \/ PeripheralDrive(p) # Released
     /\ ~(config[p].openDrain /\ High(p))
  THEN IF High(p) THEN 1 ELSE 0
  ELSE Released

\* Plausible bug: a pad that nobody drives keeps no level of its own.
ResolveDriven(p, board) == IF Drive(p) # Released THEN Drive(p) ELSE board

\* The level of a pad, "board" being what the board drives.
Resolve(p, board) ==
  CASE Drive(p) # Released                -> Drive(p)
    [] Drive(p) = Released /\ board # Released -> board
    [] Drive(p) = Released /\ board = Released /\ (p \in Pullups \/ pulls[p].up) -> 1
    [] OTHER                              -> IF pulls[p].down THEN 0 ELSE 1

\* setLevel: the interrupt a level latches.
Latches(p, level) ==
  \/ config[p].type = 1 /\ levels[p] = 0 /\ level = 1
  \/ config[p].type = 2 /\ levels[p] = 1 /\ level = 0
  \/ config[p].type = 3 /\ levels[p] # level
  \/ config[p].type = 4 /\ level = 0
  \/ config[p].type = 5 /\ level = 1

Pending(c, s) == \E p \in Pins : c[p].enabled /\ s[p]

\* Plausible bug: the CPU is told at the end of a register write only.
SetLevelsQuietly(level) ==
  /\ levels' = [p \in Pins |-> IF p \in DOMAIN level THEN level[p] ELSE levels[p]]
  /\ status' = [p \in Pins |-> status[p] \/ (p \in DOMAIN level /\ Latches(p, level[p]))]
  /\ UNCHANGED irq

\* setLevel, for the pads in "level"'s domain.
SetLevels(level) ==
  /\ levels' = [p \in Pins |-> IF p \in DOMAIN level THEN level[p] ELSE levels[p]]
  /\ status' = [p \in Pins |-> status[p] \/ (p \in DOMAIN level /\ Latches(p, level[p]))]
  /\ irq' = Pending(config, status')

\* Plausible bug: the bus answers only when SDA itself is driven.
UpdatePinSda(p) ==
  /\ drive' = [drive EXCEPT ![p] = Drive(p)]
  /\ \E answer \in {Released, 0} :
       /\ external' = IF drive[p] # Drive(p) /\ p \in {Sda, Scl} THEN [external EXCEPT ![Sda] = answer] ELSE external
       /\ SetLevels([q \in {p} |-> Resolve(q, external'[q])])
  /\ todo' = todo \ {p}
  /\ UNCHANGED <<registers, peripheral, pulls>>

\* The drive of SDA or SCL is told to the bus, whose answer drives SDA: gpioInput
\* and with it the update of SDA run inside this one.
UpdatePin(p) ==
  /\ drive' = [drive EXCEPT ![p] = Drive(p)]
  /\ \E answer \in {Released, 0} :
       LET told == drive[p] # Drive(p) /\ p \in {Sda, Scl}
       IN  /\ external' = IF told THEN [external EXCEPT ![Sda] = answer] ELSE external
           /\ SetLevels([q \in IF told THEN {p, Sda} ELSE {p} |-> Resolve(q, external'[q])])
  /\ todo' = todo \ {p}
  /\ UNCHANGED <<registers, peripheral, pulls>>

\* Pads are updated in ascending order.
UpdateNext == \E p \in todo : (\A q \in todo : p <= q) /\ UpdatePin(p)

Idle == todo = {}

-----------------------------------------------------------------------------
(* gpioWrite                                                                  *)

\* The registers for the output and its enable: written, set and cleared.
BitsWritten(old, kind, pins) ==
  [p \in Pins |-> CASE kind = "write" -> p \in pins
                    [] kind = "set"   -> old[p] \/ p \in pins
                    [] kind = "clear" -> old[p] /\ p \notin pins]

Kinds == {"write", "set", "clear"}

WriteOutput(kind, pins) ==
  /\ Idle /\ output' = BitsWritten(output, kind, pins) /\ todo' = Pins
  /\ UNCHANGED <<enable, config, route, inputs, drive, levels, status, irq>>

WriteEnable(kind, pins) ==
  /\ Idle /\ enable' = BitsWritten(enable, kind, pins) /\ todo' = Pins
  /\ UNCHANGED <<output, config, route, inputs, drive, levels, status, irq>>

\* Plausible bug: the pad is left as it was.
WriteConfigLater(p, c) ==
  /\ Idle /\ config' = [config EXCEPT ![p] = c]
  /\ irq' = Pending(config', status)
  /\ UNCHANGED <<output, enable, route, inputs, drive, levels, status, todo>>

\* gpioIrqUpdate ends the write: a pin's enable for the CPU is in its configuration.
WriteConfig(p, c) ==
  /\ Idle /\ config' = [config EXCEPT ![p] = c] /\ todo' = {p}
  /\ irq' = Pending(config', status)
  /\ UNCHANGED <<output, enable, route, inputs, drive, levels, status>>

WriteRoute(p, r) ==
  /\ Idle /\ route' = [route EXCEPT ![p] = r] /\ todo' = {p}
  /\ UNCHANGED <<output, enable, config, inputs, drive, levels, status, irq>>

\* Plausible bug: acknowledging leaves the line to the next change of a pad.
WriteStatusQuietly(kind, pins) ==
  /\ Idle /\ status' = BitsWritten(status, kind, pins)
  /\ UNCHANGED <<registers, inputs, drive, levels, irq, todo>>

WriteStatus(kind, pins) ==
  /\ Idle /\ status' = BitsWritten(status, kind, pins)
  /\ irq' = Pending(config, status')
  /\ UNCHANGED <<registers, inputs, drive, levels, todo>>

GpioReset ==
  /\ Idle /\ todo' = Pins
  /\ output' = [p \in Pins |-> FALSE] /\ enable' = [p \in Pins |-> FALSE]
  /\ config' = [p \in Pins |-> ResetConfig] /\ route' = [p \in Pins |-> ResetRoute]
  /\ status' = [p \in Pins |-> FALSE] /\ irq' = Pending(config', status')
  /\ UNCHANGED <<inputs, drive, levels>>

-----------------------------------------------------------------------------
(* Devices                                                                    *)

GpioInput(p, level) ==
  /\ Idle /\ p # Sda /\ external' = [external EXCEPT ![p] = level] /\ todo' = {p}
  /\ UNCHANGED <<registers, peripheral, pulls, drive, levels, status, irq>>

\* boardReset: the software bus lets go of SDA.
BoardReset ==
  /\ Idle /\ Sda \in Pins /\ external' = [external EXCEPT ![Sda] = Released] /\ todo' = {Sda}
  /\ UNCHANGED <<registers, peripheral, pulls, drive, levels, status, irq>>

PeripheralInput(s, level) ==
  /\ Idle /\ peripheral' = [peripheral EXCEPT ![s] = level]
  /\ todo' = {p \in Pins : route[p].signal = s}
  /\ UNCHANGED <<registers, external, pulls, drive, levels, status, irq>>

\* The IO MUX register of a pad.
PullInput(p, resistors) ==
  /\ Idle /\ pulls' = [pulls EXCEPT ![p] = resistors] /\ todo' = {p}
  /\ UNCHANGED <<registers, peripheral, external, drive, levels, status, irq>>

Next ==
  \/ UpdateNext
  \/ \E k \in Kinds, s \in SUBSET Pins : WriteOutput(k, s)
  \/ \E k \in Kinds, s \in SUBSET Pins : WriteEnable(k, s)
  \/ \E k \in Kinds, s \in SUBSET Pins : WriteStatus(k, s)
  \/ \E p \in Pins, c \in Configs : WriteConfig(p, c)
  \/ \E p \in Pins, r \in Routes : WriteRoute(p, r)
  \/ GpioReset
  \/ \E p \in Pins, l \in Drives : GpioInput(p, l)
  \/ BoardReset
  \/ \E s \in Signals, l \in Drives : PeripheralInput(s, l)
  \/ \E p \in Pins, r \in PullValues : PullInput(p, r)

Spec == Init /\ [][Next]_vars

-----------------------------------------------------------------------------
TypeOK ==
  /\ output \in [Pins -> BOOLEAN] /\ enable \in [Pins -> BOOLEAN]
  /\ config \in [Pins -> Config] /\ route \in [Pins -> Route]
  /\ peripheral \in [Signals -> Drives] /\ external \in [Pins -> Drives]
  /\ pulls \in [Pins -> Pull]
  /\ drive \in [Pins -> Drives] /\ levels \in [Pins -> Levels]
  /\ status \in [Pins -> BOOLEAN] /\ irq \in BOOLEAN /\ todo \subseteq Pins

\* No pad is stale: after every handler, whatever it changed and whichever pads
\* it updated, each level and each drive the devices were told is the one that
\* registers, matrix, board and resistors give.
PadsResolved ==
  \A p \in Pins \ todo : drive[p] = Drive(p) /\ levels[p] = Resolve(p, external[p])

\* The bus is never told of SCL while SDA's own drive is out of date: the update
\* of SDA nested in SCL's would tell it of SDA first, and in the wrong order.
SdaBeforeScl == drive'[Scl] # drive[Scl] => drive[Sda] = Drive(Sda)
SdaFirst == [][SdaBeforeScl]_vars

\* The CPU's line is up exactly when an enabled pin has a latched interrupt.
InterruptLine == irq = Pending(config, status)

\* The state's invariants together, for runs that take the pads with others.
GpioSafety == TypeOK /\ PadsResolved /\ InterruptLine
=============================================================================
