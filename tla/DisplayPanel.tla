----------------------------- MODULE DisplayPanel -----------------------------
(* The CO5300: power and reset inputs, the bytes that arrive over SPI, GRAM,  *)
(* the 60 Hz refresh, and the picture and update count that the host reads.   *)
(* Times are relative to the virtual clock.  A pixel is its second byte.      *)
EXTENDS Integers, Sequences

CONSTANTS
  Width, Height,  \* of GRAM
  Viewport,       \* positions of GRAM that the host shows
  Interval, PowerOnDelay, ResetRecovery, SleepOutRecovery,    \* TeIntervalNs and the other delays
  Commands, Data, \* bound: bytes on the bus, as the third of a header and after it
  MaxLate         \* bound: how late a refresh is dispatched

Positions == (0..Width - 1) \X (0..Height - 1)

PanelAssumption ==
  /\ {Width, Height, Interval, PowerOnDelay, ResetRecovery, SleepOutRecovery} \subseteq Nat \ {0}
  /\ Viewport \subseteq Positions /\ Commands \cup Data \subseteq 0..255 /\ MaxLate \in Nat

SoftwareReset == 1
SleepIn == 16
SleepOut == 17
DisplayOff == 40
DisplayOn == 41
ColumnAddressSet == 42
RowAddressSet == 43
MemoryWrite == 44
MemoryWriteContinue == 60
WriteBrightness == 81

VARIABLES
  panel,          \* Co5300
  gram            \* pixels

vars == <<panel, gram>>

Most(m, n) == IF m > n THEN m ELSE n
Less(t) == IF t > 0 THEN t - 1 ELSE t

Updated(p) == [p EXCEPT !.updates = 1 - @]

-----------------------------------------------------------------------------
(* Refresh and reset                                                          *)

Awake(p) == p.powered /\ ~p.asserted /\ ~p.sleeping

\* Plausible bug: a refresh that is under way is left to end by itself.
scheduleRefreshStarts(p) ==
  IF Awake(p) /\ ~p.armed THEN [p EXCEPT !.armed = TRUE, !.nextTe = p.readyAt + Interval] ELSE p

scheduleRefresh(p) ==
  IF ~Awake(p) THEN [p EXCEPT !.armed = FALSE, !.nextTe = 0, !.drawn = FALSE]
  ELSE IF p.armed THEN p ELSE [p EXCEPT !.armed = TRUE, !.nextTe = p.readyAt + Interval]

resetRegisters(p) ==
  scheduleRefresh(Updated([p EXCEPT !.window = [x0 |-> 0, x1 |-> Width - 1, y0 |-> 0, y1 |-> Height - 1],
    !.x = 0, !.y = 0, !.command = 0, !.params = <<>>, !.headerCount = 0, !.half = FALSE,
    !.displayOn = FALSE, !.sleeping = TRUE, !.brightness = 0]))

powerInput(level) ==
  LET reset == resetRegisters([panel EXCEPT !.powered = level])
  IN /\ panel.powered # level
     /\ gram' = IF level THEN [p \in Positions |-> 0] ELSE gram
     /\ panel' = [reset EXCEPT !.resetWhileAwake = FALSE, !.readyAt = PowerOnDelay, !.sleepOutAt = PowerOnDelay]

\* Plausible bug: the registers keep their values through a reset.
resetInputKeeps(level) ==
  LET ready == Most(panel.readyAt, ResetRecovery)
      asserted == [panel EXCEPT !.asserted = TRUE, !.resetWhileAwake = ~panel.sleeping]
      released == [panel EXCEPT !.asserted = FALSE, !.readyAt = ready,
                    !.sleepOutAt = Most(ready, IF panel.resetWhileAwake THEN SleepOutRecovery ELSE ResetRecovery)]
  IN panel.asserted = level /\ panel' = (IF ~level THEN scheduleRefresh(asserted) ELSE scheduleRefresh(released)) /\ UNCHANGED gram

resetInput(level) ==
  LET ready == Most(panel.readyAt, ResetRecovery)
      asserted == resetRegisters([panel EXCEPT !.asserted = TRUE, !.resetWhileAwake = ~panel.sleeping])
      released == [panel EXCEPT !.asserted = FALSE, !.readyAt = ready,
                    !.sleepOutAt = Most(ready, IF panel.resetWhileAwake THEN SleepOutRecovery ELSE ResetRecovery)]
  IN panel.asserted = level /\ panel' = (IF ~level THEN asserted ELSE released) /\ UNCHANGED gram

-----------------------------------------------------------------------------
(* Bytes                                                                      *)

\* Plausible bug: the host is not told that the panel went to sleep.
panelCommandSilently(p0, command) ==
  LET p == [p0 EXCEPT !.command = command, !.params = <<>>, !.half = FALSE]
  IN IF command = SleepIn THEN scheduleRefresh([p EXCEPT !.sleeping = TRUE])
     ELSE IF command = SleepOut /\ p.sleepOutAt = 0 THEN scheduleRefresh(Updated([p EXCEPT !.sleeping = FALSE]))
     ELSE IF command \in {DisplayOff, DisplayOn} THEN Updated([p EXCEPT !.displayOn = command = DisplayOn])
     ELSE p

panelCommand(p0, command) ==
  LET p == [p0 EXCEPT !.command = command, !.params = <<>>, !.half = FALSE]
  IN CASE command = SoftwareReset ->
            resetRegisters([p0 EXCEPT !.readyAt = ResetRecovery,
                                      !.sleepOutAt = IF p0.sleeping THEN ResetRecovery ELSE SleepOutRecovery])
       [] command = MemoryWrite -> [p EXCEPT !.x = p.window.x0, !.y = p.window.y0]
       [] command \in {DisplayOff, DisplayOn} -> Updated([p EXCEPT !.displayOn = command = DisplayOn])
       [] command = SleepIn -> scheduleRefresh(Updated([p EXCEPT !.sleeping = TRUE]))
       [] command = SleepOut /\ p.sleepOutAt = 0 -> scheduleRefresh(Updated([p EXCEPT !.sleeping = FALSE]))
       [] OTHER -> p

\* CASET and RASET change the window with the fourth parameter; the high bytes
\* of its edges, the first and the third, are zero.
Parameter(p, byte) ==
  LET params == Append(p.params, byte)
  IN IF Len(p.params) = 4 THEN p
     ELSE IF Len(params) < 4 THEN [p EXCEPT !.params = params]
     ELSE IF p.command = ColumnAddressSet
       THEN [p EXCEPT !.params = params, !.window.x0 = params[2], !.window.x1 = byte]
       ELSE [p EXCEPT !.params = params, !.window.y0 = params[2], !.window.y1 = byte]

\* Where the next pixel goes, and whether a window that shows is complete.
Advanced(p) ==
  LET w == p.window
      shows == /\ w.x0 <= w.x1 /\ w.x1 < Width /\ w.y0 <= w.y1 /\ w.y1 < Height
               /\ \E v \in Viewport : v[1] \in w.x0..w.x1 /\ v[2] \in w.y0..w.y1
  IN IF p.x + 1 <= w.x1 THEN [p EXCEPT !.x = @ + 1]
     ELSE IF p.y + 1 <= w.y1 THEN [p EXCEPT !.x = w.x0, !.y = @ + 1]
     ELSE [p EXCEPT !.x = w.x0, !.y = w.y0, !.drawn = @ \/ shows]

\* Plausible bug: the host is told of complete windows only.
PixelQuietly(p) == [p EXCEPT !.half = FALSE]

Pixel(p) == [(IF <<p.x, p.y>> \in Positions THEN Updated(p) ELSE p) EXCEPT !.half = FALSE]

Writes(p) == p.command \in {MemoryWrite, MemoryWriteContinue}

panelData(p, byte) ==
  CASE p.command \in {ColumnAddressSet, RowAddressSet} ->
         Parameter(p, IF Len(p.params) \in {0, 2} THEN 0 ELSE byte)
    [] p.command = WriteBrightness /\ p.params = <<>> -> Updated([p EXCEPT !.brightness = byte, !.params = <<byte>>])
    [] Writes(p) /\ ~p.half -> [p EXCEPT !.half = TRUE]
    [] Writes(p) /\ p.half -> Advanced(Pixel(p))
    [] OTHER -> p

Hears == panel.powered /\ ~panel.asserted /\ panel.readyAt = 0

\* transfer: the first four bytes after chip select are a header.
Header(byte) ==
  /\ Hears /\ panel.headerCount < 4 /\ UNCHANGED gram
  /\ LET counted == [panel EXCEPT !.headerCount = @ + 1]
     IN panel' = CASE panel.headerCount = 2 -> [counted EXCEPT !.third = byte]
                   [] panel.headerCount = 3 -> panelCommand([counted EXCEPT !.third = 0], panel.third)
                   [] OTHER -> counted

Datum(byte) ==
  /\ Hears /\ panel.headerCount = 4 /\ panel' = panelData(panel, byte)
  /\ gram' = IF Writes(panel) /\ panel.half /\ <<panel.x, panel.y>> \in Positions
             THEN [gram EXCEPT ![<<panel.x, panel.y>>] = byte] ELSE gram

\* selectChanged, on the rising edge.
Deselect == panel' = [panel EXCEPT !.headerCount = 0, !.third = 0] /\ UNCHANGED gram

-----------------------------------------------------------------------------
(* Time and the host                                                          *)

\* Plausible bug: the next refresh is counted from when this one was dispatched.
NextTeTwice == 2 * Interval

\* Plausible bug: a late refresh is followed by those that were missed.
NextTeBurst == panel.nextTe + Interval

NextTe == panel.nextTe + (((-panel.nextTe) \div Interval) + 1) * Interval

refresh ==
  /\ panel.armed /\ panel.nextTe <= 0 /\ UNCHANGED gram
  /\ panel' = [panel EXCEPT !.nextTe = NextTe, !.drawn = FALSE]

Tick ==
  /\ panel.armed => panel.nextTe > -MaxLate
  /\ panel' = [panel EXCEPT !.nextTe = IF panel.armed THEN @ - 1 ELSE @,
                            !.readyAt = Less(@), !.sleepOutAt = Less(@)]
  /\ UNCHANGED gram

SetBrightnessSimulation(enabled) ==
  panel.simulate # enabled /\ panel' = Updated([panel EXCEPT !.simulate = enabled]) /\ UNCHANGED gram

Visible == Awake(panel) /\ panel.displayOn

\* co5300ReadPixels: the brightness and the pixels of the viewport.
Picture ==
  LET brightness == IF ~Visible THEN 0 ELSE IF panel.simulate THEN panel.brightness ELSE 255
  IN <<brightness, IF brightness = 0 THEN 0 ELSE [v \in Viewport |-> gram[v]]>>

-----------------------------------------------------------------------------
Init ==
  /\ gram = [p \in Positions |-> 0]
  /\ panel = [window |-> [x0 |-> 0, x1 |-> Width - 1, y0 |-> 0, y1 |-> Height - 1],
       x |-> 0, y |-> 0, half |-> FALSE, command |-> 0, params |-> <<>>, headerCount |-> 0, third |-> 0,
       displayOn |-> FALSE, sleeping |-> TRUE, brightness |-> 0, simulate |-> FALSE,
       powered |-> FALSE, asserted |-> TRUE, resetWhileAwake |-> FALSE, readyAt |-> 0, sleepOutAt |-> 0,
       armed |-> FALSE, nextTe |-> 0, drawn |-> FALSE, updates |-> 0]

Next ==
  \/ \E level \in BOOLEAN : powerInput(level)
  \/ \E level \in BOOLEAN : resetInput(level)
  \/ \E byte \in Commands : Header(byte)
  \/ \E byte \in Data : Datum(byte)
  \/ Deselect \/ refresh \/ Tick
  \/ \E enabled \in BOOLEAN : SetBrightnessSimulation(enabled)

Spec == Init /\ [][Next]_vars

-----------------------------------------------------------------------------
(* Types of the state.                                                        *)
TypeOK ==
  /\ panel.headerCount \in 0..4 /\ Len(panel.params) <= 4 /\ panel.readyAt \in 0..Most(PowerOnDelay, ResetRecovery)
  /\ panel.nextTe \in -MaxLate..Interval /\ DOMAIN gram = Positions

(* The refresh runs exactly while the panel is powered, out of reset and      *)
(* awake, whichever of the three changed last.                                *)
RefreshWhileAwake == panel.armed <=> Awake(panel)

(* A panel that is awake has recovered from power-on and from every reset:    *)
(* the recovery times that it waited for do not begin while it is awake.      *)
AwakeIsRecovered == Awake(panel) => panel.readyAt = 0 /\ panel.sleepOutAt = 0

(* What the host would show does not change without the update count, by      *)
(* which it decides to look.                                                  *)
UpdatesSignalled == [][Picture' # Picture => panel'.updates # panel.updates]_vars

(* A late refresh neither shifts those after it nor brings a burst of them.   *)
TeSteady ==
  [][(panel.armed /\ panel'.armed /\ panel'.nextTe > panel.nextTe)
     => panel'.nextTe \in 1..Interval /\ (panel'.nextTe - panel.nextTe) % Interval = 0]_vars

(* The panel refreshes and shows a picture only as its power, its reset and   *)
(* its sleep allow, in whatever order they change.                            *)
DisplaySafety == TypeOK /\ RefreshWhileAwake /\ AwakeIsRecovered
=============================================================================
