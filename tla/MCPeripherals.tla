--------------------------- MODULE MCPeripherals ---------------------------
(* The chip's peripherals, with the touch controller and the audio codec, for *)
(* TLC side by side: they share no state here, and a behaviour is one of the  *)
(* component it begins with, the others staying as they began.  A component   *)
(* with several names in "component" is taken with a set of bounds for each.  *)
EXTENDS Peripherals, FiniteSets, TLC

VARIABLE component

all == <<component, vars, gpio, i2c, i2s, audio>>

-----------------------------------------------------------------------------
(* Two pads, the software I2C bus, open drain and routed to a signal or not,  *)
(* whose devices pull SCL down or let it go; or another pad, with all that    *)
(* the matrix, its resistors and the board can do.                            *)

BusPins == {Sda, Scl}
BusConfig == [openDrain |-> TRUE, type |-> 2, enabled |-> TRUE]
PadConfigs == {[openDrain |-> TRUE, type |-> 3, enabled |-> TRUE], [openDrain |-> FALSE, type |-> 4, enabled |-> TRUE]}
AllConfigs == {BusConfig} \cup PadConfigs
AllRoutes == [signal : Signals \cup {"software"}, softwareEnable : BOOLEAN, invertOutput : BOOLEAN, invertEnable : {FALSE}]
AllPulls == {[up |-> FALSE, down |-> FALSE], [up |-> FALSE, down |-> TRUE]}

BusRoutes == [signal : Signals \cup {"software"}, softwareEnable : {FALSE}, invertOutput : {FALSE}, invertEnable : {FALSE}]

PadSteps(pins, configs, routes, resistors, drives) ==
  \/ Pads!UpdateNext \/ Pads!GpioReset \/ (Sda \in pins /\ Pads!BoardReset)
  \/ \E kind \in Pads!Kinds, s \in SUBSET pins :
       Pads!WriteOutput(kind, s) \/ Pads!WriteEnable(kind, s) \/ Pads!WriteStatus(kind, s)
  \/ \E p \in pins, c \in configs : Pads!WriteConfig(p, c)
  \/ \E p \in pins, r \in routes : Pads!WriteRoute(p, r)
  \/ \E p \in pins, level \in drives : Pads!GpioInput(p, level)
  \/ \E s \in Signals, level \in Pads!Drives : Pads!PeripheralInput(s, level)
  \/ \E p \in pins, r \in resistors : Pads!PullInput(p, r)

\* Lists that stop, that keep the bus, that read more than the FIFO holds, that
\* address twice, and that have no end.
Command(op, length, check) == [op |-> op, length |-> length, check |-> check, expected |-> FALSE]
Start == Command("restart", 0, FALSE)
Stop == Command("stop", 0, FALSE)
ManyLists ==
  {<<Start, Command("write", 2, FALSE), Command("end", 0, FALSE), Stop>>,
   <<Start, Command("write", 1, TRUE), Command("read", 3, FALSE), Stop>>,
   <<Command("write", 1, TRUE), Start, Command("write", 2, FALSE), Command("none", 0, FALSE)>>,
   <<Start, Command("write", 1, FALSE), Start, Command("write", 2, FALSE)>>}
FewLists ==
  {<<Start, Command("write", 2, TRUE), Stop, Stop>>, <<Start, Command("write", 1, TRUE), Command("read", 3, FALSE), Stop>>}
ToA == [to |-> "a", read |-> FALSE]
FromA == [to |-> "a", read |-> TRUE]
ToB == [to |-> "b", read |-> FALSE]
ToNobody == [to |-> "x", read |-> FALSE]
Unprotected == [protect |-> FALSE, nonFifo |-> FALSE, rxFull |-> 0, txEmpty |-> 0]
AllLists == ManyLists \cup FewLists
AllBytes == {ToA, FromA, ToB, ToNobody}
FifoConfs == {[protect |-> TRUE, nonFifo |-> FALSE, rxFull |-> 1, txEmpty |-> 2], Unprotected}
AllFlags == {"RxWm", "TxWm", "Nack"}
AllEnables == {{"RxWm", "TxWm"}, {"Nack"}}

\* Many lists without interrupts, a third byte being data; or few with them and
\* fewer bytes.
Writes(bytes) == \E b \in bytes : tx'[Len(tx')].to = b.to /\ tx'[Len(tx')].read = b.read
Polled ==
  /\ enable' = {} /\ conf' \in {conf, I2c!Reset, Unprotected}
  /\ commands' # commands => commands' \notin FewLists \ ManyLists
  /\ written' > 2 /\ written' > written => Writes({ToA})
Enabled ==
  /\ commands' # commands => commands' \notin ManyLists \ FewLists
  /\ written' <= 2
  /\ written' > written => Writes({FromA, ToB})

\* A ring of two buffers; a list of two whose second is not memory; a buffer of one
\* byte; one before a descriptor that is not there; and one that holds nothing.
AllLinks == <<2, 1, 4, 0, 0, 7, 0, 0>>
AllSizes == <<2, 2, 2, 2, 1, 2, 1, 0>>
AllLengths == <<2, 2, 2, 2, 1, 1, 1, 2>>
AllEofs == [a \in 1..8 |-> a \in {2, 4, 5}]
AllReadable == [a \in 1..8 |-> a # 4]
AllLocated == [a \in 1..8 |-> a # 7]
OutChecked == [d \in {"in", "out"} |-> d = "out"]

-----------------------------------------------------------------------------
(* A received ring that the guest stops, resets and restarts; a list played   *)
(* with owner checking; both, sharing a clock; or both, with faulty lists.     *)

StreamSteps(directions, slaves, selections, orders, addresses) ==
  \/ Streams!Tick \/ Streams!i2sReset
  \/ \E d \in directions : Streams!streamComplete(d)
  \/ \E d \in directions, start, reset, slave \in BOOLEAN :
       (slave => d \in slaves) /\ (reset => "reset" \in orders) /\ Streams!WriteConf(d, start, reset, slave)
  \/ \E share \in BOOLEAN : slaves # {} /\ Streams!WriteShare(share)
  \/ \E d \in directions, active \in BOOLEAN : Streams!WriteClock(d, active, regs.enabled)
  \/ \E active, open \in BOOLEAN :
       ("out" \notin directions => active = regs.active["out"]) /\ Streams!WriteClock("out", active, open)
  \/ \E d \in directions, c \in Channels :
       \/ \E a \in addresses : "start" \in orders /\ Streams!StartLink(d, c, a)
       \/ "restart" \in orders /\ Streams!RestartLink(d, c)
       \/ "stop" \in orders /\ Streams!StopLink(d, c)
       \/ "reset" \in orders /\ Streams!ResetChannel(d, c)
       \/ "clear" \in orders /\ Streams!ClearRaw(d, c)
  \/ \E d \in directions, c \in selections : Streams!SelectChannel(d, c)
  \/ \E d \in directions, a \in addresses :
       \/ "give" \in orders /\ Streams!GiveDescriptor(d, a)
       \/ "take" \in orders /\ Streams!TakeDescriptor(d, a)

Receiving ==
  /\ StreamSteps({"in"}, {}, {}, {"start", "restart", "stop", "reset"}, {1, 2})
  /\ regs'.enabled => regs'.active["in"]
  /\ LET link == stream'["in"].channel[1] IN Cardinality({o \in {"start", "restart", "stop", "reset"} : link[o]}) <= 2
OnTime == regs'.enabled = regs'.active["out"] /\ \A d \in Directions : stream'[d].timer >= 0
Playing == StreamSteps({"out"}, {}, Selections, {"start", "clear", "give", "take"}, {3, 4}) /\ OnTime
Sharing == StreamSteps(Directions, Slaves, {}, {"start"}, {5}) /\ OnTime
Failing == StreamSteps(Directions, {}, {}, {"start"}, {6, 8}) /\ OnTime

-----------------------------------------------------------------------------
AllInit ==
  /\ component \in {"touch", "bus", "pad", "commanding", "interrupting", "receiving", "playing", "sharing", "failing", "codec"}
  /\ Init /\ Pads!Init /\ Streams!Init /\ Codec!Init
  /\ I2c!Init /\ (component # "commanding" => address = "a")
  /\ component # "playing" => \A d \in Directions : stream[d].selected = 1

Touched == component = "touch" /\ Next /\ UNCHANGED <<component, gpio, i2c, i2s, audio>>
BusStep == component = "bus" /\ PadSteps(BusPins, {BusConfig}, BusRoutes, {}, {Pads!Released, 0}) /\ UNCHANGED <<component, vars, i2c, i2s, audio>>
PadStep == component = "pad" /\ PadSteps(Pins \ BusPins, PadConfigs, Routes, PullValues, Pads!Drives) /\ UNCHANGED <<component, vars, i2c, i2s, audio>>
Commanded == component = "commanding" /\ I2c!Next /\ Polled /\ UNCHANGED <<component, vars, gpio, i2s, audio>>
Interrupted == component = "interrupting" /\ I2c!Next /\ Enabled /\ UNCHANGED <<component, vars, gpio, i2s, audio>>
Received == component = "receiving" /\ Receiving /\ UNCHANGED <<component, vars, gpio, i2c, audio>>
Played == component = "playing" /\ Playing /\ UNCHANGED <<component, vars, gpio, i2c, audio>>
Shared == component = "sharing" /\ Sharing /\ UNCHANGED <<component, vars, gpio, i2c, audio>>
FailedStep == component = "failing" /\ Failing /\ UNCHANGED <<component, vars, gpio, i2c, audio>>
CodecStep == component = "codec" /\ Codec!Next /\ UNCHANGED <<component, vars, gpio, i2c, i2s>>

AllNext ==
  \/ Touched \/ BusStep \/ PadStep \/ Commanded \/ Interrupted \/ Received \/ Played \/ Shared \/ FailedStep \/ CodecStep

AllSpec == AllInit /\ [][AllNext]_all

=============================================================================
