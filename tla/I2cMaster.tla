----------------------------- MODULE I2cMaster -----------------------------
(* The ESP32-S3's FIFO I2C master.  Software fills the transmit FIFO,        *)
(* programs a list of commands and starts it; the commands run inside the    *)
(* register access until they end, fail, or wait for a FIFO, and a later     *)
(* FIFO access resumes them.  "engine" is that loop: while it is on, only    *)
(* its steps happen, and the access returns when it goes off.                *)
EXTENDS Integers, Sequences, FiniteSets

CONSTANTS
  Devices,        \* addresses that answer
  Bytes,          \* bound: bytes; each can be an address and a direction
  Refuses,        \* devices that do not acknowledge data
  FifoCapacity, CommandCount,
  Lists,          \* bound: command lists
  Confs,          \* bound: FIFO configurations
  Flags,          \* bound: the raw interrupt flags that are followed
  Enables,        \* bound: interrupt enables
  MaxBytes        \* bound: bytes software writes, bytes devices serve

Addresses == {b.to : b \in Bytes}
Ops == {"restart", "write", "read", "stop", "end", "none"}
AllFlags == {"RxWm", "TxWm", "EndDetect", "ByteDone", "Complete", "Timeout", "TransStart", "Nack", "TxOverflow", "RxUnderflow"}

I2cAssumption ==
  /\ Bytes \subseteq [to : Addresses, read : BOOLEAN] /\ Refuses \subseteq Devices
  /\ FifoCapacity \in Nat \ {0} /\ CommandCount \in Nat \ {0} /\ MaxBytes \in Nat
  /\ \A l \in Lists : /\ DOMAIN l = 1..CommandCount
                      /\ \A i \in DOMAIN l : l[i] \in [op : Ops, length : Nat, check : BOOLEAN, expected : BOOLEAN]
  /\ Confs \subseteq [protect : BOOLEAN, nonFifo : BOOLEAN, rxFull : Nat, txEmpty : Nat]
  /\ Flags \subseteq AllFlags /\ Enables \subseteq SUBSET Flags

VARIABLES
  conf, enable, raw, irq, commands,    \* registers, the line
  tx, rx,
  index, byteIndex, running,           \* the command that is next, or done; bytes of it
  busy, addressed, addressPhase, address, read, lastNack,
  current,                             \* the bus: the device selected, or Nobody
  engine,                              \* runCommands is on
  stopped,                             \* history: how the last list stopped
  flushed,                             \* history: the receive FIFO was reset under this list
  written, wired,                      \* history: how many bytes software wrote, how many left the FIFO
  served, taken,                       \* history: how many bytes were received, how many read
  heard                                \* history: what a device was last sent, and to whom it was meant

registers == <<conf, enable, commands>>
bus == <<busy, addressed, addressPhase, address, read, lastNack, current, heard>>
list == <<index, byteIndex, running>>
flow == <<written, wired, served, taken>>
vars == <<conf, enable, raw, irq, commands, tx, rx, list, busy, addressed, addressPhase,
          address, read, lastNack, current, engine, stopped, flushed, written, wired, served, taken, heard>>

Nobody == "nobody"
Nothing == [device |-> Nobody, meant |-> Nobody]

-----------------------------------------------------------------------------
(* updateIrq                                                                 *)

Watermarks(c, r, t) ==
  {f \in {"RxWm", "TxWm"} : /\ c.protect
                            /\ f = "RxWm" => Len(r) > c.rxFull
                            /\ f = "TxWm" => Len(t) < c.txEmpty}

\* From the raw flags "flags", with the configuration and the FIFOs as they now are.
UpdateIrq(flags) ==
  /\ raw' = Flags \cap ((flags \ {"RxWm", "TxWm"}) \cup Watermarks(conf', rx', tx'))
  /\ irq' = (raw' \cap enable' # {})

Reset ==
  [protect |-> TRUE, nonFifo |-> FALSE, rxFull |-> FifoCapacity \div 3, txEmpty |-> 1]

Init ==
  /\ conf = Reset /\ enable = {} /\ raw = {"TxWm"} \cap Flags /\ irq = FALSE
  /\ commands = [i \in 1..CommandCount |-> [op |-> "none", length |-> 0, check |-> FALSE, expected |-> FALSE]]
  /\ tx = <<>> /\ rx = <<>> /\ index = 1 /\ byteIndex = 0 /\ running = FALSE
  /\ busy = FALSE /\ addressed = FALSE /\ addressPhase = FALSE /\ read = FALSE /\ lastNack = FALSE
  /\ address \in Addresses /\ current = Nobody /\ engine = FALSE /\ stopped = "never" /\ flushed = FALSE
  /\ written = 0 /\ wired = 0 /\ served = 0 /\ taken = 0 /\ heard = Nothing

-----------------------------------------------------------------------------
(* runCommands                                                               *)

Command == commands[index]
Active == engine /\ running /\ index <= CommandCount

\* endBus: the device that was selected, if any, sees the end.
EndBus == busy' = FALSE /\ addressed' = FALSE /\ addressPhase' = FALSE /\ current' = Nobody

\* "goto paused", or the end of the loop.
Leave(flags) == engine' = FALSE /\ UpdateIrq(flags)
Stay(flags) == engine' = TRUE /\ raw' = flags \cap Flags /\ irq' = irq
NextCommand == index' = index + 1 /\ byteIndex' = 0

StepRestart ==
  /\ Active /\ Command.op = "restart"
  /\ busy' = TRUE /\ addressPhase' = TRUE /\ addressed' = FALSE
  /\ NextCommand /\ UNCHANGED <<registers, tx, rx, running, address, read, lastNack, current, stopped, flushed, flow, heard>>
  /\ Stay(raw)

\* i2c_start_transfer: in the middle of a transaction the bus is not scanned again.
StartTransfer(selected, to) ==
  IF selected # Nobody THEN selected ELSE IF to \in Devices THEN to ELSE Nobody

\* Plausible bug: a repeated START goes to the device that is selected.
AddressDeviceSelected(b) ==
  LET device == StartTransfer(current, b.to)
  IN /\ address' = b.to /\ read' = b.read /\ addressPhase' = FALSE
     /\ addressed' = (device # Nobody) /\ current' = device /\ UNCHANGED <<busy, heard>>

\* addressDevice: another address ends the transfer before it starts its own.
AddressDevice(b) ==
  LET device == StartTransfer(IF b.to # address THEN Nobody ELSE current, b.to)
  IN /\ address' = b.to /\ read' = b.read /\ addressPhase' = FALSE
     /\ addressed' = (device # Nobody) /\ current' = device /\ UNCHANGED <<busy, heard>>

\* i2c_send, when there is a device that was addressed to be written.
Hears == IF addressed /\ ~read THEN [device |-> current, meant |-> address] ELSE heard
SendByte ==
  /\ heard' = Hears
  /\ UNCHANGED <<busy, addressed, addressPhase, address, read, current>>

Acked == IF addressPhase THEN Head(tx).to \in Devices ELSE addressed /\ ~read /\ current \notin Refuses
Refused == Command.check /\ (~Acked) # Command.expected

\* Plausible bug: the byte stays in the FIFO when its acknowledge is not the expected one.
TakeAcked == tx' = (IF Refused THEN tx ELSE Tail(tx)) /\ wired' = Head(tx).n

Take == tx' = Tail(tx) /\ wired' = Head(tx).n

StepWrite ==
  /\ Active /\ Command.op = "write" /\ byteIndex < Command.length /\ tx # <<>> /\ ~Refused
  /\ Take /\ lastNack' = ~Acked /\ byteIndex' = byteIndex + 1
  /\ IF addressPhase THEN AddressDevice(Head(tx)) ELSE SendByte
  /\ UNCHANGED <<registers, rx, index, running, stopped, flushed, written, served, taken>>
  /\ Stay(raw \cup {"ByteDone"})

\* The byte is gone, and so is the transaction.
StepRefused ==
  /\ Active /\ Command.op = "write" /\ byteIndex < Command.length /\ tx # <<>> /\ Refused
  /\ Take /\ lastNack' = ~Acked /\ byteIndex' = byteIndex + 1 /\ running' = FALSE /\ stopped' = "nack"
  /\ IF addressPhase THEN address' = Head(tx).to /\ read' = Head(tx).read /\ UNCHANGED heard
     ELSE UNCHANGED <<address, read>> /\ heard' = Hears
  /\ EndBus
  /\ UNCHANGED <<registers, rx, index, flushed, written, served, taken>>
  /\ Leave(raw \cup {"ByteDone", "Nack"})

\* Plausible bug: a full FIFO takes the byte over the oldest.
StepReadOver ==
  /\ Active /\ Command.op = "read" /\ byteIndex < Command.length
  /\ served' = served + 1 /\ rx' = Append(IF Len(rx) = FifoCapacity THEN Tail(rx) ELSE rx, served')
  /\ byteIndex' = byteIndex + 1
  /\ UNCHANGED <<registers, tx, index, running, bus, stopped, flushed, written, wired, taken>>
  /\ Stay(raw \cup {"ByteDone"})

\* A read that nobody serves gives 0xFF.
StepRead ==
  /\ Active /\ Command.op = "read" /\ byteIndex < Command.length /\ Len(rx) < FifoCapacity
  /\ served' = served + 1 /\ rx' = Append(rx, served')
  /\ byteIndex' = byteIndex + 1
  /\ UNCHANGED <<registers, tx, index, running, bus, stopped, flushed, written, wired, taken>>
  /\ Stay(raw \cup {"ByteDone"})

\* Wait for software to fill the transmit FIFO or to drain the other.
StepWaits ==
  /\ Active /\ byteIndex < Command.length
  /\ \/ Command.op = "write" /\ tx = <<>>
     \/ Command.op = "read" /\ Len(rx) = FifoCapacity
  /\ UNCHANGED <<registers, tx, rx, list, bus, stopped, flushed, flow>> /\ Leave(raw)

\* The master's last ACK or NACK changes nothing here.
StepDone ==
  /\ Active /\ Command.op \in {"write", "read"} /\ byteIndex >= Command.length
  /\ NextCommand /\ UNCHANGED <<registers, tx, rx, running, bus, stopped, flushed, flow>> /\ Stay(raw)

StepStop ==
  /\ Active /\ Command.op = "stop"
  /\ EndBus /\ running' = FALSE /\ stopped' = "stop" /\ NextCommand
  /\ UNCHANGED <<registers, tx, rx, flushed, address, read, lastNack, flow, heard>> /\ Leave(raw \cup {"Complete"})

\* END keeps the bus for the next list.
StepEnd ==
  /\ Active /\ Command.op = "end"
  /\ running' = FALSE /\ stopped' = "end" /\ NextCommand
  /\ UNCHANGED <<registers, tx, rx, flushed, bus, flow>> /\ Leave(raw \cup {"EndDetect"})

\* Plausible bug: the bus stays taken when a list is not complete.
TimesOutHolding ==
  /\ running' = FALSE /\ stopped' = "timeout"
  /\ UNCHANGED <<busy, addressed, addressPhase, current>>

TimesOut == running' = FALSE /\ stopped' = "timeout" /\ EndBus

\* An unknown command, or a list without STOP or END.
StepTimeout ==
  /\ engine /\ running /\ (index <= CommandCount => Command.op = "none")
  /\ TimesOut
  /\ UNCHANGED <<registers, tx, rx, index, byteIndex, flushed, address, read, lastNack, flow, heard>>
  /\ Leave(raw \cup {"Timeout"})

\* A FIFO access while no list runs.
StepIdle ==
  /\ engine /\ ~running
  /\ UNCHANGED <<registers, tx, rx, list, bus, stopped, flushed, flow>> /\ Leave(raw)

-----------------------------------------------------------------------------
(* Software                                                                  *)

Access == ~engine

\* Plausible bug: the FIFO takes one byte too many.
WriteDataOver(b) ==
  /\ Access /\ written < MaxBytes /\ UNCHANGED <<registers, rx, list, bus, stopped, flushed, wired, served, taken>>
  /\ \/ /\ Len(tx) > FifoCapacity /\ UNCHANGED <<tx, written>> /\ Leave(raw \cup {"TxOverflow"})
     \/ /\ Len(tx) <= FifoCapacity /\ written' = written + 1 /\ tx' = Append(tx, [n |-> written', to |-> b.to, read |-> b.read]) /\ Stay(raw)

WriteData(b) ==
  /\ Access /\ written < MaxBytes /\ UNCHANGED <<registers, rx, list, bus, stopped, flushed, wired, served, taken>>
  /\ \/ /\ Len(tx) = FifoCapacity /\ UNCHANGED <<tx, written>> /\ Leave(raw \cup {"TxOverflow"})
     \/ /\ Len(tx) < FifoCapacity /\ written' = written + 1 /\ tx' = Append(tx, [n |-> written', to |-> b.to, read |-> b.read]) /\ Stay(raw)

\* Plausible bug: reading makes room, and nobody goes on.
ReadDataOnly ==
  /\ Access /\ rx # <<>> /\ rx' = Tail(rx) /\ taken' = Head(rx)
  /\ UNCHANGED <<registers, tx, list, bus, stopped, flushed, written, wired, served>>
  /\ Leave(raw)

ReadData ==
  /\ Access /\ rx # <<>> /\ rx' = Tail(rx) /\ taken' = Head(rx)
  /\ UNCHANGED <<registers, tx, list, bus, stopped, flushed, written, wired, served>>
  /\ Stay(raw)

ReadEmpty ==
  /\ Access /\ rx = <<>>
  /\ UNCHANGED <<registers, tx, rx, list, bus, stopped, flushed, flow>>
  /\ Leave(raw \cup {"RxUnderflow"})

\* The driver programs a list while none runs.
WriteCommands(l) ==
  /\ Access /\ ~running /\ commands' = l
  /\ UNCHANGED <<conf, enable, tx, rx, list, bus, stopped, flushed, flow>> /\ Leave(raw)

\* ControlReg with Start, a list that waits included: it restarts from the top.
StartList ==
  /\ Access /\ ~conf.nonFifo /\ served <= MaxBytes
  /\ index' = 1 /\ byteIndex' = 0 /\ running' = TRUE
  /\ flushed' = FALSE /\ UNCHANGED <<registers, tx, rx, bus, stopped, flow>> /\ Stay(raw \cup {"TransStart"})

\* Not as a master, or not with the FIFO.
StartUnsupported ==
  /\ Access /\ index' = 1 /\ byteIndex' = 0 /\ running' = FALSE /\ stopped' = "timeout" /\ EndBus
  /\ UNCHANGED <<registers, tx, rx, flushed, address, read, lastNack, flow, heard>> /\ Leave(raw \cup {"Timeout"})

FsmReset ==
  /\ Access /\ index' = 1 /\ byteIndex' = 0 /\ running' = FALSE /\ stopped' = "reset" /\ lastNack' = FALSE /\ EndBus
  /\ UNCHANGED <<registers, tx, rx, flushed, address, read, flow, heard>> /\ Leave(raw)

\* Plausible bug: the watermarks are those of the old configuration.
WriteConfLater(c, rxReset, txReset) ==
  /\ Access /\ conf' = c
  /\ rx' = (IF rxReset THEN <<>> ELSE rx) /\ taken' = (IF rxReset THEN served ELSE taken)
  /\ tx' = (IF txReset THEN <<>> ELSE tx) /\ written' = (IF txReset THEN wired ELSE written)
  /\ flushed' = (flushed \/ (rxReset /\ running))
  /\ UNCHANGED <<enable, commands, list, bus, stopped, wired, served, raw, irq, engine>>

WriteConf(c, rxReset, txReset) ==
  /\ Access /\ conf' = c
  /\ rx' = (IF rxReset THEN <<>> ELSE rx) /\ taken' = (IF rxReset THEN served ELSE taken)
  /\ tx' = (IF txReset THEN <<>> ELSE tx) /\ written' = (IF txReset THEN wired ELSE written)
  /\ flushed' = (flushed \/ (rxReset /\ running))
  /\ UNCHANGED <<enable, commands, list, bus, stopped, wired, served>> /\ Leave(raw)

\* A watermark that still holds is raised again at once.
WriteClear ==
  /\ Access /\ UNCHANGED <<registers, tx, rx, list, bus, stopped, flushed, flow>> /\ Leave({})

WriteEnable(e) ==
  /\ Access /\ enable' = e
  /\ UNCHANGED <<conf, commands, tx, rx, list, bus, stopped, flushed, flow>> /\ Leave(raw)

\* i2cReset: not the devices.
Restarted ==
  /\ Access /\ conf' = Reset /\ enable' = {}
  /\ commands' = [i \in 1..CommandCount |-> [op |-> "none", length |-> 0, check |-> FALSE, expected |-> FALSE]]
  /\ tx' = <<>> /\ rx' = <<>> /\ index' = 1 /\ byteIndex' = 0 /\ running' = FALSE /\ lastNack' = FALSE
  /\ stopped' = "reset" /\ EndBus /\ written' = wired /\ taken' = served
  /\ UNCHANGED <<address, read, flushed, wired, served, heard>> /\ Leave({})

Next ==
  \/ StepRestart \/ StepWrite \/ StepRefused \/ StepRead \/ StepWaits \/ StepDone \/ StepStop \/ StepEnd
  \/ StepTimeout \/ StepIdle
  \/ \E b \in Bytes : WriteData(b)
  \/ ReadData \/ ReadEmpty
  \/ \E l \in Lists : WriteCommands(l)
  \/ StartList \/ StartUnsupported \/ FsmReset
  \/ \E c \in Confs, r \in BOOLEAN, t \in BOOLEAN : WriteConf(c, r, t)
  \/ WriteClear
  \/ \E e \in Enables : WriteEnable(e)
  \/ Restarted

Spec == Init /\ [][Next]_vars

-----------------------------------------------------------------------------
(* Types of the state; the FIFOs within their capacity.                      *)
TypeOK ==
  /\ conf \in Confs \cup {Reset} /\ enable \subseteq Flags /\ raw \subseteq Flags /\ irq \in BOOLEAN
  /\ tx \in Seq([n : Nat, to : Addresses, read : BOOLEAN]) /\ Len(tx) <= FifoCapacity /\ rx \in Seq(Nat) /\ Len(rx) <= FifoCapacity
  /\ index \in 1..CommandCount + 1 /\ byteIndex \in Nat /\ running \in BOOLEAN /\ engine \in BOOLEAN
  /\ busy \in BOOLEAN /\ addressed \in BOOLEAN /\ addressPhase \in BOOLEAN /\ read \in BOOLEAN
  /\ lastNack \in BOOLEAN /\ address \in Addresses /\ current \in Devices \cup {Nobody}

(* Every byte that software wrote is on the wire or in the FIFO, once and in   *)
(* order, whatever the command waited for, failed on or was resumed by.        *)
TxConserved == Len(tx) = written - wired /\ \A i \in DOMAIN tx : tx[i].n = wired + i

(* Every byte that was received is read or in the FIFO, in order: a full FIFO  *)
(* delays the device's next byte and loses none.                               *)
RxConserved == rx = [i \in 1..served - taken |-> taken + i]

(* A device hears only what was addressed to it: after a repeated START to     *)
(* another address the device of the last transfer is deselected.              *)
RightDevice ==
  /\ addressed => current = address
  /\ heard.device = heard.meant

(* No register access leaves the bus taken by a list that is over, whether it  *)
(* was stopped, refused, incomplete or reset: only END keeps it, and a list    *)
(* that waits.                                                                 *)
BusReleased ==
  /\ ~engine /\ busy => running \/ stopped = "end"
  /\ ~busy => current = Nobody

(* When an access returns, the line is what flags and enables say, and the     *)
(* watermarks are those of the FIFOs as they are.                              *)
IrqCurrent ==
  ~engine => /\ irq <=> (raw \cap enable # {})
             /\ raw \cap {"RxWm", "TxWm"} = Watermarks(conf, rx, tx) \cap Flags

(* A list that is not over waits for a FIFO and for nothing else: no access    *)
(* returns with a command that could go on, unless the receive FIFO was reset  *)
(* under it.                                                                   *)
WaitsForFifo ==
  ~engine /\ running /\ ~flushed =>
    /\ index <= CommandCount /\ byteIndex < Command.length
    /\ \/ Command.op = "write" /\ tx = <<>>
       \/ Command.op = "read" /\ Len(rx) = FifoCapacity

(* The state's invariants together, for runs that take the master with others. *)
I2cSafety ==
  TypeOK /\ TxConserved /\ RxConserved /\ RightDevice /\ BusReleased /\ IrqCurrent /\ WaitsForFifo
=============================================================================
