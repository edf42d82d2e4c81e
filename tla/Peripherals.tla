---------------------------- MODULE Peripherals ----------------------------
(* The touch controller, the GPIO pads, the I2C master, the I2S streams and   *)
(* the audio codec side by side, with all their parameters.  They share no    *)
(* state here.                                                                *)
EXTENDS TouchPanel, Sequences

CONSTANTS
  Pins, Sda, Scl, Signals, Configs, Routes, PullValues, Pullups,                            \* of GpioPads
  Devices, Bytes, Refuses, FifoCapacity, CommandCount, Lists, Confs, Flags, Enables, MaxBytes, \* of I2cMaster
  Directions, Slaves, Channels, None, Selections, Orders, Descriptors,                      \* of I2sStream
  Located, Size, Length, Link, Eof, Readable, Check, WriteBack, RxEof, Poll, MaxLate,                        \* also
  Capacity, Block, Burst, Rates, Supported, Samples                                         \* of AudioCodec

VARIABLES
  output, driven, config, route, peripheral, external, pulls, drive, levels, status, cpu, todo,
  conf, enable, raw, line, commands, tx, rx, index, byteIndex, running, busy, addressed, addressPhase,
  address, read, lastNack, current, engine, stopped, flushed, written, wired, served, taken, heard,
  regs, stream, owner,
  codec, host, listener

gpio == <<output, driven, config, route, peripheral, external, pulls, drive, levels, status, cpu, todo>>
i2c == <<conf, enable, raw, line, commands, tx, rx, index, byteIndex, running, busy, addressed, addressPhase,
         address, read, lastNack, current, engine, stopped, flushed, written, wired, served, taken, heard>>
i2s == <<regs, stream, owner>>
audio == <<codec, host, listener>>

Pads == INSTANCE GpioPads WITH enable <- driven, irq <- cpu
I2c == INSTANCE I2cMaster WITH irq <- line
Streams == INSTANCE I2sStream
Codec == INSTANCE AudioCodec WITH guest <- listener

ASSUME PadsAssumption == Pads!GpioAssumption /\ I2c!I2cAssumption
ASSUME AudioAssumption == Streams!I2sAssumption /\ Codec!CodecAssumption

(* GpioPads!GpioSafety: no pad is stale, and the CPU's line follows them.     *)
GpioSafety == Pads!GpioSafety

(* I2cMaster!I2cSafety: bytes, bus and interrupts over every list.            *)
I2cSafety == I2c!I2cSafety

(* I2sStream!I2sSafety and AudioCodec!CodecSafety: what is streamed between   *)
(* memory and I2S, and between I2S and the host.                              *)
AudioSafety == Streams!I2sSafety /\ Codec!CodecSafety

(* What a step may never do: extend a touch pulse, tell the bus of SCL before *)
(* SDA, report a descriptor error for a sound list, or slow the sample clock. *)
PeripheralSteps == OwnDeadline /\ Pads!SdaFirst /\ Streams!ErrorsDeserved /\ Streams!SteadyClock
=============================================================================
