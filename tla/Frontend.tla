------------------------------ MODULE Frontend ------------------------------
(* Five parts of the host application side by side, with all their            *)
(* parameters: the Flash saves, the session with its recording, the shared    *)
(* state file, the ATT client, and QEMU's process with its console.  They     *)
(* share no state here.                                                       *)
EXTENDS FlashSave, Sequences

CONSTANTS
  MaxSessions, MaxRecordings, MaxMessages,                                       \* of EmulatorSession
  Controls, Touch, Points, MinimumPress, FrameInterval, FramePeriod, MaxUpdates, \* of InputMailbox
  MaxStarts,                                                                     \* its MaxSessions
  RequestIds, ValueSizes, DefaultMtu, MaxMtu, GuestMtu, MaxPendingRequests, MaxValues,  \* of AttClient
  MaxChildren, MaxOutput, ShutdownPollCount, MaxOutputReadsPerFrame, ReadSize, PipeCapacity   \* of QemuProcess

VARIABLES
  program, process, worker, history,
  held, until, dragging, at, host, sample, snapshot, screen, mutex, shared, machine, board,
  session, updates, frameAge, ticked, owed,
  connected, requests, busy, securing, encrypted, mtu, localMtu, exchanged,
  toGuest, toPeer, server, stored, made, done,
  pid, child, fds, pc, polls, pipe, outputLine, outputPassthrough, written, forwarded

emulator == <<program, process, worker, history>>
mailbox == <<held, until, dragging, at, host, sample, snapshot, screen, mutex, shared, machine, board,
             session, updates, frameAge, ticked, owed>>
att == <<connected, requests, busy, securing, encrypted, mtu, localMtu, exchanged,
         toGuest, toPeer, server, stored, made, done>>
console == <<pid, child, fds, pc, polls, pipe, outputLine, outputPassthrough, written, forwarded>>

Emulator == INSTANCE EmulatorSession WITH app <- program, qemu <- process
Mailbox == INSTANCE InputMailbox WITH app <- host, lock <- mutex, qemu <- machine, MaxSessions <- MaxStarts
Att == INSTANCE AttClient WITH guest <- server
Console == INSTANCE QemuProcess

ASSUME FrontendAssumption ==
  Emulator!SessionAssumption /\ Mailbox!MailboxAssumption /\ Att!AttAssumption /\ Console!ProcessAssumption

(* EmulatorSession!SessionSafety: files, QEMU, recorder and worker in order.  *)
SessionSafety == Emulator!SessionSafety

(* InputMailbox!MailboxSafety: points and pictures whole, taps seen.          *)
MailboxSafety == Mailbox!MailboxSafety

(* AttClient!AttSafety: transactions, writes, MTUs and completions.           *)
AttSafety == Att!AttSafety

(* QemuProcess!OutputForwarded: a child's output is printed once and in order, *)
(* without the LED reports.                                                   *)
OutputForwarded == Console!TypeOK /\ Console!OutputForwarded
=============================================================================
