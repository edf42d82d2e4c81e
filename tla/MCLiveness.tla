----------------------------- MODULE MCLiveness -----------------------------
(* What must eventually happen, for TLC, each component with the fairness its *)
(* module states.  The components are side by side: they share no state, and  *)
(* a behaviour is one of the component it begins with, the others staying as  *)
(* they began.  QemuProcess's safety is checked here too.                     *)
EXTENDS QemuProcess

CONSTANTS OneService, OneCentral, NoCentral   \* of PeripheralBridge

VARIABLES
  component,
  connected, requests, busy, securing, encrypted, mtu, localMtu, exchanged,
  toGuest, toPeer, server, stored, made, done,
  delegate, peer, radio, answers,
  app, qemu, worker, history,
  ioe, touch, resetAsserted, readyIn, asleep, enabled, width, report, irq, timer, guest,
  held, until, dragging, at, host, sample, snapshot, screen, mutex, shared, machine, board,
  session, updates, frameAge, ticked, owed

att == <<connected, requests, busy, securing, encrypted, mtu, localMtu, exchanged,
         toGuest, toPeer, server, stored, made, done>>
bridge == <<delegate, peer, radio, answers>>
emulator == <<app, qemu, worker, history>>
chip == <<ioe, touch, resetAsserted, readyIn, asleep, enabled, width, report, irq, timer, guest>>
mailbox == <<held, until, dragging, at, host, sample, snapshot, screen, mutex, shared, machine, board,
             session, updates, frameAge, ticked, owed>>
all == <<component, vars, att, bridge, emulator, chip, mailbox>>

Att == INSTANCE AttClient WITH
  guest <- server, RequestIds <- {1, 2}, ValueSizes <- {2, 5}, DefaultMtu <- 7, MaxMtu <- 11, GuestMtu <- 9,
  MaxPendingRequests <- 2, MaxValues <- 1
Bridge == INSTANCE PeripheralBridge WITH
  Services <- OneService, Advertised <- OneService, Centrals <- OneCentral, MaxRequests <- 1,
  MaxPendingOperations <- 1, MaxPendingValues <- 2, MaxPendingRequests <- 1, Room <- 1
Emulator == INSTANCE EmulatorSession WITH MaxSessions <- 2, MaxRecordings <- 2, MaxMessages <- 2
Panel == INSTANCE TouchPanel WITH
  Points <- {0, 1}, Origin <- 0, Values <- {0, 2, 4}, MaxWidth <- 3, DefaultWidth <- 1, StartupDelay <- 2
Mailbox == INSTANCE InputMailbox WITH
  app <- host, lock <- mutex, qemu <- machine, Controls <- {"touch"}, Touch <- "touch", Points <- {0},
  MinimumPress <- 3, FrameInterval <- 2, FramePeriod <- 2, MaxUpdates <- 2, MaxSessions <- 1

ASSUME LivenessAssumption ==
  /\ Att!AttAssumption /\ Bridge!BridgeAssumption /\ Emulator!SessionAssumption /\ Mailbox!MailboxAssumption

AllInit ==
  /\ component \in {"process", "att", "bridge", "emulator", "touch", "mailbox"}
  /\ Init /\ Att!Init /\ Bridge!Init /\ Emulator!Init /\ Panel!Init /\ Mailbox!Init

ProcessStep == component = "process" /\ Next /\ UNCHANGED <<component, att, bridge, emulator, chip, mailbox>>
AttStep == component = "att" /\ Att!Next /\ UNCHANGED <<component, vars, bridge, emulator, chip, mailbox>>
BridgeStep == component = "bridge" /\ Bridge!Next /\ UNCHANGED <<component, vars, att, emulator, chip, mailbox>>
EmulatorStep == component = "emulator" /\ Emulator!Next /\ UNCHANGED <<component, vars, att, bridge, chip, mailbox>>
TouchStep == component = "touch" /\ Panel!Next /\ UNCHANGED <<component, vars, att, bridge, emulator, mailbox>>
MailboxStep == component = "mailbox" /\ Mailbox!Next /\ UNCHANGED <<component, vars, att, bridge, emulator, chip>>

AllNext == ProcessStep \/ AttStep \/ BridgeStep \/ EmulatorStep \/ TouchStep \/ MailboxStep

\* What each module's LiveSpec assumes, in the behaviours that are the component's own.
ProcessFairness ==
  /\ WF_vars(component = "process" /\ StopPolls) /\ WF_vars(component = "process" /\ StopKills)
  /\ WF_vars(component = "process" /\ StopReaps) /\ WF_vars(component = "process" /\ StopCloses)
AttFairness == WF_att(component = "att" /\ Att!TimesOut)
BridgeFairness ==
  /\ WF_bridge(component = "bridge" /\ \E o \in radio.adding : Bridge!DidAddService(o, "none"))
  /\ WF_bridge(component = "bridge" /\ Bridge!ReadyToUpdateSubscribers)
  /\ WF_bridge(component = "bridge" /\ Bridge!PeerConnects) /\ WF_bridge(component = "bridge" /\ Bridge!PeerConnected)
  /\ WF_bridge(component = "bridge" /\ Bridge!PeerDisconnected /\ peer.closing)
  /\ WF_bridge(component = "bridge" /\ Bridge!PeerReady) /\ WF_bridge(component = "bridge" /\ Bridge!DeadlinePasses)
  /\ WF_bridge(component = "bridge" /\ (Bridge!PeerAnswers(TRUE) \/ Bridge!PeerAnswers(FALSE)))
  /\ WF_bridge(component = "bridge" /\ Bridge!GuestAdvertises(TRUE, FALSE))
EmulatorFairness ==
  /\ WF_emulator(component = "emulator" /\ \E stop \in Emulator!Stops : Emulator!StartTimesOut(stop))
  /\ WF_emulator(component = "emulator" /\ Emulator!PollStopping(TRUE))
  /\ WF_emulator(component = "emulator" /\ Emulator!PollFinished) /\ WF_emulator(component = "emulator" /\ Emulator!Leave)
  /\ WF_emulator(component = "emulator" /\ (Emulator!WorkerFinishes("saved") \/ Emulator!WorkerFinishes("failed")))
TouchFairness ==
  /\ WF_chip(component = "touch" /\ Panel!Elapse) /\ WF_chip(component = "touch" /\ Panel!ReleaseIrq)
  /\ WF_chip(component = "touch" /\ Panel!Tick)
MailboxFairness ==
  /\ WF_mailbox(component = "mailbox" /\ (Mailbox!Sample \/ Mailbox!AppLocks \/ Mailbox!AppWrites
                                           \/ Mailbox!AppReads \/ Mailbox!AppUnlocks))
  /\ WF_mailbox(component = "mailbox" /\ (Mailbox!TickLocks \/ Mailbox!TickReads \/ Mailbox!TickWrites
                                           \/ Mailbox!TickUnlocks \/ Mailbox!TickDelivers))
  /\ WF_mailbox(component = "mailbox" /\ Mailbox!Elapse)

AllSpec ==
  /\ AllInit /\ [][AllNext]_all /\ ProcessFairness /\ AttFairness /\ BridgeFairness /\ EmulatorFairness
  /\ TouchFairness /\ MailboxFairness

-----------------------------------------------------------------------------
(* QemuProcess!StopReturns and EmulatorSession!SessionEnds: what was asked to *)
(* stop does, with QEMU gone and the recording concluded.                     *)
ProcessesEnd == StopReturns /\ Emulator!SessionEnds

(* AttClient!Completed and PeripheralBridge!RequestsAnswered: no request of a *)
(* client is left without an answer.                                          *)
RequestsEnd == Att!Completed /\ Bridge!RequestsAnswered

(* TouchPanel!LineRises and TouchReported, and InputMailbox!PictureShown: the *)
(* finger reaches the guest and the picture reaches the window.               *)
DevicesReport == Panel!LineRises /\ Panel!TouchReported /\ (component = "mailbox" => Mailbox!PictureShown)
=============================================================================
