---------------------------- MODULE MCFrontend ----------------------------
(* The frontend's components for TLC, those of Frontend and the others, side  *)
(* by side: they share no state, and a behaviour is one of the component it   *)
(* begins with, the others staying as they began.  FlashSave is taken twice,  *)
(* with and without a QEMU that outlives its application.                     *)
EXTENDS Frontend, TLC

CONSTANTS OneService, BothServices, OneCentral, BothCentrals, NoCentral   \* of PeripheralBridge

VARIABLES
  component,
  guest, restored, chunks, published, receiving, buffer, catalog, phase, place, start, found,
  delegate, peer, radio, answers

gatt == <<guest, restored, chunks, published, receiving, buffer, catalog, phase, place, start, found>>
bridge == <<delegate, peer, radio, answers>>
all == <<component, vars, att, gatt, bridge, emulator, mailbox, console>>

Attribute(h, t) == [handle |-> h, type |-> t]
Characteristic(h) == <<Attribute(h, "characteristic"), Attribute(h + 1, "value")>>
Databases ==
  {<<>>,
   <<Attribute(1, "service")>>,
   <<Attribute(1, "service")>> \o Characteristic(2) \o <<Attribute(4, "cccd")>> \o Characteristic(5)
     \o <<Attribute(7, "cccd"), Attribute(8, "descriptor")>>,
   <<Attribute(1, "service")>> \o Characteristic(2) \o <<Attribute(4, "service"), Attribute(5, "include")>>
     \o Characteristic(6) \o <<Attribute(8, "cccd"), Attribute(9, "descriptor")>>,
   <<Attribute(2, "service")>> \o Characteristic(3)
     \o <<Attribute(5, "descriptor"), Attribute(6, "cccd"), Attribute(7, "service")>> \o Characteristic(8),
   <<Attribute(1, "service"), Attribute(2, "service")>> \o Characteristic(3) \o Characteristic(5)
     \o <<Attribute(7, "cccd"), Attribute(9, "service")>>,
   <<Attribute(1, "service"), Attribute(3, "service"), Attribute(5, "service"), Attribute(7, "service")>>,
   <<Attribute(1, "service"), Attribute(2, "cccd")>>}

Sealed == INSTANCE FlashSave WITH QemuSurvives <- FALSE
Gatt == INSTANCE GattDiscovery WITH
  at <- place, MaxHandle <- 9, ChunkSize <- 3, MaxServices <- 3, MaxCharacteristics <- 2, MaxDescriptors <- 2
Clients == INSTANCE PeripheralBridge WITH
  Services <- OneService, Advertised <- OneService, Centrals <- BothCentrals, MaxRequests <- 3,
  MaxPendingOperations <- 2, MaxPendingValues <- 2, MaxPendingRequests <- 2, Room <- 1
Publishing == INSTANCE PeripheralBridge WITH
  Services <- BothServices, Advertised <- OneService, Centrals <- OneCentral, MaxRequests <- 1,
  MaxPendingOperations <- 2, MaxPendingValues <- 2, MaxPendingRequests <- 2, Room <- 1

ASSUME ClientsAssumption ==
  /\ Gatt!DiscoveryAssumption /\ Clients!BridgeAssumption /\ Publishing!BridgeAssumption

AllInit ==
  /\ component \in {"sealed", "saves", "att", "gatt", "clients", "publishing", "emulator", "mailbox", "console"}
  /\ Init /\ Att!Init /\ Gatt!Init /\ Emulator!Init /\ Mailbox!Init /\ Console!Init
  /\ IF component = "clients" THEN Clients!Init ELSE Publishing!Init
  /\ component # "gatt" => guest = <<>>

SealedStep == component = "sealed" /\ Sealed!Next /\ UNCHANGED <<component, att, gatt, bridge, emulator, mailbox, console>>
SavesStep == component = "saves" /\ Next /\ UNCHANGED <<component, att, gatt, bridge, emulator, mailbox, console>>
AttStep == component = "att" /\ Att!Next /\ UNCHANGED <<component, vars, gatt, bridge, emulator, mailbox, console>>
GattStep == component = "gatt" /\ Gatt!Next /\ UNCHANGED <<component, vars, att, bridge, emulator, mailbox, console>>
ClientsStep == component = "clients" /\ Clients!Next /\ UNCHANGED <<component, vars, att, gatt, emulator, mailbox, console>>
PublishingStep == component = "publishing" /\ Publishing!Next /\ UNCHANGED <<component, vars, att, gatt, emulator, mailbox, console>>
EmulatorStep == component = "emulator" /\ Emulator!Next /\ UNCHANGED <<component, vars, att, gatt, bridge, mailbox, console>>
MailboxStep == component = "mailbox" /\ Mailbox!Next /\ UNCHANGED <<component, vars, att, gatt, bridge, emulator, console>>
ConsoleStep == component = "console" /\ Console!Next /\ UNCHANGED <<component, vars, att, gatt, bridge, emulator, mailbox>>

AllNext ==
  \/ ConsoleStep \/ SealedStep \/ SavesStep \/ AttStep \/ GattStep \/ ClientsStep \/ PublishingStep \/ EmulatorStep \/ MailboxStep

AllSpec == AllInit /\ [][AllNext]_all

-----------------------------------------------------------------------------
(* FlashSave!SealedSafety, of the runs in which no QEMU outlives its          *)
(* application: one writer for each save, and copies that are current.        *)
SealedSaves == component = "sealed" => Sealed!SealedSafety

(* GattDiscovery!DiscoverySafety: the two ways to the database agree.         *)
DiscoverySafety == component = "gatt" => Gatt!DiscoverySafety

(* PeripheralBridge!BridgeSafety: CoreBluetooth, delegate and peer in step.   *)
BridgeSafety ==
  /\ component = "clients" => Clients!BridgeSafety
  /\ component = "publishing" => Publishing!BridgeSafety

(* What a step may never do: change a save but for its guest or its user      *)
(* (FlashSave!SaveKept), ask the guest the same thing again, or close the     *)
(* bridge for a database that is not to blame (GattDiscovery!Advances and     *)
(* NoSpuriousFailure).                                                        *)
FrontendSteps == SaveKept /\ Gatt!Advances /\ Gatt!NoSpuriousFailure
=============================================================================
