--------------------------- MODULE BleController ---------------------------
(***************************************************************************)
(* The emulated ESP32-S3 BLE controller (qemu/esp32s3/bluetooth).  Guest   *)
(* firmware calls the controller API; QEMU intercepts each call and runs   *)
(* BleController::step.  A guest worker task polls the controller, which   *)
(* delivers HCI events to the guest's Bluetooth host through callbacks.    *)
(*                                                                         *)
(* Three kinds of guest code interleave between controller steps:          *)
(*   - the API task:    Init, Enable, Register, Disable, Deinit;           *)
(*   - the worker task: start, delay, the receive and ready callbacks;     *)
(*   - the host stack:  HCI commands and ACL packets through HleSend.      *)
(* One controller step is atomic: the emulator insists on a single TCG     *)
(* thread.  A poll is one step; it is split below into one action per peer *)
(* message and a final one, and while the worker is at "poll" no guest     *)
(* code runs.                                                              *)
(*                                                                         *)
(* The peer at the other end of the socket is an arbitrary environment     *)
(* here; messages the controller rejects change none of this state.        *)
(***************************************************************************)
EXTENDS Integers, Sequences, FiniteSets

CONSTANTS
  PollLimit,      \* peer messages are read while fewer events are queued (24)
  EventCapacity,  \* queueEvent fails at this many queued events (64)
  AclCredits,     \* ACL buffers announced by LE Read Buffer Size (12)
  MaxFragments,   \* ACL fragments of the largest L2CAP packet (5 of 251 bytes)
  MaxHandle,      \* connection handles are 1..MaxHandle, then wrap (0xEFF)
  Keys, NoKey,    \* long-term keys, and the absence of one
  AdvTypes        \* advertising types the host uses; only 0 is connectable

ASSUME ConstantsAssumption ==
  /\ PollLimit \in Nat \ {0}
  /\ EventCapacity \in Nat \ {0}
  /\ MaxFragments \in Nat \ {0}
  /\ AclCredits \in Nat
  /\ MaxHandle \in Nat /\ MaxHandle >= 2
  /\ NoKey \notin Keys
  /\ AdvTypes \subseteq 0..4

(* The queue has room for what one poll and the host can add to it: 43     *)
(* events of the 64 with the numbers of the code.                          *)
ASSUME QueueAssumption ==
  /\ PollLimit + MaxFragments >= 3
  /\ EventCapacity >= PollLimit + MaxFragments + AclCredits + 2

VARIABLES
  \* Guest controller lifecycle.
  status,         \* _status: 0 idle, 1 initialised, 2 enabled
  api,            \* the OSI call an Init or Deinit in progress is waiting for
  initFailed,     \* _initFailed
  workspace,      \* _workspace # 0
  semaphore,      \* _semaphore # 0
  heap,           \* guest objects that exist: subset of GuestObjects
  worker,         \* where the worker task is; "none" when there is no task
  \* VHCI delivery.
  callbacks,      \* _receiveCallback and _readyCallback are registered
  sendAvailable, readyPending, commandPending,
  inFlight,       \* _receiveInFlight
  cancelled,      \* _receiveCancelled
  events,         \* _events
  packet,         \* the event copied into the guest workspace
  \* The software link.
  fd,             \* the peer socket: "unopened", "open" or "closed"
  connection,     \* _connection, 0 when there is none
  nextHandle,     \* static nextConnectionHandle
  encrypted, pendingKey,
  assembly,       \* fragments the outbound SDU in _aclAssembly still misses
  completedAcl,
  advertising, advType, mask,
  \* The guest's host stack (external), as far as it must be compliant.
  hostConn,       \* the handle it believes connected
  hostEncrypted,  \* it has been told that hostConn is encrypted
  hostRest,       \* fragments of its current SDU it has yet to send
  outstanding,    \* ACL packets sent on hostConn and not yet completed
  hostCommand,    \* its outstanding HCI command, or "none"
  taken,          \* it has accepted the packet being delivered
  accepted,       \* the last event it accepted
  aborted         \* fail() was called: the emulator has stopped

lifecycle == <<status, api, initFailed, workspace, semaphore, heap>>
vhci == <<callbacks, sendAvailable, readyPending, commandPending, inFlight, cancelled, events, packet>>
link == <<connection, encrypted, pendingKey, assembly, completedAcl>>
radio == <<advertising, advType, mask>>
socket == <<fd, nextHandle>>
hostLink == <<hostConn, hostEncrypted, hostRest, outstanding>>
host == <<hostLink, hostCommand, taken, accepted>>
vars == <<lifecycle, worker, vhci, link, radio, socket, host, aborted>>

GuestObjects == {"workspace", "semaphore"}
ApiStates == {"idle", "malloc", "semCreate", "taskCreate", "taskCreated",
              "taskDelete", "taskDeleted", "semDelete", "free", "freeFailed"}
WorkerStates == {"none", "start", "poll", "delay", "receive", "ready"}
EventTypes == {"Answer", "Connected", "Disconnected", "Acl", "KeyRequest",
               "Encryption", "Info", "Completed"}
Commands == {"reset", "mask", "advertise", "disconnect", "encrypt", "other"}

(* A queued HCI event: the connection handle it names (0 for none) and a   *)
(* value: credits returned, whether encryption is on, first fragment.      *)
Event == [type : EventTypes, handle : Nat, value : Nat]
Ev(t, h, v) == [type |-> t, handle |-> h, value |-> v]
NoEvent == Ev("Info", 0, 0)

Init ==
  /\ status = 0 /\ api = "idle" /\ initFailed = FALSE
  /\ workspace = FALSE /\ semaphore = FALSE /\ heap = {} /\ worker = "none"
  /\ callbacks = FALSE /\ sendAvailable = TRUE
  /\ readyPending = FALSE /\ commandPending = FALSE
  /\ inFlight = FALSE /\ cancelled = FALSE /\ events = <<>> /\ packet = NoEvent
  /\ fd = "unopened" /\ connection = 0 /\ nextHandle = 0
  /\ encrypted = FALSE /\ pendingKey = NoKey /\ assembly = 0 /\ completedAcl = 0
  /\ advertising = FALSE /\ advType = 0 /\ mask = {}
  /\ hostConn = 0 /\ hostEncrypted = FALSE /\ hostRest = 0 /\ outstanding = 0
  /\ hostCommand = "none" /\ taken = FALSE /\ accepted = NoEvent
  /\ aborted = FALSE

(* `*this = {}`: every member back to its initialiser.  The two statics,   *)
(* nextGeneration and nextConnectionHandle, survive.                       *)
Fresh ==
  /\ status' = 0 /\ initFailed' = FALSE /\ workspace' = FALSE /\ semaphore' = FALSE
  /\ callbacks' = FALSE /\ sendAvailable' = TRUE
  /\ readyPending' = FALSE /\ commandPending' = FALSE
  /\ inFlight' = FALSE /\ cancelled' = FALSE /\ events' = <<>>
  /\ fd' = "unopened" /\ connection' = 0 /\ encrypted' = FALSE
  /\ pendingKey' = NoKey /\ assembly' = 0 /\ completedAcl' = 0
  /\ advertising' = FALSE /\ advType' = 0 /\ mask' = {}

(* The host stack is down: it has no connection and nothing outstanding.   *)
HostDown ==
  /\ hostConn' = 0 /\ hostEncrypted' = FALSE /\ hostRest' = 0 /\ outstanding' = 0
  /\ hostCommand' = "none"

GuestRuns == worker # "poll"

-----------------------------------------------------------------------------
(* Event queue, disconnection and HCI reset.                               *)

(* Mutant: a full poll budget drops events.                                *)
queueEventOrDrop(e) == IF "Event" \in mask /\ Len(events) < PollLimit THEN <<e>> ELSE <<>>

queueEvent(e) == IF "Event" \in mask THEN <<e>> ELSE <<>>

queueLeEvent(e) == IF "LeEvent" \in mask THEN queueEvent(e) ELSE <<>>

Overflows(produced) == produced # <<>> /\ Len(events) >= EventCapacity

(* Mutant: the host is not told.                                           *)
SilentDisconnect == <<>>

DisconnectEvent ==
  IF connection = 0 THEN <<>> ELSE queueEvent(Ev("Disconnected", connection, 0))

(* Mutant: credits of the old link are reported later.                     *)
disconnectKeepsCredits ==
  IF connection = 0 THEN UNCHANGED link
  ELSE /\ connection' = 0 /\ encrypted' = FALSE /\ pendingKey' = NoKey
       /\ assembly' = 0 /\ UNCHANGED completedAcl

(* Mutant: the pending key is forgotten by nobody.                         *)
disconnectKeepsKey ==
  IF connection = 0 THEN UNCHANGED link
  ELSE /\ connection' = 0 /\ encrypted' = FALSE /\ UNCHANGED pendingKey
       /\ assembly' = 0 /\ completedAcl' = 0

disconnect ==
  IF connection = 0 THEN UNCHANGED link
  ELSE /\ connection' = 0 /\ encrypted' = FALSE /\ pendingKey' = NoKey
       /\ assembly' = 0 /\ completedAcl' = 0

(* Mutant: advertising goes on.                                            *)
resetHciKeepsAdvertising ==
  /\ disconnect
  /\ mask' = {} /\ UNCHANGED advertising /\ advType' = 0

resetHci ==
  /\ disconnect
  /\ mask' = {} /\ advertising' = FALSE /\ advType' = 0

-----------------------------------------------------------------------------
(* The API task.  The SDK wrapper serialises the calls of one lifecycle    *)
(* (external), hence api = "idle"; an OSI call runs guest code, so other   *)
(* tasks run between the call and its continuation.                        *)

HleInit ==
  /\ GuestRuns /\ api = "idle" /\ status = 0 /\ ~workspace
  /\ api' = "malloc"
  /\ UNCHANGED <<status, initFailed, workspace, semaphore, heap, worker, vhci, link, radio, socket, host, aborted>>

HleAllocated ==
  /\ GuestRuns /\ api = "malloc"
  /\ \E ok \in BOOLEAN :
       /\ workspace' = ok
       /\ heap' = IF ok THEN heap \cup {"workspace"} ELSE heap
       /\ api' = IF ok THEN "semCreate" ELSE "idle"
  /\ UNCHANGED <<status, initFailed, semaphore, worker, vhci, link, radio, socket, host, aborted>>

(* Mutant: the workspace is not freed.                                     *)
SemaphoreFailureLeaks ==
  /\ GuestRuns /\ api = "semCreate"
  /\ \E ok \in BOOLEAN :
       /\ semaphore' = ok
       /\ heap' = IF ok THEN heap \cup {"semaphore"} ELSE heap
       /\ api' = IF ok THEN "taskCreate" ELSE "idle"
  /\ UNCHANGED <<status, initFailed, workspace, worker, vhci, link, radio, socket, host, aborted>>

HleSemaphoreCreated ==
  /\ GuestRuns /\ api = "semCreate"
  /\ \E ok \in BOOLEAN :
       /\ semaphore' = ok
       /\ heap' = IF ok THEN heap \cup {"semaphore"} ELSE heap
       /\ api' = IF ok THEN "taskCreate" ELSE "freeFailed"
  /\ UNCHANGED <<status, initFailed, workspace, worker, vhci, link, radio, socket, host, aborted>>

(* External: the guest kernel creates the worker, which may run at once.   *)
OsiTaskCreate ==
  /\ GuestRuns /\ api = "taskCreate"
  /\ api' = "taskCreated"
  /\ worker' \in {"none", "start"}
  /\ UNCHANGED <<status, initFailed, workspace, semaphore, heap, vhci, link, radio, socket, host, aborted>>

HleTaskCreated ==
  /\ GuestRuns /\ api = "taskCreated"
  /\ IF worker = "none" THEN /\ initFailed' = TRUE /\ api' = "semDelete"
                             /\ UNCHANGED status
     ELSE /\ status' = 1 /\ api' = "idle" /\ UNCHANGED initFailed
  /\ UNCHANGED <<workspace, semaphore, heap, worker, vhci, link, radio, socket, host, aborted>>

HleEnable ==
  /\ GuestRuns /\ api = "idle" /\ status = 1
  /\ status' = 2
  /\ UNCHANGED <<api, initFailed, workspace, semaphore, heap, worker, vhci, link, radio, socket, host, aborted>>

HleRegister ==
  /\ GuestRuns /\ api = "idle" /\ status = 2
  /\ callbacks' = TRUE
  /\ UNCHANGED <<lifecycle, worker, sendAvailable, readyPending, commandPending, inFlight, cancelled, events, packet, link, radio, socket, host, aborted>>

(* Mutant: the packet in the callback is not remembered.                   *)
DropDelivery == cancelled' = FALSE

(* Keep the packet of a delivery in progress, but never pop another event  *)
(* for it when it returns.                                                 *)
CancelDelivery == cancelled' = inFlight

(* Mutant: only the ready callback is released.                            *)
ReleaseReadyOnly ==
  readyPending' = FALSE /\ UNCHANGED commandPending /\ sendAvailable' = TRUE

ReleaseSends ==
  readyPending' = FALSE /\ commandPending' = FALSE /\ sendAvailable' = TRUE

(* The caller has checked that the controller is enabled.  Called from     *)
(* inside, or preempting, the receive callback, it cancels the delivery.   *)
HleDisable ==
  /\ GuestRuns /\ api = "idle" /\ status = 2
  /\ status' = 1
  /\ resetHci
  /\ aborted' = Overflows(DisconnectEvent)
  /\ events' = <<>>
  /\ ReleaseSends
  /\ completedAcl' = 0
  /\ callbacks' = FALSE
  /\ CancelDelivery
  /\ HostDown
  /\ UNCHANGED <<api, initFailed, workspace, semaphore, heap, worker, inFlight, packet, socket, taken, accepted>>

(* Mutant: the task outlives its resources.                                *)
DeinitSkipsTask ==
  /\ GuestRuns /\ api = "idle" /\ status = 1
  /\ api' = "semDelete"
  /\ UNCHANGED <<status, initFailed, workspace, semaphore, heap, worker, vhci, link, radio, socket, host, aborted>>

HleDeinit ==
  /\ GuestRuns /\ api = "idle" /\ status = 1
  /\ api' = "taskDelete"
  /\ UNCHANGED <<status, initFailed, workspace, semaphore, heap, worker, vhci, link, radio, socket, host, aborted>>

(* External: the guest kernel deletes the worker wherever it is.           *)
OsiTaskDelete ==
  /\ GuestRuns /\ api = "taskDelete"
  /\ api' = "taskDeleted"
  /\ worker' = "none"
  /\ UNCHANGED <<status, initFailed, workspace, semaphore, heap, vhci, link, radio, socket, host, aborted>>

HleTaskDeleted ==
  /\ GuestRuns /\ api = "taskDeleted"
  /\ api' = "semDelete"
  /\ UNCHANGED <<status, initFailed, workspace, semaphore, heap, worker, vhci, link, radio, socket, host, aborted>>

HleSemaphoreDeleted ==
  /\ GuestRuns /\ api = "semDelete"
  /\ heap' = heap \ {"semaphore"}
  /\ semaphore' = FALSE
  /\ api' = IF initFailed THEN "freeFailed" ELSE "free"
  /\ UNCHANGED <<status, initFailed, workspace, worker, vhci, link, radio, socket, host, aborted>>

(* HleFreed, and HleTaskCreateFailed after a failed Init.                  *)
HleFreed ==
  /\ GuestRuns /\ api \in {"free", "freeFailed"}
  /\ heap' = heap \ {"workspace"}
  /\ api' = "idle"
  /\ Fresh
  /\ UNCHANGED <<worker, packet, nextHandle, host, aborted>>

(* bleHleReset: the machine restarts in the same process.                  *)
bleHleReset ==
  /\ GuestRuns
  /\ api' = "idle" /\ heap' = {} /\ worker' = "none"
  /\ Fresh /\ HostDown
  /\ taken' = FALSE
  /\ UNCHANGED <<packet, nextHandle, accepted, aborted>>

-----------------------------------------------------------------------------
(* The worker task: HleTaskPoll, the continuations and poll().             *)

(* `pollPeer` opens the socket once per controller object.                 *)
StartPoll ==
  /\ worker' = "poll"
  /\ IF fd = "unopened" THEN fd' \in {"open", "closed"} ELSE UNCHANGED fd

WorkerStarts ==
  /\ worker \in {"start", "delay", "ready"}
  /\ StartPoll
  /\ UNCHANGED <<lifecycle, vhci, link, radio, nextHandle, host, aborted>>

(* Mutant: a cancelled delivery pops too.                                  *)
ReturnPopsAlways ==
  /\ worker = "receive"
  /\ inFlight' = FALSE /\ cancelled' = FALSE /\ taken' = FALSE
  /\ \/ /\ cancelled
        /\ StartPoll /\ UNCHANGED events
     \/ /\ ~cancelled
        /\ StartPoll /\ events' = Tail(events)
  /\ UNCHANGED <<lifecycle, callbacks, sendAvailable, readyPending, commandPending, packet, link, radio, nextHandle, hostLink, hostCommand, accepted, aborted>>

(* The receive callback returns: a cancelled delivery pops nothing, one    *)
(* the host refused is kept and retried after a delay.                     *)
HleReceiveReturned ==
  /\ worker = "receive"
  /\ inFlight' = FALSE /\ cancelled' = FALSE /\ taken' = FALSE
  /\ \/ /\ cancelled
        /\ StartPoll /\ UNCHANGED events
     \/ /\ ~cancelled /\ ~taken
        /\ worker' = "delay" /\ UNCHANGED <<fd, events>>
     \/ /\ ~cancelled /\ taken
        /\ StartPoll /\ events' = Tail(events)
  /\ UNCHANGED <<lifecycle, callbacks, sendAvailable, readyPending, commandPending, packet, link, radio, nextHandle, hostLink, hostCommand, accepted, aborted>>

(* The peer's end of the socket closes, or a send to it fails.             *)
SocketLost ==
  /\ fd = "open"
  /\ fd' = "closed"
  /\ UNCHANGED <<lifecycle, worker, vhci, link, radio, nextHandle, host, aborted>>

(* Mutant: the queue does not stop the reader.                             *)
PollReadsAll == worker = "poll" /\ fd = "open"

(* pollPeer reads the next peer message only while few events are queued.  *)
PollReads == worker = "poll" /\ fd = "open" /\ Len(events) < PollLimit

(* Mutant: handles wrap to the value for no connection.                    *)
NextHandleToZero(h) == (h + 1) % (MaxHandle + 1)

NextHandle(h) == IF h = MaxHandle THEN 1 ELSE h + 1

PeerConnect ==
  /\ PollReads
  /\ connection = 0 /\ advertising /\ status = 2 /\ advType = 0
  /\ connection' = NextHandle(nextHandle) /\ nextHandle' = NextHandle(nextHandle)
  /\ advertising' = FALSE
  /\ encrypted' = FALSE /\ assembly' = 0 /\ pendingKey' = NoKey
  /\ LET produced == queueLeEvent(Ev("Connected", connection', 0))
     IN  events' = events \o produced /\ aborted' = Overflows(produced)
  /\ UNCHANGED <<lifecycle, worker, callbacks, sendAvailable, readyPending, commandPending, inFlight, cancelled, packet, completedAcl, advType, mask, fd, host>>

PeerDisconnect ==
  /\ PollReads /\ connection # 0
  /\ disconnect
  /\ events' = events \o DisconnectEvent /\ aborted' = Overflows(DisconnectEvent)
  /\ UNCHANGED <<lifecycle, worker, callbacks, sendAvailable, readyPending, commandPending, inFlight, cancelled, packet, radio, socket, host>>

(* receiveL2cap pushes one ACL event per fragment, without queueEvent.     *)
PeerL2cap ==
  /\ PollReads /\ connection # 0
  /\ \E n \in 1..MaxFragments :
       events' = events \o [i \in 1..n |-> Ev("Acl", connection, IF i = 1 THEN 1 ELSE 0)]
  /\ UNCHANGED <<lifecycle, worker, callbacks, sendAvailable, readyPending, commandPending, inFlight, cancelled, packet, link, radio, socket, host, aborted>>

(* Mutant: an encrypted link is keyed again.                               *)
EncryptAllowedUnlessPending == pendingKey = NoKey

EncryptAllowed == pendingKey = NoKey /\ ~encrypted

PeerEncrypt ==
  /\ PollReads /\ connection # 0
  /\ EncryptAllowed
  /\ pendingKey' \in Keys
  /\ LET produced == queueLeEvent(Ev("KeyRequest", connection, 0))
     IN  events' = events \o produced /\ aborted' = Overflows(produced)
  /\ UNCHANGED <<lifecycle, worker, callbacks, sendAvailable, readyPending, commandPending, inFlight, cancelled, packet, connection, encrypted, assembly, completedAcl, radio, socket, host>>

-----------------------------------------------------------------------------
(* The end of a poll: the link of a lost socket is dropped first, then the *)
(* worker is sent on with one callback, or to wait on the semaphore.       *)

LinkLost == connection # 0 /\ fd # "open"

PollLinkLost ==
  /\ worker = "poll" /\ LinkLost
  /\ disconnect
  /\ events' = events \o DisconnectEvent /\ aborted' = Overflows(DisconnectEvent)
  /\ UNCHANGED <<lifecycle, worker, callbacks, sendAvailable, readyPending, commandPending, inFlight, cancelled, packet, radio, socket, host>>

Session == status = 2 /\ callbacks

PollUnregistered ==
  /\ worker = "poll" /\ ~LinkLost /\ ~Session
  /\ worker' = "delay"
  /\ UNCHANGED <<lifecycle, vhci, link, radio, socket, host, aborted>>

(* Mutant: readiness is announced again.                                   *)
KeepReady == UNCHANGED readyPending

ClearReady == readyPending' = FALSE

PollReady ==
  /\ worker = "poll" /\ ~LinkLost /\ Session /\ readyPending
  /\ ClearReady /\ sendAvailable' = TRUE
  /\ worker' = "ready"
  /\ UNCHANGED <<lifecycle, callbacks, commandPending, inFlight, cancelled, events, packet, link, radio, socket, host, aborted>>

(* The event that returns the ACL credits collected since the last one.    *)
CompletedEvent ==
  IF completedAcl = 0 THEN <<>> ELSE <<Ev("Completed", connection, completedAcl)>>

(* Mutant: credits are reported again.                                     *)
KeepCompleted == UNCHANGED completedAcl

ResetCompleted == completedAcl' = 0

PollDeliver ==
  /\ worker = "poll" /\ ~LinkLost /\ Session /\ ~readyPending
  /\ ResetCompleted
  /\ events' = events \o CompletedEvent /\ aborted' = Overflows(CompletedEvent)
  /\ events' # <<>>
  /\ packet' = Head(events')
  /\ commandPending' = (commandPending /\ packet'.type # "Answer")
  /\ inFlight' = TRUE /\ taken' = FALSE
  /\ worker' = "receive"
  /\ UNCHANGED <<lifecycle, callbacks, sendAvailable, readyPending, cancelled, connection, encrypted, pendingKey, assembly, radio, socket, hostLink, hostCommand, accepted>>

PollEmpty ==
  /\ worker = "poll" /\ ~LinkLost /\ Session /\ ~readyPending
  /\ completedAcl = 0 /\ events = <<>>
  /\ worker' = "delay"
  /\ UNCHANGED <<lifecycle, vhci, link, radio, socket, host, aborted>>

-----------------------------------------------------------------------------
(* The host stack (external): it accepts a delivered packet, keeps one HCI *)
(* command and at most AclCredits packets outstanding, and sends only when *)
(* HleAvailable says so.                                                   *)

HostOf(e) ==
  IF hostCommand = "reset" /\ e.type # "Answer" THEN UNCHANGED <<hostLink, hostCommand>>
  ELSE
  CASE e.type = "Answer" -> hostCommand' = "none" /\ UNCHANGED hostLink
    [] e.type = "Connected" ->
         /\ hostConn' = e.handle /\ hostEncrypted' = FALSE /\ hostRest' = 0 /\ outstanding' = 0
         /\ UNCHANGED hostCommand
    [] e.type = "Disconnected" /\ e.handle = hostConn ->
         /\ hostConn' = 0 /\ hostEncrypted' = FALSE /\ hostRest' = 0 /\ outstanding' = 0
         /\ UNCHANGED hostCommand
    [] e.type = "Completed" /\ e.handle = hostConn ->
         /\ outstanding' = outstanding - e.value
         /\ UNCHANGED <<hostConn, hostEncrypted, hostRest, hostCommand>>
    [] e.type = "Encryption" /\ e.handle = hostConn ->
         /\ hostEncrypted' = (e.value = 1)
         /\ UNCHANGED <<hostConn, hostRest, outstanding, hostCommand>>
    [] OTHER -> UNCHANGED <<hostLink, hostCommand>>

(* Accepting is what makes the callback return 0.                          *)
HostTakes ==
  /\ worker = "receive" /\ ~cancelled /\ ~taken
  /\ taken' = TRUE /\ accepted' = packet
  /\ HostOf(packet)
  /\ UNCHANGED <<lifecycle, worker, vhci, link, radio, socket, aborted>>

HostMaySend == GuestRuns /\ Session /\ sendAvailable

(* BleController::send and completeCommand: the answer goes in front of    *)
(* the events the command itself produced.                                 *)
Command(op, produced) ==
  /\ HostMaySend /\ hostCommand = "none"
  /\ aborted' = (commandPending \/ Overflows(produced))
  /\ commandPending' = TRUE
  /\ events' = events \o <<Ev("Answer", 0, 0)>> \o produced
  /\ sendAvailable' = FALSE /\ readyPending' = TRUE
  /\ hostCommand' = op
  /\ UNCHANGED <<lifecycle, worker, callbacks, inFlight, cancelled, packet, socket, taken, accepted>>

HostReset ==
  /\ Command("reset", DisconnectEvent)
  /\ resetHci
  /\ hostConn' = 0 /\ hostEncrypted' = FALSE /\ hostRest' = 0 /\ outstanding' = 0

(* 0x0C01 and 0x2001 copy the mask; the host enables what it relies on.    *)
HostSetMask ==
  /\ Command("mask", <<>>)
  /\ \E m \in {"Event", "LeEvent"} : mask' = mask \cup {m}
  /\ UNCHANGED <<link, advertising, advType, hostLink>>

HostAdvertisingParameters ==
  /\ Command("advertise", <<>>)
  /\ IF advertising THEN UNCHANGED advType ELSE advType' \in AdvTypes
  /\ UNCHANGED <<link, advertising, mask, hostLink>>

(* 0x200A.  A host that has not set its masks would miss the connection;   *)
(* one refused for want of a random address is a HostQuery.                *)
HostAdvertise ==
  /\ Command("advertise", <<>>)
  /\ \E on \in BOOLEAN :
       /\ on => mask = {"Event", "LeEvent"}
       /\ advertising' = IF connection # 0 /\ on THEN advertising ELSE on
  /\ UNCHANGED <<link, advType, mask, hostLink>>

HostDisconnect ==
  /\ hostConn # 0
  /\ IF hostConn = connection
     THEN Command("disconnect", DisconnectEvent) /\ disconnect
     ELSE Command("disconnect", <<>>) /\ UNCHANGED link
  /\ UNCHANGED <<radio, hostLink>>

EncryptionEvent(on) == queueEvent(Ev("Encryption", connection, IF on THEN 1 ELSE 0))

finishEncryption(on) == pendingKey' = NoKey /\ encrypted' = on

(* 0x201A with a key, or 0x201B (NoKey), for the connection the host has.  *)
HostKeyReply ==
  /\ hostConn # 0
  /\ \E key \in Keys \cup {NoKey} :
       IF hostConn = connection /\ pendingKey # NoKey
       THEN /\ Command("encrypt", EncryptionEvent(key = pendingKey))
            /\ finishEncryption(key = pendingKey)
       ELSE Command("encrypt", <<>>) /\ UNCHANGED <<pendingKey, encrypted>>
  /\ UNCHANGED <<connection, assembly, completedAcl, radio, hostLink>>

(* The commands with an event of their own and no other effect here:       *)
(* 0x041D, 0x2013, 0x2016, 0x2022, 0x2032; and the ones without either.    *)
HostQuery ==
  /\ \/ Command("other", <<>>)
     \/ /\ hostConn # 0 /\ hostConn = connection
        /\ LET info == Ev("Info", connection, 0)
           IN  \E produced \in {queueEvent(info), queueLeEvent(info)} : Command("other", produced)
  /\ UNCHANGED <<link, radio, hostLink>>

-----------------------------------------------------------------------------
(* sendAcl: a packet for another handle is ignored and earns no credit.    *)

(* sdu: fragments from this packet to the end of its L2CAP SDU.            *)
sendAcl(sdu) ==
  IF connection = 0 \/ hostConn # connection
  THEN UNCHANGED <<assembly, completedAcl, aborted>>
  ELSE /\ assembly' = sdu - 1 /\ completedAcl' = completedAcl + 1
       /\ aborted' = ((hostRest = 0) # (assembly = 0) \/ completedAcl' > AclCredits)

HostSendAcl ==
  /\ HostMaySend /\ hostConn # 0 /\ outstanding < AclCredits /\ hostCommand # "reset"
  /\ \E sdu \in (IF hostRest = 0 THEN 1..MaxFragments ELSE {hostRest}) :
       sendAcl(sdu) /\ hostRest' = sdu - 1
  /\ outstanding' = outstanding + 1
  /\ sendAvailable' = FALSE /\ readyPending' = TRUE
  /\ UNCHANGED <<lifecycle, worker, callbacks, commandPending, inFlight, cancelled, events, packet, connection, encrypted, pendingKey, radio, socket, hostConn, hostEncrypted, hostCommand, taken, accepted>>

ApiStep ==
  \/ HleInit \/ HleAllocated \/ HleSemaphoreCreated \/ OsiTaskCreate \/ HleTaskCreated
  \/ HleEnable \/ HleRegister \/ HleDisable
  \/ HleDeinit \/ OsiTaskDelete \/ HleTaskDeleted \/ HleSemaphoreDeleted \/ HleFreed

WorkerStep ==
  \/ WorkerStarts \/ HleReceiveReturned \/ PollLinkLost
  \/ PollUnregistered \/ PollReady \/ PollDeliver \/ PollEmpty

PeerStep == PeerConnect \/ PeerDisconnect \/ PeerL2cap \/ PeerEncrypt \/ SocketLost

HostStep ==
  \/ HostTakes \/ HostReset \/ HostSetMask \/ HostAdvertisingParameters \/ HostAdvertise
  \/ HostDisconnect \/ HostKeyReply \/ HostQuery \/ HostSendAcl

Next == ~aborted /\ (ApiStep \/ WorkerStep \/ PeerStep \/ HostStep \/ bleHleReset)

Spec == Init /\ [][Next]_vars

(* The guest kernel schedules the worker, and callbacks return.  A host    *)
(* that keeps being offered a packet accepts it at some point.             *)
Fairness == WF_vars(~aborted /\ WorkerStep) /\ SF_vars(~aborted /\ HostTakes)

FairSpec == Spec /\ Fairness

-----------------------------------------------------------------------------
(* Properties.                                                             *)

(* Every variable stays in its type: handles and fragment counts within    *)
(* the bounds of the C++ code, the queue a sequence of HCI packets.        *)
FlagsOK ==
  /\ initFailed \in BOOLEAN /\ workspace \in BOOLEAN /\ semaphore \in BOOLEAN
  /\ callbacks \in BOOLEAN /\ sendAvailable \in BOOLEAN
  /\ readyPending \in BOOLEAN /\ commandPending \in BOOLEAN
  /\ inFlight \in BOOLEAN /\ cancelled \in BOOLEAN
  /\ encrypted \in BOOLEAN /\ advertising \in BOOLEAN
  /\ hostEncrypted \in BOOLEAN /\ taken \in BOOLEAN /\ aborted \in BOOLEAN

ValuesOK ==
  /\ status \in 0..2 /\ api \in ApiStates
  /\ heap \subseteq GuestObjects /\ worker \in WorkerStates
  /\ events \in Seq(Event) /\ packet \in Event
  /\ fd \in {"unopened", "open", "closed"}
  /\ connection \in 0..MaxHandle /\ nextHandle \in 0..MaxHandle
  /\ pendingKey \in Keys \cup {NoKey}
  /\ assembly \in 0..MaxFragments /\ completedAcl \in Nat
  /\ advType \in 0..4 /\ mask \subseteq {"Event", "LeEvent"}
  /\ hostConn \in Nat /\ hostRest \in 0..MaxFragments /\ outstanding \in Int
  /\ hostCommand \in Commands \cup {"none"} /\ accepted \in Event

TypeOK == FlagsOK /\ ValuesOK

(* A host that keeps the HCI rules never drives the controller into one of *)
(* its fail() exits: a second command, an ACL packet beyond the credits, a *)
(* broken SDU, or more events than the queue may hold.                     *)
NoAbort == ~aborted

(* While the guest's receive callback runs, the workspace holds the event  *)
(* at the head of the queue, unless Disable has cancelled the delivery; so *)
(* the pop on return removes the event the host saw and no other.          *)
DeliveryIntact ==
  /\ worker = "receive" => inFlight
  /\ inFlight /\ ~cancelled => Session /\ events # <<>> /\ Head(events) = packet

(* Encryption, a pending key, a half-assembled SDU and unreported credits  *)
(* belong to the live connection: none of them outlives it.                *)
NothingOutlivesLink ==
  connection = 0 => ~encrypted /\ pendingKey = NoKey /\ assembly = 0 /\ completedAcl = 0

(* The host never believes a live connection encrypted when it is not.     *)
EncryptionHonest ==
  hostEncrypted /\ hostConn = connection => encrypted

(* The events the host has yet to accept.                                  *)
Untaken ==
  IF inFlight /\ taken /\ ~cancelled THEN Tail(events) ELSE events

(* The credits of connection h in the events of q, one element for each.   *)
Credits(q, h) ==
  UNION {{i} \X (1..q[i].value) : i \in {j \in DOMAIN q : q[j].type = "Completed" /\ q[j].handle = h}}

(* ACL credits are conserved: on a live connection, the packets the host   *)
(* counts as outstanding are the ones the controller has yet to report     *)
(* plus the ones it has reported in events still queued.                   *)
CreditsConserved ==
  hostConn # 0 /\ hostConn = connection => outstanding = completedAcl + Cardinality(Credits(Untaken, hostConn))

(* The delivery machinery (head of the queue copied out, popped on return, *)
(* retried, cancelled) implements a FIFO channel per session: every event  *)
(* the host accepts is the oldest it has not accepted.                     *)
Channel == INSTANCE HciChannel WITH session <- Session, queue <- Untaken

ImplementsChannel == Channel!Spec

(* A host that believes in a connection the controller has dropped has the *)
(* Disconnection Complete event of that handle still to come.              *)
DisconnectQueued ==
  hostConn \notin {0, connection} =>
    \E i \in DOMAIN Untaken : Untaken[i].type = "Disconnected" /\ Untaken[i].handle = hostConn

(* No guest object is leaked: when no API call is in progress and the      *)
(* controller is idle, all have been freed and Init may run again.         *)
NoLeak == api = "idle" /\ status = 0 => heap = {} /\ worker = "none" /\ ~workspace

(* The worker waits on _semaphore and is handed packets in _workspace:     *)
(* both exist for as long as the worker does.                              *)
WorkerResources == worker # "none" => heap = GuestObjects /\ workspace /\ semaphore

(* What the host accepts about a connection, it accepts between that       *)
(* connection's Connection Complete and its Disconnection Complete.        *)
LinkEventsInOrder ==
  [][ (~taken /\ taken' /\ hostCommand # "reset"
         /\ packet.type \in {"Acl", "KeyRequest", "Encryption", "Info", "Completed"})
        => packet.handle = hostConn /\ hostConn # 0 ]_vars

(* The queue is bounded by what one poll may add, the host's credits and   *)
(* its one command: PollLimit - 1 events, one fragmented packet, a lost    *)
(* link, the credits in events of their own, an answer and its event.      *)
QueueBounded == Len(events) <= PollLimit + MaxFragments + AclCredits + 2

(* A host is told of a new connection only when it has none, under a       *)
(* handle that is not the value for none, however often handles wrap.      *)
OneConnection ==
  [][ (~taken /\ taken' /\ hostCommand # "reset" /\ packet.type = "Connected")
        => hostConn = 0 /\ packet.handle # 0 ]_vars

(* The three ways in which the host's picture of the link could differ     *)
(* from the controller's: what is left of an old link, the news of its     *)
(* end, and encryption.                                                    *)
HostBelief == NothingOutlivesLink /\ DisconnectQueued /\ EncryptionHonest

(* No fail() exit, and a queue within its bound.                           *)
WithinBounds == NoAbort /\ QueueBounded

(* What the host accepts, in the order of the life of one link at a time.  *)
LinkHistory == LinkEventsInOrder /\ OneConnection

(* Every HCI command is answered, or the session ends.                     *)
CommandAnswered == hostCommand # "none" ~> hostCommand = "none"

(* A host whose connection was dropped learns of it.                       *)
DropReported ==
  \A h \in 1..MaxHandle : (hostConn = h /\ connection # h) ~> hostConn # h

-----------------------------------------------------------------------------
(* The inductive invariant behind the theorems of BleControllerProofs.     *)

(* What exists in the guest at each point of an Init or a Deinit.          *)
ApiInv ==
  /\ api = "idle" /\ status = 0 => heap = {} /\ worker = "none" /\ ~workspace
  /\ api = "idle" /\ status # 0 => heap = GuestObjects /\ worker # "none" /\ workspace /\ semaphore
  /\ api \in {"malloc", "semCreate", "taskCreate", "taskCreated"} => status = 0
  /\ api = "malloc" => heap = {} /\ worker = "none" /\ ~workspace
  /\ api = "semCreate" => heap = {"workspace"} /\ worker = "none" /\ workspace
  /\ api \in {"taskCreate", "taskCreated", "taskDelete"} => heap = GuestObjects /\ workspace /\ semaphore
  /\ api = "taskCreate" => worker = "none"
  /\ api = "taskDelete" => status = 1 /\ worker # "none"
  /\ api \in {"taskDeleted", "semDelete"} => heap = GuestObjects /\ worker = "none"
  /\ api \in {"free", "freeFailed"} => heap = {"workspace"} /\ worker = "none"
  /\ api # "idle" => status \in {0, 1}

(* A delivery belongs to the worker's receive callback, and to a session   *)
(* that is still open unless it is marked cancelled.                       *)
DeliveryInv ==
  /\ worker = "receive" => inFlight
  /\ inFlight => worker \in {"receive", "none"} /\ status # 0
  /\ cancelled => inFlight
  /\ inFlight /\ ~cancelled => Session /\ events # <<>> /\ Head(events) = packet

(* Outside a session there is neither a link nor anything to deliver.      *)
SessionInv == ~Session => events = <<>> /\ connection = 0 /\ ~advertising

ControllerInv == TypeOK /\ ApiInv /\ DeliveryInv /\ SessionInv /\ NothingOutlivesLink

=============================================================================
