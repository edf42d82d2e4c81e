------------------------ MODULE BleControllerProofs ------------------------
(* Theorems about BleController for every value of its constants.          *)
EXTENDS BleController, SequenceTheorems, FiniteSetTheorems, WellFoundedInduction, TLAPS

-----------------------------------------------------------------------------
(* The helpers that produce events return sequences of events.             *)

LEMMA EvType ==
  ASSUME NEW t \in EventTypes, NEW h \in Nat, NEW v \in Nat
  PROVE  Ev(t, h, v) \in Event
BY DEF Ev, Event

LEMMA QueueEventType ==
  ASSUME NEW e \in Event
  PROVE  queueEvent(e) \in Seq(Event) /\ queueLeEvent(e) \in Seq(Event)
BY DEF queueEvent, queueLeEvent

LEMMA DisconnectEventType ==
  ASSUME TypeOK
  PROVE  DisconnectEvent \in Seq(Event)
<1>1. connection \in Nat /\ "Disconnected" \in EventTypes
  BY ConstantsAssumption DEF TypeOK, ValuesOK, EventTypes
<1>2. queueEvent(Ev("Disconnected", connection, 0)) \in Seq(Event)
  BY <1>1, EvType, QueueEventType
<1> QED BY <1>2 DEF DisconnectEvent

LEMMA EncryptionEventType ==
  ASSUME TypeOK, NEW on \in BOOLEAN
  PROVE  EncryptionEvent(on) \in Seq(Event)
<1>1. connection \in Nat
  BY ConstantsAssumption DEF TypeOK, ValuesOK
<1>2. ASSUME NEW v \in {0, 1}
      PROVE  queueEvent(Ev("Encryption", connection, v)) \in Seq(Event)
  <2>1. v \in Nat /\ "Encryption" \in EventTypes
    BY <1>2 DEF EventTypes
  <2>2. Ev("Encryption", connection, v) \in Event
    BY <1>1, <2>1, EvType
  <2> QED BY <2>2, QueueEventType
<1>3. (IF on THEN 1 ELSE 0) \in {0, 1}
  OBVIOUS
<1> QED BY <1>2, <1>3 DEF EncryptionEvent

LEMMA NextHandleType ==
  ASSUME NEW h \in 0..MaxHandle
  PROVE  NextHandle(h) \in 1..MaxHandle
BY ConstantsAssumption DEF NextHandle

-----------------------------------------------------------------------------
(* Type correctness of the flags: every assignment is Boolean.             *)

LEMMA FlagsApi == ASSUME FlagsOK, ApiStep PROVE FlagsOK'
<1> USE DEF FlagsOK, lifecycle, vhci, link, radio, socket, host, hostLink
<1>1. CASE HleInit BY <1>1 DEF HleInit
<1>2. CASE HleAllocated BY <1>2 DEF HleAllocated
<1>3. CASE HleSemaphoreCreated BY <1>3 DEF HleSemaphoreCreated
<1>4. CASE OsiTaskCreate BY <1>4 DEF OsiTaskCreate
<1>5. CASE HleTaskCreated
  <2>1. initFailed' \in BOOLEAN
    BY <1>5 DEF HleTaskCreated
  <2>2. UNCHANGED <<workspace, semaphore, vhci, link, radio, host, aborted>>
    BY <1>5 DEF HleTaskCreated
  <2> QED BY <2>1, <2>2
<1>6. CASE HleEnable BY <1>6 DEF HleEnable
<1>7. CASE HleRegister BY <1>7 DEF HleRegister
<1>8. CASE HleDisable
  BY <1>8 DEF HleDisable, ReleaseSends, resetHci, disconnect, CancelDelivery, HostDown, Overflows
<1>9. CASE HleDeinit BY <1>9 DEF HleDeinit
<1>10. CASE OsiTaskDelete BY <1>10 DEF OsiTaskDelete
<1>11. CASE HleTaskDeleted BY <1>11 DEF HleTaskDeleted
<1>12. CASE HleSemaphoreDeleted
  <2>1. semaphore' \in BOOLEAN
    BY <1>12 DEF HleSemaphoreDeleted
  <2>2. UNCHANGED <<initFailed, workspace, vhci, link, radio, host, aborted>>
    BY <1>12 DEF HleSemaphoreDeleted
  <2> QED BY <2>1, <2>2
<1>13. CASE HleFreed BY <1>13 DEF HleFreed, Fresh
<1> QED
  BY <1>1, <1>2, <1>3, <1>4, <1>5, <1>6, <1>7, <1>8, <1>9, <1>10, <1>11, <1>12, <1>13
  DEF ApiStep

LEMMA FlagsWorker == ASSUME FlagsOK, WorkerStep PROVE FlagsOK'
<1> USE DEF FlagsOK, lifecycle, vhci, link, radio, socket, host, hostLink
<1>1. CASE WorkerStarts BY <1>1 DEF WorkerStarts
<1>2. CASE HleReceiveReturned BY <1>2 DEF HleReceiveReturned
<1>3. CASE PollLinkLost
  <2>1. aborted' \in BOOLEAN
    BY <1>3 DEF PollLinkLost, Overflows
  <2>2. encrypted' \in BOOLEAN
    BY <1>3 DEF PollLinkLost, disconnect
  <2> QED BY <1>3, <2>1, <2>2 DEF PollLinkLost
<1>4. CASE PollUnregistered BY <1>4 DEF PollUnregistered
<1>5. CASE PollReady BY <1>5 DEF PollReady, ClearReady
<1>6. CASE PollDeliver BY <1>6 DEF PollDeliver, Overflows
<1>7. CASE PollEmpty BY <1>7 DEF PollEmpty
<1> QED
  BY <1>1, <1>2, <1>3, <1>4, <1>5, <1>6, <1>7 DEF WorkerStep

LEMMA FlagsPeer == ASSUME FlagsOK, PeerStep PROVE FlagsOK'
<1> USE DEF FlagsOK, lifecycle, vhci, link, radio, socket, host, hostLink
<1>1. CASE PeerConnect BY <1>1 DEF PeerConnect, Overflows
<1>2. CASE PeerDisconnect BY <1>2 DEF PeerDisconnect, disconnect, Overflows
<1>3. CASE PeerL2cap BY <1>3 DEF PeerL2cap
<1>4. CASE PeerEncrypt BY <1>4 DEF PeerEncrypt, Overflows
<1>5. CASE SocketLost BY <1>5 DEF SocketLost
<1> QED
  BY <1>1, <1>2, <1>3, <1>4, <1>5 DEF PeerStep

LEMMA FlagsHost == ASSUME FlagsOK, HostStep PROVE FlagsOK'
<1> USE DEF FlagsOK, lifecycle, vhci, link, radio, socket, host, hostLink
<1>1. CASE HostTakes
  <2>1. hostEncrypted' \in BOOLEAN
    BY <1>1 DEF HostTakes, HostOf
  <2> QED BY <1>1, <2>1 DEF HostTakes
<1>2. CASE HostReset BY <1>2 DEF HostReset, Command, Overflows, resetHci, disconnect
<1>3. CASE HostSetMask BY <1>3 DEF HostSetMask, Command, Overflows
<1>4. CASE HostAdvertisingParameters
  BY <1>4 DEF HostAdvertisingParameters, Command, Overflows
<1>5. CASE HostAdvertise BY <1>5 DEF HostAdvertise, Command, Overflows
<1>6. CASE HostDisconnect BY <1>6 DEF HostDisconnect, Command, Overflows, disconnect
<1>7. CASE HostKeyReply
  <2>1. PICK op, produced : Command(op, produced)
    BY <1>7 DEF HostKeyReply
  <2>2. encrypted' \in BOOLEAN
    BY <1>7 DEF HostKeyReply, finishEncryption
  <2>3. UNCHANGED <<radio, hostLink>>
    BY <1>7 DEF HostKeyReply
  <2> QED BY <2>1, <2>2, <2>3 DEF Command, Overflows
<1>8. CASE HostQuery
  <2>1. PICK op, produced : Command(op, produced)
    BY <1>8 DEF HostQuery
  <2>2. UNCHANGED <<link, radio, hostLink>>
    BY <1>8 DEF HostQuery
  <2> QED BY <2>1, <2>2 DEF Command, Overflows
<1>9. CASE HostSendAcl BY <1>9, ZenonT(40) DEF HostSendAcl, sendAcl
<1> QED
  BY <1>1, <1>2, <1>3, <1>4, <1>5, <1>6, <1>7, <1>8, <1>9 DEF HostStep

LEMMA FlagsNext == ASSUME FlagsOK, [Next]_vars PROVE FlagsOK'
<1>1. CASE bleHleReset
  BY <1>1 DEF bleHleReset, Fresh, HostDown, FlagsOK
<1>2. CASE UNCHANGED vars
  BY <1>2 DEF vars, FlagsOK, lifecycle, vhci, link, radio, socket, host, hostLink
<1> QED
  BY <1>1, <1>2, FlagsApi, FlagsWorker, FlagsPeer, FlagsHost DEF Next

-----------------------------------------------------------------------------
(* Type correctness of the other variables.                                *)

LEMMA TypeInit == Init => TypeOK
<1> SUFFICES ASSUME Init PROVE TypeOK
  OBVIOUS
<1>1. NoEvent \in Event
  BY EvType DEF NoEvent, EventTypes
<1>2. FlagsOK
  BY DEF Init, FlagsOK
<1>3. ValuesOK
  BY <1>1, ConstantsAssumption DEF Init, ValuesOK, ApiStates, WorkerStates
<1> QED BY <1>2, <1>3 DEF TypeOK

LEMMA ValuesApi == ASSUME ValuesOK, ApiStep PROVE ValuesOK'
<1> USE DEF ValuesOK, ApiStates, WorkerStates, GuestObjects, lifecycle, vhci, link, radio, socket, host, hostLink
<1>1. CASE HleInit BY <1>1 DEF HleInit
<1>2. CASE HleAllocated BY <1>2 DEF HleAllocated
<1>3. CASE HleSemaphoreCreated BY <1>3 DEF HleSemaphoreCreated
<1>4. CASE OsiTaskCreate BY <1>4 DEF OsiTaskCreate
<1>5. CASE HleTaskCreated BY <1>5 DEF HleTaskCreated
<1>6. CASE HleEnable BY <1>6 DEF HleEnable
<1>7. CASE HleRegister BY <1>7 DEF HleRegister
<1>8. CASE HleDisable
  BY <1>8, ConstantsAssumption DEF HleDisable, resetHci, disconnect, HostDown
<1>9. CASE HleDeinit BY <1>9 DEF HleDeinit
<1>10. CASE OsiTaskDelete BY <1>10 DEF OsiTaskDelete
<1>11. CASE HleTaskDeleted BY <1>11 DEF HleTaskDeleted
<1>12. CASE HleSemaphoreDeleted BY <1>12 DEF HleSemaphoreDeleted
<1>13. CASE HleFreed BY <1>13, ConstantsAssumption DEF HleFreed, Fresh
<1> QED
  BY <1>1, <1>2, <1>3, <1>4, <1>5, <1>6, <1>7, <1>8, <1>9, <1>10, <1>11, <1>12, <1>13
  DEF ApiStep

LEMMA ValuesWorker == ASSUME TypeOK, DeliveryInv, WorkerStep PROVE ValuesOK'
<1> USE DEF TypeOK, ValuesOK, WorkerStates, lifecycle, vhci, link, radio, socket, host, hostLink
<1>1. CASE WorkerStarts BY <1>1 DEF WorkerStarts, StartPoll
<1>2. CASE HleReceiveReturned
  <2>1. events' \in Seq(Event)
    <3>1. CASE ~cancelled /\ taken
      <4>1. events # <<>> /\ events' = Tail(events)
        BY <1>2, <3>1 DEF HleReceiveReturned, DeliveryInv
      <4> QED BY <4>1
    <3>2. CASE cancelled \/ ~taken
      BY <1>2, <3>2 DEF HleReceiveReturned
    <3> QED BY <3>1, <3>2
  <2>2. worker' \in WorkerStates /\ fd' \in {"unopened", "open", "closed"}
    BY <1>2 DEF HleReceiveReturned, StartPoll
  <2>3. UNCHANGED <<lifecycle, packet, link, radio, nextHandle, hostLink, hostCommand, accepted>>
    BY <1>2 DEF HleReceiveReturned
  <2> QED BY <2>1, <2>2, <2>3
<1>3. CASE PollLinkLost
  <2>1. events' \in Seq(Event)
    BY <1>3, DisconnectEventType DEF PollLinkLost
  <2> QED BY <1>3, <2>1, ConstantsAssumption DEF PollLinkLost, disconnect
<1>4. CASE PollUnregistered BY <1>4 DEF PollUnregistered
<1>5. CASE PollReady BY <1>5 DEF PollReady
<1>6. CASE PollDeliver
  <2>1. CompletedEvent \in Seq(Event)
    <3>1. Ev("Completed", connection, completedAcl) \in Event
      BY EvType, ConstantsAssumption DEF EventTypes
    <3> QED BY <3>1 DEF CompletedEvent
  <2>2. events' \in Seq(Event) /\ events' # <<>>
    BY <1>6, <2>1 DEF PollDeliver
  <2>3. packet' \in Event
    BY <1>6, <2>2 DEF PollDeliver
  <2> QED BY <1>6, <2>2, <2>3 DEF PollDeliver, ResetCompleted
<1>7. CASE PollEmpty BY <1>7 DEF PollEmpty
<1> QED
  BY <1>1, <1>2, <1>3, <1>4, <1>5, <1>6, <1>7 DEF WorkerStep

LEMMA ValuesPeer == ASSUME TypeOK, PeerStep PROVE ValuesOK'
<1> USE DEF TypeOK, ValuesOK, lifecycle, vhci, link, radio, socket, host, hostLink
<1>1. CASE PeerConnect
  <2>1. connection' \in 1..MaxHandle /\ nextHandle' \in 1..MaxHandle
    BY <1>1, NextHandleType DEF PeerConnect
  <2>2. queueLeEvent(Ev("Connected", connection', 0)) \in Seq(Event)
    BY <2>1, EvType, QueueEventType DEF EventTypes
  <2>3. events' \in Seq(Event)
    BY <1>1, <2>2 DEF PeerConnect
  <2> QED BY <1>1, <2>1, <2>3, ConstantsAssumption DEF PeerConnect
<1>2. CASE PeerDisconnect
  <2>1. events' \in Seq(Event)
    BY <1>2, DisconnectEventType DEF PeerDisconnect
  <2> QED BY <1>2, <2>1, ConstantsAssumption DEF PeerDisconnect, disconnect
<1>3. CASE PeerL2cap
  <2>1. PICK n \in 1..MaxFragments :
          events' = events \o [i \in 1..n |-> Ev("Acl", connection, IF i = 1 THEN 1 ELSE 0)]
    BY <1>3 DEF PeerL2cap
  <2>2. \A i \in 1..n : Ev("Acl", connection, IF i = 1 THEN 1 ELSE 0) \in Event
    BY EvType, ConstantsAssumption DEF EventTypes
  <2>3. [i \in 1..n |-> Ev("Acl", connection, IF i = 1 THEN 1 ELSE 0)] \in Seq(Event)
    BY <2>2
  <2>4. events' \in Seq(Event)
    BY <2>1, <2>3
  <2> QED BY <1>3, <2>4 DEF PeerL2cap
<1>4. CASE PeerEncrypt
  <2>1. queueLeEvent(Ev("KeyRequest", connection, 0)) \in Seq(Event)
    BY EvType, QueueEventType, ConstantsAssumption DEF EventTypes
  <2>2. events' \in Seq(Event)
    BY <1>4, <2>1 DEF PeerEncrypt
  <2> QED BY <1>4, <2>2 DEF PeerEncrypt
<1>5. CASE SocketLost BY <1>5 DEF SocketLost
<1> QED
  BY <1>1, <1>2, <1>3, <1>4, <1>5 DEF PeerStep

LEMMA CommandType ==
  ASSUME TypeOK, NEW op \in Commands, NEW produced \in Seq(Event), Command(op, produced)
  PROVE  /\ events' \in Seq(Event) /\ hostCommand' \in Commands
         /\ UNCHANGED <<lifecycle, worker, packet, socket, accepted>>
<1>1. Ev("Answer", 0, 0) \in Event
  BY EvType DEF EventTypes
<1> QED
  BY <1>1 DEF Command, TypeOK, ValuesOK

LEMMA ValuesHost == ASSUME TypeOK, HostStep PROVE ValuesOK'
<1> USE DEF TypeOK, ValuesOK, lifecycle, vhci, link, radio, socket, host, hostLink
<1>a. <<>> \in Seq(Event)
  OBVIOUS
<1>1. CASE HostTakes
  <2>1. packet.handle \in Nat /\ packet.value \in Nat
    BY DEF Event
  <2>2. HostOf(packet)
    BY <1>1 DEF HostTakes
  <2>3. hostConn' \in Nat
    BY <2>1, <2>2 DEF HostOf
  <2>4. hostRest' \in 0..MaxFragments
    BY <2>2, ConstantsAssumption DEF HostOf
  <2>5. outstanding' \in Int
    BY <2>1, <2>2 DEF HostOf
  <2>6. hostCommand' \in Commands \cup {"none"}
    BY <2>2 DEF HostOf
  <2> QED BY <1>1, <2>3, <2>4, <2>5, <2>6 DEF HostTakes
<1>2. CASE HostReset
  <2>1. "reset" \in Commands /\ Command("reset", DisconnectEvent)
    BY <1>2 DEF HostReset, Commands
  <2> QED
    BY <1>2, <2>1, CommandType, DisconnectEventType, ConstantsAssumption
    DEF HostReset, resetHci, disconnect
<1>3. CASE HostSetMask
  <2>1. "mask" \in Commands /\ Command("mask", <<>>)
    BY <1>3 DEF HostSetMask, Commands
  <2> QED BY <1>3, <1>a, <2>1, CommandType DEF HostSetMask
<1>4. CASE HostAdvertisingParameters
  <2>1. "advertise" \in Commands /\ Command("advertise", <<>>)
    BY <1>4 DEF HostAdvertisingParameters, Commands
  <2> QED
    BY <1>4, <1>a, <2>1, CommandType, ConstantsAssumption DEF HostAdvertisingParameters
<1>5. CASE HostAdvertise
  <2>1. "advertise" \in Commands /\ Command("advertise", <<>>)
    BY <1>5 DEF HostAdvertise, Commands
  <2> QED BY <1>5, <1>a, <2>1, CommandType DEF HostAdvertise
<1>6. CASE HostDisconnect
  <2>1. "disconnect" \in Commands
    BY DEF Commands
  <2>2. PICK produced \in {<<>>, DisconnectEvent} : Command("disconnect", produced)
    BY <1>6 DEF HostDisconnect
  <2>3. produced \in Seq(Event)
    BY <1>a, <2>2, DisconnectEventType
  <2> QED
    BY <1>6, <2>1, <2>2, <2>3, CommandType, ConstantsAssumption DEF HostDisconnect, disconnect
<1>7. CASE HostKeyReply
  <2>1. "encrypt" \in Commands
    BY DEF Commands
  <2>3. \E produced \in Seq(Event) : Command("encrypt", produced)
    BY <1>7, <1>a, EncryptionEventType DEF HostKeyReply
  <2>4. pendingKey' \in Keys \cup {NoKey}
    BY <1>7 DEF HostKeyReply, finishEncryption
  <2>5. UNCHANGED <<connection, assembly, completedAcl, radio, hostLink>>
    BY <1>7 DEF HostKeyReply
  <2> QED BY <2>1, <2>3, <2>4, <2>5, CommandType
<1>8. CASE HostQuery
  <2>1. "other" \in Commands
    BY DEF Commands
  <2>2. Ev("Info", connection, 0) \in Event
    BY EvType, ConstantsAssumption DEF EventTypes
  <2>3. \E produced \in Seq(Event) : Command("other", produced)
    BY <1>8, <1>a, <2>2, QueueEventType DEF HostQuery
  <2>4. UNCHANGED <<link, radio, hostLink>>
    BY <1>8 DEF HostQuery
  <2> QED BY <2>1, <2>3, <2>4, CommandType
<1>9. CASE HostSendAcl
  <2>1. PICK sdu \in (IF hostRest = 0 THEN 1..MaxFragments ELSE {hostRest}) :
          sendAcl(sdu) /\ hostRest' = sdu - 1
    BY <1>9 DEF HostSendAcl
  <2>2. sdu \in 1..MaxFragments
    BY <2>1, ConstantsAssumption
  <2>3. assembly' \in 0..MaxFragments /\ completedAcl' \in Nat /\ hostRest' \in 0..MaxFragments
    BY <2>1, <2>2, ConstantsAssumption DEF sendAcl
  <2> QED BY <1>9, <2>3 DEF HostSendAcl
<1> QED
  BY <1>1, <1>2, <1>3, <1>4, <1>5, <1>6, <1>7, <1>8, <1>9 DEF HostStep

LEMMA TypeNext == ASSUME TypeOK, DeliveryInv, [Next]_vars PROVE TypeOK'
<1>1. FlagsOK'
  BY FlagsNext DEF TypeOK
<1>2. ValuesOK'
  <2>1. CASE bleHleReset
    BY <2>1, ConstantsAssumption
    DEF bleHleReset, Fresh, HostDown, TypeOK, ValuesOK, ApiStates, WorkerStates
  <2>2. CASE UNCHANGED vars
    BY <2>2 DEF vars, TypeOK, ValuesOK, lifecycle, vhci, link, radio, socket, host, hostLink
  <2> QED
    BY <2>1, <2>2, ValuesApi, ValuesWorker, ValuesPeer, ValuesHost DEF Next, TypeOK
<1> QED BY <1>1, <1>2 DEF TypeOK

-----------------------------------------------------------------------------
(* Peer messages, commands, ACL packets and a lost link only ever append   *)
(* to the queue; they touch neither the lifecycle nor the delivery.        *)

AppendStep ==
  /\ UNCHANGED <<lifecycle, worker, callbacks, inFlight, cancelled, packet, taken, accepted>>
  /\ \E s \in Seq(Event) : events' = events \o s

LEMMA AppendNothing ==
  ASSUME TypeOK, UNCHANGED events
  PROVE  \E s \in Seq(Event) : events' = events \o s
<1>1. events \o <<>> = events /\ <<>> \in Seq(Event)
  BY DEF TypeOK, ValuesOK
<1> QED BY <1>1

LEMMA PeerAppends == ASSUME TypeOK, PeerStep \/ PollLinkLost PROVE AppendStep
<1> USE DEF AppendStep, vhci, host
<1>0. connection \in Nat
  BY ConstantsAssumption DEF TypeOK, ValuesOK
<1>1. CASE PeerConnect
  <2>1. connection' \in Nat
    BY <1>1, NextHandleType DEF PeerConnect, TypeOK, ValuesOK
  <2>2. queueLeEvent(Ev("Connected", connection', 0)) \in Seq(Event)
    BY <2>1, EvType, QueueEventType DEF EventTypes
  <2> QED BY <1>1, <2>2 DEF PeerConnect
<1>2. CASE PeerDisconnect BY <1>2, DisconnectEventType DEF PeerDisconnect
<1>3. CASE PeerL2cap
  <2>1. PICK n \in 1..MaxFragments :
          events' = events \o [i \in 1..n |-> Ev("Acl", connection, IF i = 1 THEN 1 ELSE 0)]
    BY <1>3 DEF PeerL2cap
  <2>2. \A i \in 1..n : Ev("Acl", connection, IF i = 1 THEN 1 ELSE 0) \in Event
    BY <1>0, EvType DEF EventTypes
  <2>3. [i \in 1..n |-> Ev("Acl", connection, IF i = 1 THEN 1 ELSE 0)] \in Seq(Event)
    BY <2>2
  <2> QED BY <1>3, <2>1, <2>3 DEF PeerL2cap
<1>4. CASE PeerEncrypt
  <2>1. queueLeEvent(Ev("KeyRequest", connection, 0)) \in Seq(Event)
    BY <1>0, EvType, QueueEventType DEF EventTypes
  <2> QED BY <1>4, <2>1 DEF PeerEncrypt
<1>5. CASE SocketLost BY <1>5, AppendNothing DEF SocketLost
<1>6. CASE PollLinkLost BY <1>6, DisconnectEventType DEF PollLinkLost
<1> QED
  BY <1>1, <1>2, <1>3, <1>4, <1>5, <1>6 DEF PeerStep

LEMMA CommandAppends ==
  ASSUME TypeOK, NEW op, NEW produced \in Seq(Event), Command(op, produced)
  PROVE  AppendStep /\ Session
<1>1. <<Ev("Answer", 0, 0)>> \o produced \in Seq(Event)
  BY EvType DEF EventTypes
<1>2. events' = events \o (<<Ev("Answer", 0, 0)>> \o produced)
  <2>1. events \in Seq(Event) /\ <<Ev("Answer", 0, 0)>> \in Seq(Event)
    BY EvType DEF TypeOK, ValuesOK, EventTypes
  <2>2. (events \o <<Ev("Answer", 0, 0)>>) \o produced = events \o (<<Ev("Answer", 0, 0)>> \o produced)
    BY <2>1, ConcatAssociative
  <2>3. events' = (events \o <<Ev("Answer", 0, 0)>>) \o produced
    BY DEF Command
  <2> QED BY <2>2, <2>3
<1> QED BY <1>1, <1>2 DEF Command, AppendStep, HostMaySend

LEMMA HostAppends == ASSUME TypeOK, HostStep, ~HostTakes PROVE AppendStep /\ Session
<1>a. <<>> \in Seq(Event)
  OBVIOUS
<1>0. connection \in Nat
  BY ConstantsAssumption DEF TypeOK, ValuesOK
<1>1. CASE HostReset BY <1>1, CommandAppends, DisconnectEventType DEF HostReset
<1>2. CASE HostSetMask BY <1>2, <1>a, CommandAppends DEF HostSetMask
<1>3. CASE HostAdvertisingParameters BY <1>3, <1>a, CommandAppends DEF HostAdvertisingParameters
<1>4. CASE HostAdvertise BY <1>4, <1>a, CommandAppends DEF HostAdvertise
<1>5. CASE HostDisconnect BY <1>5, <1>a, CommandAppends, DisconnectEventType DEF HostDisconnect
<1>6. CASE HostKeyReply
  <2>2. \E produced \in Seq(Event) : Command("encrypt", produced)
    BY <1>6, <1>a, EncryptionEventType DEF HostKeyReply
  <2> QED BY <2>2, CommandAppends
<1>7. CASE HostQuery
  <2>1. Ev("Info", connection, 0) \in Event
    BY <1>0, EvType DEF EventTypes
  <2>2. \E produced \in Seq(Event) : Command("other", produced)
    BY <1>7, <1>a, <2>1, QueueEventType DEF HostQuery
  <2> QED BY <2>2, CommandAppends
<1>8. CASE HostSendAcl
  <2>1. \E s \in Seq(Event) : events' = events \o s
    BY <1>8, AppendNothing DEF HostSendAcl
  <2> QED BY <1>8, <2>1 DEF HostSendAcl, AppendStep, HostMaySend
<1> QED
  BY <1>1, <1>2, <1>3, <1>4, <1>5, <1>6, <1>7, <1>8 DEF HostStep

-----------------------------------------------------------------------------
(* The lifecycle: which guest objects exist when.                          *)

LEMMA ApiFrame ==
  ASSUME ApiInv, UNCHANGED lifecycle, (worker = "none") <=> (worker' = "none")
  PROVE  ApiInv'
BY DEF ApiInv, lifecycle

LEMMA ApiNext == ASSUME TypeOK, ApiInv, [Next]_vars PROVE ApiInv'
<1>1. CASE ApiStep
  <2> USE DEF ApiInv, TypeOK, FlagsOK, ValuesOK, GuestObjects
  <2>1. CASE HleInit BY <2>1 DEF HleInit
  <2>2. CASE HleAllocated
    <3>1. status = 0 /\ heap = {} /\ worker = "none" /\ UNCHANGED <<status, worker>>
      BY <2>2 DEF HleAllocated
    <3>2. CASE api' = "semCreate"
      <4>1. heap' = {"workspace"} /\ workspace'
        BY <2>2, <3>1, <3>2 DEF HleAllocated
      <4> QED BY <3>1, <3>2, <4>1
    <3>3. CASE api' = "idle"
      <4>1. heap' = {} /\ ~workspace'
        BY <2>2, <3>1, <3>3 DEF HleAllocated
      <4> QED BY <3>1, <3>3, <4>1
    <3> QED BY <2>2, <3>2, <3>3 DEF HleAllocated
  <2>3. CASE HleSemaphoreCreated BY <2>3 DEF HleSemaphoreCreated
  <2>4. CASE OsiTaskCreate BY <2>4 DEF OsiTaskCreate
  <2>5. CASE HleTaskCreated BY <2>5 DEF HleTaskCreated
  <2>6. CASE HleEnable BY <2>6 DEF HleEnable
  <2>7. CASE HleRegister BY <2>7 DEF HleRegister, lifecycle
  <2>8. CASE HleDisable BY <2>8 DEF HleDisable
  <2>9. CASE HleDeinit BY <2>9 DEF HleDeinit
  <2>10. CASE OsiTaskDelete BY <2>10 DEF OsiTaskDelete
  <2>11. CASE HleTaskDeleted BY <2>11 DEF HleTaskDeleted
  <2>12. CASE HleSemaphoreDeleted BY <2>12 DEF HleSemaphoreDeleted
  <2>13. CASE HleFreed BY <2>13 DEF HleFreed, Fresh
  <2> QED
    BY <1>1, <2>1, <2>2, <2>3, <2>4, <2>5, <2>6, <2>7, <2>8, <2>9, <2>10, <2>11, <2>12, <2>13
    DEF ApiStep
<1>2. CASE WorkerStep
  <2>1. UNCHANGED lifecycle
    BY <1>2 DEF WorkerStep, WorkerStarts, HleReceiveReturned, PollLinkLost, PollUnregistered,
                PollReady, PollDeliver, PollEmpty
  <2>2. worker # "none" /\ worker' # "none"
    BY <1>2 DEF WorkerStep, WorkerStarts, HleReceiveReturned, PollLinkLost, PollUnregistered,
                PollReady, PollDeliver, PollEmpty, StartPoll
  <2> QED BY <2>1, <2>2, ApiFrame
<1>3. CASE PeerStep BY <1>3, PeerAppends, ApiFrame DEF AppendStep
<1>4. CASE HostStep
  <2>1. UNCHANGED <<lifecycle, worker>>
    BY <1>4, HostAppends DEF AppendStep, HostTakes
  <2> QED BY <2>1, ApiFrame
<1>5. CASE bleHleReset BY <1>5 DEF bleHleReset, Fresh, ApiInv
<1>6. CASE UNCHANGED vars BY <1>6, ApiFrame DEF vars
<1> QED
  BY <1>1, <1>2, <1>3, <1>4, <1>5, <1>6 DEF Next

-----------------------------------------------------------------------------
(* The delivery in progress.                                               *)

LEMMA DeliveryAppend == ASSUME TypeOK, DeliveryInv, AppendStep PROVE DeliveryInv'
<1>1. PICK s \in Seq(Event) : events' = events \o s
  BY DEF AppendStep
<1>2. UNCHANGED <<worker, inFlight, cancelled, packet, status, Session>>
  BY DEF AppendStep, lifecycle, Session
<1>3. ASSUME events # <<>> PROVE events' # <<>> /\ Head(events') = Head(events)
  BY <1>1, <1>3 DEF TypeOK, ValuesOK
<1> QED BY <1>2, <1>3 DEF DeliveryInv

LEMMA DeliveryNext == ASSUME TypeOK, ApiInv, DeliveryInv, [Next]_vars PROVE DeliveryInv'
<1>1. CASE ApiStep
  <2> USE DEF DeliveryInv, Session, TypeOK, ValuesOK, FlagsOK, lifecycle, vhci
  <2>1. CASE HleInit BY <2>1 DEF HleInit
  <2>2. CASE HleAllocated
    <3>1. UNCHANGED <<status, worker, vhci>>
      BY <2>2 DEF HleAllocated
    <3> QED BY <3>1
  <2>3. CASE HleSemaphoreCreated BY <2>3 DEF HleSemaphoreCreated
  <2>4. CASE OsiTaskCreate BY <2>4 DEF OsiTaskCreate, ApiInv
  <2>5. CASE HleTaskCreated BY <2>5 DEF HleTaskCreated, ApiInv
  <2>6. CASE HleEnable BY <2>6 DEF HleEnable
  <2>7. CASE HleRegister BY <2>7 DEF HleRegister
  <2>8. CASE HleDisable BY <2>8 DEF HleDisable, CancelDelivery
  <2>9. CASE HleDeinit BY <2>9 DEF HleDeinit
  <2>10. CASE OsiTaskDelete BY <2>10 DEF OsiTaskDelete, ApiInv
  <2>11. CASE HleTaskDeleted BY <2>11 DEF HleTaskDeleted
  <2>12. CASE HleSemaphoreDeleted BY <2>12 DEF HleSemaphoreDeleted
  <2>13. CASE HleFreed BY <2>13 DEF HleFreed, Fresh, ApiInv
  <2> QED
    BY <1>1, <2>1, <2>2, <2>3, <2>4, <2>5, <2>6, <2>7, <2>8, <2>9, <2>10, <2>11, <2>12, <2>13
    DEF ApiStep
<1>2. CASE WorkerStep
  <2> USE DEF DeliveryInv, Session, lifecycle, vhci
  <2>1. CASE WorkerStarts BY <2>1 DEF WorkerStarts, StartPoll
  <2>2. CASE HleReceiveReturned BY <2>2 DEF HleReceiveReturned, StartPoll
  <2>3. CASE PollLinkLost BY <2>3, PeerAppends, DeliveryAppend
  <2>4. CASE PollUnregistered BY <2>4 DEF PollUnregistered
  <2>5. CASE PollReady BY <2>5 DEF PollReady
  <2>6. CASE PollDeliver
    <3>1. ~cancelled /\ UNCHANGED cancelled
      BY <2>6 DEF PollDeliver
    <3>2. status # 0 /\ Session /\ Session'
      BY <2>6 DEF PollDeliver
    <3> QED BY <2>6, <3>1, <3>2 DEF PollDeliver
  <2>7. CASE PollEmpty BY <2>7 DEF PollEmpty
  <2> QED
    BY <1>2, <2>1, <2>2, <2>3, <2>4, <2>5, <2>6, <2>7 DEF WorkerStep
<1>3. CASE PeerStep BY <1>3, PeerAppends, DeliveryAppend
<1>4. CASE HostStep
  <2>1. CASE HostTakes BY <2>1 DEF HostTakes, DeliveryInv, Session, lifecycle, vhci
  <2> QED BY <1>4, <2>1, HostAppends, DeliveryAppend
<1>5. CASE bleHleReset BY <1>5 DEF bleHleReset, Fresh, DeliveryInv
<1>6. CASE UNCHANGED vars BY <1>6 DEF vars, lifecycle, vhci, DeliveryInv, Session
<1> QED
  BY <1>1, <1>2, <1>3, <1>4, <1>5, <1>6 DEF Next

-----------------------------------------------------------------------------
(* The link and the session.                                               *)

LEMMA LinkNext == ASSUME TypeOK, NothingOutlivesLink, [Next]_vars PROVE NothingOutlivesLink'
<1> USE DEF NothingOutlivesLink, link
<1>1. CASE ApiStep
  <2>1. CASE HleDisable BY <2>1 DEF HleDisable, resetHci, disconnect
  <2>2. CASE HleFreed BY <2>2 DEF HleFreed, Fresh
  <2>3. CASE ~HleDisable /\ ~HleFreed
    <3>1. UNCHANGED link
      BY <1>1, <2>3 DEF ApiStep, HleInit, HleAllocated, HleSemaphoreCreated, OsiTaskCreate, HleTaskCreated,
           HleEnable, HleRegister, HleDeinit, OsiTaskDelete, HleTaskDeleted, HleSemaphoreDeleted
    <3> QED BY <3>1
  <2> QED BY <2>1, <2>2, <2>3
<1>2. CASE WorkerStep
  <2>1. CASE PollLinkLost BY <2>1 DEF PollLinkLost, disconnect
  <2>2. CASE PollDeliver BY <2>2 DEF PollDeliver, ResetCompleted
  <2>3. CASE ~PollLinkLost /\ ~PollDeliver
    <3>1. UNCHANGED link
      BY <1>2, <2>3 DEF WorkerStep, WorkerStarts, HleReceiveReturned, PollUnregistered, PollReady, PollEmpty
    <3> QED BY <3>1
  <2> QED BY <2>1, <2>2, <2>3
<1>3. CASE PeerStep
  <2>1. CASE PeerConnect
    BY <2>1, NextHandleType, ConstantsAssumption DEF PeerConnect, TypeOK, ValuesOK
  <2>2. CASE PeerDisconnect BY <2>2 DEF PeerDisconnect, disconnect
  <2>3. CASE PeerL2cap BY <2>3 DEF PeerL2cap
  <2>4. CASE PeerEncrypt BY <2>4 DEF PeerEncrypt
  <2>5. CASE SocketLost BY <2>5 DEF SocketLost
  <2> QED BY <1>3, <2>1, <2>2, <2>3, <2>4, <2>5 DEF PeerStep
<1>4. CASE HostStep
  <2>1. CASE HostReset BY <2>1 DEF HostReset, resetHci, disconnect
  <2>2. CASE HostDisconnect BY <2>2 DEF HostDisconnect, disconnect
  <2>3. CASE HostKeyReply
    <3>1. CASE connection = 0
      <4>1. UNCHANGED <<connection, assembly, completedAcl, pendingKey, encrypted>>
        BY <2>3, <3>1 DEF HostKeyReply
      <4> QED BY <4>1
    <3>2. CASE connection # 0 BY <2>3, <3>2 DEF HostKeyReply
    <3> QED BY <3>1, <3>2
  <2>4. CASE HostSendAcl
    <3>1. CASE connection = 0
      BY <2>4, <3>1 DEF HostSendAcl, sendAcl
    <3>2. CASE connection # 0 BY <2>4, <3>2 DEF HostSendAcl
    <3> QED BY <3>1, <3>2
  <2>5. CASE HostTakes \/ HostSetMask \/ HostAdvertisingParameters \/ HostAdvertise \/ HostQuery
    <3>1. UNCHANGED link
      BY <2>5 DEF HostTakes, HostSetMask, HostAdvertisingParameters, HostAdvertise, HostQuery
    <3> QED BY <3>1
  <2> QED BY <1>4, <2>1, <2>2, <2>3, <2>4, <2>5 DEF HostStep
<1>5. CASE bleHleReset BY <1>5 DEF bleHleReset, Fresh
<1>6. CASE UNCHANGED vars BY <1>6 DEF vars
<1> QED
  BY <1>1, <1>2, <1>3, <1>4, <1>5, <1>6 DEF Next

LEMMA SessionNext == ASSUME TypeOK, ApiInv, SessionInv, DeliveryInv, [Next]_vars PROVE SessionInv'
<1> USE DEF SessionInv, Session
<1>1. CASE ApiStep
  <2>1. CASE HleDisable BY <2>1 DEF HleDisable, resetHci, disconnect, link
  <2>2. CASE HleFreed BY <2>2 DEF HleFreed, Fresh
  <2>3. CASE HleRegister
    <3>1. callbacks' /\ status' = 2
      BY <2>3 DEF HleRegister, lifecycle
    <3> QED BY <3>1
  <2>4. CASE HleEnable BY <2>4 DEF HleEnable, vhci, link, radio
  <2>5. CASE HleTaskCreated
    <3>1. ~Session /\ ~Session'
      BY <2>5 DEF HleTaskCreated, ApiInv, vhci
    <3>2. UNCHANGED <<events, connection, advertising>>
      BY <2>5 DEF HleTaskCreated, vhci, link, radio
    <3> QED BY <3>1, <3>2
  <2>6. CASE ~HleDisable /\ ~HleFreed /\ ~HleRegister /\ ~HleEnable /\ ~HleTaskCreated
    <3>1. UNCHANGED <<status, callbacks, events, connection, advertising>>
      BY <1>1, <2>6 DEF ApiStep, HleInit, HleAllocated, HleSemaphoreCreated, OsiTaskCreate,
           HleDeinit, OsiTaskDelete, HleTaskDeleted, HleSemaphoreDeleted, vhci, link, radio
    <3> QED BY <3>1
  <2> QED BY <2>1, <2>2, <2>3, <2>4, <2>5, <2>6
<1>2. CASE WorkerStep
  <2>1. CASE HleReceiveReturned
    <3>1. CASE Session
      BY <2>1, <3>1 DEF HleReceiveReturned, lifecycle
    <3>2. CASE ~Session
      <4>1. cancelled
        BY <2>1, <3>2 DEF HleReceiveReturned, DeliveryInv
      <4> QED BY <2>1, <3>2, <4>1 DEF HleReceiveReturned, lifecycle, link, radio
    <3> QED BY <3>1, <3>2
  <2>2. CASE PollLinkLost
    <3>1. Session /\ UNCHANGED <<status, callbacks>>
      BY <2>2 DEF PollLinkLost, LinkLost, lifecycle
    <3> QED BY <3>1
  <2>3. CASE PollReady \/ PollDeliver \/ PollEmpty
    <3>1. Session /\ UNCHANGED <<status, callbacks>>
      BY <2>3 DEF PollReady, PollDeliver, PollEmpty, lifecycle, vhci
    <3> QED BY <3>1
  <2>4. CASE WorkerStarts \/ PollUnregistered
    BY <2>4 DEF WorkerStarts, PollUnregistered, lifecycle, vhci, link, radio
  <2> QED BY <1>2, <2>1, <2>2, <2>3, <2>4 DEF WorkerStep
<1>3. CASE PeerStep
  <2>1. CASE SocketLost
    BY <2>1 DEF SocketLost, lifecycle, vhci, link, radio
  <2>2. CASE ~SocketLost
    <3>1. Session
      BY <1>3, <2>2 DEF PeerStep, PeerConnect, PeerDisconnect, PeerL2cap, PeerEncrypt
    <3>2. UNCHANGED <<status, callbacks>>
      BY <1>3, PeerAppends DEF AppendStep, lifecycle
    <3> QED BY <3>1, <3>2
  <2> QED BY <2>1, <2>2
<1>4. CASE HostStep
  <2>1. CASE HostTakes BY <2>1 DEF HostTakes, lifecycle, vhci, link, radio
  <2>2. CASE ~HostTakes
    <3>1. Session /\ UNCHANGED <<status, callbacks>>
      BY <1>4, <2>2, HostAppends DEF AppendStep, lifecycle
    <3> QED BY <3>1
  <2> QED BY <2>1, <2>2
<1>5. CASE bleHleReset BY <1>5 DEF bleHleReset, Fresh
<1>6. CASE UNCHANGED vars BY <1>6 DEF vars, lifecycle, vhci, link, radio
<1> QED
  BY <1>1, <1>2, <1>3, <1>4, <1>5, <1>6 DEF Next

-----------------------------------------------------------------------------
(* The invariant, and what follows from it.                                *)

LEMMA InvInit == Init => ControllerInv
<1> SUFFICES ASSUME Init PROVE ControllerInv
  OBVIOUS
<1>1. TypeOK
  BY TypeInit
<1>2. ApiInv /\ DeliveryInv /\ SessionInv /\ NothingOutlivesLink
  BY DEF Init, ApiInv, DeliveryInv, SessionInv, NothingOutlivesLink
<1> QED BY <1>1, <1>2 DEF ControllerInv

LEMMA InvNext == ControllerInv /\ [Next]_vars => ControllerInv'
BY TypeNext, ApiNext, DeliveryNext, SessionNext, LinkNext DEF ControllerInv

(* The inductive invariant of the controller holds in every behaviour.     *)
THEOREM Invariance == Spec => []ControllerInv
BY InvInit, InvNext, PTL DEF Spec

(* Type correctness of the controller, for every value of the constants.   *)
THEOREM TypeCorrect == Spec => []TypeOK
<1>1. ControllerInv => TypeOK
  BY DEF ControllerInv
<1> QED BY <1>1, Invariance, PTL

(* What HleReceiveReturned pops is what the host was handed: Disable and   *)
(* a new session may overlap the callback in any way (_receiveCancelled).  *)
THEOREM DeliveryCorrect == Spec => []DeliveryIntact
<1>1. ControllerInv => DeliveryIntact
  BY DEF ControllerInv, DeliveryInv, DeliveryIntact
<1> QED BY <1>1, Invariance, PTL

(* disconnect() and PeerConnect leave nothing of an old link behind.       *)
THEOREM LinkStateCorrect == Spec => []NothingOutlivesLink
<1>1. ControllerInv => NothingOutlivesLink
  BY DEF ControllerInv
<1> QED BY <1>1, Invariance, PTL

(* Every way out of Init and Deinit frees what was created, and the worker *)
(* never outlives the semaphore and the workspace it uses.                 *)
THEOREM ResourcesCorrect == Spec => [](NoLeak /\ WorkerResources)
<1>1. ControllerInv => NoLeak /\ WorkerResources
  BY DEF ControllerInv, ApiInv, NoLeak, WorkerResources, TypeOK, ValuesOK, ApiStates
<1> QED BY <1>1, Invariance, PTL

-----------------------------------------------------------------------------
(* The controller implements the channel of HciChannel.                    *)

LEMMA ExtendsAppend ==
  ASSUME NEW s \in Seq(Event), NEW t \in Seq(Event)
  PROVE  Channel!Extends(s \o t, s)
<1>1. Len(s) <= Len(s \o t)
  OBVIOUS
<1>2. SubSeq(s \o t, 1, Len(s)) = s
  OBVIOUS
<1> QED BY <1>1, <1>2 DEF Channel!Extends

(* Appending to the queue appends to what the host has yet to accept.      *)
LEMMA ChannelAppend ==
  ASSUME ControllerInv, AppendStep, Session
  PROVE  [Channel!Next]_(Channel!vars)
<1>0. events \in Seq(Event)
  BY DEF ControllerInv, TypeOK, ValuesOK
<1>1. PICK s \in Seq(Event) : events' = events \o s
  BY DEF AppendStep
<1>2. Session' /\ UNCHANGED <<inFlight, taken, cancelled, accepted>>
  BY DEF AppendStep, Session, lifecycle
<1>3. Channel!Extends(Untaken', Untaken)
  <2>1. CASE inFlight /\ taken /\ ~cancelled
    <3>1. events # <<>>
      BY <2>1 DEF ControllerInv, DeliveryInv
    <3>2. Tail(events) \in Seq(Event) /\ Tail(events \o s) = Tail(events) \o s
      BY <1>0, <3>1
    <3>3. Untaken = Tail(events) /\ Untaken' = Tail(events) \o s
      BY <1>1, <1>2, <2>1, <3>2 DEF Untaken
    <3> QED BY <3>2, <3>3, ExtendsAppend
  <2>2. CASE ~(inFlight /\ taken /\ ~cancelled)
    <3>1. Untaken = events /\ Untaken' = events \o s
      BY <1>1, <1>2, <2>2 DEF Untaken
    <3> QED BY <1>0, <3>1, ExtendsAppend
  <2> QED BY <2>1, <2>2
<1> QED BY <1>2, <1>3 DEF Channel!Next, Channel!Put

LEMMA UntakenOutsideSession == ASSUME ControllerInv, ~Session PROVE Untaken = <<>>
<1>1. ~(inFlight /\ taken /\ ~cancelled)
  BY DEF ControllerInv, DeliveryInv
<1> QED BY <1>1 DEF ControllerInv, SessionInv, Untaken

LEMMA AcceptedFrame == ASSUME [Next]_vars, ~HostTakes, TypeOK PROVE UNCHANGED accepted
<1>1. CASE ApiStep
  BY <1>1 DEF ApiStep, HleInit, HleAllocated, HleSemaphoreCreated, OsiTaskCreate, HleTaskCreated,
       HleEnable, HleRegister, HleDisable, HleDeinit, OsiTaskDelete, HleTaskDeleted,
       HleSemaphoreDeleted, HleFreed, host
<1>2. CASE WorkerStep
  BY <1>2 DEF WorkerStep, WorkerStarts, HleReceiveReturned, PollLinkLost, PollUnregistered,
       PollReady, PollDeliver, PollEmpty, host
<1>3. CASE PeerStep BY <1>3, PeerAppends DEF AppendStep
<1>4. CASE HostStep BY <1>4, HostAppends DEF AppendStep
<1>5. CASE bleHleReset BY <1>5 DEF bleHleReset
<1>6. CASE UNCHANGED vars BY <1>6 DEF vars, host
<1> QED
  BY <1>1, <1>2, <1>3, <1>4, <1>5, <1>6 DEF Next

(* Steps within a session.                                                 *)
LEMMA ChannelInSession ==
  ASSUME ControllerInv, [Next]_vars, Session, Session'
  PROVE  [Channel!Next]_(Channel!vars)
<1> DEFINE Kept == UNCHANGED <<events, inFlight, taken, cancelled, accepted>>
<1>0. ASSUME Kept PROVE [Channel!Next]_(Channel!vars)
  <2>1. UNCHANGED Untaken /\ UNCHANGED Session
    BY <1>0 DEF Untaken
  <2> QED BY <1>0, <2>1 DEF Channel!vars
<1>1. CASE ApiStep
  <2>1. Kept
    BY <1>1 DEF ApiStep, HleInit, HleAllocated, HleSemaphoreCreated, OsiTaskCreate, HleTaskCreated,
         HleEnable, HleRegister, HleDisable, HleDeinit, OsiTaskDelete, HleTaskDeleted,
         HleSemaphoreDeleted, HleFreed, Fresh, Session, vhci, host
  <2> QED BY <1>0, <2>1
<1>2. CASE WorkerStep
  <2>1. CASE WorkerStarts \/ PollUnregistered \/ PollReady \/ PollEmpty
    <3>1. Kept
      BY <2>1 DEF WorkerStarts, PollUnregistered, PollReady, PollEmpty, vhci, host
    <3> QED BY <1>0, <3>1
  <2>2. CASE HleReceiveReturned
    <3>1. inFlight /\ ~inFlight' /\ ~taken' /\ UNCHANGED accepted
      BY <2>2 DEF HleReceiveReturned, ControllerInv, DeliveryInv
    <3>2. UNCHANGED Untaken
      BY <2>2, <3>1 DEF HleReceiveReturned, Untaken
    <3> QED BY <3>1, <3>2 DEF Channel!vars
  <2>3. CASE PollLinkLost
    BY <2>3, PeerAppends, ChannelAppend DEF ControllerInv
  <2>4. CASE PollDeliver
    <3>1. CompletedEvent \in Seq(Event) /\ events \in Seq(Event)
      <4>1. Ev("Completed", connection, completedAcl) \in Event
        BY EvType, ConstantsAssumption DEF EventTypes, ControllerInv, TypeOK, ValuesOK
      <4> QED BY <4>1 DEF CompletedEvent, ControllerInv, TypeOK, ValuesOK
    <3>2. Untaken = events
      BY <2>4 DEF PollDeliver, Untaken, ControllerInv, DeliveryInv
    <3>3. Untaken' = events \o CompletedEvent /\ UNCHANGED accepted
      BY <2>4 DEF PollDeliver, Untaken
    <3>4. Channel!Extends(Untaken', Untaken)
      BY <3>1, <3>2, <3>3, ExtendsAppend
    <3> QED BY <3>3, <3>4 DEF Channel!Next, Channel!Put
  <2> QED BY <1>2, <2>1, <2>2, <2>3, <2>4 DEF WorkerStep
<1>3. CASE PeerStep
  BY <1>3, PeerAppends, ChannelAppend DEF ControllerInv
<1>4. CASE HostStep
  <2>1. CASE HostTakes
    <3>1. /\ inFlight /\ ~cancelled /\ ~taken /\ taken'
          /\ UNCHANGED <<inFlight, cancelled, events>>
          /\ accepted' = packet
      BY <2>1 DEF HostTakes, vhci, ControllerInv, DeliveryInv
    <3>2. events # <<>> /\ Head(events) = packet
      BY <3>1 DEF ControllerInv, DeliveryInv
    <3>3. Untaken = events /\ Untaken' = Tail(events)
      BY <3>1 DEF Untaken
    <3> QED BY <3>1, <3>2, <3>3 DEF Channel!Next, Channel!Take
  <2>2. CASE ~HostTakes
    BY <1>4, <2>2, HostAppends, ChannelAppend DEF ControllerInv
  <2> QED BY <2>1, <2>2
<1>5. CASE bleHleReset BY <1>5 DEF bleHleReset, Fresh, Session
<1>6. CASE UNCHANGED vars BY <1>0, <1>6 DEF vars, vhci, host
<1> QED
  BY <1>1, <1>2, <1>3, <1>4, <1>5, <1>6 DEF Next

(* Only Register (or Enable) opens a session.                              *)
LEMMA ChannelOpens ==
  ASSUME ControllerInv, [Next]_vars, ~Session, Session'
  PROVE  UNCHANGED <<events, inFlight, taken, cancelled, accepted>>
<1>1. CASE ApiStep
  BY <1>1 DEF ApiStep, HleInit, HleAllocated, HleSemaphoreCreated, OsiTaskCreate, HleTaskCreated,
       HleEnable, HleRegister, HleDisable, HleDeinit, OsiTaskDelete, HleTaskDeleted,
       HleSemaphoreDeleted, HleFreed, Fresh, Session, vhci, host
<1>2. CASE WorkerStep
  BY <1>2 DEF WorkerStep, WorkerStarts, HleReceiveReturned, PollLinkLost, PollUnregistered,
       PollReady, PollDeliver, PollEmpty, Session, lifecycle, vhci
<1>3. CASE PeerStep
  BY <1>3, PeerAppends DEF ControllerInv, AppendStep, Session, lifecycle
<1>4. CASE HostStep
  <2>1. CASE HostTakes BY <2>1 DEF HostTakes, Session, lifecycle, vhci
  <2> QED BY <1>4, <2>1, HostAppends DEF ControllerInv
<1>5. CASE bleHleReset BY <1>5 DEF bleHleReset, Fresh, Session
<1>6. CASE UNCHANGED vars BY <1>6 DEF vars, lifecycle, vhci, Session
<1> QED
  BY <1>1, <1>2, <1>3, <1>4, <1>5, <1>6 DEF Next

LEMMA ChannelNext ==
  ControllerInv /\ ControllerInv' /\ [Next]_vars => [Channel!Next]_(Channel!vars)
<1> SUFFICES ASSUME ControllerInv, ControllerInv', [Next]_vars
             PROVE  [Channel!Next]_(Channel!vars)
  OBVIOUS
<1>1. CASE Session /\ Session' BY <1>1, ChannelInSession
<1>2. CASE ~Session /\ Session'
  <2>1. UNCHANGED <<events, inFlight, taken, cancelled, accepted>>
    BY <1>2, ChannelOpens
  <2>2. Untaken = <<>> /\ Untaken' = <<>>
    BY <1>2, <2>1, UntakenOutsideSession DEF Untaken
  <2> QED BY <1>2, <2>1, <2>2 DEF Channel!Next, Channel!Open
<1>3. CASE ~Session'
  <2>1. ~HostTakes
    BY <1>3 DEF HostTakes, ControllerInv, DeliveryInv, Session, lifecycle, vhci
  <2>2. UNCHANGED accepted
    BY <2>1, AcceptedFrame DEF ControllerInv
  <2>3. Untaken' = <<>>
    <3>1. ~(inFlight' /\ taken' /\ ~cancelled')
      BY <1>3 DEF ControllerInv, DeliveryInv
    <3> QED BY <1>3, <3>1 DEF ControllerInv, SessionInv, Untaken
  <2>4. CASE Session
    BY <1>3, <2>2, <2>3, <2>4 DEF Channel!Next, Channel!Close
  <2>5. CASE ~Session
    <3>1. Untaken = <<>>
      BY <2>5, UntakenOutsideSession
    <3>2. UNCHANGED Session
      BY <1>3, <2>5 DEF Session
    <3> QED BY <2>2, <2>3, <3>1, <3>2 DEF Channel!vars
  <2> QED BY <2>4, <2>5
<1> QED BY <1>1, <1>2, <1>3

(* The delivery protocol of BleController::poll and its continuations      *)
(* implements HciChannel: in order, exactly once, one session at a time.   *)
THEOREM ChannelRefinement == Spec => ImplementsChannel
<1>1. Init => Channel!Init
  BY DEF Init, Channel!Init, Session, Untaken
<1> QED BY <1>1, Invariance, ChannelNext, PTL DEF Spec, ImplementsChannel, Channel!Spec

-----------------------------------------------------------------------------
(* What the host will believe.  The events it has yet to accept are read   *)
(* as a story: after each of them the host believes in one connection or   *)
(* in none, and after the last it believes what the controller knows.      *)

(* Event e takes a host that believes in connection b (0 for none) to c.   *)
Moves(b, e, c) ==
  \/ e.type = "Connected" /\ b = 0 /\ c = e.handle /\ c # 0
  \/ e.type = "Disconnected" /\ b \in {0, e.handle} /\ c = 0
  \/ e.type = "Answer" /\ c = b
  \/ e.type \notin {"Answer", "Connected", "Disconnected"} /\ e.handle = b /\ b # 0 /\ c = b

(* After the i-th event of q, the end of connection h is still to be told. *)
Told(q, h, i) == \E j \in DOMAIN q : i < j /\ q[j].type = "Disconnected" /\ q[j].handle = h

(* No answer to a command follows the i-th event of q.                     *)
Settled(q, i) == \A k \in DOMAIN q : q[k].type = "Answer" => k <= i

(* w is what the host will have believed after each event of the queue q:  *)
(* every event moves it, it ends at the controller's connection, and a     *)
(* handle other than that is followed by its disconnection.  While the     *)
(* radio advertises, and after the last answer, only the handle given out  *)
(* last occurs.  An encryption event about the connection was true.        *)
Story(w, q, conn, last, adv, enc) ==
  /\ w \in [0..Len(q) -> Nat] /\ w[Len(q)] = conn
  /\ \A i \in DOMAIN q : Moves(w[i - 1], q[i], w[i])
  /\ \A i \in 0..Len(q) : w[i] \notin {0, conn} => Told(q, w[i], i)
  /\ adv => \A i \in 0..Len(q) : w[i] \in {0, last}
  /\ \A i \in 0..Len(q) : Settled(q, i) => w[i] \in {0, last} /\ (adv => w[i] = 0)
  /\ \A i \in DOMAIN q : q[i].type = "Encryption" /\ q[i].value = 1 /\ w[i] = conn => enc

(* With nothing queued the host knows that there is no connection.         *)
LEMMA StoryEmpty ==
  ASSUME NEW w \in [0..0 -> Nat], w[0] = 0, NEW last, NEW adv, NEW enc
  PROVE  Story(w, <<>>, 0, last, adv, enc)
BY DEF Story

(* The host accepts the oldest event: the rest of the story goes on.       *)
LEMMA StoryTail ==
  ASSUME NEW q \in Seq(Event), q # <<>>, NEW w, NEW conn \in Nat, NEW last \in Nat,
         NEW adv \in BOOLEAN, NEW enc \in BOOLEAN, Story(w, q, conn, last, adv, enc)
  PROVE  /\ Moves(w[0], Head(q), w[1])
         /\ \E v : v[0] = w[1] /\ Story(v, Tail(q), conn, last, adv, enc)
<1> DEFINE t == Tail(q)
           v == [i \in 0..Len(t) |-> w[i + 1]]
<1>1. /\ t \in Seq(Event) /\ Len(t) = Len(q) - 1 /\ Len(q) \in Nat \ {0}
      /\ DOMAIN q = 1..Len(q) /\ DOMAIN t = 1..Len(t)
      /\ \A i \in 1..Len(t) : t[i] = q[i + 1]
      /\ Head(q) = q[1]
  OBVIOUS
<1>2. Moves(w[0], Head(q), w[1])
  <2>1. Moves(w[1 - 1], q[1], w[1])
    BY <1>1 DEF Story
  <2> QED BY <1>1, <2>1
<1> HIDE DEF t
<1>3. v \in [0..Len(t) -> Nat] /\ v[Len(t)] = conn /\ v[0] = w[1]
  BY <1>1 DEF Story
<1>4. ASSUME NEW i \in DOMAIN t PROVE Moves(v[i - 1], t[i], v[i])
  <2>1. i + 1 \in DOMAIN q /\ (i + 1) - 1 = i /\ v[i - 1] = w[i] /\ v[i] = w[i + 1] /\ t[i] = q[i + 1]
    BY <1>1
  <2>2. Moves(w[(i + 1) - 1], q[i + 1], w[i + 1])
    BY <2>1 DEF Story
  <2> QED BY <2>1, <2>2
<1>5. ASSUME NEW i \in 0..Len(t), v[i] \notin {0, conn} PROVE Told(t, v[i], i)
  <2>1. i + 1 \in 0..Len(q) /\ v[i] = w[i + 1]
    BY <1>1
  <2>2. PICK j \in DOMAIN q : i + 1 < j /\ q[j].type = "Disconnected" /\ q[j].handle = w[i + 1]
    BY <1>5, <2>1 DEF Story, Told
  <2>3. j - 1 \in DOMAIN t /\ i < j - 1 /\ t[j - 1] = q[j]
    BY <1>1, <2>1, <2>2
  <2> QED BY <2>1, <2>2, <2>3 DEF Told
<1>6. ASSUME adv, NEW i \in 0..Len(t) PROVE v[i] \in {0, last}
  BY <1>1, <1>6 DEF Story
<1>7. ASSUME NEW i \in 0..Len(t), Settled(t, i) PROVE v[i] \in {0, last} /\ (adv => v[i] = 0)
  <2>1. i + 1 \in 0..Len(q) /\ v[i] = w[i + 1]
    BY <1>1
  <2>2. ASSUME NEW k \in DOMAIN q, q[k].type = "Answer" PROVE k <= i + 1
    <3>1. CASE k = 1 BY <1>1, <3>1
    <3>2. CASE k # 1
      <4>1. k - 1 \in DOMAIN t /\ t[k - 1] = q[k]
        BY <1>1, <3>2
      <4>2. k - 1 <= i
        BY <1>7, <2>2, <4>1 DEF Settled
      <4> QED BY <1>1, <4>2
    <3> QED BY <3>1, <3>2
  <2> QED BY <2>1, <2>2 DEF Story, Settled
<1>8. ASSUME NEW i \in DOMAIN t, t[i].type = "Encryption", t[i].value = 1, v[i] = conn PROVE enc
  <2>1. i + 1 \in DOMAIN q /\ v[i] = w[i + 1] /\ t[i] = q[i + 1]
    BY <1>1
  <2> QED BY <1>8, <2>1 DEF Story
<1>9. Story(v, t, conn, last, adv, enc)
  BY <1>3, <1>4, <1>5, <1>6, <1>7, <1>8 DEF Story
<1> QED BY <1>2, <1>3, <1>9 DEF t

(* What a queue of events and one more says. *)
LEMMA Appended ==
  ASSUME NEW q \in Seq(Event), NEW e \in Event
  PROVE  /\ q \o <<e>> \in Seq(Event) /\ Len(q \o <<e>>) = Len(q) + 1 /\ Len(q) \in Nat
         /\ DOMAIN q = 1..Len(q) /\ DOMAIN (q \o <<e>>) = 1..(Len(q) + 1)
         /\ \A i \in 1..Len(q) : (q \o <<e>>)[i] = q[i]
         /\ (q \o <<e>>)[Len(q) + 1] = e
OBVIOUS

(* The queue with one more event, and with the fragments of a packet.      *)
Then(q, e) == q \o <<e>>
Followed(q, s) == q \o s

(* How event e, appended to q, goes with a change of the link.             *)
Follows(q, e, conn, last, adv, enc, conn2, last2, adv2, enc2) ==
  /\ conn \in Nat /\ last \in Nat /\ adv \in BOOLEAN /\ enc \in BOOLEAN
  /\ conn2 \in Nat /\ last2 \in Nat /\ adv2 \in BOOLEAN /\ enc2 \in BOOLEAN
  /\ Moves(conn, e, conn2)
  /\ conn2 \in {0, last2}
  /\ conn2 # 0 => ~adv2
  /\ conn \notin {0, conn2} => e.type = "Disconnected" /\ e.handle = conn
  /\ conn2 \notin {0, conn} => conn = 0 /\ adv /\ conn2 # last
  /\ adv2 => last2 = last /\ (adv \/ (e.type = "Answer" /\ \A k \in DOMAIN q : q[k].type # "Answer"))
  /\ last2 # last => adv
  /\ conn2 = conn => enc2 = enc
  /\ e.type = "Encryption" /\ e.value = 1 => enc2

(* An event that goes with the change of the link continues the story.     *)
LEMMA StoryAppend ==
  ASSUME NEW q \in Seq(Event), NEW e \in Event, NEW r, r = Then(q, e), NEW w,
         NEW conn, NEW last, NEW adv, NEW enc, NEW conn2, NEW last2, NEW adv2, NEW enc2,
         Story(w, q, conn, last, adv, enc),
         Follows(q, e, conn, last, adv, enc, conn2, last2, adv2, enc2)
  PROVE  \E v : v[0] = w[0] /\ Story(v, r, conn2, last2, adv2, enc2)
<1> USE DEF Follows
<1> DEFINE n == Len(q)
           v == [i \in 0..(n + 1) |-> IF i <= n THEN w[i] ELSE conn2]
<1>1. /\ r \in Seq(Event) /\ Len(r) = n + 1 /\ n \in Nat
      /\ DOMAIN q = 1..n /\ DOMAIN r = 1..(n + 1)
      /\ \A i \in 1..n : r[i] = q[i]
      /\ r[n + 1] = e
  BY Appended DEF Then
<1>2. w \in [0..n -> Nat] /\ w[n] = conn
  BY DEF Story
<1> HIDE DEF n
<1>3. v \in [0..Len(r) -> Nat] /\ v[Len(r)] = conn2 /\ v[0] = w[0] /\ v[n] = conn /\ v[n + 1] = conn2
      /\ \A i \in 0..n : v[i] = w[i]
  BY <1>1, <1>2
<1> HIDE DEF v
<1>4. ASSUME NEW i \in DOMAIN r PROVE Moves(v[i - 1], r[i], v[i])
  <2>1. CASE i = n + 1
    <3>1. i - 1 = n
      BY <1>1, <2>1
    <3> QED BY <1>1, <1>3, <2>1, <3>1
  <2>2. CASE i # n + 1
    <3>1. i \in DOMAIN q /\ i - 1 \in 0..n /\ i \in 0..n /\ r[i] = q[i]
      BY <1>1, <2>2
    <3>2. Moves(w[i - 1], q[i], w[i])
      BY <3>1 DEF Story
    <3> QED BY <1>3, <3>1, <3>2
  <2> QED BY <2>1, <2>2
<1>5. ASSUME NEW i \in 0..Len(r), v[i] \notin {0, conn2} PROVE Told(r, v[i], i)
  <2>1. i \in 0..n /\ v[i] = w[i]
    BY <1>1, <1>3, <1>5
  <2>2. CASE w[i] = conn
    <3>1. n + 1 \in DOMAIN r /\ i < n + 1
      BY <1>1, <2>1
    <3> QED BY <1>1, <1>5, <2>1, <2>2, <3>1 DEF Told
  <2>3. CASE w[i] # conn
    <3>1. PICK j \in DOMAIN q : i < j /\ q[j].type = "Disconnected" /\ q[j].handle = w[i]
      BY <1>5, <2>1, <2>3 DEF Story, Told, n
    <3>2. j \in DOMAIN r /\ r[j] = q[j]
      BY <1>1
    <3> QED BY <2>1, <3>1, <3>2 DEF Told
  <2> QED BY <2>2, <2>3
<1>6. ASSUME NEW i \in 0..n, Settled(r, i) PROVE Settled(q, i)
  BY <1>1, <1>6 DEF Settled
<1>7. ASSUME NEW i \in 0..n, Settled(q, i) PROVE w[i] \in {0, last} /\ (adv => w[i] = 0)
  BY <1>7 DEF Story, n
<1>8. ASSUME adv, NEW i \in 0..n PROVE w[i] \in {0, last}
  BY <1>8 DEF Story, n
<1>9. ASSUME adv2, NEW i \in 0..Len(r) PROVE v[i] \in {0, last2}
  <2>1. CASE i = n + 1
    BY <1>3, <2>1
  <2>2. CASE i # n + 1
    <3>1. i \in 0..n /\ v[i] = w[i]
      BY <1>1, <1>3, <2>2
    <3>2. CASE adv BY <1>8, <1>9, <3>1, <3>2
    <3>3. CASE ~adv
      <4>1. Settled(q, i)
        BY <1>9, <3>3 DEF Settled
      <4> QED BY <1>7, <1>9, <3>1, <4>1
    <3> QED BY <3>2, <3>3
  <2> QED BY <2>1, <2>2
<1>10. ASSUME NEW i \in 0..Len(r), Settled(r, i) PROVE v[i] \in {0, last2} /\ (adv2 => v[i] = 0)
  <2>1. CASE i = n + 1
    BY <1>3, <2>1
  <2>2. CASE i # n + 1
    <3>1. i \in 0..n /\ v[i] = w[i]
      BY <1>1, <1>3, <2>2
    <3>2. w[i] \in {0, last} /\ (adv => w[i] = 0)
      BY <1>6, <1>7, <1>10, <3>1
    <3>3. e.type # "Answer"
      <4>1. n + 1 \in DOMAIN r /\ ~(n + 1 <= i)
        BY <1>1, <3>1
      <4> QED BY <1>1, <1>10, <4>1 DEF Settled
    <3> QED BY <3>1, <3>2, <3>3
  <2> QED BY <2>1, <2>2
<1>11. ASSUME NEW i \in DOMAIN r, r[i].type = "Encryption", r[i].value = 1, v[i] = conn2 PROVE enc2
  <2>1. CASE i = n + 1
    BY <1>1, <1>11, <2>1
  <2>2. CASE i # n + 1
    <3>1. i \in DOMAIN q /\ i \in 0..n /\ r[i] = q[i] /\ v[i] = w[i]
      BY <1>1, <1>3, <2>2
    <3>2. Moves(w[i - 1], q[i], w[i])
      BY <3>1 DEF Story
    <3>3. w[i] # 0
      BY <1>11, <3>1, <3>2 DEF Moves
    <3>4. conn2 = conn
      <4>1. SUFFICES ASSUME conn2 # conn PROVE FALSE
        OBVIOUS
      <4> QED BY <1>8, <1>11, <3>1, <3>3, <4>1
    <3> QED BY <1>11, <3>1, <3>4 DEF Story
  <2> QED BY <2>1, <2>2
<1>12. Story(v, r, conn2, last2, adv2, enc2)
  BY <1>3, <1>4, <1>5, <1>9, <1>10, <1>11 DEF Story
<1> QED BY <1>3, <1>12

(* The fragments of a packet leave the link as it is.                      *)
LEMMA StoryFragments ==
  ASSUME NEW q \in Seq(Event), NEW n \in Nat, NEW f \in [1..n -> Event], NEW r, r = Followed(q, f),
         NEW conn \in Nat, conn # 0, \A i \in 1..n : f[i].type = "Acl" /\ f[i].handle = conn,
         NEW w, NEW last \in Nat, conn = last, NEW adv, ~adv, NEW enc \in BOOLEAN,
         Story(w, q, conn, last, adv, enc)
  PROVE  \E v : v[0] = w[0] /\ Story(v, r, conn, last, adv, enc)
<1> DEFINE m == Len(q)
           v == [i \in 0..(m + n) |-> IF i <= m THEN w[i] ELSE conn]
<1>0. f \in Seq(Event) /\ Len(f) = n
  OBVIOUS
<1>1. /\ r \in Seq(Event) /\ Len(r) = m + n /\ m \in Nat
      /\ DOMAIN q = 1..m /\ DOMAIN r = 1..(m + n)
      /\ \A i \in 1..m : r[i] = q[i]
      /\ \A i \in (m + 1)..(m + n) : r[i] = f[i - m]
  <2>1. r \in Seq(Event) /\ Len(r) = Len(q) + Len(f) /\ Len(q) \in Nat /\ DOMAIN q = 1..Len(q)
    <3>1. r \in Seq(Event)
      BY <1>0, ConcatProperties DEF Followed
    <3>2. Len(r) = Len(q) + Len(f)
      BY <1>0, ConcatProperties DEF Followed
    <3> QED BY <3>1, <3>2
  <2>2. DOMAIN r = 1..Len(r)
    BY <2>1
  <2>3. \A i \in 1..Len(q) : r[i] = q[i]
    BY <1>0, <2>1 DEF Followed
  <2>4. \A i \in (Len(q) + 1)..(Len(q) + Len(f)) : r[i] = f[i - Len(q)]
    BY <1>0, <2>1 DEF Followed
  <2> QED BY <1>0, <2>1, <2>2, <2>3, <2>4
<1>2. w \in [0..m -> Nat] /\ w[m] = conn
  BY DEF Story
<1> HIDE DEF m
<1>a. ASSUME NEW i \in Int, m <= i, i <= m + n PROVE v[i] = conn
  <2>1. i \in 0..(m + n)
    BY <1>1, <1>a
  <2>2. CASE i = m BY <1>2, <2>1, <2>2
  <2>3. CASE i # m
    <3>1. ~(i <= m)
      BY <1>1, <1>a, <2>3
    <3> QED BY <2>1, <3>1
  <2> QED BY <2>2, <2>3
<1>3. v \in [0..Len(r) -> Nat] /\ v[Len(r)] = conn /\ v[0] = w[0]
      /\ \A i \in 0..m : v[i] = w[i]
  <2>1. v \in [0..Len(r) -> Nat]
    BY <1>1, <1>2
  <2>2. \A i \in 0..m : v[i] = w[i]
    BY <1>1
  <2>3. v[m + n] = conn
    <3>1. m + n \in Int /\ m <= m + n /\ m + n <= m + n
      BY <1>1
    <3> HIDE DEF v
    <3> QED BY <1>a, <3>1
  <2>4. 0 \in 0..m
    BY <1>1
  <2> QED BY <1>1, <2>1, <2>2, <2>3, <2>4
<1> HIDE DEF v
<1>4. ASSUME NEW i \in (m + 1)..(m + n) PROVE r[i].type = "Acl" /\ r[i].handle = conn
  <2>1. i - m \in 1..n /\ r[i] = f[i - m]
    BY <1>1
  <2> QED BY <2>1
<1>5. ASSUME NEW i \in DOMAIN r PROVE Moves(v[i - 1], r[i], v[i])
  <2>1. CASE i > m
    <3>1. /\ i - 1 \in Int /\ m <= i - 1 /\ i - 1 <= m + n
          /\ i \in Int /\ m <= i /\ i <= m + n /\ i \in (m + 1)..(m + n)
      BY <1>1, <2>1
    <3>2. v[i - 1] = conn /\ v[i] = conn
      BY <1>a, <3>1
    <3>3. r[i].type = "Acl" /\ r[i].handle = conn
      BY <1>4, <3>1
    <3> QED BY <3>2, <3>3 DEF Moves
  <2>2. CASE i <= m
    <3>1. i \in DOMAIN q /\ i - 1 \in 0..m /\ i \in 0..m /\ r[i] = q[i]
      BY <1>1, <2>2
    <3>2. Moves(w[i - 1], q[i], w[i])
      BY <3>1 DEF Story
    <3> QED BY <1>3, <3>1, <3>2
  <2> QED BY <1>1, <2>1, <2>2
<1>6. ASSUME NEW i \in 0..Len(r), v[i] \notin {0, conn} PROVE Told(r, v[i], i)
  <2>1. i \in 0..m /\ v[i] = w[i]
    <3>1. i <= m
      <4>1. SUFFICES ASSUME ~(i <= m) PROVE FALSE
        OBVIOUS
      <4>2. i \in Int /\ m <= i /\ i <= m + n
        BY <1>1, <4>1
      <4> QED BY <1>a, <1>6, <4>2
    <3>2. i \in 0..m
      BY <1>1, <3>1
    <3> QED BY <1>3, <3>2
  <2>2. PICK j \in DOMAIN q : i < j /\ q[j].type = "Disconnected" /\ q[j].handle = w[i]
    BY <1>6, <2>1 DEF Story, Told, m
  <2>3. j \in DOMAIN r /\ r[j] = q[j]
    BY <1>1
  <2> QED BY <2>1, <2>2, <2>3 DEF Told
<1>7. ASSUME NEW i \in 0..Len(r), Settled(r, i) PROVE v[i] \in {0, last}
  <2>1. CASE i > m
    <3>1. i \in Int /\ m <= i /\ i <= m + n
      BY <1>1, <2>1
    <3> QED BY <1>a, <3>1
  <2>2. CASE i <= m
    <3>1. i \in 0..m /\ Settled(q, i)
      BY <1>1, <1>7, <2>2 DEF Settled
    <3> QED BY <1>3, <3>1 DEF Story, m
  <2> QED BY <1>1, <2>1, <2>2
<1>8. ASSUME NEW i \in DOMAIN r, r[i].type = "Encryption", r[i].value = 1, v[i] = conn PROVE enc
  <2>1. i <= m
    <3>1. SUFFICES ASSUME i > m PROVE FALSE
      BY <1>1
    <3>2. i \in (m + 1)..(m + n)
      BY <1>1, <3>1
    <3> QED BY <1>4, <1>8, <3>2
  <2>2. i \in DOMAIN q /\ r[i] = q[i] /\ v[i] = w[i]
    BY <1>1, <1>3, <2>1
  <2> QED BY <1>8, <2>2 DEF Story
<1>9. Story(v, r, conn, last, adv, enc)
  BY <1>3, <1>5, <1>6, <1>7, <1>8 DEF Story
<1> QED BY <1>3, <1>9

-----------------------------------------------------------------------------
(* The host's picture of the link.                                         *)

(* At most one answer is queued, and only while a command waits for it.    *)
Answers(q, command) ==
  /\ \A i, j \in DOMAIN q : q[i].type = "Answer" /\ q[j].type = "Answer" => i = j
  /\ \A i \in DOMAIN q : q[i].type = "Answer" => command # "none"

(* A host waiting for the answer to its reset ignores what comes before it. *)
ResetAnswered(q) ==
  \E k \in DOMAIN q : /\ q[k].type = "Answer"
                      /\ \A j \in DOMAIN q : k < j => q[j].type = "Disconnected"

(* The host's picture: the story of what it has yet to accept.             *)
Picture(believed, q, command, conn, last, adv, enc) ==
  /\ Answers(q, command)
  /\ IF command = "reset" THEN believed = 0 /\ ResetAnswered(q)
     ELSE \E w : w[0] = believed /\ Story(w, q, conn, last, adv, enc)

(* With nothing queued and no link the picture is complete.                *)
LEMMA PictureEmpty ==
  ASSUME NEW last, NEW adv, NEW enc PROVE Picture(0, <<>>, "none", 0, last, adv, enc)
<1>1. PICK w \in [0..0 -> Nat] : w[0] = 0
  <2> DEFINE z == [i \in 0..0 |-> 0]
  <2>1. z \in [0..0 -> Nat] /\ z[0] = 0
    OBVIOUS
  <2> QED BY <2>1
<1>2. Story(w, <<>>, 0, last, adv, enc)
  BY <1>1, StoryEmpty
<1> QED BY <1>1, <1>2 DEF Picture, Answers

(* Accepting the answer leaves none.                                       *)
LEMMA AnswersTail ==
  ASSUME NEW q \in Seq(Event), q # <<>>, NEW command, Answers(q, command)
  PROVE  /\ Answers(Tail(q), command)
         /\ Head(q).type = "Answer" => Answers(Tail(q), "none")
<1> DEFINE t == Tail(q)
<1>1. /\ DOMAIN q = 1..Len(q) /\ DOMAIN t = 1..Len(t) /\ Len(t) = Len(q) - 1 /\ Len(q) \in Nat \ {0}
      /\ \A i \in DOMAIN t : i + 1 \in DOMAIN q /\ t[i] = q[i + 1]
      /\ Head(q) = q[1] /\ 1 \in DOMAIN q
  OBVIOUS
<1> HIDE DEF t
<1>2. ASSUME NEW i \in DOMAIN t, NEW j \in DOMAIN t, t[i].type = "Answer", t[j].type = "Answer"
      PROVE  i = j
  <2>1. i + 1 = j + 1
    BY <1>1, <1>2 DEF Answers
  <2> QED BY <1>1, <2>1
<1>3. ASSUME NEW i \in DOMAIN t, t[i].type = "Answer" PROVE command # "none"
  BY <1>1, <1>3 DEF Answers
<1>4. ASSUME NEW i \in DOMAIN t, t[i].type = "Answer", Head(q).type = "Answer" PROVE FALSE
  <2>1. 1 = i + 1
    BY <1>1, <1>4 DEF Answers
  <2> QED BY <1>1, <2>1
<1>5. Answers(t, command) /\ (Head(q).type = "Answer" => Answers(t, "none"))
  BY <1>2, <1>3, <1>4 DEF Answers
<1> QED BY <1>5 DEF t

(* What the host accepts next moves its picture by one event.              *)
LEMMA PictureTail ==
  ASSUME NEW q \in Seq(Event), q # <<>>, NEW believed, NEW command, command # "reset",
         NEW conn \in Nat, NEW last \in Nat, NEW adv \in BOOLEAN, NEW enc \in BOOLEAN,
         Picture(believed, q, command, conn, last, adv, enc)
  PROVE  \E d : /\ Moves(believed, Head(q), d)
                /\ Picture(d, Tail(q), IF Head(q).type = "Answer" THEN "none" ELSE command,
                           conn, last, adv, enc)
                /\ Head(q).type = "Encryption" /\ Head(q).value = 1 /\ d = conn => enc
<1>1. PICK w : w[0] = believed /\ Story(w, q, conn, last, adv, enc)
  BY DEF Picture
<1>2. PICK v : v[0] = w[1] /\ Story(v, Tail(q), conn, last, adv, enc)
  BY <1>1, StoryTail
<1>3. Moves(believed, Head(q), w[1])
  BY <1>1, StoryTail
<1>4. Head(q).type = "Encryption" /\ Head(q).value = 1 /\ w[1] = conn => enc
  <2>1. 1 \in DOMAIN q /\ Head(q) = q[1]
    OBVIOUS
  <2> QED BY <1>1, <2>1 DEF Story
<1>5. Answers(Tail(q), IF Head(q).type = "Answer" THEN "none" ELSE command)
  BY AnswersTail DEF Picture
<1>6. Picture(w[1], Tail(q), IF Head(q).type = "Answer" THEN "none" ELSE command, conn, last, adv, enc)
  BY <1>2, <1>5 DEF Picture
<1> QED BY <1>3, <1>4, <1>6

(* While its reset is unanswered the host skips events; after the answer   *)
(* only disconnections follow.                                             *)
LEMMA PictureResetTail ==
  ASSUME NEW q \in Seq(Event), q # <<>>, NEW last \in Nat, NEW enc \in BOOLEAN,
         Picture(0, q, "reset", 0, last, FALSE, enc)
  PROVE  Picture(0, Tail(q), IF Head(q).type = "Answer" THEN "none" ELSE "reset",
                 0, last, FALSE, enc)
<1> DEFINE t == Tail(q)
<1>1. /\ DOMAIN q = 1..Len(q) /\ DOMAIN t = 1..Len(t) /\ Len(t) = Len(q) - 1 /\ Len(q) \in Nat \ {0}
      /\ \A i \in DOMAIN t : i + 1 \in DOMAIN q /\ t[i] = q[i + 1]
      /\ Head(q) = q[1] /\ 1 \in DOMAIN q /\ t \in Seq(Event)
  OBVIOUS
<1> HIDE DEF t
<1>2. PICK k \in DOMAIN q : /\ q[k].type = "Answer"
                            /\ \A j \in DOMAIN q : k < j => q[j].type = "Disconnected"
  BY DEF Picture, ResetAnswered
<1>3. Answers(t, "reset") /\ (Head(q).type = "Answer" => Answers(t, "none"))
  BY AnswersTail DEF Picture, t
<1>4. CASE Head(q).type = "Answer"
  <2>1. k = 1
    BY <1>1, <1>2, <1>4 DEF Picture, Answers
  <2>2. ASSUME NEW i \in DOMAIN t PROVE t[i].type = "Disconnected"
    BY <1>1, <1>2, <2>1
  <2> DEFINE w == [i \in 0..Len(t) |-> 0]
  <2>3. w \in [0..Len(t) -> Nat] /\ \A i \in 0..Len(t) : w[i] = 0
    OBVIOUS
  <2>4. ASSUME NEW i \in DOMAIN t PROVE i - 1 \in 0..Len(t) /\ i \in 0..Len(t)
    BY <1>1
  <2>5. Len(t) \in 0..Len(t) /\ 0 \in 0..Len(t)
    BY <1>1
  <2> HIDE DEF w
  <2>6. ASSUME NEW i \in DOMAIN t PROVE Moves(w[i - 1], t[i], w[i])
    <3>1. w[i - 1] = 0 /\ w[i] = 0
      BY <2>3, <2>4
    <3> QED BY <2>2, <3>1 DEF Moves
  <2>7. ASSUME NEW i \in DOMAIN t PROVE t[i].type # "Encryption"
    BY <2>2
  <2>8. Story(w, t, 0, last, FALSE, enc)
    BY <2>3, <2>5, <2>6, <2>7 DEF Story
  <2> QED BY <1>3, <1>4, <2>3, <2>5, <2>8 DEF Picture, t
<1>5. CASE Head(q).type # "Answer"
  <2>1. k # 1
    BY <1>1, <1>2, <1>5
  <2>2. k - 1 \in DOMAIN t /\ t[k - 1] = q[k]
    BY <1>1, <2>1
  <2>3. ASSUME NEW j \in DOMAIN t, k - 1 < j PROVE t[j].type = "Disconnected"
    BY <1>1, <1>2, <2>3
  <2>4. ResetAnswered(t)
    BY <1>2, <2>2, <2>3 DEF ResetAnswered
  <2> QED BY <1>3, <1>5, <2>4 DEF Picture, t
<1> QED BY <1>4, <1>5

-----------------------------------------------------------------------------
(* Events other than an answer extend the picture as they extend the story. *)

(* Events without an answer leave the one there is.                        *)
LEMMA AnswersAppend ==
  ASSUME NEW q \in Seq(Event), NEW s \in Seq(Event), NEW command, Answers(q, command),
         \A i \in DOMAIN s : s[i].type # "Answer", NEW r, r = Followed(q, s)
  PROVE  Answers(r, command)
<1>1. ASSUME NEW i \in DOMAIN r, r[i].type = "Answer" PROVE i \in DOMAIN q /\ r[i] = q[i]
  BY <1>1 DEF Then, Followed
<1> QED BY <1>1 DEF Answers

(* The same for one event.                                                 *)
LEMMA AnswersEvent ==
  ASSUME NEW q \in Seq(Event), NEW e \in Event, NEW command, Answers(q, command),
         e.type # "Answer", NEW r, r = Then(q, e)
  PROVE  Answers(r, command)
<1>1. ASSUME NEW i \in DOMAIN r, r[i].type = "Answer" PROVE i \in DOMAIN q /\ r[i] = q[i]
  BY <1>1 DEF Then, Followed
<1> QED BY <1>1 DEF Answers

(* A command sent while none waits has the only answer.                    *)
LEMMA AnswersCommand ==
  ASSUME NEW q \in Seq(Event), Answers(q, "none"), NEW command, command # "none",
         NEW e \in Event, NEW r, r = Then(q, e)
  PROVE  /\ Answers(r, command)
         /\ \A k \in DOMAIN q : q[k].type # "Answer"
<1>1. \A k \in DOMAIN q : q[k].type # "Answer"
  BY DEF Answers
<1>2. ASSUME NEW i \in DOMAIN r, r[i].type = "Answer" PROVE i = Len(q) + 1
  BY <1>1, <1>2 DEF Then
<1>3. Answers(r, command)
  BY <1>2 DEF Answers
<1> QED BY <1>1, <1>3

(* The radio is advertising.                                               *)
On(adv) == adv

(* What the host believes before a connection is made is not that one.     *)
LEMMA PictureHost ==
  ASSUME NEW q \in Seq(Event), NEW believed, NEW command,
         NEW conn, NEW last, NEW adv, On(adv), NEW enc,
         Picture(believed, q, command, conn, last, adv, enc)
  PROVE  believed \in {0, last}
<1>1. 0 \in 0..Len(q)
  OBVIOUS
<1> QED BY <1>1 DEF Picture, Story, On

(* An event about the connection there is, and nothing else.               *)
LEMMA PictureKeeps ==
  ASSUME NEW q \in Seq(Event), NEW e \in Event, NEW r, r = Then(q, e),
         NEW believed, NEW command, command # "reset",
         NEW conn \in Nat, conn # 0, NEW adv \in BOOLEAN, ~adv, NEW enc \in BOOLEAN,
         Picture(believed, q, command, conn, conn, adv, enc),
         e.type \in {"KeyRequest", "Encryption", "Info", "Completed"}, e.handle = conn,
         e.type = "Encryption" /\ e.value = 1 => enc
  PROVE  Picture(believed, r, command, conn, conn, adv, enc)
<1>1. PICK w : w[0] = believed /\ Story(w, q, conn, conn, adv, enc)
  BY DEF Picture
<1>2. Follows(q, e, conn, conn, adv, enc, conn, conn, adv, enc)
  BY DEF Moves, Follows
<1>3. \E v : v[0] = w[0] /\ Story(v, r, conn, conn, adv, enc)
  BY <1>1, <1>2, StoryAppend
<1>4. Answers(r, command)
  BY AnswersEvent DEF Picture
<1> QED BY <1>1, <1>3, <1>4 DEF Picture

(* disconnect(): its event takes the host from the connection to none.     *)
LEMMA PictureDrops ==
  ASSUME NEW q \in Seq(Event), NEW e \in Event, NEW r, r = Then(q, e),
         NEW believed, NEW command, command # "reset",
         NEW conn \in Nat, conn # 0, NEW adv \in BOOLEAN, ~adv, NEW enc \in BOOLEAN,
         Picture(believed, q, command, conn, conn, adv, enc),
         e.type = "Disconnected", e.handle = conn,
         NEW conn2, conn2 = 0, NEW enc2 \in BOOLEAN
  PROVE  Picture(believed, r, command, conn2, conn, adv, enc2)
<1>1. PICK w : w[0] = believed /\ Story(w, q, conn, conn, adv, enc)
  BY DEF Picture
<1>2. Follows(q, e, conn, conn, adv, enc, conn2, conn, adv, enc2)
  BY DEF Moves, Follows
<1>3. \E v : v[0] = w[0] /\ Story(v, r, conn2, conn, adv, enc2)
  BY <1>1, <1>2, StoryAppend
<1>4. Answers(r, command)
  BY AnswersEvent DEF Picture
<1> QED BY <1>1, <1>3, <1>4 DEF Picture

(* Connection Complete: a new handle, told to a host that has none.        *)
LEMMA PictureConnects ==
  ASSUME NEW q \in Seq(Event), NEW e \in Event, NEW r, r = Then(q, e),
         NEW believed, NEW command, command # "reset",
         NEW conn, conn = 0, NEW last \in Nat, NEW adv \in BOOLEAN, On(adv), NEW enc \in BOOLEAN,
         Picture(believed, q, command, conn, last, adv, enc),
         NEW h \in Nat, h # 0, h # last, NEW last2, last2 = h, e.type = "Connected", e.handle = h,
         NEW adv2 \in BOOLEAN, ~adv2, NEW enc2 \in BOOLEAN
  PROVE  Picture(believed, r, command, h, last2, adv2, enc2)
<1>1. PICK w : w[0] = believed /\ Story(w, q, conn, last, adv, enc)
  BY DEF Picture
<1>2. Follows(q, e, conn, last, adv, enc, h, last2, adv2, enc2)
  BY DEF Moves, Follows, On
<1>3. \E v : v[0] = w[0] /\ Story(v, r, h, last2, adv2, enc2)
  BY <1>1, <1>2, StoryAppend
<1>4. Answers(r, command)
  BY AnswersEvent DEF Picture
<1> QED BY <1>1, <1>3, <1>4 DEF Picture

(* The fragments of a packet of the peer.                                  *)
LEMMA PictureFragments ==
  ASSUME NEW q \in Seq(Event), NEW n \in Nat, NEW f \in [1..n -> Event], NEW r, r = Followed(q, f),
         NEW conn \in Nat, conn # 0, \A i \in 1..n : f[i].type = "Acl" /\ f[i].handle = conn,
         NEW believed, NEW command, command # "reset", NEW adv, ~adv, NEW enc \in BOOLEAN,
         Picture(believed, q, command, conn, conn, adv, enc)
  PROVE  Picture(believed, r, command, conn, conn, adv, enc)
<1>1. PICK w : w[0] = believed /\ Story(w, q, conn, conn, adv, enc)
  BY DEF Picture
<1>2. \E v : v[0] = w[0] /\ Story(v, r, conn, conn, adv, enc)
  <2>1. Story(w, q, conn, conn, adv, enc)
    BY <1>1
  <2>2. /\ q \in Seq(Event) /\ n \in Nat /\ f \in [1..n -> Event] /\ r = Followed(q, f)
        /\ conn \in Nat /\ conn # 0 /\ ~adv /\ enc \in BOOLEAN
        /\ \A i \in 1..n : f[i].type = "Acl" /\ f[i].handle = conn
    OBVIOUS
  <2> QED BY ONLY <2>1, <2>2, StoryFragments, SMTT(30)
<1>3. f \in Seq(Event) /\ \A i \in DOMAIN f : f[i].type # "Answer"
  OBVIOUS
<1>4. Answers(r, command)
  BY <1>3, AnswersAppend DEF Picture
<1> QED BY <1>1, <1>2, <1>4 DEF Picture

(* A command is answered in line; one of them may start advertising.       *)
LEMMA PictureCommand ==
  ASSUME NEW q \in Seq(Event), NEW e \in Event, NEW r, r = Then(q, e), NEW believed, NEW command, command \notin {"none", "reset"},
         NEW conn \in Nat, NEW last \in Nat, conn \in {0, last}, NEW adv \in BOOLEAN, NEW enc \in BOOLEAN,
         Picture(believed, q, "none", conn, last, adv, enc), conn # 0 => ~adv,
         e.type = "Answer", NEW adv2 \in BOOLEAN, adv2 => conn = 0
  PROVE  Picture(believed, r, command, conn, last, adv2, enc)
<1>1. PICK w : w[0] = believed /\ Story(w, q, conn, last, adv, enc)
  BY DEF Picture
<1>3. Answers(r, command) /\ \A k \in DOMAIN q : q[k].type # "Answer"
  BY AnswersCommand DEF Picture
<1>2. Follows(q, e, conn, last, adv, enc, conn, last, adv2, enc)
  BY <1>3 DEF Moves, Follows
<1>4. \E v : v[0] = w[0] /\ Story(v, r, conn, last, adv2, enc)
  BY <1>1, <1>2, <1>3, StoryAppend
<1> QED BY <1>1, <1>3, <1>4 DEF Picture

(* HCI Reset: the answer, then at most the end of the old connection.      *)
LEMMA PictureReset ==
  ASSUME NEW q \in Seq(Event), NEW e \in Event, NEW s \in Seq(Event),
         NEW r, r = Then(q, e), NEW t, t = Followed(r, s), Answers(q, "none"),
         e.type = "Answer", \A i \in DOMAIN s : s[i].type = "Disconnected",
         NEW conn, NEW last, NEW adv, NEW enc
  PROVE  Picture(0, t, "reset", conn, last, adv, enc)
<1>1. r \in Seq(Event) /\ Len(r) = Len(q) + 1 /\ r[Len(q) + 1] = e /\ Len(q) \in Nat
  BY Appended DEF Then
<1>2. Answers(r, "reset")
  <2>1. "reset" # "none"
    OBVIOUS
  <2> QED BY <2>1, AnswersCommand
<1>3. Answers(t, "reset")
  <2>1. \A i \in DOMAIN s : s[i].type # "Answer"
    OBVIOUS
  <2> QED BY <1>1, <1>2, <2>1, AnswersAppend
<1>4. Len(q) + 1 \in DOMAIN t /\ t[Len(q) + 1] = e
  BY <1>1 DEF Followed
<1>5. ASSUME NEW j \in DOMAIN t, Len(q) + 1 < j PROVE t[j].type = "Disconnected"
  <2>1. j - Len(r) \in DOMAIN s /\ t[j] = s[j - Len(r)]
    BY <1>1, <1>5 DEF Followed
  <2> QED BY <2>1
<1>6. ResetAnswered(t)
  BY <1>4, <1>5 DEF ResetAnswered
<1> QED BY <1>3, <1>6 DEF Picture

(* An unencrypted picture also suits a link that has become encrypted.     *)
LEMMA PictureKeyed ==
  ASSUME NEW believed, NEW q, NEW command, NEW conn, NEW last, NEW adv, NEW enc,
         Picture(believed, q, command, conn, last, adv, FALSE)
  PROVE  Picture(believed, q, command, conn, last, adv, enc)
BY DEF Picture, Story

(* The host's picture, and the state of the link it goes with.             *)
HostInv ==
  /\ connection # 0 \/ advertising => mask = {"Event", "LeEvent"}
  /\ connection # 0 => connection = nextHandle /\ ~advertising
  /\ pendingKey # NoKey => ~encrypted
  /\ ~Session => hostConn = 0 /\ hostCommand = "none"
  /\ hostCommand = "reset" => mask = {}
  /\ hostEncrypted => hostConn # 0 /\ (hostConn = connection => encrypted)
  /\ Picture(hostConn, Untaken, hostCommand, connection, nextHandle, advertising, encrypted)

(* What HostInv reads of the host.                                         *)
believes == <<hostConn, hostEncrypted, hostCommand>>

(* Untaken is a queue of events, and grows with the controller's queue.    *)
LEMMA UntakenType == ASSUME ControllerInv PROVE Untaken \in Seq(Event)
<1>1. events \in Seq(Event) /\ (inFlight /\ ~cancelled => events # <<>>)
  BY DEF ControllerInv, TypeOK, ValuesOK, DeliveryInv
<1> QED BY <1>1 DEF Untaken

(* Appended events are appended to what the host has yet to accept.        *)
LEMMA UntakenAppend ==
  ASSUME ControllerInv, NEW s \in Seq(Event), events' = events \o s,
         UNCHANGED <<inFlight, taken, cancelled>>
  PROVE  Untaken' = Untaken \o s
<1>1. events \in Seq(Event)
  BY DEF ControllerInv, TypeOK, ValuesOK
<1>2. CASE inFlight /\ taken /\ ~cancelled
  <2>1. events # <<>>
    BY <1>2 DEF ControllerInv, DeliveryInv
  <2>2. Tail(events \o s) = Tail(events) \o s
    BY <1>1, <2>1
  <2> QED BY <1>2, <2>2 DEF Untaken
<1>3. CASE ~(inFlight /\ taken /\ ~cancelled)
  BY <1>3 DEF Untaken
<1> QED BY <1>2, <1>3

(* Untaken depends on the queue and the delivery in progress only.         *)
LEMMA UntakenFrame ==
  ASSUME UNCHANGED <<events, inFlight, taken, cancelled>> PROVE UNCHANGED Untaken
BY DEF Untaken

(* The same for one event.                                                 *)
LEMMA UntakenThen ==
  ASSUME ControllerInv, NEW e \in Event, events' = events \o <<e>>,
         UNCHANGED <<inFlight, taken, cancelled>>
  PROVE  Untaken' = Then(Untaken, e)
<1> DEFINE s == <<e>>
<1>1. s \in Seq(Event) /\ events' = events \o s
  OBVIOUS
<1> HIDE DEF s
<1>2. Untaken' = Untaken \o s
  BY <1>1, UntakenAppend
<1> QED BY <1>2 DEF s, Then

(* Steps that touch neither the link nor the host.                         *)
LEMMA HostFrame ==
  ASSUME HostInv, UNCHANGED <<Untaken, believes, connection, nextHandle, encrypted, pendingKey>>,
         UNCHANGED <<mask, advertising>>, ~Session' => ~Session
  PROVE  HostInv'
BY DEF HostInv, believes

(* Steps after which there is no session.                                  *)
LEMMA HostFresh ==
  ASSUME Untaken' = <<>>, hostConn' = 0, hostCommand' = "none", ~hostEncrypted',
         connection' = 0, pendingKey' = NoKey, ~advertising'
  PROVE  HostInv'
<1>1. Picture(hostConn', Untaken', hostCommand', connection', nextHandle', advertising', encrypted')
  BY PictureEmpty
<1> QED BY <1>1 DEF HostInv

(* An event about the live connection.                                     *)
LEMMA HostKeeps ==
  ASSUME ControllerInv, HostInv, connection # 0,
         UNCHANGED <<believes, connection, nextHandle, encrypted, mask, advertising>>,
         pendingKey' # NoKey => ~encrypted, ~Session' => ~Session,
         NEW e \in Event, e.type \in {"KeyRequest", "Encryption", "Info", "Completed"},
         e.handle = connection, e.type = "Encryption" /\ e.value = 1 => encrypted,
         Untaken' = Then(Untaken, e)
  PROVE  HostInv'
<1>1. connection = nextHandle /\ ~advertising /\ hostCommand # "reset"
  BY DEF HostInv
<1>2. Picture(hostConn, Untaken, hostCommand, connection, connection, advertising, encrypted)
  BY <1>1 DEF HostInv
<1>3. /\ Untaken \in Seq(Event) /\ connection \in Nat
      /\ encrypted \in BOOLEAN /\ advertising \in BOOLEAN
  BY UntakenType, ConstantsAssumption DEF ControllerInv, TypeOK, FlagsOK, ValuesOK
<1>4. Picture(hostConn, Untaken', hostCommand, connection, connection, advertising, encrypted)
  BY <1>1, <1>2, <1>3, PictureKeeps
<1> QED BY <1>1, <1>4 DEF HostInv, believes

(* The link goes down, and the host is sent the news.                      *)
LEMMA HostDrops ==
  ASSUME ControllerInv, HostInv, connection # 0, disconnect,
         events' = events \o DisconnectEvent,
         UNCHANGED <<inFlight, taken, cancelled, believes, nextHandle, radio, lifecycle, callbacks>>
  PROVE  HostInv'
<1> DEFINE e == Ev("Disconnected", connection, 0)
<1>1. /\ connection' = 0 /\ encrypted' = FALSE /\ pendingKey' = NoKey
      /\ UNCHANGED <<mask, advertising, Session>>
  BY DEF disconnect, radio, Session, lifecycle
<1>2. /\ connection = nextHandle /\ ~advertising /\ hostCommand # "reset"
      /\ mask = {"Event", "LeEvent"}
  BY DEF HostInv
<1>3. /\ Untaken \in Seq(Event) /\ connection \in Nat
      /\ encrypted \in BOOLEAN /\ advertising \in BOOLEAN
  BY UntakenType, ConstantsAssumption DEF ControllerInv, TypeOK, FlagsOK, ValuesOK
<1>4. e \in Event /\ e.type = "Disconnected" /\ e.handle = connection
  BY <1>3, EvType DEF EventTypes, Ev
<1>5. DisconnectEvent = <<e>>
  BY <1>2 DEF DisconnectEvent, queueEvent
<1> HIDE DEF e
<1>6. Untaken' = Then(Untaken, e)
  BY <1>4, <1>5, UntakenThen
<1>7. Picture(hostConn, Untaken, hostCommand, connection, connection, advertising, encrypted)
  BY <1>2 DEF HostInv
<1>8. Picture(hostConn, Untaken', hostCommand, connection', connection, advertising, encrypted')
  <2>1. connection' = 0 /\ encrypted' \in BOOLEAN
    BY <1>1
  <2> QED BY <1>2, <1>3, <1>4, <1>6, <1>7, <2>1, PictureDrops
<1> QED BY <1>1, <1>2, <1>8 DEF HostInv, believes

(* The API task: only Disable touches the link, and it ends the session.   *)
LEMMA HostApi == ASSUME ControllerInv, HostInv, ApiStep PROVE HostInv'
<1>1. CASE HleDisable
  <2>1. connection' = 0 /\ pendingKey' = NoKey /\ ~advertising'
    BY <1>1 DEF HleDisable, resetHci, disconnect, link, ControllerInv, NothingOutlivesLink
  <2>2. hostConn' = 0 /\ hostCommand' = "none" /\ ~hostEncrypted'
    BY <1>1 DEF HleDisable, HostDown
  <2>3. Untaken' = <<>>
    BY <1>1 DEF HleDisable, CancelDelivery, Untaken
  <2> QED BY <2>1, <2>2, <2>3, HostFresh
<1>2. CASE HleFreed
  <2>1. connection' = 0 /\ pendingKey' = NoKey /\ ~advertising'
    BY <1>2 DEF HleFreed, Fresh
  <2>2. hostConn' = 0 /\ hostCommand' = "none" /\ ~hostEncrypted'
    <3>1. ~Session
      BY <1>2 DEF HleFreed, ControllerInv, ApiInv, Session
    <3> QED BY <1>2, <3>1 DEF HleFreed, host, hostLink, HostInv, ControllerInv, TypeOK, FlagsOK
  <2>3. Untaken' = <<>>
    BY <1>2 DEF HleFreed, Fresh, Untaken
  <2> QED BY <2>1, <2>2, <2>3, HostFresh
<1>3. CASE ~HleDisable /\ ~HleFreed
  <2> DEFINE Frame == UNCHANGED <<events, inFlight, taken, cancelled, link, radio, nextHandle, believes>>
             Stays == ~Session' => ~Session
  <2>a. ASSUME Frame, Stays PROVE HostInv'
    BY <2>a, UntakenFrame, HostFrame DEF link, radio
  <2> USE DEF vhci, lifecycle, socket, host, hostLink, believes, Session
  <2>1. CASE HleInit
    <3>1. Frame BY <2>1 DEF HleInit
    <3>2. Stays BY <2>1 DEF HleInit
    <3> QED BY <2>a, <3>1, <3>2
  <2>2. CASE HleAllocated
    <3>1. Frame BY <2>2 DEF HleAllocated
    <3>2. Stays BY <2>2 DEF HleAllocated
    <3> QED BY <2>a, <3>1, <3>2
  <2>3. CASE HleSemaphoreCreated
    <3>1. Frame BY <2>3 DEF HleSemaphoreCreated
    <3>2. Stays BY <2>3 DEF HleSemaphoreCreated
    <3> QED BY <2>a, <3>1, <3>2
  <2>4. CASE OsiTaskCreate
    <3>1. Frame BY <2>4 DEF OsiTaskCreate
    <3>2. Stays BY <2>4 DEF OsiTaskCreate
    <3> QED BY <2>a, <3>1, <3>2
  <2>5. CASE HleTaskCreated
    <3>1. Frame BY <2>5 DEF HleTaskCreated
    <3>2. Stays BY <2>5 DEF HleTaskCreated, ControllerInv, ApiInv
    <3> QED BY <2>a, <3>1, <3>2
  <2>6. CASE HleEnable
    <3>1. Frame BY <2>6 DEF HleEnable
    <3>2. Stays BY <2>6 DEF HleEnable
    <3> QED BY <2>a, <3>1, <3>2
  <2>7. CASE HleRegister
    <3>1. Frame BY <2>7 DEF HleRegister
    <3>2. Stays BY <2>7 DEF HleRegister
    <3> QED BY <2>a, <3>1, <3>2
  <2>8. CASE HleDeinit
    <3>1. Frame BY <2>8 DEF HleDeinit
    <3>2. Stays BY <2>8 DEF HleDeinit
    <3> QED BY <2>a, <3>1, <3>2
  <2>9. CASE OsiTaskDelete
    <3>1. Frame BY <2>9 DEF OsiTaskDelete
    <3>2. Stays BY <2>9 DEF OsiTaskDelete
    <3> QED BY <2>a, <3>1, <3>2
  <2>10. CASE HleTaskDeleted
    <3>1. Frame BY <2>10 DEF HleTaskDeleted
    <3>2. Stays BY <2>10 DEF HleTaskDeleted
    <3> QED BY <2>a, <3>1, <3>2
  <2>11. CASE HleSemaphoreDeleted
    <3>1. Frame BY <2>11 DEF HleSemaphoreDeleted
    <3>2. Stays BY <2>11 DEF HleSemaphoreDeleted
    <3> QED BY <2>a, <3>1, <3>2
  <2> QED
    BY <1>3, <2>1, <2>2, <2>3, <2>4, <2>5, <2>6, <2>7, <2>8, <2>9, <2>10, <2>11
    DEF ApiStep
<1> QED BY <1>1, <1>2, <1>3

(* The worker: a pop follows the acceptance, credits follow the packets.   *)
LEMMA HostWorker == ASSUME ControllerInv, HostInv, WorkerStep PROVE HostInv'
<1> USE DEF vhci, link, radio, socket, host, hostLink, lifecycle, believes, Session
<1>1. CASE WorkerStarts
  <2>1. UNCHANGED Untaken
    BY <1>1, UntakenFrame DEF WorkerStarts
  <2> QED BY <1>1, <2>1, HostFrame DEF WorkerStarts
<1>2. CASE HleReceiveReturned
  <2>1. UNCHANGED Untaken
    BY <1>2 DEF HleReceiveReturned, Untaken, ControllerInv, DeliveryInv
  <2> QED BY <1>2, <2>1, HostFrame DEF HleReceiveReturned
<1>3. CASE PollLinkLost
  BY <1>3, HostDrops DEF PollLinkLost, LinkLost
<1>4. CASE PollUnregistered
  <2>1. UNCHANGED Untaken
    BY <1>4, UntakenFrame DEF PollUnregistered
  <2> QED BY <1>4, <2>1, HostFrame DEF PollUnregistered
<1>5. CASE PollReady
  <2>1. UNCHANGED Untaken
    BY <1>5, UntakenFrame DEF PollReady
  <2> QED BY <1>5, <2>1, HostFrame DEF PollReady
<1>6. CASE PollDeliver
  <2>1. Untaken = events /\ Untaken' = events \o CompletedEvent
    BY <1>6 DEF PollDeliver, Untaken, ControllerInv, DeliveryInv
  <2>2. UNCHANGED <<believes, connection, nextHandle, encrypted, pendingKey, mask, advertising, Session>>
    BY <1>6 DEF PollDeliver
  <2>3. CASE completedAcl = 0
    <3>1. UNCHANGED Untaken
      BY <2>1, <2>3 DEF CompletedEvent, ControllerInv, TypeOK, ValuesOK
    <3> QED BY <2>2, <3>1, HostFrame
  <2>4. CASE completedAcl # 0
    <3>1. connection # 0
      BY <2>4 DEF ControllerInv, NothingOutlivesLink
    <3> DEFINE e == Ev("Completed", connection, completedAcl)
    <3>2. e \in Event /\ e.type = "Completed" /\ e.handle = connection
      BY EvType, ConstantsAssumption DEF EventTypes, ControllerInv, TypeOK, ValuesOK, Ev
    <3>3. Untaken' = Then(Untaken, e)
      BY <2>1, <2>4 DEF CompletedEvent, Then
    <3>4. (pendingKey' # NoKey => ~encrypted) /\ (~Session' => ~Session)
      BY <2>2 DEF HostInv
    <3> HIDE DEF e
    <3> QED BY <2>2, <3>1, <3>2, <3>3, <3>4, HostKeeps
  <2> QED BY <2>3, <2>4
<1>7. CASE PollEmpty
  <2>1. UNCHANGED Untaken
    BY <1>7, UntakenFrame DEF PollEmpty
  <2> QED BY <1>7, <2>1, HostFrame DEF PollEmpty
<1> QED
  BY <1>1, <1>2, <1>3, <1>4, <1>5, <1>6, <1>7 DEF WorkerStep

(* The peer's messages: each changes the link and queues what it did.      *)
LEMMA HostPeer == ASSUME ControllerInv, HostInv, PeerStep PROVE HostInv'
<1> USE DEF vhci, link, radio, socket, host, hostLink, lifecycle, believes, Session
<1>0. connection \in Nat /\ nextHandle \in 0..MaxHandle
  BY ConstantsAssumption DEF ControllerInv, TypeOK, ValuesOK
<1>1. CASE PeerConnect
  <2> DEFINE h == NextHandle(nextHandle)
             e == Ev("Connected", h, 0)
  <2>1. h \in 1..MaxHandle /\ h # nextHandle
    BY <1>0, ConstantsAssumption DEF NextHandle
  <2>2. /\ connection = 0 /\ advertising /\ connection' = h /\ nextHandle' = h /\ ~advertising'
        /\ encrypted' = FALSE /\ pendingKey' = NoKey /\ UNCHANGED <<mask, believes>>
        /\ Session' = Session
    BY <1>1 DEF PeerConnect
  <2>3. mask = {"Event", "LeEvent"} /\ hostCommand # "reset"
    BY <2>2 DEF HostInv
  <2>4. e \in Event /\ e.type = "Connected" /\ e.handle = h
    BY <2>1, EvType, ConstantsAssumption DEF EventTypes, Ev
  <2>5. Untaken' = Then(Untaken, e)
    <3>1. queueLeEvent(Ev("Connected", connection', 0)) = <<e>>
      BY <2>2, <2>3 DEF queueLeEvent, queueEvent
    <3>2. events' = events \o <<e>>
      BY <1>1, <3>1 DEF PeerConnect
    <3>3. UNCHANGED <<inFlight, taken, cancelled>>
      BY <1>1 DEF PeerConnect
    <3> HIDE DEF e
    <3> QED BY <2>4, <3>2, <3>3, UntakenThen
  <2> HIDE DEF h, e
  <2>6. Picture(hostConn', Untaken', hostCommand', connection', nextHandle', advertising', encrypted')
    <3>1. Picture(hostConn, Untaken, hostCommand, connection, nextHandle, advertising, encrypted)
      BY DEF HostInv
    <3>2. Untaken \in Seq(Event) /\ nextHandle \in Nat /\ h \in Nat /\ h # 0
      BY <1>0, <2>1, UntakenType, ConstantsAssumption
    <3>3. /\ advertising \in BOOLEAN /\ encrypted \in BOOLEAN
          /\ advertising' \in BOOLEAN /\ encrypted' \in BOOLEAN
      BY <1>1 DEF ControllerInv, TypeOK, FlagsOK, PeerConnect
    <3>4. connection = 0 /\ On(advertising) /\ ~advertising' /\ nextHandle' = h
      BY <2>2 DEF On
    <3>5. Picture(hostConn, Untaken', hostCommand, h, nextHandle', advertising', encrypted')
      BY ONLY <2>1, <2>3, <2>4, <2>5, <3>1, <3>2, <3>3, <3>4, PictureConnects
    <3> QED BY <2>2, <3>5
  <2>7. hostEncrypted => hostConn # connection'
    <3>1. Picture(hostConn, Untaken, hostCommand, connection, nextHandle, advertising, encrypted)
      BY DEF HostInv
    <3>2. hostConn \in {0, nextHandle}
      <4>1. On(advertising) /\ Untaken \in Seq(Event)
        BY <2>2, UntakenType DEF On
      <4> QED BY ONLY <3>1, <4>1, PictureHost
    <3> QED BY <2>1, <2>2, <3>2
  <2> QED BY <2>1, <2>2, <2>3, <2>6, <2>7 DEF HostInv
<1>2. CASE PeerDisconnect
  BY <1>2, HostDrops DEF PeerDisconnect
<1>3. CASE PeerL2cap
  <2>1. PICK n \in 1..MaxFragments :
          events' = events \o [i \in 1..n |-> Ev("Acl", connection, IF i = 1 THEN 1 ELSE 0)]
    BY <1>3 DEF PeerL2cap
  <2> DEFINE f == [i \in 1..n |-> Ev("Acl", connection, IF i = 1 THEN 1 ELSE 0)]
  <2>2. /\ connection # 0 /\ UNCHANGED <<believes, connection, nextHandle, encrypted, pendingKey>>
        /\ UNCHANGED <<mask, advertising, inFlight, taken, cancelled, Session>>
    BY <1>3 DEF PeerL2cap
  <2>3. n \in Nat /\ f \in [1..n -> Event]
    <3>1. \A i \in 1..n : Ev("Acl", connection, IF i = 1 THEN 1 ELSE 0) \in Event
      BY <1>0, EvType DEF EventTypes
    <3> QED BY <3>1, ConstantsAssumption
  <2>4. \A i \in 1..n : f[i].type = "Acl" /\ f[i].handle = connection
    BY DEF Ev
  <2>5. f \in Seq(Event) /\ events' = events \o f
    BY <2>1, <2>3
  <2> HIDE DEF f
  <2>6. Untaken' = Followed(Untaken, f)
    BY <2>2, <2>5, UntakenAppend DEF Followed
  <2>7. connection = nextHandle /\ ~advertising /\ hostCommand # "reset"
    BY <2>2 DEF HostInv
  <2>8. Picture(hostConn, Untaken, hostCommand, connection, connection, advertising, encrypted)
    BY <2>7 DEF HostInv
  <2>9. Picture(hostConn, Untaken', hostCommand, connection, connection, advertising, encrypted)
    <3>1. Untaken \in Seq(Event) /\ encrypted \in BOOLEAN
      BY UntakenType DEF ControllerInv, TypeOK, FlagsOK
    <3> QED BY ONLY <1>0, <2>2, <2>3, <2>4, <2>6, <2>7, <2>8, <3>1, PictureFragments
  <2> QED BY <2>2, <2>7, <2>9 DEF HostInv
<1>4. CASE PeerEncrypt
  <2> DEFINE e == Ev("KeyRequest", connection, 0)
  <2>1. /\ connection # 0 /\ ~encrypted
        /\ UNCHANGED <<believes, connection, nextHandle, encrypted>>
        /\ UNCHANGED <<mask, advertising, inFlight, taken, cancelled, Session>>
        /\ events' = events \o queueLeEvent(e)
    BY <1>4 DEF PeerEncrypt, EncryptAllowed
  <2>2. e \in Event /\ e.type = "KeyRequest" /\ e.handle = connection
    BY <1>0, EvType DEF EventTypes, Ev
  <2>3. queueLeEvent(e) = <<e>>
    BY <2>1 DEF HostInv, queueLeEvent, queueEvent
  <2> HIDE DEF e
  <2>4. Untaken' = Then(Untaken, e)
    BY <2>1, <2>2, <2>3, UntakenThen
  <2> QED BY <2>1, <2>2, <2>4, HostKeeps
<1>5. CASE SocketLost
  <2>1. UNCHANGED Untaken
    BY <1>5, UntakenFrame DEF SocketLost
  <2> QED BY <1>5, <2>1, HostFrame DEF SocketLost
<1> QED
  BY <1>1, <1>2, <1>3, <1>4, <1>5 DEF PeerStep

-----------------------------------------------------------------------------
(* The host's own steps.                                                   *)

(* The Command Complete or Command Status of any command.                  *)
answer == Ev("Answer", 0, 0)

(* It is an event.                                                         *)
LEMMA AnswerType == answer \in Event /\ answer.type = "Answer"
BY EvType DEF answer, EventTypes, Ev

(* A command appends its answer, then its event.                           *)
LEMMA CommandUntaken ==
  ASSUME ControllerInv, NEW op, NEW produced \in Seq(Event), Command(op, produced)
  PROVE  /\ Untaken' = Followed(Then(Untaken, answer), produced)
         /\ produced = <<>> => Untaken' = Then(Untaken, answer)
<1>1. events \in Seq(Event) /\ Untaken \in Seq(Event) /\ <<answer>> \in Seq(Event)
  BY UntakenType, AnswerType DEF ControllerInv, TypeOK, ValuesOK
<1>2. events' = events \o (<<answer>> \o produced) /\ UNCHANGED <<inFlight, taken, cancelled>>
  BY <1>1 DEF Command, answer
<1>3. <<answer>> \o produced \in Seq(Event)
  BY <1>1
<1>4. Untaken' = Untaken \o (<<answer>> \o produced)
  BY <1>2, <1>3, UntakenAppend
<1>5. Untaken \o (<<answer>> \o produced) = (Untaken \o <<answer>>) \o produced
  BY <1>1
<1>6. produced = <<>> => <<answer>> \o produced = <<answer>>
  BY <1>1
<1> QED BY <1>4, <1>5, <1>6 DEF Followed, Then

(* A command without an event.                                             *)
LEMMA CommandAlone ==
  ASSUME ControllerInv, NEW op, Command(op, <<>>) PROVE Untaken' = Then(Untaken, answer)
<1> DEFINE s == <<>>
<1>1. s \in Seq(Event) /\ Command(op, s) /\ s = <<>>
  OBVIOUS
<1> HIDE DEF s
<1> QED BY <1>1, CommandUntaken

(* A command with one event.                                               *)
LEMMA CommandEvent ==
  ASSUME ControllerInv, NEW op, NEW e \in Event, Command(op, <<e>>)
  PROVE  Untaken' = Then(Then(Untaken, answer), e)
<1> DEFINE s == <<e>>
<1>1. s \in Seq(Event) /\ Command(op, s)
  OBVIOUS
<1> HIDE DEF s
<1>2. Untaken' = Followed(Then(Untaken, answer), s)
  BY <1>1, CommandUntaken
<1> QED BY <1>2 DEF s, Then, Followed

(* The picture once a command is answered.                                 *)
LEMMA AnsweredPicture ==
  ASSUME ControllerInv, HostInv, hostCommand = "none", NEW op \in Commands, op # "reset",
         NEW adv \in BOOLEAN, adv => connection = 0
  PROVE  /\ Picture(hostConn, Then(Untaken, answer), op, connection, nextHandle, adv, encrypted)
         /\ Then(Untaken, answer) \in Seq(Event)
<1>1. /\ Untaken \in Seq(Event) /\ connection \in Nat /\ nextHandle \in Nat
      /\ encrypted \in BOOLEAN /\ advertising \in BOOLEAN
  BY UntakenType, ConstantsAssumption DEF ControllerInv, TypeOK, FlagsOK, ValuesOK
<1>2. op \notin {"none", "reset"}
  BY DEF Commands
<1>3. Picture(hostConn, Untaken, "none", connection, nextHandle, advertising, encrypted)
  BY DEF HostInv
<1>4. connection \in {0, nextHandle} /\ (connection # 0 => ~advertising)
  BY DEF HostInv
<1>5. Picture(hostConn, Then(Untaken, answer), op, connection, nextHandle, adv, encrypted)
  BY <1>1, <1>2, <1>3, <1>4, AnswerType, PictureCommand
<1>6. Then(Untaken, answer) \in Seq(Event)
  BY <1>1, AnswerType DEF Then
<1> QED BY <1>5, <1>6

(* A command without an event of its own.                                  *)
LEMMA HostPlain ==
  ASSUME ControllerInv, HostInv, NEW op \in Commands, op # "reset", Command(op, <<>>),
         UNCHANGED <<connection, encrypted, pendingKey, hostConn, hostEncrypted>>,
         advertising' \in BOOLEAN, advertising' => connection = 0,
         connection # 0 \/ advertising' => mask' = {"Event", "LeEvent"}
  PROVE  HostInv'
<1>1. hostCommand = "none" /\ hostCommand' = op /\ UNCHANGED nextHandle /\ Session /\ Session'
  BY DEF Command, HostMaySend, Session, lifecycle, socket
<1>2. Untaken' = Then(Untaken, answer)
  BY CommandAlone
<1>3. Picture(hostConn, Then(Untaken, answer), op, connection, nextHandle, advertising', encrypted)
  BY <1>1, AnsweredPicture
<1> QED BY <1>1, <1>2, <1>3 DEF HostInv

(* A command with an event about the live connection.                      *)
LEMMA HostInforms ==
  ASSUME ControllerInv, HostInv, NEW op \in Commands, op # "reset", connection # 0,
         NEW e \in Event, Command(op, <<e>>), e.type \in {"Encryption", "Info"},
         e.handle = connection, e.type = "Encryption" /\ e.value = 1 => encrypted',
         UNCHANGED <<connection, mask, advertising, hostConn, hostEncrypted>>,
         encrypted' \in BOOLEAN, encrypted => encrypted', pendingKey' # NoKey => ~encrypted'
  PROVE  HostInv'
<1>1. hostCommand = "none" /\ hostCommand' = op /\ UNCHANGED nextHandle /\ Session /\ Session'
  BY DEF Command, HostMaySend, Session, lifecycle, socket
<1>2. Untaken' = Then(Then(Untaken, answer), e)
  BY CommandEvent
<1>3. connection = nextHandle /\ ~advertising /\ connection \in Nat /\ advertising \in BOOLEAN
  BY ConstantsAssumption DEF HostInv, ControllerInv, TypeOK, FlagsOK, ValuesOK
<1>4. /\ Picture(hostConn, Then(Untaken, answer), op, connection, connection, advertising, encrypted)
      /\ Then(Untaken, answer) \in Seq(Event)
  <2>1. advertising => connection = 0
    BY <1>3
  <2> QED BY <1>1, <1>3, <2>1, AnsweredPicture
<1>5. Picture(hostConn, Then(Untaken, answer), op, connection, connection, advertising, encrypted')
  <2>1. CASE encrypted' = encrypted BY <1>4, <2>1
  <2>2. CASE encrypted' # encrypted
    <3>1. encrypted = FALSE
      BY <2>2 DEF ControllerInv, TypeOK, FlagsOK
    <3> QED BY <1>4, <3>1, PictureKeyed
  <2> QED BY <2>1, <2>2
<1>6. Picture(hostConn, Untaken', op, connection, connection, advertising, encrypted')
  <2>1. op # "reset"
    OBVIOUS
  <2> QED BY <1>2, <1>3, <1>4, <1>5, <2>1, PictureKeeps
<1> QED BY <1>1, <1>3, <1>6 DEF HostInv

(* HCI_Disconnect for the live connection.                                 *)
LEMMA HostEnds ==
  ASSUME ControllerInv, HostInv, connection # 0, Command("disconnect", DisconnectEvent), disconnect,
         UNCHANGED <<radio, hostLink>>
  PROVE  HostInv'
<1> DEFINE e == Ev("Disconnected", connection, 0)
<1>1. hostCommand = "none" /\ hostCommand' = "disconnect" /\ UNCHANGED nextHandle /\ Session /\ Session'
  BY DEF Command, HostMaySend, Session, lifecycle, socket
<1>2. connection = nextHandle /\ ~advertising /\ mask = {"Event", "LeEvent"}
  BY DEF HostInv
<1>3. /\ connection' = 0 /\ encrypted' = FALSE /\ pendingKey' = NoKey
      /\ UNCHANGED <<mask, advertising, hostConn, hostEncrypted>>
  BY DEF disconnect, radio, hostLink
<1>4. connection \in Nat /\ advertising \in BOOLEAN /\ encrypted \in BOOLEAN
  BY ConstantsAssumption DEF ControllerInv, TypeOK, FlagsOK, ValuesOK
<1>5. e \in Event /\ e.type = "Disconnected" /\ e.handle = connection
  BY <1>4, EvType DEF EventTypes, Ev
<1>6. DisconnectEvent = <<e>>
  BY <1>2 DEF DisconnectEvent, queueEvent
<1> HIDE DEF e
<1>7. Untaken' = Then(Then(Untaken, answer), e)
  BY <1>5, <1>6, CommandEvent
<1>8. /\ Picture(hostConn, Then(Untaken, answer), "disconnect", connection, connection, advertising, encrypted)
      /\ Then(Untaken, answer) \in Seq(Event)
  <2>1. advertising => connection = 0
    BY <1>2
  <2>2. "disconnect" \in Commands /\ "disconnect" # "reset"
    BY DEF Commands
  <2> QED BY <1>1, <1>2, <1>4, <2>1, <2>2, AnsweredPicture
<1>9. Picture(hostConn, Untaken', "disconnect", connection', connection, advertising, encrypted')
  <2>1. "disconnect" # "reset" /\ encrypted' \in BOOLEAN /\ connection' = 0
    BY <1>3
  <2> QED BY <1>2, <1>4, <1>5, <1>7, <1>8, <2>1, PictureDrops
<1> QED BY <1>1, <1>2, <1>3, <1>9 DEF HostInv

(* HCI_Reset: the host forgets the connection with the controller.         *)
LEMMA HostResets == ASSUME ControllerInv, HostInv, HostReset PROVE HostInv'
<1>1. /\ Command("reset", DisconnectEvent) /\ hostCommand = "none" /\ hostCommand' = "reset"
      /\ Session /\ Session'
  BY DEF HostReset, Command, HostMaySend, Session, lifecycle
<1>2. /\ hostConn' = 0 /\ ~hostEncrypted' /\ mask' = {} /\ ~advertising'
      /\ connection' = 0 /\ pendingKey' = NoKey
  BY DEF HostReset, resetHci, disconnect, link, ControllerInv, NothingOutlivesLink
<1>3. DisconnectEvent \in Seq(Event) /\ \A i \in DOMAIN DisconnectEvent : DisconnectEvent[i].type = "Disconnected"
  <2>1. DisconnectEvent \in Seq(Event)
    BY DisconnectEventType DEF ControllerInv
  <2>2. DisconnectEvent = <<>> \/ DisconnectEvent = <<Ev("Disconnected", connection, 0)>>
    BY DEF DisconnectEvent, queueEvent
  <2>3. ASSUME NEW i \in DOMAIN DisconnectEvent PROVE DisconnectEvent[i].type = "Disconnected"
    <3>1. CASE DisconnectEvent = <<>> BY <2>3, <3>1
    <3>2. CASE DisconnectEvent = <<Ev("Disconnected", connection, 0)>>
      BY <2>3, <3>2 DEF Ev
    <3> QED BY <2>2, <3>1, <3>2
  <2> QED BY <2>1, <2>3
<1>4. Answers(Untaken, "none") /\ Untaken \in Seq(Event)
  BY <1>1, UntakenType DEF HostInv, Picture
<1> DEFINE s == DisconnectEvent
<1> HIDE DEF s
<1>5. s \in Seq(Event) /\ \A i \in DOMAIN s : s[i].type = "Disconnected"
  BY <1>3 DEF s
<1>6. Untaken' = Followed(Then(Untaken, answer), s)
  BY <1>1, <1>5, CommandUntaken DEF s
<1>7. Picture(0, Untaken', "reset", connection', nextHandle', advertising', encrypted')
  BY <1>4, <1>5, <1>6, AnswerType, PictureReset
<1> QED BY <1>1, <1>2, <1>7 DEF HostInv

(* The host accepts the oldest event it has not seen.                      *)
LEMMA TakesHead ==
  ASSUME ControllerInv, HostTakes
  PROVE  /\ Untaken \in Seq(Event) /\ Untaken # <<>> /\ Head(Untaken) = packet
         /\ Untaken' = Tail(Untaken) /\ packet \in Event /\ Session
<1>1. /\ inFlight /\ ~cancelled /\ ~taken /\ taken'
      /\ UNCHANGED <<inFlight, cancelled, events>>
  BY DEF HostTakes, vhci, ControllerInv, DeliveryInv
<1>2. events # <<>> /\ Head(events) = packet /\ Session
  BY <1>1 DEF ControllerInv, DeliveryInv
<1>3. Untaken = events /\ Untaken' = Tail(events)
  BY <1>1 DEF Untaken
<1> QED BY <1>2, <1>3, UntakenType DEF ControllerInv, TypeOK, ValuesOK

(* HostTakes: the host accepts the head of the story.                      *)
LEMMA HostAccepts == ASSUME ControllerInv, HostInv, HostTakes PROVE HostInv'
<1>1. /\ Untaken \in Seq(Event) /\ Untaken # <<>> /\ Head(Untaken) = packet
      /\ Untaken' = Tail(Untaken) /\ packet \in Event /\ Session
  BY TakesHead
<1>2. /\ UNCHANGED <<connection, encrypted, pendingKey, mask, advertising, nextHandle>>
      /\ Session' /\ HostOf(packet)
  BY <1>1 DEF HostTakes, link, radio, socket, lifecycle, vhci, Session
<1>3. /\ connection \in Nat /\ nextHandle \in Nat /\ hostConn \in Nat
      /\ encrypted \in BOOLEAN /\ advertising \in BOOLEAN
  BY ConstantsAssumption DEF ControllerInv, TypeOK, FlagsOK, ValuesOK
<1>4. CASE hostCommand = "reset"
  <2>1. mask = {} /\ connection = 0 /\ ~advertising /\ hostConn = 0 /\ ~hostEncrypted
    BY <1>4 DEF HostInv, Picture
  <2>2. Picture(0, Untaken, "reset", connection, nextHandle, advertising, encrypted)
    BY <1>4, <2>1 DEF HostInv
  <2>3. Picture(0, Untaken', IF packet.type = "Answer" THEN "none" ELSE "reset",
                connection, nextHandle, advertising, encrypted)
    BY <1>1, <1>3, <2>1, <2>2, PictureResetTail
  <2>4. /\ UNCHANGED hostLink
        /\ hostCommand' = IF packet.type = "Answer" THEN "none" ELSE "reset"
    <3>1. CASE packet.type = "Answer"
      <4>1. hostCommand' = "none" /\ UNCHANGED <<hostConn, hostEncrypted, hostRest, outstanding>>
        BY <1>2, <3>1 DEF HostOf, hostLink
      <4> QED BY <3>1, <4>1 DEF hostLink
    <3>2. CASE packet.type # "Answer"
      <4>1. UNCHANGED <<hostLink, hostCommand>>
        BY <1>2, <1>4, <3>2 DEF HostOf
      <4> QED BY <1>4, <3>2, <4>1
    <3> QED BY <3>1, <3>2
  <2> QED BY <1>2, <2>1, <2>3, <2>4 DEF HostInv, hostLink
<1>5. CASE hostCommand # "reset"
  <2>1. Picture(hostConn, Untaken, hostCommand, connection, nextHandle, advertising, encrypted)
    BY DEF HostInv
  <2>2. PICK d : /\ Moves(hostConn, packet, d)
                 /\ Picture(d, Untaken', IF packet.type = "Answer" THEN "none" ELSE hostCommand,
                            connection, nextHandle, advertising, encrypted)
                 /\ packet.type = "Encryption" /\ packet.value = 1 /\ d = connection => encrypted
    BY <1>1, <1>3, <1>5, <2>1, PictureTail
  <2>3. hostConn' = d /\ hostCommand' = IF packet.type = "Answer" THEN "none" ELSE hostCommand
    BY <1>2, <1>5, <2>2 DEF HostOf, Moves, hostLink
  <2>4. hostEncrypted' => hostConn' # 0 /\ (hostConn' = connection => encrypted)
    <3>1. CASE packet.type = "Encryption"
      <4>1. packet.handle = hostConn /\ hostConn # 0 /\ d = hostConn
        BY <2>2, <3>1 DEF Moves
      <4>2. hostEncrypted' = (packet.value = 1)
        BY <1>2, <1>5, <3>1, <4>1 DEF HostOf
      <4> QED BY <2>2, <2>3, <3>1, <4>1, <4>2
    <3>2. CASE packet.type # "Encryption"
      <4>1. hostEncrypted' => hostEncrypted /\ d = hostConn
        BY <1>2, <1>5, <2>2, <3>2 DEF HostOf, Moves, hostLink
      <4> QED BY <2>3, <4>1 DEF HostInv
    <3> QED BY <3>1, <3>2
  <2>5. hostCommand' # "reset"
    BY <1>5, <2>3
  <2>6. Picture(hostConn', Untaken', hostCommand', connection, nextHandle, advertising, encrypted)
    BY <2>2, <2>3
  <2> QED BY <1>2, <2>4, <2>5, <2>6 DEF HostInv
<1> QED BY <1>4, <1>5

(* The host's own steps.                                                   *)
LEMMA HostHost == ASSUME ControllerInv, HostInv, HostStep PROVE HostInv'
<1> USE DEF hostLink, radio, link
<1>0. connection \in Nat /\ advertising \in BOOLEAN /\ encrypted \in BOOLEAN
  BY ConstantsAssumption DEF ControllerInv, TypeOK, FlagsOK, ValuesOK
<1>a. connection # 0 => mask = {"Event", "LeEvent"} /\ ~advertising
  BY DEF HostInv
<1>b. {"mask", "advertise", "disconnect", "encrypt", "other"} \subseteq Commands \ {"reset"}
  BY DEF Commands
<1>1. CASE HostTakes BY <1>1, HostAccepts
<1>2. CASE HostReset BY <1>2, HostResets
<1>3. CASE HostSetMask
  <2>1. Command("mask", <<>>) /\ UNCHANGED <<link, advertising, hostLink>>
    BY <1>3 DEF HostSetMask
  <2>2. mask \subseteq mask' /\ mask' \subseteq {"Event", "LeEvent"}
    BY <1>3 DEF HostSetMask, ControllerInv, TypeOK, ValuesOK
  <2>3. connection # 0 \/ advertising => mask' = {"Event", "LeEvent"}
    BY <2>2 DEF HostInv
  <2>4. advertising' => connection = 0
    BY <1>a, <2>1
  <2> QED BY <1>0, <1>b, <2>1, <2>3, <2>4, HostPlain
<1>4. CASE HostAdvertisingParameters
  <2>1. Command("advertise", <<>>) /\ UNCHANGED <<link, advertising, mask, hostLink>>
    BY <1>4 DEF HostAdvertisingParameters
  <2>2. /\ connection # 0 \/ advertising' => mask' = {"Event", "LeEvent"}
        /\ advertising' => connection = 0
    BY <1>a, <2>1 DEF HostInv
  <2> QED BY <1>0, <1>b, <2>1, <2>2, HostPlain
<1>5. CASE HostAdvertise
  <2>1. Command("advertise", <<>>) /\ UNCHANGED <<link, mask, hostLink>>
    BY <1>5 DEF HostAdvertise
  <2>2. PICK on \in BOOLEAN :
          /\ on => mask = {"Event", "LeEvent"}
          /\ advertising' = IF connection # 0 /\ on THEN advertising ELSE on
    BY <1>5 DEF HostAdvertise
  <2>3. /\ connection # 0 \/ advertising' => mask' = {"Event", "LeEvent"}
        /\ advertising' => connection = 0 
        /\ advertising' \in BOOLEAN
    BY <1>0, <1>a, <2>1, <2>2
  <2> QED BY <1>0, <1>b, <2>1, <2>3, HostPlain
<1>6. CASE HostDisconnect
  <2>1. CASE hostConn = connection
    <3>1. connection # 0 /\ Command("disconnect", DisconnectEvent) /\ disconnect /\ UNCHANGED <<radio, hostLink>>
      BY <1>6, <2>1 DEF HostDisconnect
    <3> QED BY <3>1, HostEnds
  <2>2. CASE hostConn # connection
    <3>1. Command("disconnect", <<>>) /\ UNCHANGED <<link, radio, hostLink>>
      BY <1>6, <2>2 DEF HostDisconnect
    <3>2. /\ connection # 0 \/ advertising' => mask' = {"Event", "LeEvent"}
          /\ advertising' => connection = 0
      BY <1>a, <3>1 DEF HostInv
    <3> QED BY <1>0, <1>b, <3>1, <3>2, HostPlain
  <2> QED BY <2>1, <2>2
<1>7. CASE HostKeyReply
  <2>1. PICK key \in Keys \cup {NoKey} :
          IF hostConn = connection /\ pendingKey # NoKey
          THEN /\ Command("encrypt", EncryptionEvent(key = pendingKey))
               /\ finishEncryption(key = pendingKey)
          ELSE Command("encrypt", <<>>) /\ UNCHANGED <<pendingKey, encrypted>>
    BY <1>7 DEF HostKeyReply
  <2>2. hostConn # 0 /\ UNCHANGED <<connection, radio, hostLink>>
    BY <1>7 DEF HostKeyReply
  <2>3. CASE hostConn = connection /\ pendingKey # NoKey
    <3> DEFINE v == IF key = pendingKey THEN 1 ELSE 0
               e == Ev("Encryption", connection, v)
    <3>1. connection # 0 /\ ~encrypted /\ mask = {"Event", "LeEvent"}
      BY <1>a, <2>2, <2>3 DEF HostInv
    <3>2. e \in Event /\ e.type = "Encryption" /\ e.handle = connection /\ e.value = v
      <4>1. v \in Nat
        OBVIOUS
      <4> HIDE DEF v
      <4> QED BY <1>0, <4>1, EvType DEF EventTypes, Ev
    <3>3. EncryptionEvent(key = pendingKey) = <<e>>
      BY <3>1 DEF EncryptionEvent, queueEvent
    <3>4. encrypted' = (key = pendingKey) /\ pendingKey' = NoKey
      BY <2>1, <2>3 DEF finishEncryption
    <3>5. v = 1 => encrypted'
      <4>1. v = 1 => key = pendingKey
        OBVIOUS
      <4> QED BY <3>4, <4>1
    <3>6. Command("encrypt", <<e>>)
      BY <2>1, <2>3, <3>3
    <3> HIDE DEF e, v
    <3>7. encrypted' \in BOOLEAN
      BY <3>4
    <3> QED BY <1>b, <2>2, <3>1, <3>2, <3>4, <3>5, <3>6, <3>7, HostInforms
  <2>4. CASE ~(hostConn = connection /\ pendingKey # NoKey)
    <3>1. Command("encrypt", <<>>) /\ UNCHANGED <<pendingKey, encrypted>>
      BY <2>1, <2>4
    <3>2. /\ connection # 0 \/ advertising' => mask' = {"Event", "LeEvent"}
          /\ advertising' => connection = 0
      BY <1>a, <2>2 DEF HostInv
    <3> QED BY <1>0, <1>b, <2>2, <3>1, <3>2, HostPlain
  <2> QED BY <2>3, <2>4
<1>8. CASE HostQuery
  <2>1. UNCHANGED <<link, radio, hostLink>>
    BY <1>8 DEF HostQuery
  <2>2. /\ connection # 0 \/ advertising' => mask' = {"Event", "LeEvent"}
        /\ advertising' => connection = 0
    BY <1>a, <2>1 DEF HostInv
  <2>3. CASE Command("other", <<>>)
    BY <1>0, <1>b, <2>1, <2>2, <2>3, HostPlain
  <2>4. CASE ~Command("other", <<>>)
    <3> DEFINE e == Ev("Info", connection, 0)
    <3>1. hostConn # 0 /\ hostConn = connection
      BY <1>8, <2>4 DEF HostQuery
    <3>2. queueEvent(e) = <<e>> /\ queueLeEvent(e) = <<e>>
      BY <1>a, <3>1 DEF queueEvent, queueLeEvent
    <3>3. Command("other", <<e>>)
      BY <1>8, <2>4, <3>2 DEF HostQuery
    <3>4. e \in Event /\ e.type = "Info" /\ e.handle = connection
      BY <1>0, EvType DEF EventTypes, Ev
    <3>5. pendingKey' # NoKey => ~encrypted'
      BY <2>1 DEF HostInv
    <3> HIDE DEF e
    <3> QED BY <1>0, <1>b, <2>1, <3>1, <3>3, <3>4, <3>5, HostInforms
  <2> QED BY <2>3, <2>4
<1>9. CASE HostSendAcl
  <2>1. UNCHANGED <<events, inFlight, taken, cancelled, believes, connection, nextHandle, encrypted, pendingKey>>
    BY <1>9 DEF HostSendAcl, believes, socket
  <2>2. UNCHANGED <<mask, advertising, Session>>
    BY <1>9 DEF HostSendAcl, Session, lifecycle
  <2> QED BY <2>1, <2>2, UntakenFrame, HostFrame
<1> QED
  BY <1>1, <1>2, <1>3, <1>4, <1>5, <1>6, <1>7, <1>8, <1>9 DEF HostStep

(* No step of the system makes the host's picture false.                   *)
LEMMA HostNext == ControllerInv /\ HostInv /\ [Next]_vars => HostInv'
<1> SUFFICES ASSUME ControllerInv, HostInv, [Next]_vars PROVE HostInv'
  OBVIOUS
<1>1. CASE bleHleReset
  <2>1. Untaken' = <<>>
    BY <1>1 DEF bleHleReset, Fresh, Untaken
  <2> QED BY <1>1, <2>1, HostFresh DEF bleHleReset, Fresh, HostDown
<1>2. CASE UNCHANGED vars
  <2>1. UNCHANGED <<events, inFlight, taken, cancelled, believes, connection, nextHandle, encrypted, pendingKey>>
    BY <1>2 DEF vars, vhci, host, hostLink, link, socket, believes
  <2>2. UNCHANGED <<mask, advertising, Session>>
    BY <1>2 DEF vars, radio, Session, lifecycle, vhci
  <2> QED BY <2>1, <2>2, UntakenFrame, HostFrame
<1> QED
  BY <1>1, <1>2, HostApi, HostWorker, HostPeer, HostHost DEF Next

(* It is true at the start.                                                *)
LEMMA HostInit == Init => HostInv
<1> SUFFICES ASSUME Init PROVE HostInv
  OBVIOUS
<1>1. Untaken = <<>>
  BY DEF Init, Untaken
<1>2. Picture(hostConn, Untaken, hostCommand, connection, nextHandle, advertising, encrypted)
  BY <1>1, PictureEmpty DEF Init
<1> QED BY <1>2 DEF Init, HostInv

(* The host's picture is an invariant.                                     *)
LEMMA HostInvariance == Spec => []HostInv
BY HostInit, HostNext, Invariance, PTL DEF Spec

(* What the invariant says of the next event.                              *)
LEMMA HostBelieves == ControllerInv /\ HostInv => HostBelief
<1> SUFFICES ASSUME ControllerInv, HostInv PROVE HostBelief
  OBVIOUS
<1>1. NothingOutlivesLink /\ EncryptionHonest
  BY DEF ControllerInv, HostInv, EncryptionHonest
<1>2. DisconnectQueued
  <2> SUFFICES ASSUME hostConn \notin {0, connection}
               PROVE  \E i \in DOMAIN Untaken : Untaken[i].type = "Disconnected" /\ Untaken[i].handle = hostConn
    BY DEF DisconnectQueued
  <2>1. PICK w : w[0] = hostConn /\ Story(w, Untaken, connection, nextHandle, advertising, encrypted)
    BY DEF HostInv, Picture
  <2>2. 0 \in 0..Len(Untaken)
    BY UntakenType
  <2>3. Told(Untaken, w[0], 0)
    BY <2>1, <2>2 DEF Story
  <2> QED BY <2>1, <2>3 DEF Told
<1> QED BY <1>1, <1>2 DEF HostBelief

(* The event that the host accepts moves what it believes.                 *)
LEMMA HostLearns == ControllerInv /\ HostInv /\ [Next]_vars =>
  (~taken /\ taken' /\ hostCommand # "reset" => \E d : Moves(hostConn, packet, d))
<1> SUFFICES ASSUME ControllerInv, HostInv, [Next]_vars, ~taken, taken', hostCommand # "reset"
             PROVE  \E d : Moves(hostConn, packet, d)
  OBVIOUS
<1>1. HostTakes
  <2>1. CASE ApiStep
    BY <2>1 DEF ApiStep, HleInit, HleAllocated, HleSemaphoreCreated, OsiTaskCreate, HleTaskCreated,
         HleEnable, HleRegister, HleDisable, HleDeinit, OsiTaskDelete, HleTaskDeleted,
         HleSemaphoreDeleted, HleFreed, host
  <2>2. CASE WorkerStep
    BY <2>2 DEF WorkerStep, WorkerStarts, HleReceiveReturned, PollLinkLost, PollUnregistered,
         PollReady, PollDeliver, PollEmpty, host
  <2>3. CASE PeerStep BY <2>3, PeerAppends DEF AppendStep, ControllerInv
  <2>4. CASE HostStep BY <2>4, HostAppends DEF AppendStep, ControllerInv
  <2>5. CASE bleHleReset BY <2>5 DEF bleHleReset
  <2>6. CASE UNCHANGED vars BY <2>6 DEF vars, host
  <2> QED BY <2>1, <2>2, <2>3, <2>4, <2>5, <2>6 DEF Next
<1>2. /\ Untaken \in Seq(Event) /\ Untaken # <<>> /\ Head(Untaken) = packet
  BY <1>1, TakesHead
<1>3. Picture(hostConn, Untaken, hostCommand, connection, nextHandle, advertising, encrypted)
  BY DEF HostInv
<1>4. /\ connection \in Nat /\ nextHandle \in Nat
      /\ encrypted \in BOOLEAN /\ advertising \in BOOLEAN
  BY ConstantsAssumption DEF ControllerInv, TypeOK, FlagsOK, ValuesOK
<1> QED BY <1>2, <1>3, <1>4, PictureTail

(* disconnect() queues its Disconnection Complete and forgets the rest;    *)
(* finishEncryption tells the host what it does: however many events are   *)
(* still queued, what the host believes of the live link is true.          *)
THEOREM BeliefCorrect == Spec => []HostBelief
BY Invariance, HostInvariance, HostBelieves, PTL

(* HostTakes: events of a connection are accepted between its Connection   *)
(* Complete and its Disconnection Complete, one connection at a time, and  *)
(* no connection has the handle 0.                                         *)
THEOREM HistoryCorrect == Spec => LinkHistory
<1>1. ControllerInv /\ HostInv /\ [Next]_vars =>
        [ (~taken /\ taken' /\ hostCommand # "reset"
             /\ packet.type \in {"Acl", "KeyRequest", "Encryption", "Info", "Completed"})
          => packet.handle = hostConn /\ hostConn # 0 ]_vars
  BY HostLearns DEF Moves
<1>2. ControllerInv /\ HostInv /\ [Next]_vars =>
        [ (~taken /\ taken' /\ hostCommand # "reset" /\ packet.type = "Connected")
          => hostConn = 0 /\ packet.handle # 0 ]_vars
  BY HostLearns DEF Moves
<1> QED
  BY <1>1, <1>2, Invariance, HostInvariance, PTL DEF Spec, LinkHistory, LinkEventsInOrder, OneConnection

-----------------------------------------------------------------------------
(* The bounds.  What the host owes and what it is owed is counted along    *)
(* the queue, from each event to the last.                                 *)

(* From the i-th event of q on: owed[i] are the credits that its Completed *)
(* events return, others[i] is the number of the other events.             *)
Ledger(q, owed, others) ==
  /\ owed \in [1..(Len(q) + 1) -> Nat] /\ others \in [1..(Len(q) + 1) -> Nat]
  /\ owed[Len(q) + 1] = 0 /\ others[Len(q) + 1] = 0
  /\ \A i \in 1..Len(q) :
       IF q[i].type = "Completed"
       THEN owed[i] = owed[i + 1] + q[i].value /\ others[i] = others[i + 1]
       ELSE owed[i] = owed[i + 1] /\ others[i] = others[i + 1] + 1
  /\ \A i \in 1..(Len(q) + 1) :
       others[i] <= Len(q) + 1 - i /\ Len(q) + 1 - i <= owed[i] + others[i]

(* The ledger of an empty queue.                                           *)
LEMMA LedgerEmpty == \E owed, others : Ledger(<<>>, owed, others)
<1> DEFINE z == [i \in 1..1 |-> 0]
<1>1. Ledger(<<>>, z, z)
  BY DEF Ledger
<1> QED BY <1>1

(* Without its first event the ledger goes on as it was.                   *)
LEMMA LedgerTail ==
  ASSUME NEW q \in Seq(Event), q # <<>>, NEW owed, NEW others, Ledger(q, owed, others)
  PROVE  \E o, t : /\ Ledger(Tail(q), o, t)
                   /\ \A i \in 1..Len(q) : o[i] = owed[i + 1] /\ t[i] = others[i + 1]
<1> DEFINE n == Len(q)
           o == [i \in 1..n |-> owed[i + 1]]
           t == [i \in 1..n |-> others[i + 1]]
           r == Tail(q)
<1>1. /\ n \in Nat /\ n >= 1 /\ Len(r) = n - 1
      /\ \A i \in 1..(n - 1) : r[i] = q[i + 1]
  OBVIOUS
<1>2. /\ owed \in [1..(n + 1) -> Nat] /\ others \in [1..(n + 1) -> Nat]
      /\ owed[n + 1] = 0 /\ others[n + 1] = 0
  BY DEF Ledger
<1>3. ASSUME NEW i \in 1..n
      PROVE  IF q[i].type = "Completed"
             THEN owed[i] = owed[i + 1] + q[i].value /\ others[i] = others[i + 1]
             ELSE owed[i] = owed[i + 1] /\ others[i] = others[i + 1] + 1
  BY DEF Ledger
<1>4. \A i \in 1..(n + 1) : others[i] <= n + 1 - i /\ n + 1 - i <= owed[i] + others[i]
  BY DEF Ledger
<1> HIDE DEF n, r
<1>5. /\ o \in [1..n -> Nat] /\ t \in [1..n -> Nat]
      /\ \A i \in 1..n : o[i] = owed[i + 1] /\ t[i] = others[i + 1]
  BY <1>1, <1>2
<1> HIDE DEF o, t
<1>6. o[n] = 0 /\ t[n] = 0
  BY <1>1, <1>2, <1>5
<1>7. ASSUME NEW i \in 1..(n - 1)
      PROVE  IF r[i].type = "Completed"
             THEN o[i] = o[i + 1] + r[i].value /\ t[i] = t[i + 1]
             ELSE o[i] = o[i + 1] /\ t[i] = t[i + 1] + 1
  <2>1. i + 1 \in 1..n /\ i \in 1..n /\ r[i] = q[i + 1]
    BY <1>1
  <2>2. o[i] = owed[i + 1] /\ t[i] = others[i + 1] /\ o[i + 1] = owed[(i + 1) + 1] /\ t[i + 1] = others[(i + 1) + 1]
    BY <1>5, <2>1
  <2>3. IF q[i + 1].type = "Completed"
        THEN owed[i + 1] = owed[(i + 1) + 1] + q[i + 1].value /\ others[i + 1] = others[(i + 1) + 1]
        ELSE owed[i + 1] = owed[(i + 1) + 1] /\ others[i + 1] = others[(i + 1) + 1] + 1
    BY <1>3, <2>1
  <2> QED BY <2>1, <2>2, <2>3
<1>8. ASSUME NEW i \in 1..n PROVE t[i] <= n - i /\ n - i <= o[i] + t[i]
  <2>1. others[i + 1] <= n + 1 - (i + 1) /\ n + 1 - (i + 1) <= owed[i + 1] + others[i + 1]
    BY <1>1, <1>4
  <2> QED BY <1>1, <1>5, <2>1
<1>9. Ledger(r, o, t)
  <2>1. Len(r) + 1 = n /\ Len(r) = n - 1
    BY <1>1
  <2>2. o \in [1..(Len(r) + 1) -> Nat] /\ t \in [1..(Len(r) + 1) -> Nat]
    BY <1>5, <2>1
  <2>3. o[Len(r) + 1] = 0 /\ t[Len(r) + 1] = 0
    BY <1>6, <2>1
  <2>4. \A i \in 1..Len(r) : IF r[i].type = "Completed"
                             THEN o[i] = o[i + 1] + r[i].value /\ t[i] = t[i + 1]
                             ELSE o[i] = o[i + 1] /\ t[i] = t[i + 1] + 1
    BY ONLY <1>7, <2>1
  <2>5. \A i \in 1..(Len(r) + 1) : t[i] <= Len(r) + 1 - i /\ Len(r) + 1 - i <= o[i] + t[i]
    BY ONLY <1>8, <2>1
  <2> QED BY ONLY <2>2, <2>3, <2>4, <2>5 DEF Ledger
<1> QED BY <1>5, <1>9 DEF n, r

(* The ledger o, t of a queue r that continues q by k events without       *)
(* credits.                                                                *)
Continues(q, owed, others, k, r, o, t) ==
  /\ Ledger(r, o, t)
  /\ \A i \in 1..(Len(q) + 1) : o[i] = owed[i] /\ t[i] = others[i] + k
  /\ \A i \in (Len(q) + 1)..(Len(r) + 1) : o[i] = 0 /\ t[i] = Len(r) + 1 - i

(* Appended events that return no credits.                                 *)
LEMMA LedgerAppend ==
  ASSUME NEW q \in Seq(Event), NEW s \in Seq(Event), NEW r, r = Followed(q, s),
         \A i \in 1..Len(s) : s[i].type # "Completed",
         NEW owed, NEW others, Ledger(q, owed, others)
  PROVE  \E o, t : Continues(q, owed, others, Len(s), r, o, t)
<1> DEFINE n == Len(q)
           k == Len(s)
           o == [i \in 1..(n + k + 1) |-> IF i <= n THEN owed[i] ELSE 0]
           t == [i \in 1..(n + k + 1) |-> IF i <= n THEN others[i] + k ELSE n + k + 1 - i]
<1>1. /\ n \in Nat /\ k \in Nat /\ Len(r) = n + k
      /\ \A i \in 1..n : r[i] = q[i]
      /\ \A i \in (n + 1)..(n + k) : r[i] = s[i - n]
  BY DEF Followed
<1>2. /\ owed \in [1..(n + 1) -> Nat] /\ others \in [1..(n + 1) -> Nat]
      /\ owed[n + 1] = 0 /\ others[n + 1] = 0
  BY DEF Ledger
<1>3. ASSUME NEW i \in 1..n
      PROVE  IF q[i].type = "Completed"
             THEN owed[i] = owed[i + 1] + q[i].value /\ others[i] = others[i + 1]
             ELSE owed[i] = owed[i + 1] /\ others[i] = others[i + 1] + 1
  BY DEF Ledger
<1>4. \A i \in 1..(n + 1) : others[i] <= n + 1 - i /\ n + 1 - i <= owed[i] + others[i]
  BY DEF Ledger
<1>a. \A i \in 1..k : s[i].type # "Completed"
  OBVIOUS
<1>b. \A i \in 1..n : q[i] \in Event
  OBVIOUS
<1> HIDE DEF n, k
<1>5. o \in [1..(n + k + 1) -> Nat] /\ t \in [1..(n + k + 1) -> Nat]
  <2>1. ASSUME NEW i \in 1..(n + k + 1) PROVE o[i] \in Nat /\ t[i] \in Nat
    <3>1. CASE i <= n
      <4>1. i \in 1..(n + 1) /\ owed[i] \in Nat /\ others[i] \in Nat
        BY <1>1, <1>2, <3>1
      <4> QED BY <1>1, <3>1, <4>1
    <3>2. CASE ~(i <= n)
      BY <1>1, <3>2
    <3> QED BY <3>1, <3>2
  <2> QED BY <2>1
<1>6. /\ \A i \in 1..(n + 1) : o[i] = owed[i] /\ t[i] = others[i] + k
      /\ \A i \in (n + 1)..(n + k + 1) : o[i] = 0 /\ t[i] = n + k + 1 - i
  <2>1. ASSUME NEW i \in 1..n PROVE o[i] = owed[i] /\ t[i] = others[i] + k
    BY <1>1
  <2>2. ASSUME NEW i \in (n + 1)..(n + k + 1) PROVE o[i] = 0 /\ t[i] = n + k + 1 - i
    BY <1>1
  <2>3. o[n + 1] = owed[n + 1] /\ t[n + 1] = others[n + 1] + k
    BY <1>1, <1>2
  <2>4. \A i \in 1..(n + 1) : i \in 1..n \/ i = n + 1
    BY <1>1
  <2> QED BY <2>1, <2>2, <2>3, <2>4
<1> HIDE DEF o, t
<1>7. o[n + k + 1] = 0 /\ t[n + k + 1] = 0
  BY <1>1, <1>6
<1>8. ASSUME NEW i \in 1..(n + k)
      PROVE  IF r[i].type = "Completed"
             THEN o[i] = o[i + 1] + r[i].value /\ t[i] = t[i + 1]
             ELSE o[i] = o[i + 1] /\ t[i] = t[i + 1] + 1
  <2>1. CASE i \in 1..n
    <3>1. i \in 1..(n + 1) /\ i + 1 \in 1..(n + 1) /\ r[i] = q[i]
      BY <1>1, <2>1
    <3>2. /\ o[i] = owed[i] /\ t[i] = others[i] + k /\ o[i + 1] = owed[i + 1] /\ t[i + 1] = others[i + 1] + k
      BY <1>6, <3>1
    <3>3. others[i] \in Nat /\ others[i + 1] \in Nat
      BY <1>2, <3>1
    <3>4. CASE q[i].type = "Completed"
      BY <1>1, <1>3, <2>1, <3>1, <3>2, <3>3, <3>4
    <3>5. CASE q[i].type # "Completed"
      <4>1. owed[i] = owed[i + 1] /\ others[i] = others[i + 1] + 1
        BY <1>3, <2>1, <3>5
      <4> QED BY <1>1, <3>1, <3>2, <3>3, <3>5, <4>1
    <3> QED BY <3>4, <3>5
  <2>2. CASE i \in (n + 1)..(n + k)
    <3>1. /\ i \in (n + 1)..(n + k + 1) /\ i + 1 \in (n + 1)..(n + k + 1)
          /\ i - n \in 1..k /\ r[i] = s[i - n]
      BY <1>1, <2>2
    <3>2. r[i].type # "Completed"
      BY <1>a, <3>1
    <3>3. o[i] = 0 /\ o[i + 1] = 0 /\ t[i] = n + k + 1 - i /\ t[i + 1] = n + k + 1 - (i + 1)
      BY <1>6, <3>1
    <3> QED BY <1>1, <3>1, <3>2, <3>3
  <2> QED BY <1>1, <2>1, <2>2
<1>9. ASSUME NEW i \in 1..(n + k + 1)
      PROVE  t[i] <= n + k + 1 - i /\ n + k + 1 - i <= o[i] + t[i]
  <2>1. CASE i \in 1..(n + 1)
    <3>1. o[i] = owed[i] /\ t[i] = others[i] + k
      BY <1>6, <2>1
    <3>2. others[i] <= n + 1 - i /\ n + 1 - i <= owed[i] + others[i] /\ others[i] \in Nat /\ owed[i] \in Nat
      BY <1>2, <1>4, <2>1
    <3> QED BY <1>1, <3>1, <3>2, SMTT(40)
  <2>2. CASE i \in (n + 1)..(n + k + 1)
    BY <1>1, <1>6, <2>2
  <2> QED BY <1>1, <2>1, <2>2
<1>10. Ledger(r, o, t)
  <2>1. Len(r) = n + k /\ (n + k) + 1 = n + k + 1
    BY <1>1
  <2> QED BY <1>5, <1>7, <1>8, <1>9, <2>1 DEF Ledger
<1>11. \A i \in (n + 1)..(Len(r) + 1) : o[i] = 0 /\ t[i] = Len(r) + 1 - i
  BY <1>1, <1>6
<1>12. Continues(q, owed, others, k, r, o, t)
  BY <1>6, <1>10, <1>11 DEF n, Continues
<1> QED BY <1>12 DEF k

(* An appended event that returns credits.                                 *)
LEMMA LedgerCredit ==
  ASSUME NEW q \in Seq(Event), NEW e \in Event, NEW r, r = Then(q, e),
         e.type = "Completed", e.value # 0, NEW owed, NEW others, Ledger(q, owed, others)
  PROVE  \E o, t : /\ Ledger(r, o, t)
                   /\ \A i \in 1..(Len(q) + 1) : o[i] = owed[i] + e.value /\ t[i] = others[i]
<1> DEFINE n == Len(q)
           v == e.value
           o == [i \in 1..(n + 2) |-> IF i <= n + 1 THEN owed[i] + v ELSE 0]
           t == [i \in 1..(n + 2) |-> IF i <= n + 1 THEN others[i] ELSE 0]
<1>1. /\ n \in Nat /\ v \in Nat /\ v >= 1 /\ Len(r) = n + 1
      /\ \A i \in 1..n : r[i] = q[i]
      /\ r[n + 1] = e
  BY DEF Then, Event
<1>2. /\ owed \in [1..(n + 1) -> Nat] /\ others \in [1..(n + 1) -> Nat]
      /\ owed[n + 1] = 0 /\ others[n + 1] = 0
  BY DEF Ledger
<1>3. ASSUME NEW i \in 1..n
      PROVE  IF q[i].type = "Completed"
             THEN owed[i] = owed[i + 1] + q[i].value /\ others[i] = others[i + 1]
             ELSE owed[i] = owed[i + 1] /\ others[i] = others[i + 1] + 1
  BY DEF Ledger
<1>4. \A i \in 1..(n + 1) : others[i] <= n + 1 - i /\ n + 1 - i <= owed[i] + others[i]
  BY DEF Ledger
<1>a. ASSUME NEW i \in 1..n PROVE q[i].value \in Nat
  <2>1. q[i] \in Event
    OBVIOUS
  <2> QED BY <2>1 DEF Event
<1> HIDE DEF n, v
<1>5. /\ o \in [1..(n + 2) -> Nat] /\ t \in [1..(n + 2) -> Nat]
      /\ \A i \in 1..(n + 1) : o[i] = owed[i] + v /\ t[i] = others[i]
      /\ o[n + 2] = 0 /\ t[n + 2] = 0
  <2>1. ASSUME NEW i \in 1..(n + 2) PROVE o[i] \in Nat /\ t[i] \in Nat
    <3>1. CASE i <= n + 1
      <4>1. i \in 1..(n + 1) /\ owed[i] \in Nat /\ others[i] \in Nat
        BY <1>1, <1>2, <3>1
      <4> QED BY <1>1, <3>1, <4>1
    <3>2. CASE ~(i <= n + 1)
      BY <1>1, <3>2
    <3> QED BY <3>1, <3>2
  <2> QED BY <1>1, <2>1
<1> HIDE DEF o, t
<1>6. ASSUME NEW i \in 1..(n + 1)
      PROVE  IF r[i].type = "Completed"
             THEN o[i] = o[i + 1] + r[i].value /\ t[i] = t[i + 1]
             ELSE o[i] = o[i + 1] /\ t[i] = t[i + 1] + 1
  <2>1. CASE i \in 1..n
    <3>1. i \in 1..(n + 1) /\ i + 1 \in 1..(n + 1) /\ r[i] = q[i] /\ q[i].value \in Nat
      BY <1>1, <1>a, <2>1
    <3>2. /\ o[i] = owed[i] + v /\ t[i] = others[i] /\ o[i + 1] = owed[i + 1] + v /\ t[i + 1] = others[i + 1]
          /\ owed[i] \in Nat /\ owed[i + 1] \in Nat
      BY <1>2, <1>5, <3>1
    <3>3. CASE q[i].type = "Completed"
      <4>1. owed[i] = owed[i + 1] + q[i].value /\ others[i] = others[i + 1]
        BY <1>3, <2>1, <3>3
      <4>2. o[i] = o[i + 1] + q[i].value
        BY <1>1, <3>1, <3>2, <4>1
      <4> QED BY <3>1, <3>2, <3>3, <4>1, <4>2
    <3>4. CASE q[i].type # "Completed"
      BY <1>3, <2>1, <3>1, <3>2, <3>4
    <3> QED BY <3>3, <3>4
  <2>2. CASE i = n + 1
    <3>1. o[n + 1] = v /\ t[n + 1] = 0 /\ o[(n + 1) + 1] = 0 /\ t[(n + 1) + 1] = 0
      BY <1>1, <1>2, <1>5
    <3>2. r[n + 1].type = "Completed" /\ r[n + 1].value = v
      BY <1>1 DEF v
    <3> QED BY <1>1, <2>2, <3>1, <3>2
  <2> QED BY <1>1, <2>1, <2>2
<1>7. ASSUME NEW i \in 1..(n + 2) PROVE t[i] <= n + 2 - i /\ n + 2 - i <= o[i] + t[i]
  <2>1. CASE i \in 1..(n + 1)
    <3>1. o[i] = owed[i] + v /\ t[i] = others[i]
      BY <1>5, <2>1
    <3>2. others[i] <= n + 1 - i /\ n + 1 - i <= owed[i] + others[i] /\ others[i] \in Nat /\ owed[i] \in Nat
      BY <1>2, <1>4, <2>1
    <3>3. n \in Nat /\ v \in Nat /\ v >= 1 /\ i \in Nat
      BY <1>1
    <3> QED BY ONLY <3>1, <3>2, <3>3
  <2>2. CASE i = n + 2
    BY <1>1, <1>5, <2>2
  <2> QED BY <1>1, <2>1, <2>2
<1>8. Ledger(r, o, t)
  <2>1. n \in Nat /\ Len(r) + 1 = n + 2 /\ Len(r) = n + 1
    BY <1>1
  <2>2. o \in [1..(Len(r) + 1) -> Nat] /\ t \in [1..(Len(r) + 1) -> Nat]
    BY <1>5, <2>1
  <2>3. o[Len(r) + 1] = 0 /\ t[Len(r) + 1] = 0
    BY <1>5, <2>1
  <2>4. \A i \in 1..Len(r) : IF r[i].type = "Completed"
                             THEN o[i] = o[i + 1] + r[i].value /\ t[i] = t[i + 1]
                             ELSE o[i] = o[i + 1] /\ t[i] = t[i + 1] + 1
    BY ONLY <1>6, <2>1
  <2>5. \A i \in 1..(Len(r) + 1) : t[i] <= Len(r) + 1 - i /\ Len(r) + 1 - i <= o[i] + t[i]
    <3>1. ASSUME NEW i \in 1..(n + 2) PROVE t[i] <= n + 2 - i /\ n + 2 - i <= o[i] + t[i]
      BY <1>7
    <3>2. (n + 1) + 1 = n + 2
      BY <2>1
    <3> QED BY ONLY <2>1, <3>1, <3>2
  <2> QED BY ONLY <2>2, <2>3, <2>4, <2>5 DEF Ledger
<1> QED BY <1>5, <1>8 DEF n, v

(* What one poll may read: all but one of PollLimit events, then a packet. *)
Readable == PollLimit - 1 + MaxFragments

(* Beside it, the end of the link, and a command's answer with its event.  *)
Ending(conn) == IF conn = 0 THEN 1 ELSE 0
Waiting(command) == IF command = "none" THEN 0 ELSE 2

(* The queue q, of which the host has accepted what is before first: the   *)
(* events in it, the credits they return, and what the host may still send *)
(* keep to their limits.  After an answer there is only what was read or   *)
(* produced since; before the host knows of a connection it sends nothing, *)
(* so that no credits are returned.                                        *)
Budget(q, first, conn, believed, command, sent, credits) ==
  \E owed, others :
    /\ Ledger(q, owed, others)
    /\ Len(q) - others[1] <= AclCredits
    /\ others[1] <= Readable + Ending(conn) + Waiting(command)
    /\ owed[first] <= AclCredits
    /\ conn # 0 /\ believed = conn => owed[first] + credits = sent
    /\ \A i \in first..Len(q) : q[i].type = "Answer" => others[i] <= Readable + Ending(conn)
    /\ \A i \in first..Len(q) : q[i].type = "Connected" => owed[i] = 0

(* The numbers are numbers.                                                *)
LEMMA Limits ==
  /\ Readable \in Nat /\ Readable >= 2 /\ AclCredits \in Nat /\ PollLimit \in Nat /\ MaxFragments \in Nat
  /\ PollLimit >= 1 /\ MaxFragments >= 1 /\ Readable = PollLimit - 1 + MaxFragments
  /\ EventCapacity \in Nat /\ EventCapacity >= Readable + AclCredits + 3
BY ConstantsAssumption, QueueAssumption DEF Readable

(* An empty queue.                                                         *)
LEMMA BudgetEmpty ==
  ASSUME NEW believed, NEW command, NEW sent, NEW credits
  PROVE  Budget(<<>>, 1, 0, believed, command, sent, credits)
<1> DEFINE e == <<>>
<1>1. PICK owed, others : Ledger(e, owed, others)
  BY LedgerEmpty
<1>2. Len(e) = 0
  OBVIOUS
<1> HIDE DEF e
<1>3. owed[1] = 0 /\ others[1] = 0
  BY <1>1, <1>2 DEF Ledger
<1>4. Ending(0) = 1 /\ Waiting(command) \in 0..2
  BY DEF Ending, Waiting
<1>5. Budget(e, 1, 0, believed, command, sent, credits)
  BY <1>1, <1>2, <1>3, <1>4, Limits DEF Budget
<1> QED BY <1>5 DEF e

(* The queue is as long as the host's credits and the other events allow.  *)
LEMMA BudgetLength ==
  ASSUME NEW q \in Seq(Event), NEW first, NEW conn, NEW believed, NEW command, NEW sent, NEW credits,
         Budget(q, first, conn, believed, command, sent, credits)
  PROVE  Len(q) <= Readable + AclCredits + Ending(conn) + Waiting(command)
<1>1. PICK owed, others :
        /\ Ledger(q, owed, others)
        /\ Len(q) - others[1] <= AclCredits
        /\ others[1] <= Readable + Ending(conn) + Waiting(command)
  BY DEF Budget
<1>2. others[1] \in Nat /\ Len(q) \in Nat
  <2>1. 1 \in 1..(Len(q) + 1) /\ others \in [1..(Len(q) + 1) -> Nat]
    BY <1>1 DEF Ledger
  <2> QED BY <2>1
<1>3. Ending(conn) \in 0..1 /\ Waiting(command) \in 0..2
  BY DEF Ending, Waiting
<1> QED BY <1>1, <1>2, <1>3, Limits

(* Events read from the peer, or the end of the link.                      *)
LEMMA BudgetAppend ==
  ASSUME NEW q \in Seq(Event), NEW s \in Seq(Event), NEW r, r = Followed(q, s),
         \A i \in 1..Len(s) : s[i].type \notin {"Completed", "Answer"},
         NEW first \in 1..(Len(q) + 1), NEW conn \in Nat, NEW conn2 \in Nat,
         NEW believed, NEW command, NEW sent, NEW credits, NEW credits2,
         Budget(q, first, conn, believed, command, sent, credits),
         conn2 # 0 /\ believed = conn2 => conn = conn2 /\ credits2 = credits,
         Len(q) + Len(s) <= Readable \/ (Len(s) <= 1 /\ conn # 0 /\ conn2 = 0)
  PROVE  Budget(r, first, conn2, believed, command, sent, credits2)
<1> DEFINE n == Len(q)
           k == Len(s)
<1>1. PICK owed, others :
        /\ Ledger(q, owed, others)
        /\ Len(q) - others[1] <= AclCredits
        /\ others[1] <= Readable + Ending(conn) + Waiting(command)
        /\ owed[first] <= AclCredits
        /\ conn # 0 /\ believed = conn => owed[first] + credits = sent
        /\ \A i \in first..Len(q) : q[i].type = "Answer" => others[i] <= Readable + Ending(conn)
        /\ \A i \in first..Len(q) : q[i].type = "Connected" => owed[i] = 0
  BY DEF Budget
<1>2. PICK o, t : Continues(q, owed, others, Len(s), r, o, t)
  <2>1. \A i \in 1..Len(s) : s[i].type # "Completed"
    OBVIOUS
  <2>2. Ledger(q, owed, others)
    BY <1>1
  <2> QED BY <2>1, <2>2, LedgerAppend
<1>2a. /\ Ledger(r, o, t)
       /\ \A i \in 1..(n + 1) : o[i] = owed[i] /\ t[i] = others[i] + k
       /\ \A i \in (n + 1)..(Len(r) + 1) : o[i] = 0 /\ t[i] = Len(r) + 1 - i
  BY <1>2 DEF Continues
<1>3. /\ n \in Nat /\ k \in Nat /\ Len(r) = n + k
      /\ \A i \in 1..n : r[i] = q[i]
      /\ \A i \in (n + 1)..(n + k) : i - n \in 1..k /\ r[i] = s[i - n]
  BY DEF Followed
<1>4. others \in [1..(n + 1) -> Nat] /\ \A i \in 1..(n + 1) : others[i] <= n + 1 - i
  BY <1>1 DEF Ledger
<1>5. t \in [1..(n + k + 1) -> Nat] /\ \A i \in 1..(n + k + 1) : t[i] <= n + k + 1 - i
  BY <1>2a, <1>3 DEF Ledger
<1>6. /\ Ending(conn) \in 0..1 /\ Ending(conn2) \in 0..1 /\ Waiting(command) \in 0..2
      /\ (conn2 = 0 => Ending(conn2) = 1) /\ (conn # 0 => Ending(conn) = 0)
  BY DEF Ending, Waiting
<1>7. /\ n - others[1] <= AclCredits /\ others[1] <= Readable + Ending(conn) + Waiting(command)
      /\ others[1] \in Nat /\ t[1] = others[1] + k /\ t[1] \in Nat /\ t[1] <= n + k /\ o[first] = owed[first]
  <2>1. /\ 1 \in 1..(n + 1) /\ 1 \in 1..(n + k + 1) /\ first \in 1..(n + 1) /\ n + k + 1 - 1 = n + k
    BY <1>3
  <2>2. t[1] = others[1] + k /\ o[first] = owed[first]
    BY <1>2a, <2>1
  <2>3. others[1] \in Nat /\ t[1] \in Nat /\ t[1] <= n + k
    BY <1>4, <1>5, <2>1
  <2> QED BY <1>1, <2>2, <2>3
<1>8. n + k <= Readable \/ (k <= 1 /\ conn # 0 /\ conn2 = 0)
  OBVIOUS
<1>a. \A i \in 1..k : s[i].type \notin {"Completed", "Answer"}
  OBVIOUS
<1>b. /\ \A i \in first..n : q[i].type = "Answer" => others[i] <= Readable + Ending(conn)
      /\ \A i \in first..n : q[i].type = "Connected" => owed[i] = 0
  BY <1>1
<1> HIDE DEF n, k
<1>9. Len(r) - t[1] <= AclCredits
  <2>1. n \in Nat /\ k \in Nat /\ Len(r) = n + k
    BY ONLY <1>3
  <2>2. n - others[1] <= AclCredits /\ t[1] = others[1] + k /\ others[1] \in Nat
    BY ONLY <1>7
  <2>3. AclCredits \in Nat
    BY ONLY Limits
  <2> QED BY ONLY <2>1, <2>2, <2>3
<1>10. t[1] <= Readable + Ending(conn2) + Waiting(command)
  <2>1. n \in Nat /\ k \in Nat /\ Readable \in Nat
    BY <1>3, Limits
  <2>2. CASE n + k <= Readable
    <3>1. t[1] \in Nat /\ t[1] <= n + k
      BY ONLY <1>7
    <3>2. t[1] <= Readable
      BY ONLY <2>1, <2>2, <3>1
    <3>3. Ending(conn2) \in 0..1 /\ Waiting(command) \in 0..2
      BY ONLY <1>6
    <3> QED BY ONLY <2>1, <3>1, <3>2, <3>3
  <2>3. CASE k <= 1 /\ conn # 0 /\ conn2 = 0
    <3>1. Ending(conn) = 0 /\ Ending(conn2) = 1
      BY <1>6, <2>3
    <3>2. others[1] <= Readable + Ending(conn) + Waiting(command) /\ others[1] \in Nat /\ t[1] = others[1] + k
      BY <1>7
    <3>3. Waiting(command) \in 0..2
      BY <1>6
    <3> QED BY ONLY <2>1, <2>3, <3>1, <3>2, <3>3
  <2> QED BY <1>8, <2>2, <2>3
<1>11. ASSUME NEW i \in first..(n + k), r[i].type = "Answer" PROVE t[i] <= Readable + Ending(conn2)
  <2>1. i \in 1..n
    <3>1. CASE i \in (n + 1)..(n + k)
      BY <1>3, <1>11, <1>a, <3>1
    <3> QED BY <1>3, <3>1
  <2>2. q[i].type = "Answer" /\ i \in first..n /\ i \in 1..(n + 1)
    BY <1>3, <1>11, <2>1
  <2>3. others[i] <= Readable + Ending(conn) /\ t[i] = others[i] + k /\ t[i] <= n + k + 1 - i
    BY <1>2a, <1>3, <1>5, <1>b, <2>2
  <2>4. others[i] \in Nat
    BY <1>4, <2>2
  <2> QED BY <1>3, <1>6, <1>8, <2>1, <2>3, <2>4, Limits
<1>12. ASSUME NEW i \in first..(n + k), r[i].type = "Connected" PROVE o[i] = 0
  <2>1. CASE i \in (n + 1)..(n + k)
    BY <1>2a, <1>3, <2>1
  <2>2. CASE i \in 1..n
    <3>1. q[i].type = "Connected" /\ i \in first..n /\ i \in 1..(n + 1)
      BY <1>3, <1>12, <2>2
    <3> QED BY <1>2a, <1>b, <3>1
  <2> QED BY <1>3, <2>1, <2>2
<1>13. conn2 # 0 /\ believed = conn2 => o[first] + credits2 = sent
  BY <1>1, <1>7
<1>14. o[first] <= AclCredits
  BY <1>1, <1>7
<1> QED BY <1>2a, <1>3, <1>9, <1>10, <1>11, <1>12, <1>13, <1>14 DEF Budget

(* A command: its answer and at most one event.                            *)
LEMMA BudgetCommand ==
  ASSUME NEW q \in Seq(Event), NEW s \in Seq(Event), NEW r, r = Followed(q, s), Len(s) <= 2,
         \A i \in 1..Len(s) : s[i].type # "Completed",
         NEW first \in 1..(Len(q) + 1), \A i \in first..Len(q) : q[i].type # "Answer",
         NEW conn \in Nat, NEW conn2 \in {0, conn}, NEW believed, NEW believed2,
         NEW sent, NEW sent2, NEW credits, NEW credits2, NEW op, op # "none",
         Budget(q, first, conn, believed, "none", sent, credits),
         conn2 # 0 /\ believed2 = conn2 => believed = believed2 /\ sent2 = sent /\ credits2 = credits
  PROVE  Budget(r, first, conn2, believed2, op, sent2, credits2)
<1> DEFINE n == Len(q)
           k == Len(s)
<1>1. PICK owed, others :
        /\ Ledger(q, owed, others)
        /\ Len(q) - others[1] <= AclCredits
        /\ others[1] <= Readable + Ending(conn) + Waiting("none")
        /\ owed[first] <= AclCredits
        /\ conn # 0 /\ believed = conn => owed[first] + credits = sent
        /\ \A i \in first..Len(q) : q[i].type = "Answer" => others[i] <= Readable + Ending(conn)
        /\ \A i \in first..Len(q) : q[i].type = "Connected" => owed[i] = 0
  BY DEF Budget
<1>2. PICK o, t : Continues(q, owed, others, Len(s), r, o, t)
  <2>1. \A i \in 1..Len(s) : s[i].type # "Completed"
    OBVIOUS
  <2>2. Ledger(q, owed, others)
    BY <1>1
  <2> QED BY <2>1, <2>2, LedgerAppend
<1>2a. /\ Ledger(r, o, t)
       /\ \A i \in 1..(n + 1) : o[i] = owed[i] /\ t[i] = others[i] + k
       /\ \A i \in (n + 1)..(Len(r) + 1) : o[i] = 0 /\ t[i] = Len(r) + 1 - i
  BY <1>2 DEF Continues
<1>3. /\ n \in Nat /\ k \in 0..2 /\ Len(r) = n + k
      /\ \A i \in 1..n : r[i] = q[i]
  <2>1. n \in Nat /\ k \in Nat /\ k <= 2
    OBVIOUS
  <2>2. Len(r) = n + k /\ \A i \in 1..n : r[i] = q[i]
    BY DEF Followed
  <2> HIDE DEF n, k
  <2>3. k \in 0..2
    BY ONLY <2>1
  <2> QED BY ONLY <2>1, <2>2, <2>3
<1>4. others[1] \in Nat
  <2>1. 1 \in 1..(Len(q) + 1) /\ others \in [1..(Len(q) + 1) -> Nat]
    BY <1>1 DEF Ledger
  <2> QED BY <2>1
<1>6. /\ Ending(conn) \in 0..1 /\ Ending(conn2) \in 0..1 /\ Ending(conn) <= Ending(conn2)
      /\ Waiting("none") = 0 /\ Waiting(op) = 2
  BY DEF Ending, Waiting
<1>7. /\ n - others[1] <= AclCredits /\ others[1] <= Readable + Ending(conn)
      /\ t[1] = others[1] + k /\ o[first] = owed[first]
  BY <1>1, <1>2a, <1>3, <1>4, <1>6, Limits
<1>b. /\ \A i \in first..n : q[i].type # "Answer"
      /\ \A i \in first..n : q[i].type = "Connected" => owed[i] = 0
  BY <1>1
<1> HIDE DEF n, k
<1>9. Len(r) - t[1] <= AclCredits
  <2>1. n \in Nat /\ k \in 0..2 /\ Len(r) = n + k
    BY ONLY <1>3
  <2>2. n - others[1] <= AclCredits /\ t[1] = others[1] + k
    BY ONLY <1>7
  <2>3. AclCredits \in Nat
    BY ONLY Limits
  <2> QED BY ONLY <1>4, <2>1, <2>2, <2>3
<1>10. t[1] <= Readable + Ending(conn2) + Waiting(op)
  <2>1. k \in 0..2 /\ Readable \in Nat
    BY <1>3, Limits
  <2>2. others[1] <= Readable + Ending(conn) /\ t[1] = others[1] + k
    BY ONLY <1>7
  <2>3. /\ Ending(conn) \in 0..1 /\ Ending(conn2) \in 0..1 /\ Ending(conn) <= Ending(conn2)
        /\ Waiting(op) = 2
    BY ONLY <1>6
  <2> QED BY ONLY <1>4, <2>1, <2>2, <2>3
<1>11. ASSUME NEW i \in first..(n + k), r[i].type = "Answer" PROVE t[i] <= Readable + Ending(conn2)
  <2>1. ~(i \in 1..n)
    <3>1. CASE i \in 1..n
      <4>1. i \in first..n /\ r[i] = q[i]
        BY <1>3, <1>11, <3>1
      <4> QED BY <1>11, <1>b, <4>1
    <3> QED BY <3>1
  <2>2. i \in (n + 1)..(n + k)
    BY <1>3, <1>11, <2>1
  <2>3. t[i] = n + k + 1 - i
    BY <1>2a, <1>3, <2>2
  <2> QED BY <1>3, <1>6, <2>2, <2>3, Limits
<1>12. ASSUME NEW i \in first..(n + k), r[i].type = "Connected" PROVE o[i] = 0
  <2>1. CASE i \in (n + 1)..(n + k)
    BY <1>2a, <1>3, <2>1
  <2>2. CASE i \in 1..n
    <3>1. q[i].type = "Connected" /\ i \in first..n /\ i \in 1..(n + 1)
      BY <1>3, <1>12, <2>2
    <3> QED BY <1>2a, <1>b, <3>1
  <2> QED BY <1>3, <2>1, <2>2
<1>13. conn2 # 0 /\ believed2 = conn2 => o[first] + credits2 = sent2
  BY <1>1, <1>7
<1>14. o[first] <= AclCredits
  BY <1>1, <1>7
<1> QED BY <1>2a, <1>3, <1>9, <1>10, <1>11, <1>12, <1>13, <1>14 DEF Budget

(* The event that returns the credits collected since the last one.        *)
LEMMA BudgetCredit ==
  ASSUME NEW q \in Seq(Event), NEW e \in Event, NEW r, r = Then(q, e), e.type = "Completed", e.value # 0,
         \A i \in 1..Len(q) : q[i].type # "Connected",
         NEW conn, conn # 0, NEW believed, believed = conn, NEW command, NEW sent \in Int, sent <= AclCredits,
         Budget(q, 1, conn, believed, command, sent, e.value)
  PROVE  Budget(r, 1, conn, believed, command, sent, 0)
<1> DEFINE n == Len(q)
           v == e.value
<1>1. PICK owed, others :
        /\ Ledger(q, owed, others)
        /\ Len(q) - others[1] <= AclCredits
        /\ others[1] <= Readable + Ending(conn) + Waiting(command)
        /\ owed[1] + v = sent
        /\ \A i \in 1..Len(q) : q[i].type = "Answer" => others[i] <= Readable + Ending(conn)
  BY DEF Budget
<1>2. PICK o, t : /\ Ledger(r, o, t)
                  /\ \A i \in 1..(n + 1) : o[i] = owed[i] + v /\ t[i] = others[i]
  BY <1>1, LedgerCredit
<1>3. /\ n \in Nat /\ v \in Nat /\ Len(r) = n + 1
      /\ \A i \in 1..n : r[i] = q[i]
      /\ r[n + 1] = e
  BY DEF Then, Event
<1>4. owed[1] \in Nat /\ others[1] \in Nat
  <2>1. 1 \in 1..(Len(q) + 1) /\ owed \in [1..(Len(q) + 1) -> Nat] /\ others \in [1..(Len(q) + 1) -> Nat]
    BY <1>1 DEF Ledger
  <2> QED BY <2>1
<1>5. o[1] = owed[1] + v /\ t[1] = others[1] /\ Len(r) <= o[1] + t[1]
  <2>1. 1 \in 1..(Len(r) + 1) /\ Len(r) + 1 - 1 = Len(r)
    BY <1>3
  <2>2. Len(r) + 1 - 1 <= o[1] + t[1]
    BY <1>2, <2>1 DEF Ledger
  <2> QED BY <1>2, <1>3, <2>1, <2>2
<1>6. Len(r) - t[1] <= AclCredits /\ o[1] <= AclCredits /\ o[1] + 0 = sent
  BY <1>1, <1>3, <1>4, <1>5, Limits
<1>7. ASSUME NEW i \in 1..Len(r), r[i].type = "Answer" PROVE t[i] <= Readable + Ending(conn)
  <2>1. i \in 1..n
    BY <1>3, <1>7
  <2> QED BY <1>1, <1>2, <1>3, <1>7, <2>1
<1>8. ASSUME NEW i \in 1..Len(r), r[i].type = "Connected" PROVE o[i] = 0
  <2>1. i \in 1..n
    BY <1>3, <1>8
  <2> QED BY <1>3, <1>8, <2>1
<1>9. t[1] <= Readable + Ending(conn) + Waiting(command)
  BY <1>1, <1>5
<1> QED BY <1>2, <1>6, <1>7, <1>8, <1>9 DEF Budget

(* The host accepts the first event.                                       *)
LEMMA BudgetTakes ==
  ASSUME NEW q \in Seq(Event), q # <<>>, NEW conn, NEW believed, NEW believed2,
         NEW command, NEW command2, NEW sent \in Int, NEW sent2 \in Int, NEW credits \in Nat,
         Budget(q, 1, conn, believed, command, sent, credits),
         command2 = command \/ (q[1].type = "Answer" /\ command2 = "none"),
         conn # 0 /\ believed2 = conn =>
           \/ believed = conn /\ q[1].type # "Completed" /\ sent2 = sent
           \/ believed = conn /\ q[1].type = "Completed" /\ sent2 = sent - q[1].value
           \/ q[1].type = "Connected" /\ credits = 0 /\ sent2 = 0
  PROVE  Budget(q, 2, conn, believed2, command2, sent2, credits)
<1>1. PICK owed, others :
        /\ Ledger(q, owed, others)
        /\ Len(q) - others[1] <= AclCredits
        /\ others[1] <= Readable + Ending(conn) + Waiting(command)
        /\ owed[1] <= AclCredits
        /\ conn # 0 /\ believed = conn => owed[1] + credits = sent
        /\ \A i \in 1..Len(q) : q[i].type = "Answer" => others[i] <= Readable + Ending(conn)
        /\ \A i \in 1..Len(q) : q[i].type = "Connected" => owed[i] = 0
  BY DEF Budget
<1>2. Len(q) \in Nat /\ 1 \in 1..Len(q) /\ 2 \in 1..(Len(q) + 1) /\ q[1].value \in Nat
  <2>1. Len(q) \in Nat /\ Len(q) >= 1 /\ q[1] \in Event
    OBVIOUS
  <2> QED BY <2>1 DEF Event
<1>3. owed[1] \in Nat /\ owed[2] \in Nat /\ others[1] \in Nat
  <2>1. 1 \in 1..(Len(q) + 1) /\ owed \in [1..(Len(q) + 1) -> Nat] /\ others \in [1..(Len(q) + 1) -> Nat]
    BY <1>1, <1>2 DEF Ledger
  <2> QED BY <1>2, <2>1
<1>4. /\ q[1].type = "Completed" => owed[1] = owed[2] + q[1].value
      /\ q[1].type # "Completed" => owed[1] = owed[2]
  BY <1>1, <1>2 DEF Ledger
<1>5. Ending(conn) \in 0..1 /\ Waiting(command) \in 0..2 /\ Waiting(command2) \in 0..2
  BY DEF Ending, Waiting
<1>6. owed[2] <= AclCredits
  BY <1>1, <1>2, <1>3, <1>4, Limits
<1>7. others[1] <= Readable + Ending(conn) + Waiting(command2)
  <2>1. CASE q[1].type = "Answer"
    <3>1. others[1] <= Readable + Ending(conn)
      BY <1>1, <1>2, <2>1
    <3> QED BY <1>3, <1>5, <3>1, Limits
  <2>2. CASE q[1].type # "Answer"
    <3>1. command2 = command
      BY <2>2
    <3> QED BY <1>1, <3>1
  <2> QED BY <2>1, <2>2
<1>8. ASSUME conn # 0, believed2 = conn PROVE owed[2] + credits = sent2
  <2>1. CASE believed = conn /\ q[1].type # "Completed" /\ sent2 = sent
    BY <1>1, <1>4, <1>8, <2>1
  <2>2. CASE believed = conn /\ q[1].type = "Completed" /\ sent2 = sent - q[1].value
    <3> DEFINE a == owed[1]
               b == owed[2]
               c == q[1].value
    <3>1. a + credits = sent /\ a = b + c
      BY <1>1, <1>4, <1>8, <2>2
    <3>2. a \in Nat /\ b \in Nat /\ c \in Nat /\ sent2 = sent - c
      BY <1>2, <1>3, <2>2
    <3>3. sent \in Int /\ credits \in Nat
      OBVIOUS
    <3> HIDE DEF a, b, c
    <3>4. b + credits = sent2
      BY ONLY <3>1, <3>2, <3>3
    <3> QED BY <3>4 DEF b
  <2>3. CASE q[1].type = "Connected" /\ credits = 0 /\ sent2 = 0
    <3>1. owed[1] = 0 /\ owed[1] = owed[2]
      BY <1>1, <1>2, <1>4, <2>3
    <3> QED BY <2>3, <3>1
  <2> QED BY <1>8, <2>1, <2>2, <2>3
<1>9. /\ \A i \in 2..Len(q) : q[i].type = "Answer" => others[i] <= Readable + Ending(conn)
      /\ \A i \in 2..Len(q) : q[i].type = "Connected" => owed[i] = 0
  BY <1>1, <1>2
<1> QED BY <1>1, <1>6, <1>7, <1>8, <1>9 DEF Budget

(* The event that the host accepted is popped.                             *)
LEMMA BudgetReturns ==
  ASSUME NEW q \in Seq(Event), q # <<>>, NEW conn, NEW believed, NEW command, NEW sent, NEW credits,
         Budget(q, 2, conn, believed, command, sent, credits)
  PROVE  Budget(Tail(q), 1, conn, believed, command, sent, credits)
<1> DEFINE r == Tail(q)
<1>1. PICK owed, others :
        /\ Ledger(q, owed, others)
        /\ Len(q) - others[1] <= AclCredits
        /\ others[1] <= Readable + Ending(conn) + Waiting(command)
        /\ owed[2] <= AclCredits
        /\ conn # 0 /\ believed = conn => owed[2] + credits = sent
        /\ \A i \in 2..Len(q) : q[i].type = "Answer" => others[i] <= Readable + Ending(conn)
        /\ \A i \in 2..Len(q) : q[i].type = "Connected" => owed[i] = 0
  BY DEF Budget
<1>2. PICK o, t : /\ Ledger(r, o, t)
                  /\ \A i \in 1..Len(q) : o[i] = owed[i + 1] /\ t[i] = others[i + 1]
  BY <1>1, LedgerTail
<1>3. /\ Len(q) \in Nat /\ Len(q) >= 1 /\ Len(r) = Len(q) - 1
      /\ \A i \in 1..Len(r) : r[i] = q[i + 1] /\ i + 1 \in 2..Len(q) /\ i \in 1..Len(q)
  OBVIOUS
<1> HIDE DEF r
<1>4. others[1] \in Nat /\ others[2] \in Nat /\ others[1] - 1 <= others[2] /\ others[2] <= others[1]
  <2>1. 1 \in 1..Len(q) /\ 1 \in 1..(Len(q) + 1) /\ 2 \in 1..(Len(q) + 1) /\ 1 + 1 = 2
    BY <1>3
  <2>2. others[1] \in Nat /\ others[2] \in Nat
    BY <1>1, <2>1 DEF Ledger
  <2>3. others[1] = others[2] \/ others[1] = others[2] + 1
    BY <1>1, <2>1 DEF Ledger
  <2> QED BY <2>2, <2>3
<1>5. o[1] = owed[2] /\ t[1] = others[2]
  <2>1. 1 \in 1..Len(q) /\ 1 + 1 = 2
    BY <1>3
  <2> QED BY <1>2, <2>1
<1>6. Len(r) - t[1] <= AclCredits /\ t[1] <= Readable + Ending(conn) + Waiting(command)
  <2>1. Ending(conn) \in 0..1 /\ Waiting(command) \in 0..2
    BY DEF Ending, Waiting
  <2> QED BY <1>1, <1>3, <1>4, <1>5, <2>1, Limits
<1>7. ASSUME NEW i \in 1..Len(r), r[i].type = "Answer" PROVE t[i] <= Readable + Ending(conn)
  BY <1>1, <1>2, <1>3, <1>7
<1>8. ASSUME NEW i \in 1..Len(r), r[i].type = "Connected" PROVE o[i] = 0
  BY <1>1, <1>2, <1>3, <1>8
<1>9. o[1] <= AclCredits /\ (conn # 0 /\ believed = conn => o[1] + credits = sent)
  BY <1>1, <1>5
<1>10. Budget(r, 1, conn, believed, command, sent, credits)
  BY <1>2, <1>6, <1>7, <1>8, <1>9 DEF Budget
<1> QED BY <1>10 DEF r

(* A packet sent by the host.                                              *)
LEMMA BudgetSends ==
  ASSUME NEW q \in Seq(Event), NEW first \in 1..(Len(q) + 1), NEW conn, NEW believed, NEW command,
         NEW sent \in Int, NEW sent2 \in Int, NEW credits \in Nat, NEW credits2 \in Nat,
         Budget(q, first, conn, believed, command, sent, credits),
         conn # 0 /\ believed = conn => credits2 - credits = sent2 - sent
  PROVE  Budget(q, first, conn, believed, command, sent2, credits2)
<1>1. PICK owed, others :
        /\ Ledger(q, owed, others)
        /\ Len(q) - others[1] <= AclCredits
        /\ others[1] <= Readable + Ending(conn) + Waiting(command)
        /\ owed[first] <= AclCredits
        /\ conn # 0 /\ believed = conn => owed[first] + credits = sent
        /\ \A i \in first..Len(q) : q[i].type = "Answer" => others[i] <= Readable + Ending(conn)
        /\ \A i \in first..Len(q) : q[i].type = "Connected" => owed[i] = 0
  BY DEF Budget
<1>2. owed[first] \in Nat
  <2>1. owed \in [1..(Len(q) + 1) -> Nat]
    BY <1>1 DEF Ledger
  <2> QED BY <2>1
<1>3. ASSUME conn # 0, believed = conn PROVE owed[first] + credits2 = sent2
  <2>1. owed[first] + credits = sent /\ credits2 - credits = sent2 - sent
    BY <1>1, <1>3
  <2> QED BY ONLY <1>2, <2>1, sent \in Int, sent2 \in Int, credits \in Nat, credits2 \in Nat
<1> QED BY <1>1, <1>3 DEF Budget


(* What the host may still send is bounded by what it has sent.            *)
LEMMA BudgetSent ==
  ASSUME NEW q \in Seq(Event), NEW first \in 1..(Len(q) + 1), NEW conn, NEW believed, NEW command,
         NEW sent \in Int, NEW credits \in Nat,
         Budget(q, first, conn, believed, command, sent, credits), conn # 0, believed = conn
  PROVE  credits <= sent
<1>1. PICK owed, others : Ledger(q, owed, others) /\ owed[first] + credits = sent
  BY DEF Budget
<1>2. owed[first] \in Nat
  <2>1. owed \in [1..(Len(q) + 1) -> Nat]
    BY <1>1 DEF Ledger
  <2> QED BY <2>1
<1> QED BY <1>1, <1>2

-----------------------------------------------------------------------------
(* News of the live connection.                                            *)

(* A host that knows of the live connection has no other news of it to     *)
(* come; the news of it, if still queued from the f-th event on, is last.  *)
Current(q, f, conn, believed) ==
  conn # 0 =>
    /\ believed = conn => \A i \in f..Len(q) : q[i].type \notin {"Connected", "Disconnected"}
    /\ \A i \in f..Len(q) : q[i].type = "Connected" /\ q[i].handle = conn =>
         \A j \in (i + 1)..Len(q) : q[j].type \notin {"Connected", "Disconnected"}

(* Events of other kinds are no news.                                      *)
LEMMA CurrentAppend ==
  ASSUME NEW q \in Seq(Event), NEW s \in Seq(Event), NEW r, r = Followed(q, s),
         \A i \in 1..Len(s) : s[i].type \notin {"Connected", "Disconnected"},
         NEW f \in 1..(Len(q) + 1), NEW conn, NEW believed, Current(q, f, conn, believed)
  PROVE  Current(r, f, conn, believed)
<1> DEFINE n == Len(q)
           k == Len(s)
<1>1. /\ n \in Nat /\ k \in Nat /\ Len(r) = n + k /\ f \in Nat /\ f >= 1
      /\ \A i \in 1..n : r[i] = q[i]
      /\ \A i \in (n + 1)..(n + k) : i - n \in 1..k /\ r[i] = s[i - n]
  BY DEF Followed
<1>2. \A i \in 1..k : s[i].type \notin {"Connected", "Disconnected"}
  OBVIOUS
<1>3. /\ conn # 0 /\ believed = conn => \A i \in f..n : q[i].type \notin {"Connected", "Disconnected"}
      /\ conn # 0 => \A i \in f..n : q[i].type = "Connected" /\ q[i].handle = conn =>
           \A j \in (i + 1)..n : q[j].type \notin {"Connected", "Disconnected"}
  BY DEF Current
<1> HIDE DEF n, k
<1>4. ASSUME NEW i \in (n + 1)..(n + k) PROVE r[i].type \notin {"Connected", "Disconnected"}
  <2>1. i - n \in 1..k /\ r[i] = s[i - n]
    BY <1>1
  <2> QED BY <1>2, <2>1
<1>5. ASSUME conn # 0, believed = conn, NEW i \in f..(n + k)
      PROVE  r[i].type \notin {"Connected", "Disconnected"}
  <2>1. CASE i \in (n + 1)..(n + k) BY <1>4, <2>1
  <2>2. CASE i \in f..n
    <3>1. r[i] = q[i]
      BY <1>1, <2>2
    <3> QED BY <1>3, <1>5, <2>2, <3>1
  <2> QED BY <1>1, <2>1, <2>2
<1>6. ASSUME conn # 0, NEW i \in f..(n + k), r[i].type = "Connected", r[i].handle = conn,
             NEW j \in (i + 1)..(n + k)
      PROVE  r[j].type \notin {"Connected", "Disconnected"}
  <2>1. CASE j \in (n + 1)..(n + k) BY <1>4, <2>1
  <2>2. CASE j \in (i + 1)..n
    <3>1. i \in f..n /\ r[i] = q[i] /\ r[j] = q[j]
      BY <1>1, <2>2
    <3> QED BY <1>3, <1>6, <2>2, <3>1
  <2> QED BY <1>1, <2>1, <2>2
<1> QED BY <1>1, <1>5, <1>6 DEF Current

(* A new connection is the last news.                                      *)
LEMMA CurrentConnects ==
  ASSUME NEW q \in Seq(Event), NEW e \in Event, NEW r, r = Then(q, e), NEW conn, NEW believed,
         believed # conn, NEW f \in 1..(Len(q) + 1),
         \A i \in f..Len(q) : q[i].type = "Connected" => q[i].handle # conn
  PROVE  Current(r, f, conn, believed)
<1> DEFINE n == Len(q)
<1>1. /\ n \in Nat /\ Len(r) = n + 1 /\ f \in Nat /\ f >= 1
      /\ \A i \in 1..n : r[i] = q[i]
  BY Appended DEF Then
<1>2. \A i \in f..n : q[i].type = "Connected" => q[i].handle # conn
  OBVIOUS
<1> HIDE DEF n
<1>3. ASSUME NEW i \in f..(n + 1), r[i].type = "Connected", r[i].handle = conn, NEW j \in (i + 1)..(n + 1)
      PROVE  FALSE
  <2>1. i \in f..n /\ r[i] = q[i]
    BY <1>1
  <2> QED BY <1>2, <1>3, <2>1
<1> QED BY <1>1, <1>3 DEF Current

(* The host accepts the first event.                                       *)
LEMMA CurrentTakes ==
  ASSUME NEW q \in Seq(Event), q # <<>>, NEW conn, NEW believed, NEW believed2,
         Current(q, 1, conn, believed),
         \/ believed2 \in {0, believed}
         \/ q[1].type = "Connected" /\ q[1].handle = believed2
  PROVE  Current(q, 2, conn, believed2)
<1>1. Len(q) \in Nat /\ 1 \in 1..Len(q) /\ 1 + 1 = 2 /\ 2..Len(q) \subseteq 1..Len(q)
  OBVIOUS
<1>2. ASSUME conn # 0, believed2 = conn, NEW i \in 2..Len(q)
      PROVE  q[i].type \notin {"Connected", "Disconnected"}
  <2>1. CASE believed2 = believed
    BY <1>1, <1>2, <2>1 DEF Current
  <2>2. CASE q[1].type = "Connected" /\ q[1].handle = believed2
    <3>1. \A j \in (1 + 1)..Len(q) : q[j].type \notin {"Connected", "Disconnected"}
      BY <1>1, <1>2, <2>2 DEF Current
    <3> QED BY <1>1, <3>1
  <2> QED BY <1>2, <2>1, <2>2
<1>3. ASSUME conn # 0, NEW i \in 2..Len(q), q[i].type = "Connected", q[i].handle = conn,
             NEW j \in (i + 1)..Len(q)
      PROVE  q[j].type \notin {"Connected", "Disconnected"}
  BY <1>1, <1>3 DEF Current
<1> QED BY <1>2, <1>3 DEF Current

(* The event that the host accepted is popped.                             *)
LEMMA CurrentReturns ==
  ASSUME NEW q \in Seq(Event), q # <<>>, NEW conn, NEW believed, Current(q, 2, conn, believed)
  PROVE  Current(Tail(q), 1, conn, believed)
<1> DEFINE r == Tail(q)
<1>1. /\ Len(q) \in Nat /\ Len(r) = Len(q) - 1
      /\ \A i \in 1..Len(r) : r[i] = q[i + 1] /\ i + 1 \in 2..Len(q)
  OBVIOUS
<1> HIDE DEF r
<1>2. ASSUME conn # 0, believed = conn, NEW i \in 1..Len(r)
      PROVE  r[i].type \notin {"Connected", "Disconnected"}
  BY <1>1, <1>2 DEF Current
<1>3. ASSUME conn # 0, NEW i \in 1..Len(r), r[i].type = "Connected", r[i].handle = conn,
             NEW j \in (i + 1)..Len(r)
      PROVE  r[j].type \notin {"Connected", "Disconnected"}
  <2>1. j \in 1..Len(r) /\ j + 1 \in ((i + 1) + 1)..Len(q) /\ i + 1 \in 2..Len(q)
    BY <1>1
  <2>2. q[i + 1].type = "Connected" /\ q[i + 1].handle = conn /\ r[j] = q[j + 1]
    BY <1>1, <1>3, <2>1
  <2> QED BY <1>3, <2>1, <2>2 DEF Current
<1>4. Current(r, 1, conn, believed)
  BY <1>2, <1>3 DEF Current
<1> QED BY <1>4 DEF r

-----------------------------------------------------------------------------
(* The invariant of the bounds.                                            *)

(* The place in the queue of the oldest event the host has yet to accept.  *)
oldest == IF inFlight /\ taken /\ ~cancelled THEN 2 ELSE 1

(* An answer that is being delivered is no longer pending.                 *)
AnswerInFlight == inFlight /\ ~taken /\ ~cancelled /\ packet.type = "Answer"

(* The host and the controller agree on what the host has sent: packets    *)
(* within the credits, the packets of one SDU, one command.                *)
Sends ==
  /\ outstanding <= AclCredits
  /\ completedAcl # 0 => hostConn = connection
  /\ connection # 0 /\ hostConn = connection => hostRest = assembly
  /\ connection # 0 /\ hostConn # connection => assembly = 0
  /\ commandPending => hostCommand # "none"
  /\ AnswerInFlight => ~commandPending

(* What is queued, with what it answers for.                               *)
Accounts == Budget(events, oldest, connection, hostConn, hostCommand, outstanding, completedAcl)

BoundInv == ~aborted /\ Accounts /\ Current(events, oldest, connection, hostConn) /\ Sends

(* What the lemmas ask of the types.                                       *)
LEMMA BoundTypes ==
  ASSUME ControllerInv
  PROVE  /\ events \in Seq(Event) /\ oldest \in 1..(Len(events) + 1)
         /\ connection \in Nat /\ outstanding \in Int /\ completedAcl \in Nat
         /\ worker = "poll" => ~inFlight /\ oldest = 1
<1>1. /\ events \in Seq(Event) /\ connection \in Nat /\ outstanding \in Int /\ completedAcl \in Nat
  BY ConstantsAssumption DEF ControllerInv, TypeOK, ValuesOK
<1>2. oldest \in 1..(Len(events) + 1)
  <2>1. CASE inFlight /\ taken /\ ~cancelled
    <3>1. events # <<>>
      BY <2>1 DEF ControllerInv, DeliveryInv
    <3>2. Len(events) \in Nat /\ Len(events) >= 1
      BY <1>1, <3>1
    <3> QED BY <2>1, <3>2 DEF oldest
  <2>2. CASE ~(inFlight /\ taken /\ ~cancelled)
    <3>1. Len(events) \in Nat
      BY <1>1
    <3> QED BY <2>2, <3>1 DEF oldest
  <2> QED BY <2>1, <2>2
<1>3. worker = "poll" => ~inFlight
  BY DEF ControllerInv, DeliveryInv
<1>4. worker = "poll" => oldest = 1
  BY <1>3 DEF oldest
<1> QED BY <1>1, <1>2, <1>3, <1>4

(* Where the host's untaken events are in the queue.                       *)
LEMMA UntakenAt ==
  ASSUME ControllerInv, NEW i \in oldest..Len(events)
  PROVE  i - oldest + 1 \in DOMAIN Untaken /\ Untaken[i - oldest + 1] = events[i]
<1>1. events \in Seq(Event) /\ oldest \in 1..(Len(events) + 1) /\ Len(events) \in Nat
  BY BoundTypes
<1>2. CASE inFlight /\ taken /\ ~cancelled
  <2>1. events # <<>>
    BY <1>2 DEF ControllerInv, DeliveryInv
  <2>2. Untaken = Tail(events) /\ oldest = 2
    BY <1>2 DEF Untaken, oldest
  <2>3. i \in 2..Len(events) /\ i - 2 + 1 = i - 1
    BY <1>1, <2>2
  <2>4. i - 1 \in DOMAIN Tail(events) /\ Tail(events)[i - 1] = events[i]
    BY <1>1, <2>1, <2>3
  <2> QED BY <2>2, <2>3, <2>4
<1>3. CASE ~(inFlight /\ taken /\ ~cancelled)
  <2>1. Untaken = events /\ oldest = 1
    BY <1>3 DEF Untaken, oldest
  <2>2. i \in 1..Len(events) /\ i - 1 + 1 = i
    BY <1>1, <2>1
  <2> QED BY <1>1, <2>1, <2>2
<1> QED BY <1>2, <1>3

(* There is room for an event about the live link, and for a command's.    *)
LEMMA Room ==
  ASSUME ControllerInv, BoundInv
  PROVE  /\ Len(events) <= Readable + AclCredits + 3
         /\ connection # 0 \/ hostCommand = "none" => Len(events) < EventCapacity
<1>1. Len(events) <= Readable + AclCredits + Ending(connection) + Waiting(hostCommand)
  <2>1. Budget(events, oldest, connection, hostConn, hostCommand, outstanding, completedAcl)
    BY DEF BoundInv, Accounts
  <2>2. events \in Seq(Event)
    BY BoundTypes
  <2> QED BY ONLY <2>1, <2>2, BudgetLength
<1>2. Len(events) \in Nat
  BY BoundTypes
<1>3. /\ Ending(connection) \in 0..1 /\ Waiting(hostCommand) \in 0..2
      /\ connection # 0 => Ending(connection) = 0
      /\ hostCommand = "none" => Waiting(hostCommand) = 0
  BY DEF Ending, Waiting
<1> QED BY <1>1, <1>2, <1>3, Limits

(* A host that waits for nothing has no answer to come.                    *)
LEMMA NoAnswers ==
  ASSUME ControllerInv, HostInv, hostCommand = "none"
  PROVE  \A i \in oldest..Len(events) : events[i].type # "Answer"
<1> SUFFICES ASSUME NEW i \in oldest..Len(events), events[i].type = "Answer" PROVE FALSE
  OBVIOUS
<1>1. i - oldest + 1 \in DOMAIN Untaken /\ Untaken[i - oldest + 1] = events[i]
  BY UntakenAt
<1>2. Answers(Untaken, "none")
  BY DEF HostInv, Picture
<1> QED BY <1>1, <1>2 DEF Answers

(* No news of the next handle is queued.                                   *)
LEMMA NewHandle ==
  ASSUME ControllerInv, HostInv, advertising, hostCommand # "reset", oldest = 1, NEW h, h # 0, h # nextHandle
  PROVE  /\ hostConn # h
         /\ \A i \in 1..Len(events) : events[i].type = "Connected" => events[i].handle # h
<1>1. PICK w : w[0] = hostConn /\ Story(w, Untaken, connection, nextHandle, advertising, encrypted)
  BY DEF HostInv, Picture
<1>2. \A i \in 0..Len(Untaken) : w[i] \in {0, nextHandle}
  BY <1>1 DEF Story
<1>3. Untaken \in Seq(Event) /\ Len(Untaken) \in Nat
  BY UntakenType
<1>4. hostConn # h
  BY <1>1, <1>2, <1>3
<1>5. ASSUME NEW i \in 1..Len(events), events[i].type = "Connected", events[i].handle = h PROVE FALSE
  <2>1. i - oldest + 1 \in DOMAIN Untaken /\ Untaken[i - oldest + 1] = events[i]
    BY UntakenAt
  <2>2. i - oldest + 1 = i
    BY DEF oldest
  <2>3. i \in DOMAIN Untaken /\ Untaken[i] = events[i] /\ i \in 0..Len(Untaken)
    BY <1>3, <2>1, <2>2
  <2>4. Moves(w[i - 1], Untaken[i], w[i])
    BY <1>1, <2>3 DEF Story
  <2>5. w[i] = h
    BY <1>5, <2>3, <2>4 DEF Moves
  <2> QED BY <1>2, <2>3, <2>5
<1> QED BY <1>4, <1>5

(* Where there is room nothing overflows.                                  *)
LEMMA NoOverflow ==
  ASSUME ControllerInv, NEW s, Len(events) < EventCapacity PROVE ~Overflows(s)
<1>1. Len(events) \in Nat /\ EventCapacity \in Nat
  BY BoundTypes, ConstantsAssumption
<1> QED BY <1>1 DEF Overflows

(* Steps after which nothing is queued and there is no link.               *)
LEMMA BoundDown ==
  ASSUME ~aborted', events' = <<>>, oldest' = 1, connection' = 0, completedAcl' = 0,
         outstanding' <= AclCredits, ~commandPending'
  PROVE  BoundInv'
<1>1. Budget(<<>>, 1, 0, hostConn', hostCommand', outstanding', 0)
  BY BudgetEmpty
<1>2. Accounts'
  BY <1>1 DEF Accounts
<1>3. Current(events', oldest', connection', hostConn')
  BY DEF Current
<1>4. Sends'
  BY DEF Sends
<1> QED BY <1>2, <1>3, <1>4 DEF BoundInv

(* What the invariant reads.                                               *)
accounts ==
  <<events, oldest, connection, hostConn, hostRest, hostCommand, outstanding,
    completedAcl, assembly, commandPending, aborted>>

(* Steps that change none of it.                                           *)
LEMMA BoundFrame ==
  ASSUME BoundInv, UNCHANGED accounts, AnswerInFlight' => AnswerInFlight
  PROVE  BoundInv'
BY DEF BoundInv, Accounts, Sends, accounts

(* Events read from the peer, and the end of the link.                     *)
LEMMA BoundAppend ==
  ASSUME ControllerInv, BoundInv, NEW s \in Seq(Event), events' = Followed(events, s),
         \A i \in 1..Len(s) : s[i].type \notin {"Completed", "Answer"},
         UNCHANGED <<oldest, hostConn, hostCommand, outstanding>>, ~aborted', connection' \in Nat,
         connection' # 0 /\ hostConn = connection' => connection = connection' /\ UNCHANGED completedAcl,
         Len(events) + Len(s) <= Readable \/ (Len(s) <= 1 /\ connection # 0 /\ connection' = 0),
         Current(events', oldest, connection', hostConn), Sends'
  PROVE  BoundInv'
<1>1. events \in Seq(Event) /\ oldest \in 1..(Len(events) + 1) /\ connection \in Nat
  BY BoundTypes
<1>2. Budget(events, oldest, connection, hostConn, hostCommand, outstanding, completedAcl)
  BY DEF BoundInv, Accounts
<1>3. connection' # 0 /\ hostConn = connection' => connection = connection' /\ completedAcl' = completedAcl
  OBVIOUS
<1>4. Budget(events', oldest, connection', hostConn, hostCommand, outstanding, completedAcl')
  BY <1>1, <1>2, <1>3, BudgetAppend
<1>5. Accounts'
  BY <1>4 DEF Accounts
<1> QED BY <1>5 DEF BoundInv

(* The link goes down, and the host is sent the news.                      *)
LEMMA BoundDrops ==
  ASSUME ControllerInv, BoundInv, connection # 0, disconnect, events' = events \o DisconnectEvent,
         aborted' = Overflows(DisconnectEvent),
         UNCHANGED <<inFlight, taken, cancelled, packet, commandPending, hostLink, hostCommand>>
  PROVE  BoundInv'
<1> DEFINE s == DisconnectEvent
<1>1. s \in Seq(Event)
  BY DisconnectEventType DEF ControllerInv
<1>2. s = <<>> \/ s = <<Ev("Disconnected", connection, 0)>>
  BY DEF DisconnectEvent, queueEvent
<1>3. Len(s) <= 1 /\ \A i \in 1..Len(s) : s[i].type \notin {"Completed", "Answer"}
  <2>1. CASE s = <<>> BY <2>1
  <2>2. CASE s = <<Ev("Disconnected", connection, 0)>>
    <3>1. Len(s) = 1 /\ s[1].type = "Disconnected"
      BY <2>2 DEF Ev
    <3> QED BY <3>1
  <2> QED BY <1>2, <2>1, <2>2
<1>4. events' = Followed(events, s)
  BY DEF Followed
<1>5. ~aborted'
  <2>1. ~Overflows(DisconnectEvent)
    BY Room, NoOverflow
  <2> QED BY <2>1
<1>6. connection' = 0 /\ assembly' = 0 /\ completedAcl' = 0
  BY DEF disconnect
<1>7. UNCHANGED <<oldest, AnswerInFlight, hostConn, hostCommand, outstanding>>
  BY DEF oldest, AnswerInFlight, hostLink
<1>8. Sends'
  BY <1>6, <1>7 DEF Sends, BoundInv
<1>9. Current(events', oldest, connection', hostConn)
  BY <1>6 DEF Current
<1> HIDE DEF s
<1> QED BY <1>1, <1>3, <1>4, <1>5, <1>6, <1>7, <1>8, <1>9, BoundAppend

(* Packets and requests of the peer on the live connection.                *)
LEMMA BoundReads ==
  ASSUME ControllerInv, BoundInv, connection # 0, NEW s \in Seq(Event), events' = Followed(events, s),
         \A i \in 1..Len(s) : s[i].type \in {"Acl", "KeyRequest"},
         Len(s) <= MaxFragments, Len(events) < PollLimit, ~aborted',
         UNCHANGED <<inFlight, taken, cancelled, packet, commandPending, hostLink, hostCommand>>,
         UNCHANGED <<connection, completedAcl, assembly>>
  PROVE  BoundInv'
<1>1. /\ \A i \in 1..Len(s) : s[i].type \notin {"Completed", "Answer"}
      /\ \A i \in 1..Len(s) : s[i].type \notin {"Connected", "Disconnected"}
  OBVIOUS
<1>2. UNCHANGED <<oldest, AnswerInFlight, hostConn, hostRest, hostCommand, outstanding>>
  BY DEF oldest, AnswerInFlight, hostLink
<1>3. events \in Seq(Event) /\ oldest \in 1..(Len(events) + 1) /\ connection \in Nat /\ connection' \in Nat
  BY BoundTypes
<1>4. Len(events) + Len(s) <= Readable
  <2>1. Len(events) \in Nat /\ Len(s) \in Nat
    BY <1>3
  <2> QED BY <2>1, Limits
<1>5. Current(events', oldest, connection', hostConn)
  <2>1. Current(events, oldest, connection, hostConn)
    BY DEF BoundInv
  <2> QED BY <1>1, <1>3, <2>1, CurrentAppend
<1>6. Sends'
  BY <1>2 DEF Sends, BoundInv
<1> QED BY <1>1, <1>2, <1>3, <1>4, <1>5, <1>6, BoundAppend

(* The peer's messages: a poll reads them while there is room.             *)
LEMMA BoundPeer == ASSUME ControllerInv, HostInv, BoundInv, PeerStep PROVE BoundInv'
<1> USE DEF vhci, link, radio, socket, host, hostLink
<1>0. /\ events \in Seq(Event) /\ Len(events) \in Nat /\ connection \in Nat
      /\ worker = "poll" => ~inFlight /\ oldest = 1
  BY BoundTypes
<1>a. connection # 0 => Len(events) < EventCapacity
  BY Room
<1>b. EventCapacity \in Nat /\ PollLimit \in Nat /\ MaxFragments \in Nat /\ MaxFragments >= 1
  BY ConstantsAssumption
<1>1. CASE PeerConnect
  <2> DEFINE h == NextHandle(nextHandle)
             e == Ev("Connected", h, 0)
             s == <<e>>
  <2>1. h \in 1..MaxHandle /\ h # nextHandle
    BY ConstantsAssumption DEF NextHandle, ControllerInv, TypeOK, ValuesOK
  <2>2. /\ connection = 0 /\ advertising /\ connection' = h /\ assembly' = 0
        /\ worker = "poll" /\ Len(events) < PollLimit
        /\ UNCHANGED <<completedAcl, commandPending, inFlight, taken, cancelled, packet, hostConn, hostRest, hostCommand, outstanding>>
    BY <1>1 DEF PeerConnect, PollReads
  <2>3. mask = {"Event", "LeEvent"} /\ hostCommand # "reset" /\ completedAcl = 0
    BY <2>2 DEF HostInv, ControllerInv, NothingOutlivesLink
  <2>4. e \in Event /\ e.type = "Connected" /\ e.handle = h
    BY <2>1, EvType, ConstantsAssumption DEF EventTypes, Ev
  <2>5. queueLeEvent(Ev("Connected", connection', 0)) = s
    BY <2>2, <2>3 DEF queueLeEvent, queueEvent
  <2>6. events' = events \o s /\ aborted' = Overflows(s)
    BY <1>1, <2>5 DEF PeerConnect
  <2> HIDE DEF h, e
  <2>7. h \in Nat /\ h # 0
    BY <2>1, ConstantsAssumption
  <2>8. s \in Seq(Event) /\ Len(s) = 1 /\ \A i \in 1..Len(s) : s[i].type \notin {"Completed", "Answer"}
    <3>1. s \in Seq(Event) /\ Len(s) = 1 /\ s[1] = e
      BY <2>4
    <3> QED BY <2>4, <3>1
  <2>9. ~aborted'
    <3>1. Len(events) < EventCapacity
      BY <1>0, <2>2, Limits
    <3>2. ~Overflows(s)
      BY <3>1, NoOverflow
    <3> QED BY <2>6, <3>2
  <2>10. hostConn # h /\ \A i \in 1..Len(events) : events[i].type = "Connected" => events[i].handle # h
    BY <1>0, <2>1, <2>2, <2>3, <2>7, NewHandle
  <2>11. events' = Then(events, e) /\ events' = Followed(events, s)
    BY <2>6 DEF Then, Followed
  <2>12. UNCHANGED <<oldest, AnswerInFlight>>
    BY <2>2 DEF oldest, AnswerInFlight
  <2>13. Current(events', oldest, connection', hostConn)
    <3>1. Current(events', 1, h, hostConn)
      <4>1. 1 \in 1..(Len(events) + 1)
        BY <1>0
      <4> QED BY <1>0, <2>4, <2>10, <2>11, <4>1, CurrentConnects
    <3> QED BY <1>0, <2>2, <3>1
  <2>14. Sends'
    BY <2>2, <2>3, <2>10, <2>12 DEF Sends, BoundInv
  <2>15. Len(events) + Len(s) <= Readable
    BY <1>0, <2>2, <2>8, Limits
  <2>16. connection' # 0 /\ hostConn = connection' => connection = connection' /\ UNCHANGED completedAcl
    BY <2>2, <2>10
  <2>17. connection' \in Nat /\ UNCHANGED <<oldest, hostConn, hostCommand, outstanding>>
    BY <2>2, <2>7, <2>12
  <2> HIDE DEF s
  <2> QED BY <2>8, <2>9, <2>11, <2>13, <2>14, <2>15, <2>16, <2>17, BoundAppend
<1>2. CASE PeerDisconnect
  BY <1>2, BoundDrops DEF PeerDisconnect
<1>3. CASE PeerL2cap
  <2>1. PICK n \in 1..MaxFragments :
          events' = events \o [i \in 1..n |-> Ev("Acl", connection, IF i = 1 THEN 1 ELSE 0)]
    BY <1>3 DEF PeerL2cap
  <2> DEFINE s == [i \in 1..n |-> Ev("Acl", connection, IF i = 1 THEN 1 ELSE 0)]
  <2>2. /\ connection # 0 /\ Len(events) < PollLimit /\ ~aborted'
        /\ UNCHANGED <<connection, completedAcl, assembly, hostLink, hostCommand>>
        /\ UNCHANGED <<inFlight, taken, cancelled, packet, commandPending>>
    BY <1>3 DEF PeerL2cap, PollReads, BoundInv
  <2>3. n \in Nat /\ n <= MaxFragments /\ s \in [1..n -> Event]
    <3>1. \A i \in 1..n : Ev("Acl", connection, IF i = 1 THEN 1 ELSE 0) \in Event
      BY <1>0, EvType DEF EventTypes
    <3> QED BY <1>b, <3>1
  <2>4. \A i \in 1..n : s[i].type = "Acl"
    BY DEF Ev
  <2>5. events' = Followed(events, s)
    BY <2>1 DEF Followed
  <2> HIDE DEF s
  <2>6. s \in Seq(Event) /\ Len(s) = n
    BY <2>3
  <2>7. \A i \in 1..Len(s) : s[i].type \in {"Acl", "KeyRequest"}
    BY <2>4, <2>6
  <2>8. Len(s) <= MaxFragments
    BY <2>3, <2>6
  <2> QED BY <2>2, <2>5, <2>6, <2>7, <2>8, BoundReads
<1>4. CASE PeerEncrypt
  <2> DEFINE e == Ev("KeyRequest", connection, 0)
             s == queueLeEvent(e)
  <2>1. /\ connection # 0 /\ Len(events) < PollLimit
        /\ UNCHANGED <<connection, completedAcl, assembly, hostLink, hostCommand>>
        /\ UNCHANGED <<inFlight, taken, cancelled, packet, commandPending>>
        /\ events' = events \o s /\ aborted' = Overflows(s)
    BY <1>4 DEF PeerEncrypt, PollReads
  <2>2. e \in Event /\ e.type = "KeyRequest"
    BY <1>0, EvType DEF EventTypes, Ev
  <2>3. s = <<>> \/ s = <<e>>
    BY DEF queueLeEvent, queueEvent
  <2> HIDE DEF e, s
  <2>4. s \in Seq(Event) /\ Len(s) <= 1 /\ \A i \in 1..Len(s) : s[i].type \in {"Acl", "KeyRequest"}
    <3>1. CASE s = <<>> BY <3>1
    <3>2. CASE s = <<e>>
      <4>1. s \in Seq(Event) /\ Len(s) = 1 /\ s[1] = e
        BY <2>2, <3>2
      <4> QED BY <2>2, <4>1
    <3> QED BY <2>3, <3>1, <3>2
  <2>5. ~aborted'
    <3>1. ~Overflows(s)
      BY <1>a, <2>1, NoOverflow
    <3> QED BY <2>1, <3>1
  <2>6. events' = Followed(events, s)
    BY <2>1 DEF Followed
  <2>7. Len(s) <= MaxFragments
    <3>1. Len(s) \in Nat
      BY <2>4
    <3> QED BY <1>b, <2>4, <3>1
  <2> QED BY <2>1, <2>4, <2>5, <2>6, <2>7, BoundReads
<1>5. CASE SocketLost
  <2>1. UNCHANGED accounts
    BY <1>5 DEF SocketLost, accounts, oldest
  <2>2. AnswerInFlight' => AnswerInFlight
    BY <1>5 DEF SocketLost, AnswerInFlight
  <2> QED BY <2>1, <2>2, BoundFrame
<1> QED
  BY <1>1, <1>2, <1>3, <1>4, <1>5 DEF PeerStep

(* The API task: Disable and Deinit leave nothing behind.                  *)
LEMMA BoundApi == ASSUME ControllerInv, BoundInv, ApiStep PROVE BoundInv'
<1>1. CASE HleDisable
  <2>1. connection' = 0
    BY <1>1 DEF HleDisable, resetHci, disconnect, link
  <2>2. /\ events' = <<>> /\ completedAcl' = 0 /\ ~commandPending' /\ outstanding' = 0
        /\ aborted' = Overflows(DisconnectEvent)
    BY <1>1 DEF HleDisable, ReleaseSends, HostDown
  <2>3. ~Overflows(DisconnectEvent)
    <3>1. CASE connection = 0 BY <3>1 DEF DisconnectEvent, Overflows
    <3>2. CASE connection # 0 BY <3>2, Room, NoOverflow
    <3> QED BY <3>1, <3>2
  <2>4. ~aborted'
    BY <2>2, <2>3
  <2>5. oldest' = 1
    BY <1>1 DEF HleDisable, CancelDelivery, oldest
  <2> QED BY <2>1, <2>2, <2>4, <2>5, Limits, BoundDown
<1>2. CASE HleFreed
  <2>1. /\ events' = <<>> /\ connection' = 0 /\ completedAcl' = 0 /\ ~commandPending'
        /\ UNCHANGED outstanding /\ ~aborted'
    BY <1>2 DEF HleFreed, Fresh, host, hostLink, BoundInv
  <2>2. oldest' = 1
    BY <1>2 DEF HleFreed, Fresh, oldest
  <2>3. outstanding' <= AclCredits
    BY <2>1 DEF BoundInv, Sends
  <2> QED BY <2>1, <2>2, <2>3, BoundDown
<1>3. CASE ~HleDisable /\ ~HleFreed
  <2>1. UNCHANGED <<events, inFlight, taken, cancelled, packet, connection, hostConn, hostRest>>
    BY <1>3 DEF ApiStep, HleInit, HleAllocated, HleSemaphoreCreated, OsiTaskCreate, HleTaskCreated,
         HleEnable, HleRegister, HleDeinit, OsiTaskDelete, HleTaskDeleted, HleSemaphoreDeleted,
         vhci, link, host, hostLink
  <2>2. UNCHANGED <<hostCommand, outstanding, completedAcl, assembly, commandPending, aborted>>
    BY <1>3 DEF ApiStep, HleInit, HleAllocated, HleSemaphoreCreated, OsiTaskCreate, HleTaskCreated,
         HleEnable, HleRegister, HleDeinit, OsiTaskDelete, HleTaskDeleted, HleSemaphoreDeleted,
         vhci, link, host, hostLink
  <2>3. UNCHANGED accounts /\ (AnswerInFlight' => AnswerInFlight)
    BY <2>1, <2>2 DEF accounts, oldest, AnswerInFlight
  <2> QED BY <2>3, BoundFrame
<1> QED BY <1>1, <1>2, <1>3

(* The worker returns the credits that it has collected.                   *)
LEMMA BoundDelivers == ASSUME ControllerInv, BoundInv, PollDeliver PROVE BoundInv'
<1> DEFINE e == Ev("Completed", connection, completedAcl)
<1>0. /\ events \in Seq(Event) /\ Len(events) \in Nat /\ connection \in Nat
      /\ outstanding \in Int /\ completedAcl \in Nat /\ oldest = 1
  BY BoundTypes DEF PollDeliver
<1>1. /\ UNCHANGED <<connection, hostConn, hostRest, hostCommand, outstanding, assembly>>
      /\ completedAcl' = 0 /\ events' = events \o CompletedEvent /\ aborted' = Overflows(CompletedEvent)
      /\ commandPending' = (commandPending /\ packet'.type # "Answer") /\ ~taken'
  BY DEF PollDeliver, ResetCompleted, hostLink
<1>2. oldest' = 1
  BY <1>1 DEF oldest
<1>3. Sends'
  <2>1. outstanding' <= AclCredits /\ completedAcl' = 0
    BY <1>1 DEF BoundInv, Sends
  <2>2. /\ connection' # 0 /\ hostConn' = connection' => hostRest' = assembly'
        /\ connection' # 0 /\ hostConn' # connection' => assembly' = 0
    BY <1>1 DEF BoundInv, Sends
  <2>3. commandPending' => commandPending /\ packet'.type # "Answer"
    BY <1>1
  <2>4. commandPending' => hostCommand' # "none"
    BY <1>1, <2>3 DEF BoundInv, Sends
  <2>5. AnswerInFlight' => ~commandPending'
    BY <2>3 DEF AnswerInFlight
  <2> QED BY <2>1, <2>2, <2>4, <2>5 DEF Sends
<1>4. CASE completedAcl = 0
  <2>1. events' = events
    BY <1>0, <1>1, <1>4 DEF CompletedEvent
  <2>2. ~Overflows(CompletedEvent)
    BY <1>4 DEF CompletedEvent, Overflows
  <2>3. ~aborted'
    BY <1>1, <2>2
  <2>4. Accounts'
    <3>1. Accounts
      BY DEF BoundInv
    <3>2. UNCHANGED <<events, oldest, connection, hostConn, hostCommand, outstanding, completedAcl>>
      BY <1>0, <1>1, <1>2, <1>4, <2>1
    <3> QED BY <3>1, <3>2 DEF Accounts
  <2>5. Current(events', oldest', connection', hostConn')
    <3>1. Current(events, oldest, connection, hostConn)
      BY DEF BoundInv
    <3>2. UNCHANGED <<events, oldest, connection, hostConn>>
      BY <1>0, <1>1, <1>2, <2>1
    <3> QED BY <3>1, <3>2
  <2> QED BY <1>3, <2>3, <2>4, <2>5 DEF BoundInv
<1>5. CASE completedAcl # 0
  <2>1. connection # 0 /\ hostConn = connection /\ outstanding <= AclCredits
    BY <1>5 DEF ControllerInv, NothingOutlivesLink, BoundInv, Sends
  <2>2. e \in Event /\ e.type = "Completed" /\ e.value = completedAcl
    BY <1>0, EvType DEF EventTypes, Ev
  <2>3. CompletedEvent = <<e>>
    BY <1>5 DEF CompletedEvent
  <2>4. ~Overflows(CompletedEvent)
    BY <2>1, Room, NoOverflow
  <2>5. ~aborted'
    BY <1>1, <2>4
  <2> HIDE DEF e
  <2>6. events' = Then(events, e)
    BY <1>1, <2>3 DEF Then
  <2>7. Current(events, 1, connection, hostConn)
    BY <1>0 DEF BoundInv
  <2>8. \A i \in 1..Len(events) : events[i].type # "Connected"
    BY <2>1, <2>7 DEF Current
  <2>9. Budget(events, 1, connection, hostConn, hostCommand, outstanding, e.value)
    BY <1>0, <2>2 DEF BoundInv, Accounts
  <2>10. Budget(events', 1, connection, hostConn, hostCommand, outstanding, 0)
    <3>1. e.value # 0
      BY <1>5, <2>2
    <3> QED BY ONLY <1>0, <2>1, <2>2, <2>6, <2>8, <2>9, <3>1, BudgetCredit
  <2>11. Accounts'
    BY <1>1, <1>2, <2>10 DEF Accounts
  <2>12. Current(events', 1, connection, hostConn)
    <3> DEFINE s == <<e>>
    <3>1. s \in Seq(Event) /\ Len(s) = 1 /\ s[1] = e
      BY <2>2
    <3>2. \A i \in 1..Len(s) : s[i].type \notin {"Connected", "Disconnected"}
      BY <2>2, <3>1
    <3>3. events' = Followed(events, s) /\ 1 \in 1..(Len(events) + 1)
      BY <1>0, <2>6 DEF Then, Followed
    <3> HIDE DEF s
    <3> QED BY <1>0, <2>7, <3>1, <3>2, <3>3, CurrentAppend
  <2>13. Current(events', oldest', connection', hostConn')
    BY <1>1, <1>2, <2>12
  <2> QED BY <1>3, <2>5, <2>11, <2>13 DEF BoundInv
<1> QED BY <1>4, <1>5

(* The receive callback returns, and what the host accepted is popped.     *)
LEMMA BoundReturns == ASSUME ControllerInv, BoundInv, HleReceiveReturned PROVE BoundInv'
<1>1. /\ UNCHANGED <<connection, hostConn, hostRest, hostCommand, outstanding>>
      /\ UNCHANGED <<completedAcl, assembly, commandPending, aborted>>
      /\ ~inFlight' /\ ~taken' /\ inFlight
  BY DEF HleReceiveReturned, link, hostLink, ControllerInv, DeliveryInv
<1>2. oldest' = 1 /\ ~AnswerInFlight'
  BY <1>1 DEF oldest, AnswerInFlight
<1>3. CASE cancelled \/ ~taken
  <2>1. oldest = 1 /\ UNCHANGED events
    BY <1>3 DEF HleReceiveReturned, oldest
  <2>2. UNCHANGED accounts
    BY <1>1, <1>2, <2>1 DEF accounts
  <2> QED BY <1>2, <2>2, BoundFrame
<1>4. CASE ~cancelled /\ taken
  <2>1. oldest = 2 /\ events' = Tail(events) /\ events # <<>> /\ events \in Seq(Event)
    BY <1>1, <1>4, BoundTypes DEF HleReceiveReturned, oldest, ControllerInv, DeliveryInv
  <2>2. /\ Budget(events, 2, connection, hostConn, hostCommand, outstanding, completedAcl)
        /\ Current(events, 2, connection, hostConn)
    BY <2>1 DEF BoundInv, Accounts
  <2>3. /\ Budget(Tail(events), 1, connection, hostConn, hostCommand, outstanding, completedAcl)
        /\ Current(Tail(events), 1, connection, hostConn)
    BY <2>1, <2>2, BudgetReturns, CurrentReturns
  <2>4. Accounts' /\ Current(events', oldest', connection', hostConn')
    BY <1>1, <1>2, <2>1, <2>3 DEF Accounts
  <2>5. Sends'
    BY <1>1, <1>2 DEF Sends, BoundInv
  <2> QED BY <1>1, <2>4, <2>5 DEF BoundInv
<1> QED BY <1>3, <1>4

(* The worker.                                                             *)
LEMMA BoundWorker == ASSUME ControllerInv, BoundInv, WorkerStep PROVE BoundInv'
<1>1. CASE PollDeliver BY <1>1, BoundDelivers
<1>2. CASE HleReceiveReturned BY <1>2, BoundReturns
<1>3. CASE PollLinkLost
  <2>1. UNCHANGED <<inFlight, taken, cancelled, packet, commandPending, hostLink, hostCommand>>
    BY <1>3 DEF PollLinkLost, host
  <2> QED BY <1>3, <2>1, BoundDrops DEF PollLinkLost, LinkLost
<1>4. CASE WorkerStarts \/ PollUnregistered \/ PollReady \/ PollEmpty
  <2>1. UNCHANGED <<events, inFlight, taken, cancelled, packet, connection, hostConn, hostRest>>
    BY <1>4 DEF WorkerStarts, PollUnregistered, PollReady, PollEmpty, vhci, link, host, hostLink
  <2>2. UNCHANGED <<hostCommand, outstanding, completedAcl, assembly, commandPending, aborted>>
    BY <1>4 DEF WorkerStarts, PollUnregistered, PollReady, PollEmpty, vhci, link, host, hostLink
  <2>3. UNCHANGED accounts /\ (AnswerInFlight' => AnswerInFlight)
    BY <2>1, <2>2 DEF accounts, oldest, AnswerInFlight
  <2> QED BY <2>3, BoundFrame
<1> QED BY <1>1, <1>2, <1>3, <1>4 DEF WorkerStep

(* A command, with at most one event of its own: either the link and what  *)
(* was sent on it go on, or there is no link and nothing to return.        *)
LEMMA BoundCommand ==
  ASSUME ControllerInv, HostInv, BoundInv, NEW op \in Commands, NEW s \in Seq(Event), Len(s) <= 1,
         \A i \in 1..Len(s) : s[i].type \notin {"Completed", "Connected"}, Command(op, s),
         \/ connection' = 0 /\ completedAcl' = 0 /\ outstanding' <= AclCredits
         \/ /\ UNCHANGED <<connection, completedAcl, assembly, hostConn, hostRest, outstanding>>
            /\ \A i \in 1..Len(s) : s[i].type # "Disconnected"
  PROVE  BoundInv'
<1> DEFINE a == <<answer>> \o s
<1>1. /\ hostCommand = "none" /\ hostCommand' = op /\ aborted' = (commandPending \/ Overflows(s))
      /\ events' = (events \o <<answer>>) \o s
      /\ UNCHANGED <<inFlight, taken, cancelled, packet>>
  BY DEF Command, answer
<1>2. /\ events \in Seq(Event) /\ Len(events) \in Nat /\ oldest \in 1..(Len(events) + 1)
      /\ connection \in Nat /\ op # "none"
  BY BoundTypes DEF Commands
<1>3. a \in Seq(Event) /\ Len(a) = Len(s) + 1 /\ a[1] = answer /\ \A i \in 2..Len(a) : a[i] = s[i - 1] /\ i - 1 \in 1..Len(s)
  BY AnswerType
<1>4. events' = Followed(events, a)
  <2>1. <<answer>> \in Seq(Event)
    BY AnswerType
  <2>2. (events \o <<answer>>) \o s = events \o (<<answer>> \o s)
    BY <1>2, <2>1, ConcatAssociative
  <2> QED BY <1>1, <2>2 DEF Followed
<1> HIDE DEF a
<1>5. \A i \in 1..Len(a) : a[i].type \notin {"Completed", "Connected"}
  <2>1. ASSUME NEW i \in 1..Len(a) PROVE a[i].type \notin {"Completed", "Connected"}
    <3>1. CASE i = 1 BY <1>3, <3>1, AnswerType
    <3>2. CASE i # 1
      <4>1. i \in 2..Len(a)
        BY <1>3, <3>2
      <4> QED BY <1>3, <4>1
    <3> QED BY <3>1, <3>2
  <2> QED BY <2>1
<1>6. UNCHANGED <<oldest, AnswerInFlight>>
  BY <1>1 DEF oldest, AnswerInFlight
<1>7. ~aborted'
  <2>1. ~Overflows(s)
    BY <1>1, Room, NoOverflow
  <2>2. ~commandPending
    BY <1>1 DEF BoundInv, Sends
  <2> QED BY <1>1, <2>1, <2>2
<1>8. Accounts'
  <2>1. Budget(events, oldest, connection, hostConn, "none", outstanding, completedAcl)
    BY <1>1 DEF BoundInv, Accounts
  <2>2. \A i \in oldest..Len(events) : events[i].type # "Answer"
    BY <1>1, NoAnswers
  <2>3. /\ connection' \in {0, connection} /\ connection' \in Nat
        /\ connection' # 0 /\ hostConn' = connection' =>
             hostConn = hostConn' /\ outstanding' = outstanding /\ completedAcl' = completedAcl
    BY <1>2
  <2>4. Len(a) <= 2 /\ \A i \in 1..Len(a) : a[i].type # "Completed"
    <3>1. Len(s) \in Nat /\ Len(s) <= 1
      OBVIOUS
    <3> QED BY <1>3, <1>5, <3>1
  <2>5. Budget(events', oldest, connection', hostConn', op, outstanding', completedAcl')
    BY ONLY <1>2, <1>3, <1>4, <2>1, <2>2, <2>3, <2>4, BudgetCommand
  <2> QED BY <1>1, <1>6, <2>5 DEF Accounts
<1>9. ~AnswerInFlight'
  <2>1. AnswerInFlight => events # <<>> /\ Head(events) = packet /\ oldest = 1
    BY DEF AnswerInFlight, oldest, ControllerInv, DeliveryInv
  <2>2. ASSUME AnswerInFlight PROVE FALSE
    <3>1. 1 \in oldest..Len(events) /\ events[1] = packet
      BY <1>2, <2>1, <2>2
    <3> QED BY <1>1, <2>2, <3>1, NoAnswers DEF AnswerInFlight
  <2> QED BY <1>6, <2>2
<1>10. CASE connection' = 0 /\ completedAcl' = 0 /\ outstanding' <= AclCredits
  <2>1. Current(events', oldest', connection', hostConn')
    BY <1>10 DEF Current
  <2>2. Sends'
    BY <1>1, <1>2, <1>10, <1>9 DEF Sends
  <2> QED BY <1>7, <1>8, <2>1, <2>2 DEF BoundInv
<1>11. CASE /\ UNCHANGED <<connection, completedAcl, assembly, hostConn, hostRest, outstanding>>
            /\ \A i \in 1..Len(s) : s[i].type # "Disconnected"
  <2>1. \A i \in 1..Len(a) : a[i].type \notin {"Connected", "Disconnected"}
    <3>1. ASSUME NEW i \in 1..Len(a) PROVE a[i].type # "Disconnected"
      <4>1. CASE i = 1 BY <1>3, <4>1, AnswerType
      <4>2. CASE i # 1
        <5>1. i \in 2..Len(a)
          BY <1>3, <4>2
        <5> QED BY <1>3, <1>11, <5>1
      <4> QED BY <4>1, <4>2
    <3> QED BY <1>5, <3>1
  <2>2. Current(events', oldest, connection, hostConn)
    <3>1. Current(events, oldest, connection, hostConn)
      BY DEF BoundInv
    <3> QED BY <1>2, <1>3, <1>4, <2>1, <3>1, CurrentAppend
  <2>3. Sends'
    BY <1>1, <1>2, <1>11, <1>9 DEF Sends, BoundInv
  <2> QED BY <1>6, <1>7, <1>8, <1>11, <2>2, <2>3 DEF BoundInv
<1> QED BY <1>10, <1>11

(* An ACL packet: counted by the host, and by the controller if the link   *)
(* is still there.                                                         *)
LEMMA BoundSends == ASSUME ControllerInv, BoundInv, HostSendAcl PROVE BoundInv'
<1>0. /\ events \in Seq(Event) /\ oldest \in 1..(Len(events) + 1) /\ connection \in Nat
      /\ outstanding \in Int /\ completedAcl \in Nat
      /\ assembly \in Nat /\ hostRest \in Nat
  BY BoundTypes, ConstantsAssumption DEF ControllerInv, TypeOK, ValuesOK
<1>1. /\ UNCHANGED <<events, inFlight, cancelled, taken, packet, connection, hostConn, hostCommand, commandPending>>
      /\ outstanding' = outstanding + 1 /\ outstanding < AclCredits
  BY DEF HostSendAcl
<1>2. PICK sdu \in (IF hostRest = 0 THEN 1..MaxFragments ELSE {hostRest}) : sendAcl(sdu) /\ hostRest' = sdu - 1
  BY DEF HostSendAcl
<1>3. UNCHANGED <<oldest, AnswerInFlight>>
  BY <1>1 DEF oldest, AnswerInFlight
<1>4. outstanding' <= AclCredits /\ outstanding' \in Int
  BY <1>0, <1>1, Limits
<1>5. Current(events', oldest', connection', hostConn')
  BY <1>1, <1>3 DEF BoundInv
<1>6. Budget(events, oldest, connection, hostConn, hostCommand, outstanding, completedAcl)
  BY DEF BoundInv, Accounts
<1>7. CASE connection = 0 \/ hostConn # connection
  <2>1. UNCHANGED <<assembly, completedAcl, aborted>>
    BY <1>2, <1>7 DEF sendAcl
  <2>2. connection # 0 /\ hostConn = connection => completedAcl - completedAcl = outstanding' - outstanding
    BY <1>7
  <2>3. Budget(events, oldest, connection, hostConn, hostCommand, outstanding', completedAcl)
    BY ONLY <1>0, <1>4, <1>6, <2>2, BudgetSends
  <2>4. Accounts'
    BY <1>1, <1>3, <2>1, <2>3 DEF Accounts
  <2>5. Sends'
    BY <1>1, <1>3, <1>4, <1>7, <2>1 DEF Sends, BoundInv
  <2> QED BY <1>5, <2>1, <2>4, <2>5 DEF BoundInv
<1>8. CASE connection # 0 /\ hostConn = connection
  <2>1. /\ assembly' = sdu - 1 /\ completedAcl' = completedAcl + 1
        /\ aborted' = ((hostRest = 0) # (assembly = 0) \/ completedAcl' > AclCredits)
    BY <1>2, <1>8 DEF sendAcl
  <2>2. completedAcl <= outstanding
    BY ONLY <1>0, <1>6, <1>8, BudgetSent
  <2>3. ~((hostRest = 0) # (assembly = 0)) /\ ~(completedAcl' > AclCredits)
    <3>1. hostRest = assembly
      BY <1>8 DEF BoundInv, Sends
    <3>2. completedAcl' <= AclCredits
      BY <1>0, <1>1, <2>1, <2>2, Limits
    <3> QED BY <1>0, <2>1, <3>1, <3>2, Limits
  <2>4. ~aborted'
    BY <2>1, <2>3
  <2>5. completedAcl' \in Nat /\ completedAcl' - completedAcl = outstanding' - outstanding
    BY <1>0, <1>1, <2>1
  <2>6. Budget(events, oldest, connection, hostConn, hostCommand, outstanding', completedAcl')
    BY ONLY <1>0, <1>4, <1>6, <2>5, BudgetSends
  <2>7. Accounts'
    BY <1>1, <1>3, <2>6 DEF Accounts
  <2>8. Sends'
    BY <1>1, <1>2, <1>3, <1>4, <1>8, <2>1 DEF Sends, BoundInv
  <2> QED BY <1>5, <2>4, <2>7, <2>8 DEF BoundInv
<1> QED BY <1>7, <1>8

(* The host accepts an event: an answer frees it for another command, and  *)
(* credits for as many packets.                                            *)
LEMMA BoundTakes == ASSUME ControllerInv, HostInv, BoundInv, HostTakes PROVE BoundInv'
<1>0. /\ events \in Seq(Event) /\ connection \in Nat /\ outstanding \in Int /\ completedAcl \in Nat
      /\ packet \in Event /\ packet.value \in Nat
  <2>1. packet \in Event
    BY DEF ControllerInv, TypeOK, ValuesOK
  <2> QED BY <2>1, BoundTypes DEF Event
<1>1. /\ UNCHANGED <<events, inFlight, cancelled, packet, commandPending, aborted>>
      /\ UNCHANGED <<connection, completedAcl, assembly>>
      /\ inFlight /\ ~cancelled /\ ~taken /\ taken' /\ HostOf(packet)
  BY DEF HostTakes, vhci, link, ControllerInv, DeliveryInv
<1>2. events # <<>> /\ events[1] = packet
  BY <1>0, <1>1 DEF ControllerInv, DeliveryInv
<1>3. oldest = 1 /\ oldest' = 2 /\ ~AnswerInFlight'
  BY <1>1 DEF oldest, AnswerInFlight
<1>4. /\ Budget(events, 1, connection, hostConn, hostCommand, outstanding, completedAcl)
      /\ Current(events, 1, connection, hostConn)
  BY <1>3 DEF BoundInv, Accounts
<1>5. connection # 0 /\ hostConn = connection => packet.type \notin {"Connected", "Disconnected"}
  <2>1. 1 \in 1..Len(events)
    BY <1>0, <1>2
  <2> QED BY <1>2, <1>4, <2>1 DEF Current
<1>6. connection # 0 => hostCommand # "reset"
  BY DEF HostInv
<1>7. hostCommand # "reset" => \E d : Moves(hostConn, packet, d)
  <2>1. [Next]_vars
    BY DEF Next, HostStep, BoundInv
  <2> QED BY <1>1, <2>1, HostLearns
<1>8. hostCommand' = IF packet.type = "Answer" THEN "none" ELSE hostCommand
  BY <1>1 DEF HostOf
<1>9. packet.type = "Answer" => ~commandPending
  BY <1>1 DEF BoundInv, Sends, AnswerInFlight
<1>10. CASE hostCommand = "reset"
  <2>1. UNCHANGED hostLink
    BY <1>1, <1>10 DEF HostOf
  <2>2. UNCHANGED <<hostConn, hostRest, outstanding>> /\ connection = 0
    BY <1>6, <1>10, <2>1 DEF hostLink
  <2>3. Budget(events, 2, connection, hostConn', hostCommand', outstanding', completedAcl)
    <3>1. hostCommand' = hostCommand \/ (events[1].type = "Answer" /\ hostCommand' = "none")
      BY <1>2, <1>8
    <3>2. outstanding' \in Int
      BY <1>0, <2>2
    <3> QED BY <1>0, <1>2, <1>4, <2>2, <3>1, <3>2, BudgetTakes
  <2>4. Current(events', oldest', connection', hostConn')
    BY <1>1, <2>2 DEF Current
  <2>5. Sends'
    BY <1>1, <1>3, <1>8, <1>9, <2>2 DEF Sends, BoundInv
  <2> QED BY <1>1, <1>3, <2>3, <2>4, <2>5 DEF BoundInv, Accounts
<1>11. CASE hostCommand # "reset"
  <2>1. PICK d : Moves(hostConn, packet, d)
    BY <1>7, <1>11
  <2>2. CASE packet.type = "Connected"
    <3>1. hostConn = 0 /\ hostConn' = packet.handle /\ hostRest' = 0 /\ outstanding' = 0
      BY <1>1, <1>11, <2>1, <2>2 DEF HostOf, Moves
    <3>2. completedAcl = 0 /\ (connection # 0 => assembly = 0)
      BY <3>1 DEF BoundInv, Sends, ControllerInv, NothingOutlivesLink
    <3>3. Budget(events, 2, connection, hostConn', hostCommand', outstanding', completedAcl)
      <4>1. hostCommand' = hostCommand
        BY <1>8, <2>2
      <4>2. events[1].type = "Connected" /\ completedAcl = 0 /\ outstanding' = 0 /\ outstanding' \in Int
        BY <1>2, <2>2, <3>1, <3>2
      <4> QED BY <1>0, <1>2, <1>4, <4>1, <4>2, BudgetTakes
    <3>4. Current(events, 2, connection, hostConn')
      <4>1. events[1].type = "Connected" /\ events[1].handle = hostConn'
        BY <1>2, <2>2, <3>1
      <4> QED BY <1>0, <1>2, <1>4, <4>1, CurrentTakes
    <3>5. Sends'
      <4>1. outstanding' <= AclCredits
        BY <3>1, Limits
      <4> QED BY <1>1, <1>3, <1>8, <1>9, <3>1, <3>2, <4>1 DEF Sends, BoundInv
    <3> QED BY <1>1, <1>3, <3>3, <3>4, <3>5 DEF BoundInv, Accounts
  <2>3. CASE packet.type = "Disconnected"
    <3>1. hostConn' = 0 /\ outstanding' \in {0, outstanding}
      BY <1>1, <1>11, <2>1, <2>3 DEF HostOf, Moves, hostLink
    <3>2. hostConn # connection \/ connection = 0
      BY <1>5, <2>3
    <3>3. completedAcl = 0 /\ (connection # 0 => assembly = 0)
      BY <3>2 DEF BoundInv, Sends, ControllerInv, NothingOutlivesLink
    <3>4. Budget(events, 2, connection, hostConn', hostCommand', outstanding', completedAcl)
      <4>1. hostCommand' = hostCommand /\ outstanding' \in Int
        BY <1>0, <1>8, <2>3, <3>1
      <4>2. ~(connection # 0 /\ hostConn' = connection)
        BY <3>1
      <4> QED BY <1>0, <1>2, <1>4, <4>1, <4>2, BudgetTakes
    <3>5. Current(events, 2, connection, hostConn')
      <4>1. hostConn' \in {0, hostConn}
        BY <3>1
      <4> QED BY <1>0, <1>2, <1>4, <4>1, CurrentTakes
    <3>6. Sends'
      <4>1. outstanding' <= AclCredits
        BY <3>1, Limits DEF BoundInv, Sends
      <4> QED BY <1>1, <1>3, <1>8, <1>9, <2>3, <3>1, <3>3, <4>1 DEF Sends, BoundInv
    <3> QED BY <1>1, <1>3, <3>4, <3>5, <3>6 DEF BoundInv, Accounts
  <2>4. CASE packet.type \notin {"Connected", "Disconnected"}
    <3>1. /\ UNCHANGED <<hostConn, hostRest>>
          /\ outstanding' = IF packet.type = "Completed" THEN outstanding - packet.value ELSE outstanding
      <4>1. CASE packet.type = "Completed"
        <5>1. packet.handle = hostConn
          BY <2>1, <4>1 DEF Moves
        <5> QED BY <1>1, <1>11, <4>1, <5>1 DEF HostOf
      <4>2. CASE packet.type # "Completed"
        BY <1>1, <1>11, <2>4, <4>2 DEF HostOf, hostLink
      <4> QED BY <4>1, <4>2
    <3>2. outstanding' \in Int /\ outstanding' <= outstanding
      BY <1>0, <3>1
    <3>3. Budget(events, 2, connection, hostConn', hostCommand', outstanding', completedAcl)
      <4>1. hostCommand' = hostCommand \/ (events[1].type = "Answer" /\ hostCommand' = "none")
        BY <1>2, <1>8
      <4>2. connection # 0 /\ hostConn' = connection =>
             \/ hostConn = connection /\ events[1].type # "Completed" /\ outstanding' = outstanding
             \/ hostConn = connection /\ events[1].type = "Completed" /\ outstanding' = outstanding - events[1].value
        BY <1>2, <3>1
      <4> QED BY <1>0, <1>2, <1>4, <3>2, <4>1, <4>2, BudgetTakes
    <3>4. Current(events, 2, connection, hostConn')
      BY <1>0, <1>2, <1>4, <3>1, CurrentTakes
    <3>5. Sends'
      <4>1. outstanding' <= AclCredits
        BY <1>0, <3>2, Limits DEF BoundInv, Sends
      <4> QED BY <1>1, <1>3, <1>8, <1>9, <3>1, <4>1 DEF Sends, BoundInv
    <3> QED BY <1>1, <1>3, <3>3, <3>4, <3>5 DEF BoundInv, Accounts
  <2> QED BY <2>2, <2>3, <2>4
<1> QED BY <1>10, <1>11

(* The host's own steps.                                                   *)
LEMMA BoundHost == ASSUME ControllerInv, HostInv, BoundInv, HostStep PROVE BoundInv'
<1> USE DEF hostLink, link
<1>0. connection \in Nat
  BY BoundTypes
<1>a. {"reset", "mask", "advertise", "disconnect", "encrypt", "other"} \subseteq Commands
  BY DEF Commands
<1> DEFINE nothing == <<>>
<1>b. nothing \in Seq(Event) /\ Len(nothing) = 0
  OBVIOUS
<1> HIDE DEF nothing
<1>c. ASSUME NEW op \in Commands, Command(op, nothing),
             UNCHANGED <<connection, completedAcl, assembly, hostConn, hostRest, outstanding>>
      PROVE  BoundInv'
  <2>1. /\ Len(nothing) <= 1
        /\ \A i \in 1..Len(nothing) : nothing[i].type \notin {"Completed", "Connected"}
        /\ \A i \in 1..Len(nothing) : nothing[i].type # "Disconnected"
    BY <1>b
  <2> QED BY <1>b, <1>c, <2>1, BoundCommand
<1>d. ASSUME NEW op \in Commands, Command(op, DisconnectEvent), connection' = 0, completedAcl' = 0,
             outstanding' <= AclCredits
      PROVE  BoundInv'
  <2> DEFINE s == DisconnectEvent
  <2>1. s \in Seq(Event)
    BY DisconnectEventType DEF ControllerInv
  <2>2. s = <<>> \/ s = <<Ev("Disconnected", connection, 0)>>
    BY DEF DisconnectEvent, queueEvent
  <2>3. Len(s) <= 1 /\ \A i \in 1..Len(s) : s[i].type \notin {"Completed", "Connected"}
    <3>1. CASE s = <<>> BY <3>1
    <3>2. CASE s = <<Ev("Disconnected", connection, 0)>>
      <4>1. Len(s) = 1 /\ s[1].type = "Disconnected"
        BY <3>2 DEF Ev
      <4> QED BY <4>1
    <3> QED BY <2>2, <3>1, <3>2
  <2>4. Command(op, s)
    BY <1>d
  <2> HIDE DEF s
  <2> QED BY <1>d, <2>1, <2>3, <2>4, BoundCommand
<1>e. ASSUME NEW op \in Commands, NEW e \in Event, e.type \in {"Encryption", "Info"},
             NEW s, s \in {<<>>, <<e>>}, Command(op, s),
             UNCHANGED <<connection, completedAcl, assembly, hostConn, hostRest, outstanding>>
      PROVE  BoundInv'
  <2>1. /\ s \in Seq(Event) /\ Len(s) <= 1
        /\ \A i \in 1..Len(s) : s[i].type \notin {"Completed", "Connected"}
        /\ \A i \in 1..Len(s) : s[i].type # "Disconnected"
    <3>1. CASE s = <<>> BY <3>1
    <3>2. CASE s = <<e>>
      <4>1. s \in Seq(Event) /\ Len(s) = 1 /\ s[1] = e
        BY <3>2
      <4> QED BY <1>e, <4>1
    <3> QED BY <1>e, <3>1, <3>2
  <2> QED BY <1>e, <2>1, BoundCommand
<1>1. CASE HostTakes BY <1>1, BoundTakes
<1>2. CASE HostReset
  <2>1. Command("reset", DisconnectEvent) /\ outstanding' = 0
    BY <1>2 DEF HostReset
  <2>2. connection' = 0 /\ completedAcl' = 0
    BY <1>2 DEF HostReset, resetHci, disconnect, ControllerInv, NothingOutlivesLink
  <2>3. outstanding' <= AclCredits
    BY <2>1, Limits
  <2> QED BY <1>a, <1>d, <2>1, <2>2, <2>3
<1>3. CASE HostSetMask
  <2>1. Command("mask", nothing) BY <1>3 DEF HostSetMask, nothing
  <2> QED BY <1>3, <1>a, <1>c, <2>1 DEF HostSetMask
<1>4. CASE HostAdvertisingParameters
  <2>1. Command("advertise", nothing) BY <1>4 DEF HostAdvertisingParameters, nothing
  <2> QED BY <1>4, <1>a, <1>c, <2>1 DEF HostAdvertisingParameters
<1>5. CASE HostAdvertise
  <2>1. Command("advertise", nothing) BY <1>5 DEF HostAdvertise, nothing
  <2> QED BY <1>5, <1>a, <1>c, <2>1 DEF HostAdvertise
<1>6. CASE HostDisconnect
  <2>1. CASE hostConn = connection
    <3>1. Command("disconnect", DisconnectEvent) /\ UNCHANGED outstanding /\ connection' = 0 /\ completedAcl' = 0
      BY <1>6, <2>1 DEF HostDisconnect, disconnect
    <3>2. outstanding' <= AclCredits
      BY <3>1 DEF BoundInv, Sends
    <3> QED BY <1>a, <1>d, <3>1, <3>2
  <2>2. CASE hostConn # connection
    <3>1. Command("disconnect", nothing) BY <1>6, <2>2 DEF HostDisconnect, nothing
    <3> QED BY <1>6, <1>a, <1>c, <2>2, <3>1 DEF HostDisconnect
  <2> QED BY <2>1, <2>2
<1>7. CASE HostKeyReply
  <2>1. PICK key \in Keys \cup {NoKey} :
          IF hostConn = connection /\ pendingKey # NoKey
          THEN /\ Command("encrypt", EncryptionEvent(key = pendingKey))
               /\ finishEncryption(key = pendingKey)
          ELSE Command("encrypt", <<>>) /\ UNCHANGED <<pendingKey, encrypted>>
    BY <1>7 DEF HostKeyReply
  <2>2. UNCHANGED <<connection, completedAcl, assembly, hostConn, hostRest, outstanding>>
    BY <1>7 DEF HostKeyReply
  <2>3. CASE hostConn = connection /\ pendingKey # NoKey
    <3> DEFINE v == IF key = pendingKey THEN 1 ELSE 0
               e == Ev("Encryption", connection, v)
               s == EncryptionEvent(key = pendingKey)
    <3>1. e \in Event /\ e.type = "Encryption"
      <4>1. v \in Nat
        OBVIOUS
      <4> HIDE DEF v
      <4> QED BY <1>0, <4>1, EvType DEF EventTypes, Ev
    <3>2. s \in {<<>>, <<e>>}
      BY DEF EncryptionEvent, queueEvent
    <3>3. Command("encrypt", s)
      BY <2>1, <2>3
    <3> HIDE DEF e, v, s
    <3> QED BY <1>a, <1>e, <2>2, <3>1, <3>2, <3>3
  <2>4. CASE ~(hostConn = connection /\ pendingKey # NoKey)
    <3>1. Command("encrypt", nothing) BY <2>1, <2>4 DEF nothing
    <3> QED BY <1>a, <1>c, <2>2, <3>1
  <2> QED BY <2>3, <2>4
<1>8. CASE HostQuery
  <2>1. UNCHANGED <<connection, completedAcl, assembly, hostConn, hostRest, outstanding>>
    BY <1>8 DEF HostQuery
  <2>2. CASE Command("other", <<>>)
    <3>1. Command("other", nothing) BY <2>2 DEF nothing
    <3> QED BY <1>a, <1>c, <2>1, <3>1
  <2>3. CASE ~Command("other", <<>>)
    <3> DEFINE e == Ev("Info", connection, 0)
    <3>1. e \in Event /\ e.type = "Info"
      BY <1>0, EvType DEF EventTypes, Ev
    <3>2. PICK s \in {queueEvent(e), queueLeEvent(e)} : Command("other", s)
      BY <1>8, <2>3 DEF HostQuery
    <3>3. s \in {<<>>, <<e>>}
      BY <3>2 DEF queueEvent, queueLeEvent
    <3> HIDE DEF e
    <3> QED BY <1>a, <1>e, <2>1, <3>1, <3>2, <3>3
  <2> QED BY <2>2, <2>3
<1>9. CASE HostSendAcl BY <1>9, BoundSends
<1> QED
  BY <1>1, <1>2, <1>3, <1>4, <1>5, <1>6, <1>7, <1>8, <1>9 DEF HostStep

(* No step of the system breaks the bounds.                                *)
LEMMA BoundNext == ControllerInv /\ HostInv /\ BoundInv /\ [Next]_vars => BoundInv'
<1> SUFFICES ASSUME ControllerInv, HostInv, BoundInv, [Next]_vars PROVE BoundInv'
  OBVIOUS
<1>1. CASE bleHleReset
  <2>1. /\ events' = <<>> /\ connection' = 0 /\ completedAcl' = 0 /\ ~commandPending'
        /\ outstanding' = 0 /\ ~aborted'
    BY <1>1 DEF bleHleReset, Fresh, HostDown, BoundInv
  <2>2. oldest' = 1
    BY <1>1 DEF bleHleReset, Fresh, oldest
  <2> QED BY <2>1, <2>2, Limits, BoundDown
<1>2. CASE UNCHANGED vars
  <2>1. UNCHANGED accounts /\ (AnswerInFlight' => AnswerInFlight)
    BY <1>2 DEF vars, vhci, link, host, hostLink, accounts, oldest, AnswerInFlight
  <2> QED BY <2>1, BoundFrame
<1> QED
  BY <1>1, <1>2, BoundApi, BoundWorker, BoundPeer, BoundHost DEF Next

(* They hold at the start.                                                 *)
LEMMA BoundInit == Init => BoundInv
<1> SUFFICES ASSUME Init PROVE BoundInv
  OBVIOUS
<1>1. oldest = 1 /\ events = <<>> /\ connection = 0
  BY DEF Init, oldest
<1>2. Accounts
  BY <1>1, BudgetEmpty DEF Accounts
<1>3. Current(events, oldest, connection, hostConn)
  BY <1>1 DEF Current
<1>4. Sends
  BY Limits DEF Init, Sends, AnswerInFlight
<1> QED BY <1>2, <1>3, <1>4 DEF Init, BoundInv

(* queueEvent, completeCommand and sendAcl never reach fail() with a host  *)
(* that keeps the rules, and the queue never holds more than 43 events     *)
(* with the limits of the code.                                            *)
THEOREM BoundsCorrect == Spec => []WithinBounds
<1>1. ControllerInv /\ BoundInv => WithinBounds
  <2> SUFFICES ASSUME ControllerInv, BoundInv PROVE WithinBounds
    OBVIOUS
  <2>1. Len(events) <= Readable + AclCredits + 3 /\ Len(events) \in Nat
    BY Room, BoundTypes
  <2>2. QueueBounded
    BY <2>1, Limits DEF QueueBounded
  <2> QED BY <2>2 DEF WithinBounds, NoAbort, BoundInv
<1> QED
  BY <1>1, BoundInit, BoundNext, Invariance, HostInvariance, PTL DEF Spec

-----------------------------------------------------------------------------
(* The credits.  What the ledger counts is what the events hold, by        *)
(* induction over the queue.                                               *)

(* A set of numbers with one has a least one.                              *)
LEMMA Least ==
  ASSUME NEW T \in SUBSET Nat, NEW t \in T
  PROVE  \E x \in T : \A y \in T : x <= y
<1> DEFINE R == {ss \in Nat \X Nat : ss[1] < ss[2]}
<1>1. IsWellFoundedOn(R, Nat)
  BY NatLessThanWellFounded DEF OpToRel
<1>2. \A x, y \in Nat : y < x => <<y, x>> \in R
  OBVIOUS
<1> HIDE DEF R
<1>3. PICK x \in T : \A y \in T : ~ (<<y, x>> \in R)
  BY <1>1, WFMin
<1>4. ASSUME NEW y \in T PROVE x <= y
  <2>1. x \in Nat /\ y \in Nat /\ ~(y < x)
    BY <1>2, <1>3
  <2> QED BY <2>1
<1> QED
  BY <1>4

(* What holds at the end of a queue, and before each event if it holds     *)
(* behind it, holds from the first event on.                               *)
LEMMA Backward ==
  ASSUME NEW n \in Nat, NEW H, n \in H, \A i \in 1..n : i \in H => i - 1 \in H
  PROVE  0..n \subseteq H
<1> DEFINE T == {k \in 0..n : n - k \notin H}
<1> SUFFICES ASSUME NEW i \in 0..n, i \notin H PROVE FALSE
  OBVIOUS
<1>1. T \in SUBSET Nat /\ n - i \in T
  <2>1. n - i \in 0..n /\ n - (n - i) = i
    OBVIOUS
  <2>2. T \subseteq 0..n /\ 0..n \subseteq Nat
    OBVIOUS
  <2>3. n - i \in T
    BY <2>1
  <2> HIDE DEF T
  <2> QED BY <2>2, <2>3
<1>2. PICK k \in T : \A y \in T : k <= y
  BY <1>1, Least
<1>3. k \in 0..n /\ n - k \notin H /\ k # 0
  BY <1>2
<1>4. k - 1 \notin T /\ k - 1 \in 0..n /\ n - (k - 1) \in 1..n /\ (n - (k - 1)) - 1 = n - k
  <2>1. k - 1 \in 0..n /\ n - (k - 1) \in 1..n /\ (n - (k - 1)) - 1 = n - k /\ ~(k <= k - 1)
    BY <1>3
  <2> QED BY <1>2, <2>1
<1>5. n - (k - 1) \in H
  BY <1>4
<1> QED
  BY <1>3, <1>4, <1>5

(* Along a queue without news the host keeps its connection, and every     *)
(* event that is not an answer names it.                                   *)
LEMMA NewsKept ==
  ASSUME NEW q \in Seq(Event), NEW w, NEW c, w[Len(q)] = c,
         \A i \in DOMAIN q : Moves(w[i - 1], q[i], w[i]),
         \A i \in DOMAIN q : q[i].type \notin {"Connected", "Disconnected"}
  PROVE  \A i \in DOMAIN q : q[i].type = "Completed" => q[i].handle = c
<1> DEFINE n == Len(q)
           H == {i \in 0..n : w[i] = c}
<1>1. n \in Nat /\ DOMAIN q = 1..n
  OBVIOUS
<1>2. ASSUME NEW i \in 1..n PROVE w[i - 1] = w[i] /\ (q[i].type = "Completed" => q[i].handle = w[i - 1])
  BY <1>1, <1>2 DEF Moves
<1>3. n \in H
  BY <1>1
<1>4. \A i \in 1..n : i \in H => i - 1 \in H
  BY <1>1, <1>2
<1>5. 0..n \subseteq H
  <2> HIDE DEF H, n
  <2> QED BY <1>1, <1>3, <1>4, Backward
<1> QED
  BY <1>1, <1>2, <1>5

(* The credits of the ledger are those in the events, if all name h.       *)
CreditsFrom(q, f) == UNION {{i} \X (1..q[i].value) : i \in {j \in f..Len(q) : q[j].type = "Completed"}}

LEMMA CreditsCounted ==
  ASSUME NEW q \in Seq(Event), NEW owed, NEW others, Ledger(q, owed, others), NEW h,
         \A i \in DOMAIN q : q[i].type = "Completed" => q[i].handle = h
  PROVE  Cardinality(Credits(q, h)) = owed[1]
<1> DEFINE n == Len(q)
           H == {k \in 0..n : IsFiniteSet(CreditsFrom(q, k + 1)) /\ Cardinality(CreditsFrom(q, k + 1)) = owed[k + 1]}
<1>1. n \in Nat /\ DOMAIN q = 1..n
  OBVIOUS
<1>2. /\ owed \in [1..(n + 1) -> Nat] /\ owed[n + 1] = 0
      /\ \A i \in 1..n : owed[i] = IF q[i].type = "Completed" THEN owed[i + 1] + q[i].value ELSE owed[i + 1]
  BY DEF Ledger
<1>3. n \in H
  <2>1. CreditsFrom(q, n + 1) = {}
    BY <1>1 DEF CreditsFrom
  <2>2. IsFiniteSet(CreditsFrom(q, n + 1)) /\ Cardinality(CreditsFrom(q, n + 1)) = 0
    BY <2>1, FS_EmptySet
  <2> QED BY <1>1, <1>2, <2>2
<1>4. ASSUME NEW i \in 1..n, i \in H PROVE i - 1 \in H
  <2> DEFINE A == CreditsFrom(q, i + 1)
             B == {i} \X (1..q[i].value)
  <2>1. IsFiniteSet(A) /\ Cardinality(A) = owed[i + 1] /\ owed[i + 1] \in Nat /\ q[i].value \in Nat
    <3>1. q[i] \in Event /\ i + 1 \in 1..(n + 1)
      BY <1>1
    <3> QED BY <1>2, <1>4, <3>1 DEF Event
  <2>2. (i - 1) + 1 = i /\ i - 1 \in 0..n /\ i..n = {i} \cup ((i + 1)..n)
    BY <1>1
  <2>3. CASE q[i].type # "Completed"
    <3>1. CreditsFrom(q, i) = A
      BY <2>2, <2>3 DEF CreditsFrom
    <3>2. owed[i] = owed[i + 1]
      BY <1>2, <2>3
    <3> QED BY <2>1, <2>2, <3>1, <3>2
  <2>4. CASE q[i].type = "Completed"
    <3>1. CreditsFrom(q, i) = A \cup B
      <4> DEFINE I(f) == {j \in f..n : q[j].type = "Completed"}
      <4>1. I(i) = {i} \cup I(i + 1)
        BY <2>2, <2>4
      <4>2. \A f : CreditsFrom(q, f) = UNION {{j} \X (1..q[j].value) : j \in I(f)}
        BY DEF CreditsFrom
      <4> HIDE DEF I
      <4> QED BY <4>1, <4>2
    <3>2. A \cap B = {}
      <4>1. \A x \in A : x[1] \in (i + 1)..n
        BY DEF CreditsFrom
      <4>2. \A x \in B : x[1] = i
        OBVIOUS
      <4>3. i \notin (i + 1)..n
        BY <1>1
      <4> QED BY <4>1, <4>2, <4>3
    <3>3. IsFiniteSet(B) /\ Cardinality(B) = q[i].value
      <4>1. IsFiniteSet({i}) /\ Cardinality({i}) = 1
        BY FS_Singleton
      <4>2. IsFiniteSet(1..q[i].value) /\ Cardinality(1..q[i].value) = q[i].value
        <5>1. q[i].value \in Int /\ q[i].value >= 0 /\ 1 \in Int
          BY <2>1
        <5>2. /\ IsFiniteSet(1..q[i].value)
              /\ Cardinality(1..q[i].value) = IF 1 > q[i].value THEN 0 ELSE q[i].value - 1 + 1
          BY ONLY <5>1, FS_Interval
        <5> QED BY ONLY <5>1, <5>2
      <4>3. IsFiniteSet(B) /\ Cardinality(B) = Cardinality({i}) * Cardinality(1..q[i].value)
        BY <4>1, <4>2, FS_Product
      <4> QED BY <2>1, <4>1, <4>2, <4>3
    <3>4. IsFiniteSet(A \cup B) /\ Cardinality(A \cup B) = Cardinality(A) + Cardinality(B) - Cardinality(A \cap B)
      BY <2>1, <3>3, FS_Union
    <3>5. Cardinality(A \cap B) = 0
      BY <3>2, FS_EmptySet
    <3>6. owed[i] = owed[i + 1] + q[i].value
      BY <1>2, <2>4
    <3> HIDE DEF A, B
    <3>7. IsFiniteSet(CreditsFrom(q, i)) /\ Cardinality(CreditsFrom(q, i)) = owed[i]
      BY ONLY <2>1, <3>1, <3>3, <3>4, <3>5, <3>6
    <3> QED BY <2>2, <3>7
  <2> QED BY <2>3, <2>4
<1>5. 0..n \subseteq H
  <2> HIDE DEF H, n
  <2> QED BY <1>1, <1>3, <1>4, Backward
<1>6. Cardinality(CreditsFrom(q, 1)) = owed[1]
  <2>1. 0 \in H
    <3> HIDE DEF H
    <3> QED BY <1>1, <1>5
  <2>2. 0 + 1 = 1
    OBVIOUS
  <2> QED BY <2>1, <2>2
<1>7. Credits(q, h) = CreditsFrom(q, 1)
  BY <1>1 DEF Credits, CreditsFrom
<1> QED
  BY <1>6, <1>7

(* sendAcl and pollDeliver return every packet that the host sent on the   *)
(* live connection once, whatever else is queued between the events that   *)
(* return them.                                                            *)
THEOREM CreditsCorrect == Spec => []CreditsConserved
<1>1. ControllerInv /\ HostInv /\ BoundInv => CreditsConserved
  <2> SUFFICES ASSUME ControllerInv, HostInv, BoundInv, hostConn # 0, hostConn = connection
               PROVE  outstanding = completedAcl + Cardinality(Credits(Untaken, hostConn))
    BY DEF CreditsConserved
  <2> DEFINE q == Untaken
  <2>1. q \in Seq(Event) /\ Len(q) \in Nat /\ DOMAIN q = 1..Len(q)
    BY UntakenType
  <2>2. PICK w : w[Len(q)] = connection /\ \A i \in DOMAIN q : Moves(w[i - 1], q[i], w[i])
    <3>1. hostCommand # "reset"
      BY DEF HostInv
    <3>2. \E w : Story(w, q, connection, nextHandle, advertising, encrypted)
      BY <3>1 DEF HostInv, Picture
    <3> QED BY <3>2 DEF Story
  <2>3. /\ oldest = 1 => q = events
        /\ oldest # 1 => oldest = 2 /\ events # <<>> /\ q = Tail(events)
    BY DEF oldest, Untaken, ControllerInv, DeliveryInv
  <2>4. events \in Seq(Event) /\ outstanding \in Int /\ completedAcl \in Nat /\ oldest \in 1..(Len(events) + 1)
    BY BoundTypes
  <2>5. \A i \in oldest..Len(events) : events[i].type \notin {"Connected", "Disconnected"}
    BY DEF BoundInv, Current
  <2>6. \A i \in DOMAIN q : q[i].type \notin {"Connected", "Disconnected"}
    <3>1. CASE oldest = 1
      BY <2>1, <2>3, <2>5, <3>1
    <3>2. CASE oldest # 1
      <4>1. \A i \in 1..Len(q) : q[i] = events[i + 1] /\ i + 1 \in oldest..Len(events)
        BY <2>3, <2>4, <3>2
      <4> QED BY <2>1, <2>5, <4>1
    <3> QED BY <3>1, <3>2
  <2>7. PICK owed, others : Ledger(events, owed, others) /\ owed[oldest] + completedAcl = outstanding
    BY DEF BoundInv, Accounts, Budget
  <2>8. PICK o, t : Ledger(q, o, t) /\ o[1] = owed[oldest]
    <3>1. CASE oldest = 1
      BY <2>3, <2>7, <3>1
    <3>2. CASE oldest # 1
      <4>1. 1 \in 1..Len(events) /\ 1 + 1 = oldest
        BY <2>3, <2>4, <3>2
      <4>2. PICK o, t : Ledger(Tail(events), o, t) /\ \A i \in 1..Len(events) : o[i] = owed[i + 1] /\ t[i] = others[i + 1]
        BY ONLY <2>3, <2>4, <2>7, <3>2, LedgerTail
      <4>3. o[1] = owed[oldest]
        BY <4>1, <4>2
      <4> QED BY <2>3, <3>2, <4>2, <4>3
    <3> QED BY <3>1, <3>2
  <2> HIDE DEF q
  <2>9. \A i \in DOMAIN q : q[i].type = "Completed" => q[i].handle = connection
    BY ONLY <2>1, <2>2, <2>6, NewsKept
  <2>10. Cardinality(Credits(q, connection)) = o[1]
    BY ONLY <2>1, <2>8, <2>9, CreditsCounted
  <2>11. o[1] \in Nat
    <3>1. 1 \in 1..(Len(q) + 1) /\ o \in [1..(Len(q) + 1) -> Nat]
      BY <2>1, <2>8 DEF Ledger
    <3> QED BY <3>1
  <2>12. outstanding = completedAcl + Cardinality(Credits(q, connection))
    BY <2>4, <2>7, <2>8, <2>10, <2>11
  <2> QED BY <2>12 DEF q
<1> QED
  BY <1>1, BoundInit, BoundNext, Invariance, HostInvariance, PTL DEF Spec

=============================================================================
