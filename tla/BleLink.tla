------------------------------ MODULE BleLink ------------------------------
(***************************************************************************)
(* The software radio link: the BLE controller inside QEMU and the         *)
(* VirtualPeer of the frontend process, two processes joined by a Unix     *)
(* stream socket.                                                          *)
(*                                                                         *)
(* Each socket carries one FIFO of messages per direction.  The controller *)
(* opens one socket per controller object; a restart of the machine drops  *)
(* it, and the next one waits in the listener's backlog until the peer has *)
(* noticed the end of the old one.  Messages in flight when either side    *)
(* changes its mind are what the generation numbers are for.               *)
(*                                                                         *)
(* The controller's host side (events, callbacks, credits) is the module   *)
(* BleController; here a guest decides at any time to advertise, stop,     *)
(* disconnect, reset or answer.  ATT and SMP exchanges are reduced to the  *)
(* transactions that gate the session: SetupSteps ATT requests before it   *)
(* is ready, client requests after it, and one pairing exchange before     *)
(* a new key.                                                              *)
(***************************************************************************)
EXTENDS Integers, Sequences

CONSTANTS
  Images,        \* contents of an advertisement, and of a GATT database
  Secured,       \* the firmware asks for encryption
  SetupSteps,    \* ATT transactions of discovery and subscription clearing
  MaxRequests,   \* ATT requests waiting or under way (64)
  MaxQueue,      \* messages a socket holds before its sender gives it up
  MaxSockets, MaxGenerations   \* bounds of the model

ASSUME LinkAssumption ==
  /\ 0 \notin Images
  /\ Secured \in BOOLEAN
  /\ SetupSteps \in Nat \ {0}
  /\ {MaxSockets, MaxGenerations, MaxQueue, MaxRequests} \subseteq Nat \ {0}

VARIABLES
  \* Transport.
  opened,           \* sockets the controller has opened so far
  acceptedSockets,  \* of these, the ones the peer has accepted
  toPeer, toCtl,    \* socket -> messages in flight
  \* Controller: BleController.
  cSock,            \* its open socket, 0 for none
  cOpened,          \* PeerSocket::_opened
  conn,             \* _generation of the connection, 0 for none
  nextGeneration,   \* static nextGeneration, from an arbitrary start
  cAdvertising,
  published,        \* the database of the current advertisement or connection
  cEncrypted, cKey, \* _encrypted, _pendingKey (0 for none)
  \* Guest host stack (external).
  guestAtt, guestSmp,  \* a request of that protocol waits for its answer
  guestLtk, guestBond, \* key of a pairing in progress, key in NVS; 0 for none
  \* VirtualPeer.
  pSock, transport, enabled, failed,
  polling,                            \* inside poll(), with something left to do
  pAdvertising, pImage, catalog,      \* catalog: the published database, 0 when not ready
  connecting, closing, ready, sessionRequested,
  generation, closingGeneration,
  setup,            \* ATT transactions left before the session is ready
  requests,         \* length of _requests
  attBusy, attSecurityPending,
  smp, bond         \* SmpSession::_state and _bond (0 for none)

wire == <<opened, acceptedSockets>>
radio == <<cOpened, nextGeneration, cAdvertising>>
security == <<published, cEncrypted, cKey>>
guest == <<guestAtt, guestSmp, guestLtk, guestBond>>
mode == <<transport, enabled>>
publication == <<pAdvertising, pImage, catalog>>
attention == <<setup, requests, attBusy, attSecurityPending, smp>>
session == <<connecting, ready, sessionRequested, generation, attention>>
closes == <<closing, closingGeneration>>
controller == <<cSock, radio, conn, security, guest>>
peer == <<pSock, mode, failed, polling, publication, session, closes, bond>>
vars == <<wire, toPeer, toCtl, controller, peer>>

Sockets == 1..MaxSockets
Generations == 1..MaxGenerations
SmpStates == {"Idle", "Pairing", "Encrypting", "Restoring", "Encrypted"}
CtlKinds == {"Connect", "Disconnect", "Att", "Smp", "Encrypt"}
PeerKinds == {"AdvertisingOn", "AdvertisingOff", "Gatt", "Connected", "Disconnected", "Att",
              "AttSecurity", "Smp", "SecurityRequest", "Encryption", "Rejected", "Reset"}

(* val: an advertisement, a database, a key or an encryption status.       *)
Msg(k, g, v) == [kind |-> k, gen |-> g, val |-> v]

Init ==
  /\ opened = 0 /\ acceptedSockets = 0
  /\ toPeer = [s \in Sockets |-> <<>>] /\ toCtl = [s \in Sockets |-> <<>>]
  /\ cSock = 0 /\ cOpened = FALSE /\ conn = 0 /\ nextGeneration = 0
  /\ cAdvertising = FALSE /\ published = 0 /\ cEncrypted = FALSE /\ cKey = 0
  /\ guestAtt = FALSE /\ guestSmp = FALSE /\ guestLtk = 0 /\ guestBond = 0
  /\ pSock = 0 /\ transport = FALSE /\ enabled = TRUE /\ failed = FALSE /\ polling = FALSE
  /\ pAdvertising = FALSE /\ pImage = 0 /\ catalog = 0
  /\ connecting = FALSE /\ closing = FALSE /\ ready = FALSE /\ sessionRequested = FALSE
  /\ generation = 0 /\ closingGeneration = 0 /\ setup = 0 /\ requests = 0
  /\ attBusy = FALSE /\ attSecurityPending = FALSE
  /\ smp = "Idle" /\ bond = 0

-----------------------------------------------------------------------------
(* Mutant: the limit is tested before the message is counted.              *)
SocketSendLate(queues, mine, open, msgs) ==
  IF mine = 0 \/ msgs = <<>> THEN {<<queues, mine>>}
  ELSE IF ~open THEN {<<queues, 0>>}
  ELSE IF Len(queues[mine]) <= MaxQueue
    THEN {<<[queues EXCEPT ![mine] = @ \o msgs], mine>>}
    ELSE {<<queues, 0>>}

(* The socket as either side sees it: `mine' is the sender's end, `open'   *)
(* holds while the other end is.  Without a socket nothing is sent; on a   *)
(* dead one the send fails and closes it; a full queue closes it too, and  *)
(* the receiver still finds what had left the process.                     *)
SocketSend(queues, mine, open, msgs) ==
  IF mine = 0 \/ msgs = <<>> THEN {<<queues, mine>>}
  ELSE IF ~open THEN {<<queues, 0>>}
  ELSE IF Len(queues[mine]) + Len(msgs) <= MaxQueue
    THEN {<<[queues EXCEPT ![mine] = @ \o msgs], mine>>}
    ELSE {<<[queues EXCEPT ![mine] = SubSeq(@ \o msgs, 1, n)], 0>> : n \in 0..MaxQueue}

(* The peer's end of the controller's socket is open, or still waiting in  *)
(* the listener's backlog.                                                 *)
PeerHears == cSock > acceptedSockets \/ pSock = cSock

CtlSends(msgs) ==
  \E r \in SocketSend(toPeer, cSock, PeerHears, msgs) : toPeer' = r[1] /\ cSock' = r[2]

(* What an end that closes had not read is lost.                           *)
Unread(queues, s) == IF s = 0 THEN queues ELSE [queues EXCEPT ![s] = <<>>]

PeerSends(msgs) ==
  \E r \in SocketSend(toCtl, pSock, cSock = pSock, msgs) : toCtl' = r[1] /\ pSock' = r[2]

-----------------------------------------------------------------------------
(* The controller and its guest.                                           *)

CtlOpen ==
  /\ ~cOpened /\ opened < MaxSockets
  /\ cOpened' = TRUE /\ opened' = opened + 1 /\ cSock' = opened + 1
  /\ UNCHANGED <<acceptedSockets, toPeer, toCtl, nextGeneration, cAdvertising, conn, security, guest, peer>>

NoLink == conn' = 0 /\ published' = 0 /\ cEncrypted' = FALSE /\ cKey' = 0

(* The guest's stack forgets the requests and the pairing of a dead link.  *)
GuestLinkDown == guestAtt' = FALSE /\ guestSmp' = FALSE /\ guestLtk' = 0 /\ UNCHANGED guestBond

(* Mutant: the peer is not told.                                           *)
NoNews == <<>>

Disconnected == IF conn = 0 THEN <<>> ELSE <<Msg("Disconnected", conn, 0)>>

(* The GATT metadata; a database that cannot be read is published as       *)
(* unavailable (0).                                                        *)
publishGatt(db) == <<Msg("Gatt", 0, db)>>

(* 0x200A on, with the advertisement and then the GATT metadata.  The host *)
(* sends it when its first command has been answered, by a poll that has   *)
(* opened the socket.                                                      *)
GuestAdvertises ==
  /\ cOpened /\ conn = 0
  /\ \E a \in Images, db \in Images \cup {0} :
       CtlSends(<<Msg("AdvertisingOn", 0, a)>> \o publishGatt(db)) /\ published' = db
  /\ cAdvertising' = TRUE
  /\ UNCHANGED <<wire, toCtl, cOpened, nextGeneration, conn, cEncrypted, cKey, guest, peer>>

(* 0x200A off is accepted on a connection too.                             *)
GuestStopsAdvertising ==
  /\ cAdvertising \/ conn # 0
  /\ cAdvertising' = FALSE /\ published' = IF conn = 0 THEN 0 ELSE published
  /\ \E a \in Images : CtlSends(<<Msg("AdvertisingOff", 0, a)>>)
  /\ UNCHANGED <<wire, toCtl, cOpened, nextGeneration, conn, cEncrypted, cKey, guest, peer>>

GuestDisconnects ==
  /\ conn # 0
  /\ NoLink /\ GuestLinkDown
  /\ CtlSends(Disconnected)
  /\ UNCHANGED <<wire, toCtl, radio, peer>>

ResetMessages == Disconnected \o <<Msg("Reset", 0, 0)>>

(* HCI Reset, and controller disable.                                      *)
GuestResets ==
  /\ NoLink /\ GuestLinkDown
  /\ cAdvertising' = FALSE
  /\ CtlSends(ResetMessages)
  /\ UNCHANGED <<wire, toCtl, cOpened, nextGeneration, peer>>

(* Deinit or a machine reset: a new controller object.                     *)
CtlRestarts ==
  /\ cOpened
  /\ cSock' = 0 /\ cOpened' = FALSE /\ cAdvertising' = FALSE
  /\ NoLink
  /\ guestAtt' = FALSE /\ guestSmp' = FALSE /\ guestLtk' = 0
  /\ toCtl' = Unread(toCtl, cSock)
  /\ UNCHANGED <<wire, toPeer, nextGeneration, guestBond, peer>>

(* The bond store is erased, or the machine starts from another flash      *)
(* image.                                                                  *)
GuestForgetsBond ==
  /\ conn = 0 /\ guestBond # 0 /\ guestBond' = 0
  /\ UNCHANGED <<wire, toPeer, toCtl, cSock, radio, conn, security, guestAtt, guestSmp, guestLtk, peer>>

(* The end of pollPeer: the socket is found closed, a link on it is over.  *)
CtlLosesSocket ==
  /\ (cSock # 0 /\ ~PeerHears) \/ (cSock = 0 /\ conn # 0)
  /\ cSock' = 0
  /\ NoLink /\ GuestLinkDown
  /\ toCtl' = Unread(toCtl, cSock)
  /\ UNCHANGED <<wire, toPeer, radio, peer>>

GuestAnswersAtt ==
  /\ guestAtt /\ conn # 0
  /\ guestAtt' = FALSE
  /\ \E k \in {"Att"} \cup (IF Secured /\ ~cEncrypted THEN {"AttSecurity"} ELSE {}) :
       CtlSends(<<Msg(k, conn, 0)>>)
  /\ UNCHANGED <<wire, toCtl, radio, conn, security, guestSmp, guestLtk, guestBond, peer>>

(* The pairing exchange ends in a key both sides derive; it is named after *)
(* the connection it was made on.                                          *)
GuestPairs ==
  /\ guestSmp /\ conn # 0
  /\ guestSmp' = FALSE /\ guestLtk' = conn
  /\ CtlSends(<<Msg("Smp", conn, conn)>>)
  /\ UNCHANGED <<wire, toCtl, radio, conn, security, guestAtt, guestBond, peer>>

GuestRequestsSecurity ==
  /\ Secured /\ conn # 0 /\ ~cEncrypted
  /\ CtlSends(<<Msg("SecurityRequest", conn, 0)>>)
  /\ UNCHANGED <<wire, toCtl, radio, conn, security, guest, peer>>

GuestKey == IF guestLtk # 0 THEN guestLtk ELSE guestBond

(* 0x201A / 0x201B and finishEncryption: status 0 on a match, 5 on another *)
(* key, 6 when the guest has none.  The guest stores the key that worked.  *)
GuestAnswersKey ==
  /\ cKey # 0
  /\ LET status == IF GuestKey = 0 THEN 6 ELSE IF GuestKey = cKey THEN 0 ELSE 5
     IN  /\ CtlSends(<<Msg("Encryption", conn, status)>>)
         /\ cEncrypted' = (status = 0)
         /\ guestBond' = IF status = 0 THEN cKey ELSE guestBond
  /\ cKey' = 0
  /\ UNCHANGED <<wire, toCtl, radio, conn, published, guestAtt, guestSmp, guestLtk, peer>>

(* peerMessage's first guard: a message of another connection is refused.  *)
ForThisLink(m) == conn # 0 /\ m.gen = conn

reject(m) == CtlSends(<<Msg("Rejected", m.gen, 0)>>) /\ UNCHANGED <<radio, conn, security, guest>>

(* peerMessage.                                                            *)
peerMessage(m) ==
  \/ /\ m.kind = "Connect" /\ (conn # 0 \/ ~cAdvertising)
     /\ reject(m)
  \/ /\ m.kind = "Connect" /\ conn = 0 /\ cAdvertising /\ nextGeneration < MaxGenerations
     /\ nextGeneration' = nextGeneration + 1 /\ conn' = nextGeneration + 1
     /\ cAdvertising' = FALSE /\ cEncrypted' = FALSE /\ cKey' = 0
     /\ CtlSends(<<Msg("Connected", nextGeneration + 1, 0)>>)
     /\ UNCHANGED <<cOpened, published, guest>>
  \/ /\ m.kind # "Connect" /\ ~ForThisLink(m)
     /\ reject(m)
  \/ /\ m.kind = "Disconnect" /\ ForThisLink(m)
     /\ CtlSends(Disconnected)
     /\ NoLink /\ GuestLinkDown
     /\ UNCHANGED radio
  \/ /\ m.kind = "Att" /\ ForThisLink(m)
     /\ guestAtt' = TRUE
     /\ UNCHANGED <<toPeer, cSock, radio, conn, security, guestSmp, guestLtk, guestBond>>
  \/ /\ m.kind = "Smp" /\ ForThisLink(m)
     /\ guestSmp' = TRUE
     /\ UNCHANGED <<toPeer, cSock, radio, conn, security, guestAtt, guestLtk, guestBond>>
  \/ /\ m.kind = "Encrypt" /\ ForThisLink(m) /\ (cKey # 0 \/ cEncrypted)
     /\ reject(m)
  \/ /\ m.kind = "Encrypt" /\ ForThisLink(m) /\ cKey = 0 /\ ~cEncrypted
     /\ cKey' = m.val
     /\ UNCHANGED <<toPeer, cSock, radio, conn, published, cEncrypted, guest>>

(* pollPeer reads the next message.                                        *)
CtlReceive ==
  /\ cSock # 0 /\ toCtl[cSock] # <<>>
  /\ toCtl' = [toCtl EXCEPT ![cSock] = Tail(@)]
  /\ peerMessage(Head(toCtl[cSock]))
  /\ UNCHANGED <<wire, peer>>

-----------------------------------------------------------------------------
(* VirtualPeer.  Its process is single-threaded: one call of poll() runs   *)
(* PollAccepts if it has no socket, some PollReceives and PollEnds (or an  *)
(* exception, Fails); how many messages it finds depends on when the       *)
(* controller writes them.  A call that has nothing left to do but return  *)
(* is over: `polling' holds between two steps of one that has.             *)

(* Mutant: the session's last state is left behind.                        *)
clearLinkKeepsReady ==
  /\ connecting' = FALSE /\ ready' = (ready /\ generation # 0) /\ sessionRequested' = FALSE /\ generation' = 0
  /\ setup' = 0 /\ requests' = 0 /\ attBusy' = FALSE /\ attSecurityPending' = FALSE /\ smp' = "Idle"

(* Mutant: SmpSession::reset is not called.                                *)
clearLinkKeepsSecurity ==
  /\ connecting' = FALSE /\ ready' = FALSE /\ sessionRequested' = FALSE /\ generation' = 0
  /\ setup' = 0 /\ requests' = 0 /\ attBusy' = FALSE /\ attSecurityPending' = FALSE /\ UNCHANGED smp

clearLink ==
  /\ connecting' = FALSE /\ ready' = FALSE /\ sessionRequested' = FALSE /\ generation' = 0
  /\ setup' = 0 /\ requests' = 0 /\ attBusy' = FALSE /\ attSecurityPending' = FALSE /\ smp' = "Idle"

(* Mutant: the controller is not told.                                     *)
disconnectQuietly ==
  /\ IF closing
       THEN UNCHANGED <<session, closes>>
       ELSE /\ closing' = (generation # 0 \/ connecting) /\ closingGeneration' = generation
            /\ clearLink
  /\ UNCHANGED <<toCtl, pSock>>

disconnect ==
  /\ IF closing
       THEN UNCHANGED <<toCtl, pSock, session, closes>>
       ELSE /\ closing' = (generation # 0 \/ connecting) /\ closingGeneration' = generation
            /\ PeerSends(IF generation = 0 THEN <<>> ELSE <<Msg("Disconnect", generation, 0)>>)
            /\ clearLink

noClose == closing' = FALSE /\ closingGeneration' = 0

(* poll's exception handler, for an exception before any deadline.         *)
Fails ==
  /\ failed' = TRUE /\ catalog' = 0
  /\ disconnect
  /\ UNCHANGED <<pAdvertising, pImage, bond>>

(* The part of a handler that only touches the session.                    *)
Stays == UNCHANGED <<failed, publication, closes>>

(* Mutant: a new connection does not wait for the old one's end.           *)
ConnectWhileClosing == enabled /\ ~failed /\ pAdvertising /\ generation = 0 /\ ~connecting /\ sessionRequested

ConnectWanted ==
  enabled /\ ~failed /\ pAdvertising /\ generation = 0 /\ ~connecting /\ ~closing /\ sessionRequested

(* What is left of poll() when no more messages follow: a connection to    *)
(* ask for, or with the socket lost on the way, the deadlines.             *)
Unfinished == IF pSock = 0 THEN ~failed ELSE ConnectWanted

(* The start of poll() without a socket: the end of the last one is dealt  *)
(* with, and the next one accepted.                                        *)
PollAccepts ==
  /\ ~polling /\ pSock = 0 /\ (transport \/ acceptedSockets < opened)
  /\ IF transport
       THEN pAdvertising' = FALSE /\ catalog' = 0 /\ noClose /\ clearLink /\ UNCHANGED pImage
       ELSE UNCHANGED <<publication, session, closes>>
  /\ IF acceptedSockets < opened
       THEN acceptedSockets' = acceptedSockets + 1 /\ pSock' = acceptedSockets + 1
            /\ transport' = TRUE /\ failed' = FALSE
       ELSE transport' = FALSE /\ UNCHANGED <<acceptedSockets, pSock, failed>>
  /\ toPeer' = Unread(toPeer, acceptedSockets)
  /\ UNCHANGED <<opened, toCtl, controller, enabled, bond>>
  /\ polling' = Unfinished'

(* recv() finds the end of the stream.                                     *)
PollFindsEnd ==
  /\ pSock # 0 /\ cSock # pSock /\ toPeer[pSock] = <<>>
  /\ pSock' = 0 /\ polling' = TRUE
  /\ UNCHANGED <<wire, toPeer, toCtl, controller, mode, failed, publication, session, closes, bond>>

(* Mutant: a database that arrives during an attempt to connect is ignored.*)
receiveCatalogUnlessConnecting(m) ==
  /\ m.kind = "Gatt"
  /\ IF connecting THEN UNCHANGED <<toCtl, pSock, session, closes, catalog>> ELSE disconnect /\ catalog' = m.val
  /\ UNCHANGED <<failed, pAdvertising, pImage, bond>>

receiveCatalog(m) ==
  /\ m.kind = "Gatt"
  /\ \/ m.val = 0 /\ Fails
     \/ /\ m.val # 0 /\ catalog = m.val
        /\ Stays /\ UNCHANGED <<toCtl, pSock, session, bond>>
     \/ /\ m.val # 0 /\ catalog # m.val
        /\ disconnect
        /\ catalog' = m.val
        /\ UNCHANGED <<failed, pAdvertising, pImage, bond>>

receiveReset(m) ==
  /\ m.kind = "Reset"
  /\ failed' = FALSE /\ pAdvertising' = FALSE /\ catalog' = 0
  /\ noClose /\ clearLink
  /\ UNCHANGED <<toCtl, pSock, pImage, bond>>

advertisement(m) ==
  /\ m.kind \in {"AdvertisingOn", "AdvertisingOff"}
  /\ pAdvertising' = (m.kind = "AdvertisingOn") /\ pImage' = m.val
  /\ IF (catalog # 0 /\ pImage # m.val)
        \/ (m.kind = "AdvertisingOff" /\ generation = 0 /\ ~connecting /\ ~closing)
       THEN disconnect /\ catalog' = 0
       ELSE UNCHANGED <<toCtl, pSock, session, closes, catalog>>
  /\ UNCHANGED <<failed, bond>>

requestEncryption(g, key) == PeerSends(<<Msg("Encrypt", g, key)>>)

AcceptsConnection(m) == connecting /\ enabled

(* Mutant: a connection nobody waits for is ignored.                       *)
IgnoresConnection(m) ==
  /\ m.kind = "Connected"
  /\ generation' = IF AcceptsConnection(m) THEN m.gen ELSE generation
  /\ connecting' = FALSE
  /\ UNCHANGED <<toCtl, pSock, failed, publication, ready, sessionRequested, attention, closes, bond>>

(* Mutant: discovery starts before the bond is restored.                   *)
DiscoversFirst(m) ==
  /\ m.kind = "Connected"
  /\ AcceptsConnection(m)
  /\ generation' = m.gen /\ connecting' = FALSE /\ pAdvertising' = FALSE
  /\ setup' = SetupSteps /\ requests' = 1 /\ attBusy' = TRUE
  /\ PeerSends(<<Msg("Att", m.gen, 0)>>)
  /\ UNCHANGED <<failed, pImage, catalog, ready, sessionRequested, attSecurityPending, smp, closes, bond>>

receiveConnected(m) ==
  /\ m.kind = "Connected"
  /\ \/ /\ ~AcceptsConnection(m)
        /\ closing' = TRUE /\ closingGeneration' = m.gen
        /\ PeerSends(<<Msg("Disconnect", m.gen, 0)>>)
        /\ UNCHANGED <<failed, publication, session, bond>>
     \/ /\ AcceptsConnection(m)
        /\ generation' = m.gen /\ connecting' = FALSE /\ pAdvertising' = FALSE
        /\ setup' = SetupSteps /\ requests' = 1
        /\ attSecurityPending' = (bond # 0) /\ attBusy' = (bond = 0)
        /\ smp' = IF bond # 0 THEN "Restoring" ELSE smp
        /\ IF bond # 0 THEN requestEncryption(m.gen, bond) ELSE PeerSends(<<Msg("Att", m.gen, 0)>>)
        /\ UNCHANGED <<failed, pImage, catalog, ready, sessionRequested, closes, bond>>

RejectMatters(m) == m.gen = 0 \/ m.gen = generation

receiveRejected(m) ==
  /\ m.kind = "Rejected"
  /\ \/ ~RejectMatters(m) /\ Stays /\ UNCHANGED <<toCtl, pSock, session, bond>>
     \/ RejectMatters(m) /\ Fails

(* Mutant: every request for security starts it again.                     *)
startAgain ==
  /\ smp' = IF bond # 0 THEN "Restoring" ELSE "Pairing"
  /\ PeerSends(<<IF bond # 0 THEN Msg("Encrypt", generation, bond) ELSE Msg("Smp", generation, 0)>>)

pair == smp' = "Pairing" /\ PeerSends(<<Msg("Smp", generation, 0)>>)

(* SmpSession::start.                                                      *)
start ==
  IF smp # "Idle" THEN UNCHANGED <<toCtl, pSock, smp>>
  ELSE IF bond # 0 THEN smp' = "Restoring" /\ requestEncryption(generation, bond)
  ELSE pair

(* sendNext, after a handler that leaves `left' requests.                  *)
sendNext(left) ==
  /\ requests' = left /\ attBusy' = (left > 0)
  /\ PeerSends(IF left > 0 THEN <<Msg("Att", generation, 0)>> ELSE <<>>)

(* The checks of discovery and of clearing subscriptions: no transaction   *)
(* may fail, and at the end the published database is the one discovered.  *)
DiscoveryFails(denied) == denied \/ (setup = 1 /\ (catalog = 0 \/ ~sessionRequested))

(* Each completion issues the next request; the last one makes the session *)
(* ready.                                                                  *)
discoverNext ==
  /\ setup' = setup - 1 /\ ready' = (setup = 1)
  /\ sendNext(IF setup = 1 THEN 0 ELSE 1)

(* A response completes the request in front, unless it asks for security  *)
(* that can still be had.                                                  *)
receiveAtt(m) ==
  /\ m.kind \in {"Att", "AttSecurity"}
  /\ LET denied == m.kind = "AttSecurity" /\ smp = "Encrypted"
         retry == m.kind = "AttSecurity" /\ smp # "Encrypted"
     IN  \/ /\ ~attBusy \/ (~retry /\ setup > 0 /\ DiscoveryFails(denied))
            /\ Fails
         \/ /\ attBusy /\ retry
            /\ attBusy' = FALSE /\ attSecurityPending' = TRUE
            /\ start
            /\ Stays /\ UNCHANGED <<connecting, ready, sessionRequested, generation, setup, requests, bond>>
         \/ /\ attBusy /\ ~retry /\ setup > 0 /\ ~DiscoveryFails(denied)
            /\ discoverNext
            /\ Stays /\ UNCHANGED <<connecting, sessionRequested, generation, attSecurityPending, smp, bond>>
         \/ /\ attBusy /\ ~retry /\ setup = 0
            /\ sendNext(requests - 1)
            /\ Stays /\ UNCHANGED <<connecting, ready, sessionRequested, generation, setup, attSecurityPending, smp, bond>>

(* SmpSession::receive: the guest's security request, and the end of the   *)
(* pairing exchange.                                                       *)
receiveSmp(m) ==
  \/ /\ m.kind = "SecurityRequest"
     /\ start
     /\ Stays /\ UNCHANGED <<connecting, ready, sessionRequested, generation, setup, requests, attBusy, attSecurityPending, bond>>
  \/ m.kind = "Smp" /\ smp # "Pairing" /\ Fails
  \/ /\ m.kind = "Smp" /\ smp = "Pairing"
     /\ smp' = "Encrypting"
     /\ requestEncryption(generation, m.val)
     /\ Stays /\ UNCHANGED <<connecting, ready, sessionRequested, generation, setup, requests, attBusy, attSecurityPending, bond>>

(* Mutant: the bond the guest has lost is kept while a new one is made.    *)
encryptionKeepsBond(m) ==
  /\ m.kind = "Encryption" /\ m.val \in {0, 6}
  /\ smp' = IF m.val = 0 THEN "Encrypted" ELSE "Pairing"
  /\ bond' = IF m.val = 0 /\ smp = "Encrypting" THEN generation ELSE bond
  /\ attSecurityPending' = (m.val = 6)
  /\ PeerSends(IF m.val = 6 THEN <<Msg("Smp", generation, 0)>> ELSE <<>>)
  /\ Stays /\ UNCHANGED <<connecting, ready, sessionRequested, generation, setup, requests, attBusy>>

(* SmpSession::encryptionChanged and securityReady.                        *)
encryptionChanged(m) ==
  /\ m.kind = "Encryption"
  /\ \/ /\ smp \notin {"Encrypting", "Restoring"} \/ (m.val # 0 /\ ~(m.val = 6 /\ smp = "Restoring"))
        /\ Fails
     \/ /\ m.val = 6 /\ smp = "Restoring"
        /\ bond' = 0 /\ pair
        /\ Stays /\ UNCHANGED <<connecting, ready, sessionRequested, generation, setup, requests, attBusy, attSecurityPending>>
     \/ /\ m.val = 0 /\ smp \in {"Encrypting", "Restoring"}
        /\ bond' = IF smp = "Encrypting" THEN generation ELSE bond   \* the key of GuestPairs
        /\ smp' = "Encrypted" /\ attSecurityPending' = FALSE
        /\ IF attBusy THEN UNCHANGED <<toCtl, pSock, requests, attBusy>> ELSE sendNext(requests)
        /\ Stays /\ UNCHANGED <<connecting, ready, sessionRequested, generation, setup>>

DisconnectAnswered(m) == m.kind = "Disconnected" /\ closing /\ m.gen = closingGeneration

CurrentLink(m) == generation # 0 /\ m.gen = generation

(* receive: in the order of its tests.                                     *)
receive(m) ==
  \/ receiveCatalog(m)
  \/ receiveReset(m)
  \/ /\ DisconnectAnswered(m)
     /\ noClose
     /\ UNCHANGED <<toCtl, pSock, failed, publication, session, bond>>
  \/ advertisement(m)
  \/ receiveConnected(m)
  \/ receiveRejected(m)
  \/ /\ m.kind \in {"Disconnected", "Att", "AttSecurity", "Smp", "SecurityRequest", "Encryption"}
     /\ ~DisconnectAnswered(m) /\ ~CurrentLink(m)
     /\ Stays /\ UNCHANGED <<toCtl, pSock, session, bond>>
  \/ /\ m.kind = "Disconnected" /\ ~DisconnectAnswered(m) /\ CurrentLink(m)
     /\ clearLink
     /\ Stays /\ UNCHANGED <<toCtl, pSock, bond>>
  \/ CurrentLink(m) /\ receiveAtt(m)
  \/ CurrentLink(m) /\ receiveSmp(m)
  \/ CurrentLink(m) /\ encryptionChanged(m)

PollReceives ==
  /\ pSock # 0 /\ toPeer[pSock] # <<>>
  /\ toPeer' = [toPeer EXCEPT ![pSock] = Tail(@)]
  /\ receive(Head(toPeer[pSock]))
  /\ UNCHANGED <<wire, controller, mode>>
  /\ polling' = Unfinished'

connect == connecting' = TRUE /\ PeerSends(<<Msg("Connect", 0, 0)>>)

(* The end of poll() with no deadline passed.                              *)
PollEnds ==
  /\ polling \/ (pSock # 0 /\ ConnectWanted)
  /\ polling' = FALSE
  /\ IF ConnectWanted THEN connect ELSE UNCHANGED <<connecting, toCtl, pSock>>
  /\ UNCHANGED <<wire, toPeer, controller, mode, failed, publication, ready, sessionRequested, generation, attention, closes, bond>>

AttWaits == attBusy \/ attSecurityPending

(* Mutants: a close, and an attempt to connect, have no deadline.          *)
SetupWaitsUnlessClosing == (connecting \/ generation # 0) /\ ~ready
SetupWaitsUnlessConnecting == (generation # 0 \/ closing) /\ ~ready

SetupWaits == (connecting \/ generation # 0 \/ closing) /\ ~ready

(* The end of poll() with a deadline passed: the exception handler, which  *)
(* gives the socket up when it is a close that was not answered in time.   *)
PollTimesOut ==
  /\ polling \/ pSock # 0
  /\ polling' = FALSE
  /\ \/ /\ AttWaits
        /\ Fails /\ UNCHANGED toPeer
     \/ /\ SetupWaits /\ ~closing
        /\ Fails /\ UNCHANGED toPeer
     \/ /\ SetupWaits /\ closing
        /\ failed' = TRUE /\ catalog' = 0 /\ pSock' = 0
        /\ closing' = (generation # 0 \/ connecting) /\ closingGeneration' = generation
        /\ clearLink
        /\ toPeer' = Unread(toPeer, pSock)
        /\ UNCHANGED <<toCtl, pAdvertising, pImage, bond>>
  /\ UNCHANGED <<wire, controller, mode>>

SetEnabled ==
  /\ ~polling /\ enabled' = ~enabled
  /\ IF enabled THEN disconnect /\ UNCHANGED failed
                ELSE failed' = FALSE /\ UNCHANGED <<toCtl, pSock, session, closes>>
  /\ UNCHANGED <<wire, toPeer, controller, transport, polling, publication, bond>>

(* The frontend resets the bridge when it restarts the machine.            *)
PeerReset ==
  /\ ~polling /\ transport
  /\ pSock' = 0 /\ transport' = FALSE /\ failed' = FALSE
  /\ pAdvertising' = FALSE /\ catalog' = 0 /\ noClose /\ clearLink
  /\ toPeer' = Unread(toPeer, pSock)
  /\ UNCHANGED <<wire, toCtl, controller, enabled, polling, pImage, bond>>

available ==
  catalog # 0 /\ enabled /\ ~failed /\ ~closing /\ (pAdvertising \/ generation # 0 \/ connecting \/ sessionRequested)

startSession ==
  /\ ~polling /\ available /\ ~sessionRequested
  /\ sessionRequested' = TRUE
  /\ UNCHANGED <<wire, toPeer, toCtl, controller, pSock, mode, failed, polling, publication, connecting, ready, generation, attention, closes, bond>>

(* The delegate ends an idle session, or refuses a value inside poll().    *)
ClientDisconnects ==
  /\ sessionRequested
  /\ disconnect
  /\ UNCHANGED <<wire, toPeer, controller, mode, failed, polling, publication, bond>>

(* A request waits behind the one under way, or for security.              *)
request ==
  /\ ~polling /\ ready /\ generation # 0 /\ requests < MaxRequests
  /\ IF AttWaits THEN requests' = requests + 1 /\ UNCHANGED <<toCtl, pSock, attBusy>> ELSE sendNext(requests + 1)
  /\ UNCHANGED <<wire, toPeer, controller, mode, failed, polling, publication, connecting, ready, sessionRequested,
                 generation, setup, attSecurityPending, smp, closes, bond>>

-----------------------------------------------------------------------------
CtlStep ==
  \/ CtlOpen \/ CtlRestarts \/ GuestForgetsBond \/ CtlLosesSocket \/ CtlReceive
  \/ GuestAdvertises \/ GuestStopsAdvertising \/ GuestDisconnects \/ GuestResets
  \/ GuestAnswersAtt \/ GuestPairs \/ GuestRequestsSecurity \/ GuestAnswersKey

PeerStep ==
  \/ PollAccepts \/ PollFindsEnd \/ PollReceives \/ PollEnds \/ PollTimesOut
  \/ SetEnabled \/ PeerReset \/ startSession \/ ClientDisconnects \/ request

Next == CtlStep \/ PeerStep

Spec == Init /\ [][Next]_vars

(* The frontend polls on every turn of its main loop, a poll reads what    *)
(* has arrived, and its deadlines pass; the guest's NimBLE task runs the   *)
(* controller's poll.  Nothing is asked of the guest's answers or of the   *)
(* user.                                                                   *)
FairSpec ==
  /\ Spec
  /\ WF_vars(PollAccepts) /\ WF_vars(PollReceives) /\ WF_vars(PollFindsEnd) /\ WF_vars(PollEnds)
  /\ WF_vars(PollTimesOut)
  /\ WF_vars(CtlReceive) /\ WF_vars(CtlLosesSocket)

-----------------------------------------------------------------------------
Keys == 0..MaxGenerations
CtlMsgs == [kind : CtlKinds, gen : 0..MaxGenerations, val : Keys]
PeerMsgs == [kind : PeerKinds, gen : 0..MaxGenerations, val : Keys \cup Images \cup {5, 6}]

(* Types; the queues never hold more than the socket does.                 *)
TypeOK ==
  /\ opened \in 0..MaxSockets /\ acceptedSockets \in 0..opened
  /\ \A s \in Sockets : toPeer[s] \in Seq(PeerMsgs) /\ Len(toPeer[s]) <= MaxQueue
                        /\ toCtl[s] \in Seq(CtlMsgs) /\ Len(toCtl[s]) <= MaxQueue
  /\ cSock \in {0, opened} /\ (cSock # 0 => cOpened)
  /\ pSock \in {0, acceptedSockets} /\ (pSock # 0 => transport)
  /\ nextGeneration \in Keys /\ conn \in {0, nextGeneration}
  /\ {cKey, guestLtk, guestBond, bond, generation, closingGeneration} \subseteq Keys
  /\ {cOpened, cAdvertising, cEncrypted, guestAtt, guestSmp, transport, enabled, failed, polling, pAdvertising,
      connecting, closing, ready, sessionRequested, attBusy, attSecurityPending} \subseteq BOOLEAN
  /\ {pImage, catalog, published} \subseteq Images \cup {0}
  /\ setup \in 0..SetupSteps /\ requests \in 0..MaxRequests /\ smp \in SmpStates

Joined == pSock # 0 /\ cSock = pSock

Coming(k, g) == \E i \in 1..Len(toPeer[pSock]) : toPeer[pSock][i].kind = k /\ toPeer[pSock][i].gen = g

(* While both ends hold the same socket, a link the peer believes in is    *)
(* the controller's link, or the news of its end is on the way.            *)
Agreement ==
  Joined /\ generation # 0 =>
    conn = generation \/ Coming("Disconnected", generation) \/ Coming("Reset", 0)

(* The converse: no connection of the controller is left without a peer    *)
(* that uses it, is about to learn of it, or has asked for its end.        *)
NoHalfOpen ==
  Joined /\ conn # 0 =>
    \/ generation = conn
    \/ Coming("Connected", conn)
    \/ \E i \in 1..Len(toCtl[pSock]) : toCtl[pSock][i].kind = "Disconnect" /\ toCtl[pSock][i].gen = conn

(* A link that is being closed is not also being used or opened.           *)
ClosingExclusive == closing => generation = 0 /\ ~connecting

(* The two ends agree on the link, however sockets, resets and closes      *)
(* cross.                                                                  *)
LinkSafety == TypeOK /\ Agreement /\ NoHalfOpen /\ ClosingExclusive

(* The peer runs ATT only on a fresh link without bond, or once the bond's *)
(* encryption is restored: the comment of receive() on the CCCDs that      *)
(* NimBLE reloads.                                                         *)
AttAfterRestore == attBusy /\ bond # 0 => smp = "Encrypted"

(* Encryption the peer relies on is on in the controller, on this link.    *)
EncryptionAgreement ==
  Joined /\ smp = "Encrypted" /\ conn = generation => cEncrypted

(* The key the two sides keep is the same one, whatever restarts between.  *)
BondsMatch == bond # 0 /\ guestBond # 0 => bond = guestBond

(* Keys and encryption, of the two ends and of the guest's bond.           *)
SecurityAgreement == EncryptionAgreement /\ BondsMatch

(* The database the peer offers its clients during a connection is the one *)
(* the firmware advertised with when the controller accepted it: a         *)
(* publication that crosses a Connect ends the attempt.                    *)
SessionDatabase == Joined /\ generation # 0 /\ conn = generation => catalog = published

(* A session is ready only for the database that was published, on a link  *)
(* whose requests the client asked for.                                    *)
ReadySession == ready => generation # 0 /\ catalog # 0 /\ sessionRequested /\ setup = 0

(* What clients are offered is what the firmware has, and a session they   *)
(* use is for it.                                                          *)
DatabaseSafety == SessionDatabase /\ ReadySession

(* The guest's refusal of a packet never fails a session it is not about:  *)
(* on a link both sides agree on, the controller rejects nothing.          *)
NoSpuriousReject ==
  Joined /\ generation # 0 /\ conn = generation => ~Coming("Rejected", generation)

(* A close the peer has begun ends: by its answer, a reset, the loss of    *)
(* the socket or its deadline.                                             *)
ClosingEnds == closing ~> ~closing

(* A session a client has asked for becomes ready, ends or fails, as long  *)
(* as the bridge is enabled and the firmware can be reached: it advertises *)
(* or a link is up or being opened or closed.                              *)
SessionSettles ==
  sessionRequested ~>
    \/ ready \/ ~sessionRequested \/ failed \/ ~enabled
    \/ ~(pAdvertising \/ connecting \/ closing \/ generation # 0)

(* A connection of the controller is taken up by the peer or ends.         *)
ConnectionsTaken == \A g \in Generations : conn = g ~> (generation = g \/ conn # g)

(* The peer notices the end of a link, whichever way it ends.              *)
EndNoticed == \A g \in Generations : (generation = g /\ conn # g) ~> generation # g

(* What the peer has begun ends: a close, and the setup of a session.      *)
SetupEnds == ClosingEnds /\ SessionSettles

(* What the controller's side does to a link reaches the peer.             *)
NewsTaken == ConnectionsTaken /\ EndNoticed

=============================================================================
