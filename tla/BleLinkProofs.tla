--------------------------- MODULE BleLinkProofs ---------------------------
(***************************************************************************)
(* Theorems about the software link for every number of sockets, links and *)
(* requests, every queue limit and every set of databases.                 *)
(***************************************************************************)
EXTENDS BleLink, SequenceTheorems, TLAPS

-----------------------------------------------------------------------------
(* Types.                                                                  *)

(* What the controller sends: a database or an advertisement is one of the *)
(* firmware's, and a pairing ends in the key named after its connection.   *)
PeerMsg == {m \in PeerMsgs :
  /\ m.kind = "Gatt" => m.val \in Images \cup {0}
  /\ m.kind \in {"AdvertisingOn", "AdvertisingOff"} => m.val \in Images
  /\ m.kind = "Smp" => m.val = m.gen}

SocketTypes ==
  /\ opened \in 0..MaxSockets /\ acceptedSockets \in 0..opened
  /\ cSock \in {0, opened} /\ (cSock # 0 => cOpened)
  /\ pSock \in {0, acceptedSockets} /\ (pSock # 0 => transport)
  /\ cOpened \in BOOLEAN /\ transport \in BOOLEAN

QueueTypes ==
  /\ toPeer \in [Sockets -> Seq(PeerMsg)] /\ toCtl \in [Sockets -> Seq(CtlMsgs)]
  /\ \A s \in Sockets : Len(toPeer[s]) <= MaxQueue /\ Len(toCtl[s]) <= MaxQueue

CtlTypes ==
  /\ nextGeneration \in Keys /\ conn \in {0, nextGeneration}
  /\ cKey \in Keys /\ guestLtk \in Keys /\ guestBond \in Keys
  /\ cAdvertising \in BOOLEAN /\ cEncrypted \in BOOLEAN /\ guestAtt \in BOOLEAN /\ guestSmp \in BOOLEAN
  /\ published \in Images \cup {0}

PeerTypes ==
  /\ bond \in Keys /\ generation \in Keys /\ closingGeneration \in Keys
  /\ enabled \in BOOLEAN /\ failed \in BOOLEAN /\ polling \in BOOLEAN /\ pAdvertising \in BOOLEAN
  /\ connecting \in BOOLEAN /\ closing \in BOOLEAN /\ ready \in BOOLEAN /\ sessionRequested \in BOOLEAN
  /\ attBusy \in BOOLEAN /\ attSecurityPending \in BOOLEAN
  /\ pImage \in Images \cup {0} /\ catalog \in Images \cup {0}
  /\ setup \in 0..SetupSteps /\ requests \in 0..MaxRequests /\ smp \in SmpStates

LinkTypes == SocketTypes /\ QueueTypes /\ CtlTypes /\ PeerTypes

(* The controller's own state, and the peer's.                             *)
CtlInv ==
  /\ conn # 0 => ~cAdvertising /\ conn = nextGeneration /\ cOpened
  /\ conn = 0 => ~cEncrypted /\ cKey = 0
  /\ cKey # 0 => ~cEncrypted
  /\ ~cOpened => cSock = 0 /\ ~cAdvertising

(* Without a link the peer has no session state; a bond is restored before *)
(* any ATT request, and made only when there is none.                      *)
SessionInv ==
  /\ closing => generation = 0 /\ ~connecting
  /\ ~enabled => ~connecting
  /\ generation = 0 => ~ready /\ setup = 0 /\ requests = 0 /\ ~attBusy /\ ~attSecurityPending /\ smp = "Idle"
  /\ ready => catalog # 0 /\ sessionRequested /\ setup = 0
  /\ attBusy => requests > 0
  /\ ~transport => ~pAdvertising /\ catalog = 0 /\ generation = 0 /\ ~connecting /\ ~closing /\ ~sessionRequested

SecurityInv ==
  /\ generation # 0 /\ bond # 0 => smp \in {"Restoring", "Encrypted"}
  /\ smp \in {"Pairing", "Encrypting"} => bond = 0
  /\ smp = "Restoring" => attSecurityPending /\ ~attBusy /\ bond # 0

PeerInv == SessionInv /\ SecurityInv

(* The bounds of the model are numbers.                                    *)
LEMMA Bounds ==
  /\ MaxSockets \in Nat /\ MaxGenerations \in Nat /\ MaxQueue \in Nat
  /\ MaxRequests \in Nat /\ MaxRequests > 0 /\ SetupSteps \in Nat /\ SetupSteps > 0
BY LinkAssumption

(* A queue with one more message, and what is left of it when the socket   *)
(* is given up.                                                            *)
Then(q, m) == Append(q, m)

CutShort(q, p) == p \in {SubSeq(q, 1, n) : n \in 0..Len(q)}

Sent(queues, mine, open, msgs, r) ==
  \/ (mine = 0 \/ msgs = <<>>) /\ r[1] = queues /\ r[2] = mine
  \/ mine # 0 /\ r[1] = queues /\ r[2] = 0
  \/ /\ mine # 0 /\ open /\ r[2] = mine /\ r[1] = [queues EXCEPT ![mine] = queues[mine] \o msgs]
     /\ Len(queues[mine] \o msgs) <= MaxQueue
  \/ /\ mine # 0 /\ open /\ r[2] = 0
     /\ \E p : /\ CutShort(queues[mine] \o msgs, p) /\ Len(p) <= MaxQueue
               /\ r[1] = [queues EXCEPT ![mine] = p]

(* SocketSend: nothing, the end of the socket, or the messages appended.   *)
LEMMA Sends ==
  ASSUME NEW M, NEW queues \in [Sockets -> Seq(M)], NEW mine \in Sockets \cup {0}, NEW open,
         NEW msgs \in Seq(M), NEW r \in SocketSend(queues, mine, open, msgs)
  PROVE  Sent(queues, mine, open, msgs, r)
<1>1. CASE mine = 0 \/ msgs = <<>>
  BY <1>1 DEF SocketSend, Sent
<1>2. CASE ~(mine = 0 \/ msgs = <<>>) /\ ~open
  BY <1>2 DEF SocketSend, Sent
<1>3. CASE ~(mine = 0 \/ msgs = <<>>) /\ open
  <2>1. mine \in Sockets /\ queues[mine] \in Seq(M)
    BY <1>3
  <2>2. Len(queues[mine] \o msgs) = Len(queues[mine]) + Len(msgs) /\ queues[mine] \o msgs \in Seq(M)
    BY <2>1, ConcatProperties
  <2>3. CASE Len(queues[mine]) + Len(msgs) <= MaxQueue
    BY <1>3, <2>2, <2>3 DEF SocketSend, Sent
  <2>4. CASE ~(Len(queues[mine]) + Len(msgs) <= MaxQueue)
    <3>1. PICK n \in 0..MaxQueue : r = <<[queues EXCEPT ![mine] = SubSeq(queues[mine] \o msgs, 1, n)], 0>>
      BY <1>3, <2>4 DEF SocketSend
    <3> DEFINE all == queues[mine] \o msgs
               p == SubSeq(all, 1, n)
    <3>2. Len(all) \in Nat /\ n \in 0..Len(all)
      BY <2>1, <2>2, <2>4, Bounds
    <3>3. CutShort(all, p)
      BY <3>2 DEF CutShort
    <3>4. Len(p) = n
      <4> HIDE DEF all
      <4>1. all \in Seq(M)
        BY <2>2 DEF all
      <4> QED BY <3>2, <4>1
    <3>5. n <= MaxQueue
      BY Bounds
    <3> QED BY <1>3, <3>1, <3>3, <3>4, <3>5 DEF Sent
  <2> QED BY <2>3, <2>4
<1> QED BY <1>1, <1>2, <1>3

LEMMA CutType ==
  ASSUME NEW M, NEW q \in Seq(M), NEW p, CutShort(q, p)
  PROVE  p \in Seq(M)
BY DEF CutShort

(* What a send leaves is typed, and other sockets are as they were.        *)
Typed(M, queues, mine, r) ==
  /\ r[1] \in [Sockets -> Seq(M)] /\ r[2] \in {0, mine}
  /\ \A s \in Sockets : Len(r[1][s]) <= MaxQueue
  /\ \A s \in Sockets : s # mine => r[1][s] = queues[s]

LEMMA SendTypes ==
  ASSUME NEW M, NEW queues \in [Sockets -> Seq(M)], NEW mine \in Sockets \cup {0}, NEW open,
         NEW msgs \in Seq(M), NEW r \in SocketSend(queues, mine, open, msgs),
         \A s \in Sockets : Len(queues[s]) <= MaxQueue
  PROVE  Typed(M, queues, mine, r)
<1>1. CASE r[1] = queues /\ r[2] \in {0, mine}
  BY <1>1 DEF Typed
<1>2. ASSUME mine # 0, NEW p \in Seq(M), Len(p) <= MaxQueue, r[1] = [queues EXCEPT ![mine] = p], r[2] \in {0, mine}
      PROVE  Typed(M, queues, mine, r)
  BY <1>2 DEF Typed
<1>3. ASSUME mine # 0 PROVE queues[mine] \o msgs \in Seq(M)
  <2>1. queues[mine] \in Seq(M)
    BY <1>3
  <2> QED BY <2>1, ConcatProperties
<1>4. ASSUME mine # 0, NEW p, CutShort(queues[mine] \o msgs, p) PROVE p \in Seq(M)
  BY <1>3, <1>4, CutType
<1>5. CASE mine # 0 /\ r[2] = mine /\ r[1] = [queues EXCEPT ![mine] = queues[mine] \o msgs]
           /\ Len(queues[mine] \o msgs) <= MaxQueue
  BY <1>2, <1>3, <1>5
<1>6. CASE mine # 0 /\ r[2] = 0
           /\ \E p : CutShort(queues[mine] \o msgs, p) /\ Len(p) <= MaxQueue /\ r[1] = [queues EXCEPT ![mine] = p]
  BY <1>2, <1>4, <1>6
<1>7. Sent(queues, mine, open, msgs, r)
  BY Sends
<1> QED BY <1>1, <1>5, <1>6, <1>7 DEF Sent

LEMMA CtlSent ==
  ASSUME LinkTypes, NEW msgs \in Seq(PeerMsg), CtlSends(msgs)
  PROVE  /\ Sent(toPeer, cSock, PeerHears, msgs, <<toPeer', cSock'>>)
         /\ cSock' \in {0, cSock}
         /\ toPeer' \in [Sockets -> Seq(PeerMsg)] /\ \A s \in Sockets : Len(toPeer'[s]) <= MaxQueue
         /\ \A s \in Sockets : s # cSock => toPeer'[s] = toPeer[s]
<1>1. PICK r \in SocketSend(toPeer, cSock, PeerHears, msgs) : toPeer' = r[1] /\ cSock' = r[2]
  BY DEF CtlSends
<1>2. cSock \in Sockets \cup {0} /\ toPeer \in [Sockets -> Seq(PeerMsg)] /\ \A s \in Sockets : Len(toPeer[s]) <= MaxQueue
  BY Bounds DEF LinkTypes, SocketTypes, QueueTypes, Sockets
<1>3. Sent(toPeer, cSock, PeerHears, msgs, r)
  BY <1>2, Sends
<1>4. Sent(toPeer, cSock, PeerHears, msgs, <<toPeer', cSock'>>)
  BY <1>1, <1>3 DEF Sent
<1>5. Typed(PeerMsg, toPeer, cSock, r)
  BY <1>2, SendTypes
<1> QED BY <1>1, <1>4, <1>5 DEF Typed

LEMMA PeerSent ==
  ASSUME LinkTypes, NEW msgs \in Seq(CtlMsgs), PeerSends(msgs)
  PROVE  /\ Sent(toCtl, pSock, cSock = pSock, msgs, <<toCtl', pSock'>>)
         /\ pSock' \in {0, pSock}
         /\ toCtl' \in [Sockets -> Seq(CtlMsgs)] /\ \A s \in Sockets : Len(toCtl'[s]) <= MaxQueue
         /\ \A s \in Sockets : s # pSock => toCtl'[s] = toCtl[s]
<1>1. PICK r \in SocketSend(toCtl, pSock, cSock = pSock, msgs) : toCtl' = r[1] /\ pSock' = r[2]
  BY DEF PeerSends
<1>2. pSock \in Sockets \cup {0} /\ toCtl \in [Sockets -> Seq(CtlMsgs)] /\ \A s \in Sockets : Len(toCtl[s]) <= MaxQueue
  BY Bounds DEF LinkTypes, SocketTypes, QueueTypes, Sockets
<1>3. Sent(toCtl, pSock, cSock = pSock, msgs, r)
  BY <1>2, Sends
<1>4. Sent(toCtl, pSock, cSock = pSock, msgs, <<toCtl', pSock'>>)
  BY <1>1, <1>3 DEF Sent
<1>5. Typed(CtlMsgs, toCtl, pSock, r)
  BY <1>2, SendTypes
<1> QED BY <1>1, <1>4, <1>5 DEF Typed

(* The messages of the two sides.                                          *)
LEMMA CtlMsgType ==
  ASSUME NEW k \in CtlKinds, NEW g \in Keys, NEW v \in Keys
  PROVE  Msg(k, g, v) \in CtlMsgs
BY DEF Msg, CtlMsgs, Keys

LEMMA PeerMsgType ==
  ASSUME NEW k \in PeerKinds, NEW g \in Keys, NEW v \in Keys \cup Images \cup {5, 6},
         k = "Gatt" => v \in Images \cup {0},
         k \in {"AdvertisingOn", "AdvertisingOff"} => v \in Images,
         k = "Smp" => v = g
  PROVE  Msg(k, g, v) \in PeerMsg
BY DEF Msg, PeerMsg, PeerMsgs, Keys

LEMMA KeyFacts == 0 \in Keys /\ \A g \in Keys : g \in Nat
BY Bounds DEF Keys

LEMMA DisconnectedType == ASSUME LinkTypes PROVE Disconnected \in Seq(PeerMsg) /\ ResetMessages \in Seq(PeerMsg)
<1>1. conn \in Keys
  BY KeyFacts DEF LinkTypes, CtlTypes
<1>2. Msg("Disconnected", conn, 0) \in PeerMsg /\ Msg("Reset", 0, 0) \in PeerMsg
  BY <1>1, PeerMsgType, KeyFacts DEF PeerKinds
<1>3. Disconnected \in Seq(PeerMsg)
  BY <1>2 DEF Disconnected
<1>4. ResetMessages \in Seq(PeerMsg)
  BY <1>2, <1>3, ConcatProperties DEF ResetMessages
<1> QED BY <1>3, <1>4

(* What an end that closes has not read is gone.                           *)
LEMMA UnreadTypes ==
  ASSUME NEW M, NEW queues \in [Sockets -> Seq(M)], NEW s \in Sockets \cup {0},
         \A t \in Sockets : Len(queues[t]) <= MaxQueue
  PROVE  /\ Unread(queues, s) \in [Sockets -> Seq(M)]
         /\ \A t \in Sockets : Unread(queues, s)[t] = IF t = s THEN <<>> ELSE queues[t]
         /\ \A t \in Sockets : Len(Unread(queues, s)[t]) <= MaxQueue
<1>1. <<>> \in Seq(M) /\ Len(<<>>) <= MaxQueue
  BY Bounds
<1>2. CASE s = 0
  BY <1>2, Bounds DEF Unread, Sockets
<1>3. CASE s # 0
  BY <1>1, <1>3 DEF Unread
<1> QED BY <1>2, <1>3

-----------------------------------------------------------------------------
(* Steps of the controller and its guest.                                  *)

(* Taking the first message of a socket.                                   *)
LEMMA TakesTypes ==
  ASSUME NEW M, NEW queues \in [Sockets -> Seq(M)], NEW s \in Sockets, queues[s] # <<>>,
         \A t \in Sockets : Len(queues[t]) <= MaxQueue,
         NEW new, new = [queues EXCEPT ![s] = Tail(queues[s])]
  PROVE  /\ Head(queues[s]) \in M
         /\ new \in [Sockets -> Seq(M)]
         /\ \A t \in Sockets : Len(new[t]) <= MaxQueue
<1>1. queues[s] \in Seq(M)
  OBVIOUS
<1>2. Head(queues[s]) \in M /\ Tail(queues[s]) \in Seq(M) /\ Len(Tail(queues[s])) <= MaxQueue
  BY <1>1, Bounds
<1> QED BY <1>2

(* A controller that sends keeps the sockets as they are, or loses its own. *)
LEMMA CtlSockets ==
  ASSUME LinkTypes, NEW msgs \in Seq(PeerMsg), CtlSends(msgs), UNCHANGED <<wire, cOpened, pSock, transport>>,
         toCtl' \in [Sockets -> Seq(CtlMsgs)], \A s \in Sockets : Len(toCtl'[s]) <= MaxQueue
  PROVE  SocketTypes' /\ QueueTypes'
<1>1. /\ cSock' \in {0, cSock}
      /\ toPeer' \in [Sockets -> Seq(PeerMsg)] /\ \A s \in Sockets : Len(toPeer'[s]) <= MaxQueue
  BY CtlSent
<1>2. SocketTypes'
  BY <1>1 DEF LinkTypes, SocketTypes, wire
<1>3. QueueTypes'
  BY <1>1 DEF QueueTypes
<1> QED BY <1>2, <1>3

CtlBasics == SocketTypes /\ QueueTypes /\ CtlTypes /\ CtlInv

(* A guest that only sends.                                                *)
LEMMA GuestSends ==
  ASSUME LinkTypes, NEW msgs \in Seq(PeerMsg), CtlSends(msgs), UNCHANGED <<wire, toCtl, cOpened, pSock, transport>>
  PROVE  SocketTypes' /\ QueueTypes' /\ (cSock' # 0 => cSock # 0)
<1>1. SocketTypes' /\ QueueTypes'
  BY CtlSockets DEF LinkTypes, QueueTypes
<1>2. cSock' \in {0, cSock}
  BY CtlSent
<1> QED BY <1>1, <1>2

LEMMA PeerMessageBasics ==
  ASSUME LinkTypes, CtlInv, cSock # 0, NEW m \in CtlMsgs, peerMessage(m), UNCHANGED <<wire, peer>>,
         toCtl' \in [Sockets -> Seq(CtlMsgs)], \A s \in Sockets : Len(toCtl'[s]) <= MaxQueue
  PROVE  CtlBasics'
<1> USE KeyFacts DEF CtlBasics, radio, security, guest, peer, mode
<1>0. /\ m.gen \in Keys /\ m.val \in Keys /\ SocketTypes /\ QueueTypes /\ CtlTypes /\ cOpened
      /\ nextGeneration \in Nat /\ MaxGenerations \in Nat
  BY Bounds DEF CtlMsgs, LinkTypes, Keys, SocketTypes, CtlTypes
<1>1. CASE reject(m)
  <2>1. <<Msg("Rejected", m.gen, 0)>> \in Seq(PeerMsg)
    BY <1>0, PeerMsgType DEF PeerKinds
  <2>2. SocketTypes' /\ QueueTypes' /\ cSock' \in {0, cSock}
    BY <1>1, <2>1, CtlSockets, CtlSent DEF reject
  <2> QED BY <1>0, <1>1, <2>2 DEF reject, CtlTypes, CtlInv
<1>2. CASE m.kind = "Connect" /\ conn = 0 /\ cAdvertising /\ nextGeneration < MaxGenerations
           /\ nextGeneration' = nextGeneration + 1 /\ conn' = nextGeneration + 1
           /\ cAdvertising' = FALSE /\ cEncrypted' = FALSE /\ cKey' = 0
           /\ CtlSends(<<Msg("Connected", nextGeneration + 1, 0)>>)
           /\ UNCHANGED <<cOpened, published, guest>>
  <2>0. nextGeneration + 1 \in Keys /\ nextGeneration + 1 # 0
    BY <1>0, <1>2 DEF Keys
  <2>1. <<Msg("Connected", nextGeneration + 1, 0)>> \in Seq(PeerMsg)
    BY <2>0, PeerMsgType DEF PeerKinds
  <2>2. SocketTypes' /\ QueueTypes'
    BY <1>2, <2>1, CtlSockets
  <2> QED BY <1>0, <1>2, <2>0, <2>2 DEF CtlTypes, CtlInv
<1>3. CASE m.kind = "Disconnect" /\ ForThisLink(m) /\ CtlSends(Disconnected) /\ NoLink /\ GuestLinkDown /\ UNCHANGED radio
  <2>2. SocketTypes' /\ QueueTypes'
    BY <1>3, DisconnectedType, CtlSockets
  <2> QED BY <1>0, <1>3, <2>2 DEF CtlTypes, CtlInv, NoLink, GuestLinkDown
<1>4. CASE UNCHANGED <<toPeer, cSock, radio, conn, security, guestLtk, guestBond>>
           /\ guestAtt' \in BOOLEAN /\ guestSmp' \in BOOLEAN
  <2>1. SocketTypes' /\ QueueTypes'
    BY <1>0, <1>4 DEF SocketTypes, QueueTypes, wire
  <2> QED BY <1>0, <1>4, <2>1 DEF CtlTypes, CtlInv
<1>5. CASE /\ m.kind = "Encrypt" /\ ForThisLink(m) /\ cKey = 0 /\ ~cEncrypted
           /\ cKey' = m.val
           /\ UNCHANGED <<toPeer, cSock, radio, conn, published, cEncrypted, guest>>
  <2>1. SocketTypes' /\ QueueTypes'
    BY <1>0, <1>5 DEF SocketTypes, QueueTypes, wire
  <2> QED BY <1>0, <1>5, <2>1 DEF CtlTypes, CtlInv, ForThisLink
<1>6. guestAtt \in BOOLEAN /\ guestSmp \in BOOLEAN
  BY <1>0 DEF CtlTypes
<1>7. CASE /\ m.kind = "Att" /\ ForThisLink(m) /\ guestAtt' = TRUE
           /\ UNCHANGED <<toPeer, cSock, radio, conn, security, guestSmp, guestLtk, guestBond>>
  BY <1>4, <1>6, <1>7
<1>8. CASE /\ m.kind = "Smp" /\ ForThisLink(m) /\ guestSmp' = TRUE
           /\ UNCHANGED <<toPeer, cSock, radio, conn, security, guestAtt, guestLtk, guestBond>>
  BY <1>4, <1>6, <1>8
<1> QED
  BY <1>1, <1>2, <1>3, <1>5, <1>7, <1>8 DEF peerMessage

LEMMA CtlStepBasics == ASSUME LinkTypes, CtlInv, CtlStep PROVE CtlBasics'
<1> USE KeyFacts DEF CtlBasics, radio, security, guest, peer, mode
<1>0. SocketTypes /\ QueueTypes /\ CtlTypes /\ conn \in Keys
  BY DEF LinkTypes, CtlTypes
<1>1. CASE CtlOpen
  <2>1. SocketTypes' /\ QueueTypes'
    BY <1>0, <1>1, Bounds DEF CtlOpen, SocketTypes, QueueTypes
  <2> QED BY <1>0, <1>1, <2>1 DEF CtlOpen, CtlTypes, CtlInv
<1>2. CASE CtlRestarts
  <2>1. cSock \in Sockets \cup {0}
    BY <1>0, Bounds DEF SocketTypes, Sockets
  <2>2. SocketTypes' /\ QueueTypes'
    BY <1>0, <1>2, <2>1, UnreadTypes DEF CtlRestarts, SocketTypes, QueueTypes, wire
  <2> QED BY <1>0, <1>2, <2>2 DEF CtlRestarts, NoLink, CtlTypes, CtlInv
<1>3. CASE GuestForgetsBond
  <2>2. SocketTypes' /\ QueueTypes'
    BY <1>0, <1>3 DEF GuestForgetsBond, SocketTypes, QueueTypes, wire
  <2> QED BY <1>0, <1>3, <2>2 DEF GuestForgetsBond, CtlTypes, CtlInv
<1>4. CASE CtlLosesSocket
  <2>1. cSock \in Sockets \cup {0}
    BY <1>0, Bounds DEF SocketTypes, Sockets
  <2>2. SocketTypes' /\ QueueTypes'
    BY <1>0, <1>4, <2>1, UnreadTypes DEF CtlLosesSocket, SocketTypes, QueueTypes, wire
  <2> QED BY <1>0, <1>4, <2>2 DEF CtlLosesSocket, NoLink, GuestLinkDown, CtlTypes, CtlInv
<1>5. CASE CtlReceive
  <2>1. cSock \in Sockets /\ toCtl \in [Sockets -> Seq(CtlMsgs)] /\ \A s \in Sockets : Len(toCtl[s]) <= MaxQueue
    BY <1>0, <1>5, Bounds DEF CtlReceive, SocketTypes, QueueTypes, Sockets
  <2>2. /\ Head(toCtl[cSock]) \in CtlMsgs
        /\ toCtl' \in [Sockets -> Seq(CtlMsgs)] /\ \A s \in Sockets : Len(toCtl'[s]) <= MaxQueue
    BY <1>5, <2>1, TakesTypes DEF CtlReceive
  <2> QED BY <1>5, <2>2, PeerMessageBasics DEF CtlReceive
<1>6. CASE GuestAdvertises
  <2>1. PICK a \in Images, db \in Images \cup {0} :
          CtlSends(<<Msg("AdvertisingOn", 0, a)>> \o publishGatt(db)) /\ published' = db
    BY <1>6 DEF GuestAdvertises
  <2>2. Msg("AdvertisingOn", 0, a) \in PeerMsg /\ Msg("Gatt", 0, db) \in PeerMsg
    BY PeerMsgType DEF PeerKinds
  <2>3. <<Msg("AdvertisingOn", 0, a)>> \o publishGatt(db) \in Seq(PeerMsg)
    BY <2>2, ConcatProperties DEF publishGatt
  <2>4. SocketTypes' /\ QueueTypes'
    BY <1>6, <2>1, <2>3, GuestSends DEF GuestAdvertises
  <2> QED BY <1>0, <1>6, <2>1, <2>4 DEF GuestAdvertises, CtlTypes, CtlInv
<1>7. CASE GuestStopsAdvertising
  <2>1. PICK a \in Images : CtlSends(<<Msg("AdvertisingOff", 0, a)>>)
    BY <1>7 DEF GuestStopsAdvertising
  <2>2. <<Msg("AdvertisingOff", 0, a)>> \in Seq(PeerMsg)
    BY PeerMsgType DEF PeerKinds
  <2>4. SocketTypes' /\ QueueTypes' /\ (cSock' # 0 => cSock # 0)
    BY <1>7, <2>1, <2>2, GuestSends DEF GuestStopsAdvertising
  <2> QED BY <1>0, <1>7, <2>1, <2>4 DEF GuestStopsAdvertising, CtlTypes, CtlInv
<1>8. CASE GuestDisconnects
  <2>4. SocketTypes' /\ QueueTypes'
    BY <1>8, DisconnectedType, GuestSends DEF GuestDisconnects
  <2> QED BY <1>0, <1>8, <2>4 DEF GuestDisconnects, NoLink, GuestLinkDown, CtlTypes, CtlInv
<1>9. CASE GuestResets
  <2>4. SocketTypes' /\ QueueTypes' /\ (cSock' # 0 => cSock # 0)
    BY <1>9, DisconnectedType, GuestSends DEF GuestResets
  <2> QED BY <1>0, <1>9, <2>4 DEF GuestResets, NoLink, GuestLinkDown, CtlTypes, CtlInv
<1>10. CASE GuestAnswersAtt
  <2>1. PICK k \in {"Att", "AttSecurity"} : CtlSends(<<Msg(k, conn, 0)>>)
    BY <1>10 DEF GuestAnswersAtt
  <2>2. <<Msg(k, conn, 0)>> \in Seq(PeerMsg)
    BY <1>0, PeerMsgType DEF PeerKinds
  <2>4. SocketTypes' /\ QueueTypes'
    BY <1>10, <2>1, <2>2, GuestSends DEF GuestAnswersAtt
  <2> QED BY <1>0, <1>10, <2>1, <2>4 DEF GuestAnswersAtt, CtlTypes, CtlInv
<1>11. CASE GuestPairs
  <2>2. <<Msg("Smp", conn, conn)>> \in Seq(PeerMsg)
    BY <1>0, PeerMsgType DEF PeerKinds
  <2>4. SocketTypes' /\ QueueTypes'
    BY <1>11, <2>2, GuestSends DEF GuestPairs
  <2> QED BY <1>0, <1>11, <2>4 DEF GuestPairs, CtlTypes, CtlInv
<1>12. CASE GuestRequestsSecurity
  <2>2. <<Msg("SecurityRequest", conn, 0)>> \in Seq(PeerMsg)
    BY <1>0, PeerMsgType DEF PeerKinds
  <2>4. SocketTypes' /\ QueueTypes'
    BY <1>12, <2>2, GuestSends DEF GuestRequestsSecurity
  <2> QED BY <1>0, <1>12, <2>4 DEF GuestRequestsSecurity, CtlTypes, CtlInv
<1>13. CASE GuestAnswersKey
  <2>1. PICK status \in {0, 5, 6} :
          /\ CtlSends(<<Msg("Encryption", conn, status)>>)
          /\ cEncrypted' = (status = 0)
          /\ guestBond' = IF status = 0 THEN cKey ELSE guestBond
    BY <1>13 DEF GuestAnswersKey
  <2>2. <<Msg("Encryption", conn, status)>> \in Seq(PeerMsg)
    BY <1>0, PeerMsgType DEF PeerKinds
  <2>4. SocketTypes' /\ QueueTypes'
    BY <1>13, <2>1, <2>2, GuestSends DEF GuestAnswersKey
  <2> QED BY <1>0, <1>13, <2>1, <2>4 DEF GuestAnswersKey, CtlTypes, CtlInv
<1> QED
  BY <1>1, <1>2, <1>3, <1>4, <1>5, <1>6, <1>7, <1>8, <1>9, <1>10, <1>11, <1>12, <1>13 DEF CtlStep

-----------------------------------------------------------------------------
(* Steps of the peer.                                                      *)

(* What a handler may do to the peer's end of its socket.                  *)
EarTypes ==
  /\ pSock' \in {0, pSock}
  /\ toCtl' \in [Sockets -> Seq(CtlMsgs)] /\ \A s \in Sockets : Len(toCtl'[s]) <= MaxQueue

LEMMA EarSends == ASSUME LinkTypes, NEW k \in CtlKinds, NEW g \in Keys, NEW v \in Keys PROVE
  /\ <<Msg(k, g, v)>> \in Seq(CtlMsgs)
  /\ PeerSends(<<Msg(k, g, v)>>) => EarTypes
<1>1. <<Msg(k, g, v)>> \in Seq(CtlMsgs)
  BY CtlMsgType
<1> QED BY <1>1, PeerSent DEF EarTypes

LEMMA EarStays == ASSUME LinkTypes, UNCHANGED <<toCtl, pSock>> PROVE EarTypes
BY DEF EarTypes, LinkTypes, QueueTypes

LEMMA EarSendsNothing == ASSUME LinkTypes, PeerSends(<<>>) PROVE EarTypes
<1>1. <<>> \in Seq(CtlMsgs)
  OBVIOUS
<1> QED BY <1>1, PeerSent DEF EarTypes

LEMMA Disconnects ==
  ASSUME LinkTypes, disconnect
  PROVE  /\ EarTypes
         /\ closing => UNCHANGED <<toCtl, pSock, session, closes>>
         /\ ~closing => closing' = (generation # 0 \/ connecting) /\ closingGeneration' = generation /\ clearLink
         /\ ~closing /\ generation = 0 => PeerSends(<<>>)
         /\ ~closing /\ generation # 0 => PeerSends(<<Msg("Disconnect", generation, 0)>>)
<1>1. generation \in Keys /\ 0 \in Keys
  BY KeyFacts DEF LinkTypes, PeerTypes
<1>2. closing => UNCHANGED <<toCtl, pSock, session, closes>>
  BY DEF disconnect
<1>3. ~closing => closing' = (generation # 0 \/ connecting) /\ closingGeneration' = generation /\ clearLink
  BY DEF disconnect
<1>4. ~closing /\ generation = 0 => PeerSends(<<>>)
  BY DEF disconnect
<1>5. ~closing /\ generation # 0 => PeerSends(<<Msg("Disconnect", generation, 0)>>)
  BY DEF disconnect
<1>6. ~closing /\ generation # 0 => EarTypes
  BY <1>1, <1>5, EarSends DEF CtlKinds
<1>7. EarTypes
  BY <1>2, <1>4, <1>6, EarSendsNothing, EarStays
<1> QED BY <1>2, <1>3, <1>4, <1>5, <1>7

(* The session after disconnect(): none, unless it was closing already.    *)
NoSession ==
  /\ ~connecting /\ generation = 0 /\ setup = 0 /\ requests = 0
  /\ ~attBusy /\ ~attSecurityPending /\ smp = "Idle" /\ ~ready
  /\ connecting \in BOOLEAN /\ attBusy \in BOOLEAN /\ attSecurityPending \in BOOLEAN /\ ready \in BOOLEAN
  /\ sessionRequested \in BOOLEAN /\ closing \in BOOLEAN /\ closingGeneration \in Keys

LEMMA DisconnectedSession ==
  ASSUME LinkTypes, PeerInv, disconnect
  PROVE  /\ EarTypes /\ NoSession'
         /\ (~closing => ~sessionRequested') /\ (closing => sessionRequested' = sessionRequested)
         /\ (~closing /\ generation = 0 /\ ~connecting => ~closing')
         /\ (closing => closing')
<1>1. EarTypes
  BY Disconnects
<1>2. closing => NoSession
  BY DEF LinkTypes, PeerTypes, PeerInv, SessionInv, NoSession
<1>3. closing => UNCHANGED <<session, closes>>
  BY Disconnects
<1>4. closing => NoSession' /\ sessionRequested' = sessionRequested /\ closing'
  BY <1>2, <1>3 DEF session, closes, attention, NoSession
<1>5. ~closing => closing' = (generation # 0 \/ connecting) /\ closingGeneration' = generation /\ clearLink
  BY Disconnects
<1>6. ~closing => NoSession' /\ ~sessionRequested'
  BY <1>5 DEF LinkTypes, PeerTypes, clearLink, NoSession
<1> QED BY <1>1, <1>4, <1>5, <1>6

PeerBasics == PeerTypes /\ PeerInv

(* Any handler that ends the session, and sets what it likes of the rest.  *)
LEMMA PeerDrops ==
  ASSUME LinkTypes, PeerInv, disconnect, UNCHANGED <<bond, transport>>, enabled' \in BOOLEAN,
         polling' \in BOOLEAN, failed' \in BOOLEAN, pAdvertising' \in BOOLEAN,
         pImage' \in Images \cup {0}, catalog' \in Images \cup {0},
         transport \/ (~pAdvertising' /\ catalog' = 0)
  PROVE  EarTypes /\ PeerBasics'
<1>1. /\ EarTypes /\ NoSession'
      /\ (~closing => ~sessionRequested') /\ (closing => sessionRequested' = sessionRequested)
      /\ (~closing /\ generation = 0 /\ ~connecting => ~closing')
  BY DisconnectedSession
<1>2. bond' \in Keys
  BY DEF LinkTypes, PeerTypes
<1>3. PeerTypes'
  BY ONLY <1>1, <1>2, Bounds, KeyFacts, enabled' \in BOOLEAN,
         polling' \in BOOLEAN, failed' \in BOOLEAN, pAdvertising' \in BOOLEAN,
         pImage' \in Images \cup {0}, catalog' \in Images \cup {0} DEF PeerTypes, SmpStates, NoSession
<1>4. SessionInv'
  BY <1>1 DEF PeerInv, SessionInv, LinkTypes, PeerTypes, SocketTypes, NoSession
<1>5. SecurityInv'
  BY <1>1 DEF SecurityInv, NoSession
<1> QED BY <1>1, <1>3, <1>4, <1>5 DEF PeerInv, PeerBasics

(* A handler of receive(), called with a message of the open transport.    *)
Handles ==
  /\ LinkTypes /\ PeerInv /\ transport = TRUE /\ transport' = TRUE
  /\ UNCHANGED <<enabled, transport>> /\ polling' \in BOOLEAN

LEMMA FailsBasics == ASSUME Handles, Fails PROVE EarTypes /\ PeerBasics'
<1>1. LinkTypes /\ PeerInv /\ disconnect /\ UNCHANGED <<bond, transport>> /\ transport
  BY DEF Handles, Fails
<1>2. enabled' \in BOOLEAN /\ polling' \in BOOLEAN /\ failed' \in BOOLEAN /\ pAdvertising' \in BOOLEAN
  BY DEF Handles, Fails, LinkTypes, PeerTypes
<1>3. pImage' \in Images \cup {0} /\ catalog' \in Images \cup {0}
  BY DEF Handles, Fails, LinkTypes, PeerTypes
<1> QED BY <1>1, <1>2, <1>3, PeerDrops

(* A handler that leaves the session alone.                                *)
LEMMA IgnoresBasics ==
  ASSUME Handles, UNCHANGED <<toCtl, pSock, session, closes, bond>>,
         failed' \in BOOLEAN, pAdvertising' \in BOOLEAN, pImage' \in Images \cup {0}, catalog' \in Images \cup {0},
         catalog = 0 \/ catalog' # 0
  PROVE  EarTypes /\ PeerBasics'
<1>1. EarTypes
  BY EarStays DEF Handles
<1>2. PeerTypes'
  BY DEF Handles, LinkTypes, PeerTypes, session, attention, closes
<1>3. SessionInv'
  BY DEF Handles, PeerInv, SessionInv, session, attention, closes
<1>4. SecurityInv'
  BY DEF Handles, PeerInv, SecurityInv, session, attention, closes
<1> QED BY <1>1, <1>2, <1>3, <1>4 DEF PeerBasics, PeerInv

LEMMA CatalogBasics == ASSUME Handles, NEW m \in PeerMsg, receiveCatalog(m) PROVE EarTypes /\ PeerBasics'
<1>1. CASE m.val = 0 /\ Fails
  BY <1>1, FailsBasics
<1>2. CASE m.val # 0 /\ catalog = m.val /\ Stays /\ UNCHANGED <<toCtl, pSock, session, bond>>
  <2>1. UNCHANGED <<toCtl, pSock, session, closes, bond>>
    BY <1>2 DEF Stays
  <2>2. failed' \in BOOLEAN /\ pAdvertising' \in BOOLEAN
    BY <1>2 DEF Stays, Handles, LinkTypes, PeerTypes, publication
  <2>3. pImage' \in Images \cup {0} /\ catalog' \in Images \cup {0} /\ (catalog = 0 \/ catalog' # 0)
    BY <1>2 DEF Stays, Handles, LinkTypes, PeerTypes, publication
  <2> QED BY <2>1, <2>2, <2>3, IgnoresBasics
<1>3. CASE m.val # 0 /\ catalog # m.val /\ disconnect /\ catalog' = m.val /\ UNCHANGED <<failed, pAdvertising, pImage, bond>>
  <2>1. LinkTypes /\ PeerInv /\ disconnect /\ UNCHANGED <<bond, transport>> /\ transport
    BY <1>3 DEF Handles
  <2>2. enabled' \in BOOLEAN /\ polling' \in BOOLEAN /\ failed' \in BOOLEAN /\ pAdvertising' \in BOOLEAN
    BY <1>3 DEF Handles, LinkTypes, PeerTypes
  <2>3. pImage' \in Images \cup {0} /\ catalog' \in Images \cup {0}
    BY <1>3 DEF Handles, LinkTypes, PeerTypes, PeerMsg, receiveCatalog
  <2> QED BY <2>1, <2>2, <2>3, PeerDrops
<1> QED BY <1>1, <1>2, <1>3 DEF receiveCatalog

LEMMA AdvertisementBasics == ASSUME Handles, NEW m \in PeerMsg, advertisement(m) PROVE EarTypes /\ PeerBasics'
<1>1. pAdvertising' \in BOOLEAN /\ pImage' \in Images \cup {0} /\ UNCHANGED <<failed, bond>> /\ failed' \in BOOLEAN
  BY DEF advertisement, PeerMsg, Handles, LinkTypes, PeerTypes
<1>2. CASE disconnect /\ catalog' = 0
  <2>1. LinkTypes /\ PeerInv /\ disconnect /\ UNCHANGED <<bond, transport>> /\ transport
    BY <1>1, <1>2 DEF Handles
  <2>2. enabled' \in BOOLEAN /\ polling' \in BOOLEAN
    BY DEF Handles, LinkTypes, PeerTypes
  <2> QED BY <1>1, <1>2, <2>1, <2>2, PeerDrops
<1>3. CASE UNCHANGED <<toCtl, pSock, session, closes, catalog>>
  <2>1. catalog' \in Images \cup {0} /\ (catalog = 0 \/ catalog' # 0)
    BY <1>3 DEF Handles, LinkTypes, PeerTypes
  <2> QED BY <1>1, <1>3, <2>1, IgnoresBasics
<1> QED BY <1>2, <1>3 DEF advertisement

(* clearLink and noClose leave no session.                                 *)
LEMMA Clears ==
  ASSUME PeerTypes, clearLink, closing' \in BOOLEAN, closingGeneration' \in Keys
  PROVE  NoSession' /\ ~sessionRequested'
BY DEF clearLink, NoSession

(* A step that leaves no session.                                          *)
LEMMA NoSessionBasics ==
  ASSUME NoSession', bond' \in Keys, enabled' \in BOOLEAN, polling' \in BOOLEAN, failed' \in BOOLEAN,
         pAdvertising' \in BOOLEAN, pImage' \in Images \cup {0}, catalog' \in Images \cup {0},
         transport' \/ (~pAdvertising' /\ catalog' = 0 /\ ~closing' /\ ~sessionRequested')
  PROVE  PeerBasics'
<1>1. PeerTypes'
  BY Bounds, KeyFacts DEF PeerTypes, NoSession, SmpStates
<1>2. SessionInv' /\ SecurityInv'
  BY DEF SessionInv, SecurityInv, NoSession
<1> QED BY <1>1, <1>2 DEF PeerInv, PeerBasics

LEMMA ResetBasics == ASSUME Handles, NEW m \in PeerMsg, receiveReset(m) PROVE EarTypes /\ PeerBasics'
<1>1. EarTypes
  BY EarStays DEF receiveReset, Handles
<1>2. NoSession'
  BY Clears, KeyFacts DEF receiveReset, noClose, Handles, LinkTypes
<1>3. /\ bond' \in Keys /\ enabled' \in BOOLEAN /\ polling' \in BOOLEAN /\ failed' \in BOOLEAN
      /\ pAdvertising' \in BOOLEAN /\ transport'
  BY DEF receiveReset, Handles, LinkTypes, PeerTypes
<1>4. pImage' \in Images \cup {0} /\ catalog' \in Images \cup {0}
  BY DEF receiveReset, Handles, LinkTypes, PeerTypes
<1> QED BY <1>1, <1>2, <1>3, <1>4, NoSessionBasics

LEMMA ConnectedBasics ==
  ASSUME Handles, NEW m \in PeerMsg, receiveConnected(m), m.gen # 0, generation = 0
  PROVE  EarTypes /\ PeerBasics'
<1>0. m.gen \in Keys /\ bond \in Keys /\ LinkTypes
  BY DEF Handles, LinkTypes, PeerTypes, PeerMsg, PeerMsgs, Keys
<1>1. CASE /\ ~AcceptsConnection(m)
           /\ closing' = TRUE /\ closingGeneration' = m.gen
           /\ PeerSends(<<Msg("Disconnect", m.gen, 0)>>)
           /\ UNCHANGED <<failed, publication, session, bond>>
  <2>1. EarTypes
    BY <1>0, <1>1, EarSends, KeyFacts DEF CtlKinds
  <2>2. ~connecting
    BY <1>1 DEF AcceptsConnection, Handles, PeerInv, SessionInv
  <2>3. PeerTypes'
    BY <1>0, <1>1 DEF Handles, LinkTypes, PeerTypes, session, publication, attention
  <2>4. SessionInv' /\ SecurityInv'
    BY <1>1, <2>2 DEF Handles, PeerInv, SessionInv, SecurityInv, session, publication, attention
  <2> QED BY <2>1, <2>3, <2>4 DEF PeerInv, PeerBasics
<1>2. CASE /\ AcceptsConnection(m)
           /\ generation' = m.gen /\ connecting' = FALSE /\ pAdvertising' = FALSE
           /\ setup' = SetupSteps /\ requests' = 1
           /\ attSecurityPending' = (bond # 0) /\ attBusy' = (bond = 0)
           /\ smp' = IF bond # 0 THEN "Restoring" ELSE smp
           /\ IF bond # 0 THEN requestEncryption(m.gen, bond) ELSE PeerSends(<<Msg("Att", m.gen, 0)>>)
           /\ UNCHANGED <<failed, pImage, catalog, ready, sessionRequested, closes, bond>>
  <2>1. EarTypes
    BY <1>0, <1>2, EarSends, KeyFacts DEF CtlKinds, requestEncryption
  <2>2. ~closing /\ smp = "Idle" /\ ~ready
    BY <1>2 DEF AcceptsConnection, Handles, PeerInv, SessionInv
  <2>6. generation' # 0 /\ requests' > 0 /\ transport'
    BY <1>2 DEF Handles
  <2>7. closing' = closing /\ ready' = ready /\ connecting' = FALSE
    BY <1>2 DEF closes
  <2>8. ~closing' /\ ~ready' /\ ~connecting'
    BY <2>2, <2>7
  <2>9. attSecurityPending' \in BOOLEAN /\ attBusy' \in BOOLEAN
    BY <1>2
  <2>10. setup' \in 0..SetupSteps /\ requests' \in 0..MaxRequests /\ smp' \in SmpStates
    BY <1>2, <2>2, Bounds DEF SmpStates
  <2>11. UNCHANGED <<failed, pImage, catalog, ready, sessionRequested, closes, bond>> /\ pAdvertising' = FALSE /\ generation' = m.gen
    BY <1>2
  <2>3. PeerTypes'
    BY <1>0, <2>7, <2>9, <2>10, <2>11 DEF Handles, LinkTypes, PeerTypes, closes
  <2>4. SessionInv'
    BY ONLY <2>6, <2>8 DEF SessionInv
  <2>5. SecurityInv'
    BY <1>2, <2>2 DEF Handles, PeerInv, SecurityInv
  <2> QED BY <2>1, <2>3, <2>4, <2>5 DEF PeerInv, PeerBasics
<1> QED BY <1>1, <1>2 DEF receiveConnected

LEMMA RejectedBasics == ASSUME Handles, NEW m \in PeerMsg, receiveRejected(m) PROVE EarTypes /\ PeerBasics'
<1>1. CASE Stays /\ UNCHANGED <<toCtl, pSock, session, bond>>
  <2>1. UNCHANGED <<toCtl, pSock, session, closes, bond>>
    BY <1>1 DEF Stays
  <2>2. failed' \in BOOLEAN /\ pAdvertising' \in BOOLEAN
    BY <1>1 DEF Stays, Handles, LinkTypes, PeerTypes, publication
  <2>3. pImage' \in Images \cup {0} /\ catalog' \in Images \cup {0} /\ (catalog = 0 \/ catalog' # 0)
    BY <1>1 DEF Stays, Handles, LinkTypes, PeerTypes, publication
  <2> QED BY <2>1, <2>2, <2>3, IgnoresBasics
<1>2. CASE Fails
  BY <1>2, FailsBasics
<1> QED BY <1>1, <1>2 DEF receiveRejected

(* A handler that keeps the link.                                          *)
LEMMA KeepsLink ==
  ASSUME Handles, generation # 0, Stays, UNCHANGED <<connecting, sessionRequested, generation>>,
         bond' \in Keys, ready' \in BOOLEAN, setup' \in 0..SetupSteps, requests' \in 0..MaxRequests,
         attBusy' \in BOOLEAN, attSecurityPending' \in BOOLEAN, smp' \in SmpStates,
         ready' => catalog # 0 /\ sessionRequested /\ setup' = 0,
         attBusy' => requests' > 0,
         SecurityInv'
  PROVE  PeerBasics'
<1>1. UNCHANGED <<failed, pAdvertising, pImage, catalog, closing, closingGeneration>>
  BY DEF Stays, publication, closes
<1>2. PeerTypes'
  BY <1>1 DEF Handles, LinkTypes, PeerTypes
<1>3. ~closing
  BY DEF Handles, PeerInv, SessionInv
<1>4. ~closing' /\ (~enabled' => ~connecting')
  BY <1>1, <1>3 DEF Handles, PeerInv, SessionInv
<1>5. SessionInv'
  BY <1>1, <1>4 DEF Handles, SessionInv
<1> QED BY <1>2, <1>5 DEF PeerBasics, PeerInv

LEMMA Starts ==
  ASSUME Handles, start, generation # 0
  PROVE  /\ EarTypes
         /\ smp' = smp \/ (smp = "Idle" /\ bond = 0 /\ smp' = "Pairing")
<1>1. CASE smp # "Idle"
  BY <1>1, EarStays DEF start, Handles
<1>2. CASE smp = "Idle"
  <2>1. bond = 0
    BY <1>2 DEF Handles, PeerInv, SecurityInv
  <2>2. pair
    BY <1>2, <2>1 DEF start
  <2>3. generation \in Keys /\ LinkTypes
    BY DEF Handles, LinkTypes, PeerTypes
  <2>4. EarTypes
    BY <2>2, <2>3, EarSends, KeyFacts DEF pair, CtlKinds
  <2> QED BY <1>2, <2>1, <2>2, <2>4 DEF pair
<1> QED BY <1>1, <1>2

LEMMA SendsNext ==
  ASSUME LinkTypes, NEW left \in 0..MaxRequests, sendNext(left)
  PROVE  /\ EarTypes
         /\ requests' = left /\ attBusy' \in BOOLEAN /\ (attBusy' => requests' > 0)
         /\ attBusy' = (left > 0)
<1>1. generation \in Keys /\ 0 \in Keys /\ left \in Int
  BY KeyFacts, Bounds DEF LinkTypes, PeerTypes
<1>2. left > 0 => PeerSends(<<Msg("Att", generation, 0)>>)
  BY DEF sendNext
<1>3. ~(left > 0) => PeerSends(<<>>)
  BY DEF sendNext
<1>4. EarTypes
  BY <1>1, <1>2, <1>3, EarSends, EarSendsNothing DEF CtlKinds
<1>5. requests' = left /\ attBusy' = (left > 0)
  BY DEF sendNext
<1>6. attBusy' \in BOOLEAN
  BY <1>5
<1>7. attBusy' => left > 0
  BY <1>5
<1>8. attBusy' => requests' > 0
  BY <1>5, <1>7
<1> QED BY <1>4, <1>5, <1>6, <1>8

LEMMA AttBasics ==
  ASSUME Handles, NEW m \in PeerMsg, receiveAtt(m), generation # 0
  PROVE  EarTypes /\ PeerBasics'
<1> DEFINE denied == m.kind = "AttSecurity" /\ smp = "Encrypted"
           retry == m.kind = "AttSecurity" /\ smp # "Encrypted"
<1>0. LinkTypes /\ SessionInv /\ SecurityInv /\ PeerTypes
  BY DEF Handles, PeerInv, LinkTypes
<1>1. CASE Fails
  BY <1>1, FailsBasics
<1>2. CASE /\ attBusy /\ retry
           /\ attBusy' = FALSE /\ attSecurityPending' = TRUE
           /\ start
           /\ Stays /\ UNCHANGED <<connecting, ready, sessionRequested, generation, setup, requests, bond>>
  <2>1. EarTypes /\ (smp' = smp \/ (smp = "Idle" /\ bond = 0 /\ smp' = "Pairing"))
    BY <1>2, Starts
  <2>2. SecurityInv'
    BY <1>0, <1>2, <2>1 DEF SecurityInv
  <2>3. smp' \in SmpStates /\ attBusy' = FALSE /\ attSecurityPending' = TRUE
    BY <1>0, <1>2, <2>1 DEF SmpStates, PeerTypes
  <2>4. bond' \in Keys /\ ready' \in BOOLEAN /\ setup' \in 0..SetupSteps /\ requests' \in 0..MaxRequests
    BY <1>0, <1>2 DEF PeerTypes
  <2>5. ready' => catalog # 0 /\ sessionRequested /\ setup' = 0
    BY <1>0, <1>2 DEF SessionInv
  <2>6. PeerBasics'
    BY <1>2, <2>2, <2>3, <2>4, <2>5, KeepsLink
  <2> QED BY <2>1, <2>6
<1>3. CASE /\ attBusy /\ ~retry /\ setup > 0 /\ ~DiscoveryFails(denied)
           /\ discoverNext
           /\ Stays /\ UNCHANGED <<connecting, sessionRequested, generation, attSecurityPending, smp, bond>>
  <2>0. setup \in 0..SetupSteps
    BY <1>0 DEF PeerTypes
  <2>1. setup' = setup - 1 /\ ready' = (setup = 1) /\ sendNext(IF setup = 1 THEN 0 ELSE 1)
    BY <1>3 DEF discoverNext
  <2>2. (IF setup = 1 THEN 0 ELSE 1) \in 0..MaxRequests
    BY Bounds
  <2>3. EarTypes /\ attBusy' \in BOOLEAN /\ (attBusy' => requests' > 0) /\ requests' \in 0..MaxRequests
    BY <1>0, <2>1, <2>2, SendsNext
  <2>4. setup' \in 0..SetupSteps /\ ready' \in BOOLEAN
    BY <1>3, <2>0, <2>1, Bounds
  <2>5. setup = 1 => catalog # 0 /\ sessionRequested
    BY <1>3 DEF DiscoveryFails
  <2>10. ready' => setup = 1
    BY <2>1
  <2>11. setup = 1 => setup' = 0
    BY <2>1
  <2>6. ready' => catalog # 0 /\ sessionRequested /\ setup' = 0
    BY <2>5, <2>10, <2>11
  <2>7. SecurityInv'
    BY <1>0, <1>3 DEF SecurityInv
  <2>8. bond' \in Keys /\ attSecurityPending' \in BOOLEAN /\ smp' \in SmpStates
    BY <1>0, <1>3 DEF PeerTypes
  <2>9. PeerBasics'
    BY <1>3, <2>3, <2>4, <2>6, <2>7, <2>8, KeepsLink
  <2> QED BY <2>3, <2>9
<1>4. CASE /\ attBusy /\ ~retry /\ setup = 0
           /\ sendNext(requests - 1)
           /\ Stays /\ UNCHANGED <<connecting, ready, sessionRequested, generation, setup, attSecurityPending, smp, bond>>
  <2>0. requests \in 0..MaxRequests /\ requests > 0
    BY <1>0, <1>4 DEF PeerTypes, SessionInv
  <2>2. requests - 1 \in 0..MaxRequests
    BY <2>0, Bounds
  <2>3. EarTypes /\ attBusy' \in BOOLEAN /\ (attBusy' => requests' > 0) /\ requests' \in 0..MaxRequests
    BY <1>0, <1>4, <2>2, SendsNext
  <2>4. setup' \in 0..SetupSteps /\ ready' \in BOOLEAN
    BY <1>0, <1>4 DEF PeerTypes
  <2>6. ready' => catalog # 0 /\ sessionRequested /\ setup' = 0
    BY <1>0, <1>4 DEF SessionInv
  <2>7. SecurityInv'
    BY <1>0, <1>4 DEF SecurityInv
  <2>8. bond' \in Keys /\ attSecurityPending' \in BOOLEAN /\ smp' \in SmpStates
    BY <1>0, <1>4 DEF PeerTypes
  <2>9. PeerBasics'
    BY <1>4, <2>3, <2>4, <2>6, <2>7, <2>8, KeepsLink
  <2> QED BY <2>3, <2>9
<1> QED BY <1>1, <1>2, <1>3, <1>4 DEF receiveAtt

LEMMA SmpBasics ==
  ASSUME Handles, NEW m \in PeerMsg, receiveSmp(m), generation # 0
  PROVE  EarTypes /\ PeerBasics'
<1>0. LinkTypes /\ SessionInv /\ SecurityInv /\ PeerTypes
  BY DEF Handles, PeerInv, LinkTypes
<1>1. CASE Fails
  BY <1>1, FailsBasics
<1>2. ASSUME Stays, UNCHANGED <<connecting, ready, sessionRequested, generation, setup, requests, attBusy, attSecurityPending, bond>>,
             smp' \in SmpStates, SecurityInv'
      PROVE  PeerBasics'
  <2>1. bond' \in Keys /\ ready' \in BOOLEAN /\ setup' \in 0..SetupSteps /\ requests' \in 0..MaxRequests
    BY <1>0, <1>2 DEF PeerTypes
  <2>2. attBusy' \in BOOLEAN /\ attSecurityPending' \in BOOLEAN
    BY <1>0, <1>2 DEF PeerTypes
  <2>3. ready' => catalog # 0 /\ sessionRequested /\ setup' = 0
    BY <1>0, <1>2 DEF SessionInv
  <2>4. attBusy' => requests' > 0
    BY <1>0, <1>2 DEF SessionInv
  <2> QED BY <1>2, <2>1, <2>2, <2>3, <2>4, KeepsLink
<1>3. CASE /\ m.kind = "SecurityRequest" /\ start
           /\ Stays /\ UNCHANGED <<connecting, ready, sessionRequested, generation, setup, requests, attBusy, attSecurityPending, bond>>
  <2>1. EarTypes /\ (smp' = smp \/ (smp = "Idle" /\ bond = 0 /\ smp' = "Pairing"))
    BY <1>3, Starts
  <2>2. SecurityInv'
    BY <1>0, <1>3, <2>1 DEF SecurityInv
  <2>3. smp' \in SmpStates
    BY <1>0, <2>1 DEF SmpStates, PeerTypes
  <2> QED BY <1>2, <1>3, <2>1, <2>2, <2>3
<1>4. CASE /\ m.kind = "Smp" /\ smp = "Pairing"
           /\ smp' = "Encrypting"
           /\ requestEncryption(generation, m.val)
           /\ Stays /\ UNCHANGED <<connecting, ready, sessionRequested, generation, setup, requests, attBusy, attSecurityPending, bond>>
  <2>0. m.val \in Keys /\ generation \in Keys
    BY <1>0, <1>4 DEF PeerMsg, PeerMsgs, PeerTypes, Keys
  <2>1. EarTypes
    BY <1>0, <1>4, <2>0, EarSends DEF requestEncryption, CtlKinds
  <2>2. SecurityInv'
    BY <1>0, <1>4, <2>1 DEF SecurityInv
  <2>3. smp' \in SmpStates
    BY <1>4 DEF SmpStates
  <2> QED BY <1>2, <1>4, <2>1, <2>2, <2>3
<1> QED BY <1>1, <1>3, <1>4 DEF receiveSmp

LEMMA EncryptionBasics ==
  ASSUME Handles, NEW m \in PeerMsg, encryptionChanged(m), generation # 0
  PROVE  EarTypes /\ PeerBasics'
<1>0. LinkTypes /\ SessionInv /\ SecurityInv /\ PeerTypes
  BY DEF Handles, PeerInv, LinkTypes
<1>1. CASE Fails
  BY <1>1, FailsBasics
<1>2. CASE /\ m.val = 6 /\ smp = "Restoring"
           /\ bond' = 0 /\ pair
           /\ Stays /\ UNCHANGED <<connecting, ready, sessionRequested, generation, setup, requests, attBusy, attSecurityPending>>
  <2>1. EarTypes
    <3>1. generation \in Keys
      BY <1>0 DEF PeerTypes
    <3> QED BY <1>0, <1>2, <3>1, EarSends, KeyFacts DEF pair, CtlKinds
  <2>2. SecurityInv'
    BY <1>0, <1>2 DEF SecurityInv, pair
  <2>3. bond' \in Keys /\ ready' \in BOOLEAN /\ setup' \in 0..SetupSteps /\ requests' \in 0..MaxRequests
    BY <1>0, <1>2, KeyFacts DEF PeerTypes
  <2>4. attBusy' \in BOOLEAN /\ attSecurityPending' \in BOOLEAN /\ smp' \in SmpStates
    BY <1>0, <1>2 DEF PeerTypes, pair, SmpStates
  <2>5. ready' => catalog # 0 /\ sessionRequested /\ setup' = 0
    BY <1>0, <1>2 DEF SessionInv
  <2>6. attBusy' => requests' > 0
    BY <1>0, <1>2 DEF SessionInv
  <2>7. PeerBasics'
    BY <1>2, <2>2, <2>3, <2>4, <2>5, <2>6, KeepsLink
  <2> QED BY <2>1, <2>7
<1>3. CASE /\ m.val = 0 /\ smp \in {"Encrypting", "Restoring"}
           /\ bond' = IF smp = "Encrypting" THEN generation ELSE bond
           /\ smp' = "Encrypted" /\ attSecurityPending' = FALSE
           /\ IF attBusy THEN UNCHANGED <<toCtl, pSock, requests, attBusy>> ELSE sendNext(requests)
           /\ Stays /\ UNCHANGED <<connecting, ready, sessionRequested, generation, setup>>
  <2>0. requests \in 0..MaxRequests /\ attBusy \in BOOLEAN
    BY <1>0 DEF PeerTypes
  <2>1. attBusy => UNCHANGED <<toCtl, pSock, requests, attBusy>>
    BY <1>3
  <2>2. ~attBusy => sendNext(requests)
    BY <1>3
  <2>3. attBusy => requests > 0
    BY <1>0 DEF SessionInv
  <2>4. attBusy => EarTypes
    BY <1>0, <2>1, EarStays
  <2>5. ~attBusy => EarTypes /\ requests' = requests /\ attBusy' \in BOOLEAN /\ (attBusy' => requests' > 0)
    BY <1>0, <2>0, <2>2, SendsNext
  <2>6. EarTypes /\ requests' = requests /\ attBusy' \in BOOLEAN /\ (attBusy' => requests' > 0)
    BY <2>0, <2>1, <2>3, <2>4, <2>5
  <2>7. SecurityInv'
    BY <1>3 DEF SecurityInv
  <2>8. bond' \in Keys /\ ready' \in BOOLEAN /\ setup' \in 0..SetupSteps
    BY <1>0, <1>3 DEF PeerTypes
  <2>9. attSecurityPending' \in BOOLEAN /\ smp' \in SmpStates
    BY <1>3 DEF SmpStates
  <2>10. ready' => catalog # 0 /\ sessionRequested /\ setup' = 0
    BY <1>0, <1>3 DEF SessionInv
  <2>11. PeerBasics'
    BY <1>3, <2>0, <2>6, <2>7, <2>8, <2>9, <2>10, KeepsLink
  <2> QED BY <2>6, <2>11
<1> QED BY <1>1, <1>2, <1>3 DEF encryptionChanged

(* A Connected that the peer reads names a link, and finds it without one. *)
Welcome(m) == m.kind = "Connected" => m.gen # 0 /\ generation = 0

LEMMA ReceiveBasics ==
  ASSUME Handles, NEW m \in PeerMsg, receive(m), Welcome(m)
  PROVE  EarTypes /\ PeerBasics'
<1>1. CASE receiveCatalog(m)
  BY <1>1, CatalogBasics
<1>2. CASE receiveReset(m)
  BY <1>2, ResetBasics
<1>3. CASE /\ DisconnectAnswered(m)
           /\ noClose
           /\ UNCHANGED <<toCtl, pSock, failed, publication, session, bond>>
  <2>1. EarTypes
    BY <1>3, EarStays DEF Handles
  <2>2. closing' = FALSE /\ closingGeneration' = 0
    BY <1>3 DEF noClose
  <2>3. PeerTypes'
    BY <1>3, <2>2, KeyFacts DEF Handles, LinkTypes, PeerTypes, session, publication, attention
  <2>4. SessionInv'
    BY <1>3, <2>2 DEF Handles, PeerInv, SessionInv, session, publication, attention
  <2>5. SecurityInv'
    BY <1>3 DEF Handles, PeerInv, SecurityInv, session, attention
  <2> QED BY <2>1, <2>3, <2>4, <2>5 DEF PeerInv, PeerBasics
<1>4. CASE advertisement(m)
  BY <1>4, AdvertisementBasics
<1>5. CASE receiveConnected(m)
  BY <1>5, ConnectedBasics DEF Welcome, receiveConnected
<1>6. CASE receiveRejected(m)
  BY <1>6, RejectedBasics
<1>7. CASE Stays /\ UNCHANGED <<toCtl, pSock, session, bond>>
  <2>1. UNCHANGED <<toCtl, pSock, session, closes, bond>>
    BY <1>7 DEF Stays
  <2>2. failed' \in BOOLEAN /\ pAdvertising' \in BOOLEAN
    BY <1>7 DEF Stays, Handles, LinkTypes, PeerTypes, publication
  <2>3. pImage' \in Images \cup {0} /\ catalog' \in Images \cup {0} /\ (catalog = 0 \/ catalog' # 0)
    BY <1>7 DEF Stays, Handles, LinkTypes, PeerTypes, publication
  <2> QED BY <2>1, <2>2, <2>3, IgnoresBasics
<1>8. CASE clearLink /\ Stays /\ UNCHANGED <<toCtl, pSock, bond>>
  <2>1. EarTypes
    BY <1>8, EarStays DEF Handles
  <2>2. NoSession'
    <3>1. PeerTypes /\ closing' \in BOOLEAN /\ closingGeneration' \in Keys
      BY <1>8 DEF Handles, LinkTypes, PeerTypes, Stays, closes
    <3> QED BY <1>8, <3>1, Clears
  <2>3. /\ bond' \in Keys /\ enabled' \in BOOLEAN /\ polling' \in BOOLEAN /\ failed' \in BOOLEAN
        /\ pAdvertising' \in BOOLEAN /\ transport'
    BY <1>8 DEF Stays, publication, Handles, LinkTypes, PeerTypes
  <2>4. pImage' \in Images \cup {0} /\ catalog' \in Images \cup {0}
    BY <1>8 DEF Stays, publication, Handles, LinkTypes, PeerTypes
  <2> QED BY <2>1, <2>2, <2>3, <2>4, NoSessionBasics
<1>9. CASE CurrentLink(m) /\ receiveAtt(m)
  BY <1>9, AttBasics DEF CurrentLink
<1>10. CASE CurrentLink(m) /\ receiveSmp(m)
  BY <1>10, SmpBasics DEF CurrentLink
<1>11. CASE CurrentLink(m) /\ encryptionChanged(m)
  BY <1>11, EncryptionBasics DEF CurrentLink
<1> QED BY <1>1, <1>2, <1>3, <1>4, <1>5, <1>6, <1>7, <1>8, <1>9, <1>10, <1>11 DEF receive

(* The sockets and queues after a step of the peer that keeps its socket   *)
(* or loses it.                                                            *)
LEMMA PeerSockets ==
  ASSUME LinkTypes, EarTypes, UNCHANGED <<wire, cSock, cOpened, transport>>,
         toPeer' \in [Sockets -> Seq(PeerMsg)], \A s \in Sockets : Len(toPeer'[s]) <= MaxQueue
  PROVE  SocketTypes' /\ QueueTypes'
<1>1. SocketTypes'
  BY DEF LinkTypes, SocketTypes, EarTypes, wire
<1>2. QueueTypes'
  BY DEF EarTypes, QueueTypes
<1> QED BY <1>1, <1>2

LEMMA PeerLosesUnread ==
  ASSUME LinkTypes, NEW s \in Sockets \cup {0}, toPeer' = Unread(toPeer, s)
  PROVE  toPeer' \in [Sockets -> Seq(PeerMsg)] /\ \A t \in Sockets : Len(toPeer'[t]) <= MaxQueue
BY UnreadTypes DEF LinkTypes, QueueTypes

LinkBasics == SocketTypes /\ QueueTypes /\ PeerBasics

LEMMA ReadsBasics ==
  ASSUME LinkTypes, PeerInv, PollReceives, Welcome(Head(toPeer[pSock]))
  PROVE  LinkBasics'
<1>0. pSock \in Sockets /\ toPeer \in [Sockets -> Seq(PeerMsg)] /\ \A s \in Sockets : Len(toPeer[s]) <= MaxQueue
  BY Bounds DEF PollReceives, LinkTypes, SocketTypes, QueueTypes, Sockets
<1>1. toPeer' = [toPeer EXCEPT ![pSock] = Tail(toPeer[pSock])] /\ toPeer[pSock] # <<>>
  BY DEF PollReceives
<1>2. /\ Head(toPeer[pSock]) \in PeerMsg
      /\ toPeer' \in [Sockets -> Seq(PeerMsg)] /\ \A s \in Sockets : Len(toPeer'[s]) <= MaxQueue
  BY <1>0, <1>1, TakesTypes
<1>3. transport = TRUE
  BY DEF PollReceives, LinkTypes, SocketTypes
<1>4. polling' \in BOOLEAN
  BY DEF PollReceives, Unfinished, ConnectWanted
<1>5. Handles
  BY <1>3, <1>4 DEF Handles, PollReceives, mode
<1>6. EarTypes /\ PeerBasics'
  BY <1>2, <1>5, ReceiveBasics DEF PollReceives
<1>7. UNCHANGED <<wire, cSock, cOpened, transport>>
  BY DEF PollReceives, mode, controller, radio
<1>8. SocketTypes' /\ QueueTypes'
  BY <1>2, <1>6, <1>7, PeerSockets
<1> QED BY <1>6, <1>8 DEF LinkBasics

LEMMA AcceptsBasics == ASSUME LinkTypes, PeerInv, PollAccepts PROVE LinkBasics'
<1>0. SocketTypes /\ QueueTypes /\ PeerTypes /\ SessionInv /\ SecurityInv /\ pSock = 0
  BY DEF LinkTypes, PeerInv, PollAccepts
<1>1. acceptedSockets \in Sockets \cup {0}
  BY <1>0, Bounds DEF SocketTypes, Sockets
<1>2. toPeer' \in [Sockets -> Seq(PeerMsg)] /\ \A t \in Sockets : Len(toPeer'[t]) <= MaxQueue
  BY <1>1, PeerLosesUnread DEF PollAccepts
<1>3. QueueTypes'
  BY <1>0, <1>2 DEF PollAccepts, QueueTypes
<1>4. SocketTypes'
  <2>1. UNCHANGED <<opened, cSock, cOpened>>
    BY DEF PollAccepts, controller, radio
  <2>2. CASE acceptedSockets < opened
    <3>1. acceptedSockets' = acceptedSockets + 1 /\ pSock' = acceptedSockets + 1 /\ transport' = TRUE
      BY <2>2 DEF PollAccepts
    <3>2. acceptedSockets + 1 \in 0..opened /\ opened' \in 0..MaxSockets
      BY <1>0, <2>1, <2>2, Bounds DEF SocketTypes
    <3> QED BY <1>0, <2>1, <3>1, <3>2 DEF SocketTypes
  <2>3. CASE ~(acceptedSockets < opened)
    <3>1. transport' = FALSE /\ UNCHANGED <<acceptedSockets, pSock>>
      BY <2>3 DEF PollAccepts
    <3> QED BY <1>0, <2>1, <3>1 DEF SocketTypes
  <2> QED BY <2>2, <2>3
<1>5. polling' \in BOOLEAN /\ enabled' \in BOOLEAN /\ bond' \in Keys
  BY <1>0 DEF PollAccepts, PeerTypes, Unfinished, ConnectWanted
<1>6. failed' \in BOOLEAN
  BY <1>0 DEF PollAccepts, PeerTypes
<1>7. CASE transport
  <2>1. pAdvertising' = FALSE /\ catalog' = 0 /\ noClose /\ clearLink /\ UNCHANGED pImage
    BY <1>7 DEF PollAccepts
  <2>2. closing' = FALSE /\ closingGeneration' = 0
    BY <2>1 DEF noClose
  <2>3. NoSession' /\ ~sessionRequested'
    BY <1>0, <2>1, <2>2, Clears, KeyFacts
  <2>4. pImage' \in Images \cup {0}
    BY <1>0, <2>1 DEF PeerTypes
  <2>5. PeerBasics'
    BY <1>5, <1>6, <2>1, <2>2, <2>3, <2>4, NoSessionBasics
  <2> QED BY <1>3, <1>4, <2>5 DEF LinkBasics
<1>8. CASE ~transport
  <2>1. UNCHANGED <<publication, session, closes>>
    BY <1>8 DEF PollAccepts
  <2>2. PeerTypes'
    BY <1>0, <1>5, <1>6, <2>1 DEF PeerTypes, publication, session, closes, attention
  <2>3. enabled' = enabled /\ bond' = bond
    BY DEF PollAccepts
  <2>4. SessionInv'
    BY <1>0, <1>8, <2>1, <2>3 DEF SessionInv, publication, session, closes, attention
  <2>5. SecurityInv'
    BY <1>0, <2>1, <2>3 DEF SecurityInv, session, attention
  <2> QED BY <1>3, <1>4, <2>2, <2>4, <2>5 DEF LinkBasics, PeerBasics, PeerInv
<1> QED BY <1>7, <1>8

LEMMA PollEndsBasics == ASSUME LinkTypes, PeerInv, PollEnds PROVE LinkBasics'
<1>0. SocketTypes /\ QueueTypes /\ PeerTypes /\ SessionInv /\ SecurityInv
  BY DEF LinkTypes, PeerInv
<1>1. ConnectWanted => connecting' = TRUE /\ PeerSends(<<Msg("Connect", 0, 0)>>)
  BY DEF PollEnds, connect
<1>2. ~ConnectWanted => UNCHANGED <<connecting, toCtl, pSock>>
  BY DEF PollEnds
<1>3. EarTypes
  BY <1>1, <1>2, EarSends, EarStays, KeyFacts DEF CtlKinds
<1>4. connecting' \in BOOLEAN
  BY <1>0, <1>1, <1>2 DEF PeerTypes
<1>5. UNCHANGED <<wire, toPeer, cSock, cOpened, transport, enabled>> /\ polling' = FALSE
  BY DEF PollEnds, controller, radio, mode
<1>6. UNCHANGED <<failed, publication, ready, sessionRequested, generation, attention, closes, bond>>
  BY DEF PollEnds
<1>7. SocketTypes' /\ QueueTypes'
  <2>1. toPeer' \in [Sockets -> Seq(PeerMsg)] /\ \A s \in Sockets : Len(toPeer'[s]) <= MaxQueue
    BY <1>0, <1>5 DEF QueueTypes
  <2> QED BY <1>3, <1>5, <2>1, PeerSockets
<1>8. PeerTypes'
  BY <1>0, <1>4, <1>5, <1>6 DEF PeerTypes, publication, attention, closes
<1>9. SessionInv'
  <2>1. ConnectWanted => enabled /\ generation = 0 /\ ~closing /\ pAdvertising
    BY DEF ConnectWanted
  <2>2. connecting' => connecting \/ ConnectWanted
    BY <1>2
  <2> QED BY <1>0, <1>5, <1>6, <2>1, <2>2 DEF SessionInv, publication, attention, closes
<1>10. SecurityInv'
  BY <1>0, <1>6 DEF SecurityInv, attention
<1> QED BY <1>7, <1>8, <1>9, <1>10 DEF LinkBasics, PeerBasics, PeerInv

LEMMA TimeoutBasics == ASSUME LinkTypes, PeerInv, PollTimesOut PROVE LinkBasics'
<1>0. SocketTypes /\ QueueTypes /\ PeerTypes /\ SessionInv /\ SecurityInv
  BY DEF LinkTypes, PeerInv
<1>1. UNCHANGED <<wire, cSock, cOpened, transport, enabled>> /\ polling' = FALSE
  BY DEF PollTimesOut, controller, radio, mode
<1>2. CASE Fails /\ UNCHANGED toPeer
  <2>1. disconnect /\ bond' = bond /\ failed' = TRUE /\ catalog' = 0 /\ UNCHANGED <<pAdvertising, pImage>>
    BY <1>2 DEF Fails
  <2>2. enabled' \in BOOLEAN /\ polling' \in BOOLEAN /\ failed' \in BOOLEAN /\ pAdvertising' \in BOOLEAN
    BY <1>0, <1>1, <2>1 DEF PeerTypes
  <2>3. pImage' \in Images \cup {0} /\ catalog' \in Images \cup {0} /\ (transport \/ (~pAdvertising' /\ catalog' = 0))
    BY <1>0, <2>1 DEF PeerTypes, SessionInv
  <2>4. EarTypes /\ PeerBasics'
    BY <1>1, <2>1, <2>2, <2>3, PeerDrops
  <2>5. toPeer' \in [Sockets -> Seq(PeerMsg)] /\ \A s \in Sockets : Len(toPeer'[s]) <= MaxQueue
    BY <1>0, <1>2 DEF QueueTypes
  <2> QED BY <1>1, <2>4, <2>5, PeerSockets DEF LinkBasics
<1>3. CASE /\ failed' = TRUE /\ catalog' = 0 /\ pSock' = 0
           /\ closing' = (generation # 0 \/ connecting) /\ closingGeneration' = generation
           /\ clearLink /\ closing
           /\ toPeer' = Unread(toPeer, pSock)
           /\ UNCHANGED <<toCtl, pAdvertising, pImage, bond>>
  <2>1. EarTypes
    BY <1>0, <1>3 DEF EarTypes, QueueTypes
  <2>2. pSock \in Sockets \cup {0}
    BY <1>0, Bounds DEF SocketTypes, Sockets
  <2>3. toPeer' \in [Sockets -> Seq(PeerMsg)] /\ \A t \in Sockets : Len(toPeer'[t]) <= MaxQueue
    BY <1>3, <2>2, PeerLosesUnread
  <2>4. SocketTypes' /\ QueueTypes'
    BY <1>1, <2>1, <2>3, PeerSockets
  <2>5. closing' \in BOOLEAN /\ closingGeneration' \in Keys
    BY <1>0, <1>3 DEF PeerTypes
  <2>6. NoSession'
    BY <1>0, <1>3, <2>5, Clears
  <2>7. transport'
    BY <1>0, <1>1, <1>3 DEF SessionInv
  <2>8. bond' \in Keys /\ enabled' \in BOOLEAN /\ polling' \in BOOLEAN /\ failed' \in BOOLEAN /\ pAdvertising' \in BOOLEAN
    BY <1>0, <1>1, <1>3 DEF PeerTypes
  <2>9. pImage' \in Images \cup {0} /\ catalog' \in Images \cup {0}
    BY <1>0, <1>3 DEF PeerTypes
  <2>10. PeerBasics'
    BY <2>6, <2>7, <2>8, <2>9, NoSessionBasics
  <2> QED BY <2>4, <2>10 DEF LinkBasics
<1> QED BY <1>2, <1>3 DEF PollTimesOut

(* A step of the peer that sends nothing, or is not about a message.       *)
LEMMA SetEnabledBasics == ASSUME LinkTypes, PeerInv, SetEnabled PROVE LinkBasics'
<1>0. SocketTypes /\ QueueTypes /\ PeerTypes /\ SessionInv /\ SecurityInv
  BY DEF LinkTypes, PeerInv
<1>1. UNCHANGED <<wire, toPeer, cSock, cOpened, transport, polling, publication, bond>> /\ enabled' = ~enabled
  BY DEF SetEnabled, controller, radio
<1>2. toPeer' \in [Sockets -> Seq(PeerMsg)] /\ \A s \in Sockets : Len(toPeer'[s]) <= MaxQueue
  BY <1>0, <1>1 DEF QueueTypes
<1>3. enabled' \in BOOLEAN /\ polling' \in BOOLEAN /\ pAdvertising' \in BOOLEAN /\ bond' \in Keys
  BY <1>0, <1>1 DEF PeerTypes, publication
<1>4. pImage' \in Images \cup {0} /\ catalog' \in Images \cup {0}
  BY <1>0, <1>1 DEF PeerTypes, publication
<1>5. CASE enabled
  <2>1. disconnect /\ UNCHANGED failed
    BY <1>5 DEF SetEnabled
  <2>2. failed' \in BOOLEAN /\ (transport \/ (~pAdvertising' /\ catalog' = 0))
    BY <1>0, <1>1, <2>1 DEF PeerTypes, SessionInv, publication
  <2>3. EarTypes /\ PeerBasics'
    BY <1>1, <1>3, <1>4, <2>1, <2>2, PeerDrops
  <2> QED BY <1>1, <1>2, <2>3, PeerSockets DEF LinkBasics
<1>6. CASE ~enabled
  <2>1. failed' = FALSE /\ UNCHANGED <<toCtl, pSock, session, closes>>
    BY <1>6 DEF SetEnabled
  <2>2. EarTypes
    BY <2>1, EarStays
  <2>3. PeerTypes'
    BY <1>0, <1>3, <1>4, <2>1 DEF PeerTypes, session, attention, closes
  <2>4. SessionInv'
    BY <1>0, <1>1, <1>6, <2>1 DEF SessionInv, session, attention, closes, publication
  <2>5. SecurityInv'
    BY <1>0, <1>1, <2>1 DEF SecurityInv, session, attention
  <2> QED BY <1>1, <1>2, <2>2, <2>3, <2>4, <2>5, PeerSockets DEF LinkBasics, PeerBasics, PeerInv
<1> QED BY <1>5, <1>6

LEMMA PeerResetBasics == ASSUME LinkTypes, PeerInv, PeerReset PROVE LinkBasics'
<1>0. SocketTypes /\ QueueTypes /\ PeerTypes
  BY DEF LinkTypes
<1>1. pSock \in Sockets \cup {0}
  BY <1>0, Bounds DEF SocketTypes, Sockets
<1>2. toPeer' \in [Sockets -> Seq(PeerMsg)] /\ \A t \in Sockets : Len(toPeer'[t]) <= MaxQueue
  BY <1>1, PeerLosesUnread DEF PeerReset
<1>3. QueueTypes'
  BY <1>0, <1>2 DEF PeerReset, QueueTypes
<1>4. SocketTypes'
  BY <1>0 DEF PeerReset, SocketTypes, wire, controller, radio
<1>5. closing' = FALSE /\ closingGeneration' = 0 /\ pAdvertising' = FALSE /\ catalog' = 0 /\ failed' = FALSE /\ clearLink
  BY DEF PeerReset, noClose
<1>6. NoSession' /\ ~sessionRequested'
  BY <1>0, <1>5, Clears, KeyFacts
<1>7. bond' \in Keys /\ enabled' \in BOOLEAN /\ polling' \in BOOLEAN /\ pImage' \in Images \cup {0}
  BY <1>0 DEF PeerReset, PeerTypes
<1>8. PeerBasics'
  BY <1>5, <1>6, <1>7, NoSessionBasics
<1> QED BY <1>3, <1>4, <1>8 DEF LinkBasics

LEMMA FindsEndBasics == ASSUME LinkTypes, PeerInv, PollFindsEnd PROVE LinkBasics'
<1>0. SocketTypes /\ QueueTypes /\ PeerTypes /\ SessionInv /\ SecurityInv
  BY DEF LinkTypes, PeerInv
<1>1. SocketTypes' /\ QueueTypes'
  BY <1>0 DEF PollFindsEnd, SocketTypes, QueueTypes, wire, controller, radio, mode
<1>2. polling' = TRUE /\ UNCHANGED <<mode, failed, publication, session, closes, bond>>
  BY DEF PollFindsEnd
<1>3. PeerTypes'
  BY <1>0, <1>2 DEF PeerTypes, mode, publication, session, attention, closes
<1>4. SessionInv' /\ SecurityInv'
  BY <1>0, <1>2 DEF SessionInv, SecurityInv, mode, publication, session, attention, closes
<1> QED BY <1>1, <1>3, <1>4 DEF LinkBasics, PeerBasics, PeerInv

LEMMA StartSessionBasics == ASSUME LinkTypes, PeerInv, startSession PROVE LinkBasics'
<1>0. SocketTypes /\ QueueTypes /\ PeerTypes /\ SessionInv /\ SecurityInv
  BY DEF LinkTypes, PeerInv
<1>1. SocketTypes' /\ QueueTypes'
  BY <1>0 DEF startSession, SocketTypes, QueueTypes, wire, controller, radio, mode
<1>2. sessionRequested' = TRUE /\ UNCHANGED <<mode, failed, polling, publication, connecting, ready, generation, attention, closes, bond>>
  BY DEF startSession
<1>3. catalog # 0
  BY DEF startSession, available
<1>4. PeerTypes'
  BY <1>0, <1>2 DEF PeerTypes, mode, publication, attention, closes
<1>5. SessionInv' /\ SecurityInv'
  BY <1>0, <1>2, <1>3 DEF SessionInv, SecurityInv, mode, publication, attention, closes
<1> QED BY <1>1, <1>4, <1>5 DEF LinkBasics, PeerBasics, PeerInv

LEMMA ClientBasics == ASSUME LinkTypes, PeerInv, ClientDisconnects PROVE LinkBasics'
<1>0. SocketTypes /\ QueueTypes /\ PeerTypes /\ SessionInv /\ SecurityInv
  BY DEF LinkTypes, PeerInv
<1>1. UNCHANGED <<wire, toPeer, cSock, cOpened, transport, enabled, failed, polling, publication, bond>> /\ disconnect
  BY DEF ClientDisconnects, controller, radio, mode
<1>2. toPeer' \in [Sockets -> Seq(PeerMsg)] /\ \A s \in Sockets : Len(toPeer'[s]) <= MaxQueue
  BY <1>0, <1>1 DEF QueueTypes
<1>3. enabled' \in BOOLEAN /\ polling' \in BOOLEAN /\ pAdvertising' \in BOOLEAN /\ failed' \in BOOLEAN
  BY <1>0, <1>1 DEF PeerTypes, publication
<1>4. pImage' \in Images \cup {0} /\ catalog' \in Images \cup {0} /\ (transport \/ (~pAdvertising' /\ catalog' = 0))
  BY <1>0, <1>1 DEF PeerTypes, SessionInv, publication
<1>5. EarTypes /\ PeerBasics'
  BY <1>1, <1>3, <1>4, PeerDrops
<1> QED BY <1>1, <1>2, <1>5, PeerSockets DEF LinkBasics

LEMMA RequestBasics == ASSUME LinkTypes, PeerInv, request PROVE LinkBasics'
<1>0. SocketTypes /\ QueueTypes /\ PeerTypes /\ SessionInv /\ SecurityInv
  BY DEF LinkTypes, PeerInv
<1>1. UNCHANGED <<wire, toPeer, cSock, cOpened, transport, enabled, failed, polling, publication>>
  BY DEF request, controller, radio, mode
<1>2. UNCHANGED <<connecting, ready, sessionRequested, generation, setup, attSecurityPending, smp, closes, bond>>
  BY DEF request
<1>3. requests \in 0..MaxRequests /\ requests < MaxRequests /\ generation # 0
  BY <1>0 DEF request, PeerTypes
<1>4. requests + 1 \in 0..MaxRequests
  BY <1>3, Bounds
<1>5. AttWaits => requests' = requests + 1 /\ UNCHANGED <<toCtl, pSock, attBusy>>
  BY DEF request
<1>6. ~AttWaits => sendNext(requests + 1)
  BY DEF request
<1>7. EarTypes
  BY <1>4, <1>5, <1>6, EarStays, SendsNext
<1>8. requests' = requests + 1 /\ attBusy' \in BOOLEAN
  BY <1>0, <1>4, <1>5, <1>6, SendsNext DEF PeerTypes
<1>13. ~AttWaits => ~attBusy /\ ~attSecurityPending
  BY DEF AttWaits
<1>14. AttWaits => attBusy' = attBusy
  BY <1>5
<1>9. toPeer' \in [Sockets -> Seq(PeerMsg)] /\ \A s \in Sockets : Len(toPeer'[s]) <= MaxQueue
  BY <1>0, <1>1 DEF QueueTypes
<1>10. PeerTypes'
  BY <1>0, <1>1, <1>2, <1>4, <1>8 DEF PeerTypes, publication, closes
<1>11. SessionInv'
  BY <1>0, <1>1, <1>2, <1>3, <1>8 DEF SessionInv, publication, closes
<1>12. SecurityInv'
  BY <1>0, <1>2, <1>13, <1>14 DEF SecurityInv
<1> QED BY <1>1, <1>7, <1>9, <1>10, <1>11, <1>12, PeerSockets DEF LinkBasics, PeerBasics, PeerInv

-----------------------------------------------------------------------------
(* What a socket's queue says.                                             *)

(* A message takes a peer told of link b, and of the databases x, to c and *)
(* y: at most one database is announced at a time.                         *)
Moves(b, x, m, c, y) ==
  \/ m.kind = "Connected" /\ b = 0 /\ c = m.gen /\ c # 0 /\ y = x
  \/ m.kind = "Disconnected" /\ b = m.gen /\ b # 0 /\ c = 0 /\ y = {}
  \/ m.kind \in {"Reset", "AdvertisingOn"} /\ b = 0 /\ c = 0 /\ y = {}
  \/ m.kind = "Gatt" /\ b = 0 /\ c = 0 /\ y = {m.val}
  \/ m.kind = "AdvertisingOff" /\ c = b /\ y = IF b = 0 THEN {} ELSE x
  \/ m.kind = "Rejected" /\ c = b /\ y = x
  \/ /\ m.kind \in {"Att", "AttSecurity", "Smp", "SecurityRequest", "Encryption"}
     /\ b = m.gen /\ b # 0 /\ c = b /\ y = x

(* Links are numbered upwards, and the answer to an encryption request is  *)
(* sent after the peer has been told of its link, and before another one.  *)
Timely(w, q) ==
  \A i \in 1..Len(q) : \A h \in 0..i - 1 :
    /\ q[i].kind = "Connected" => w[h] < q[i].gen
    /\ q[i].kind = "Encryption" => w[h] = q[i].gen

Path(w, a, q, last) ==
  /\ w \in [0..Len(q) -> 0..last] /\ a \in [0..Len(q) -> SUBSET (Images \cup {0})]
  /\ \A i \in 1..Len(q) : Moves(w[i - 1], a[i - 1], q[i], w[i], a[i]) /\ q[i].gen <= last
  /\ Timely(w, q)

Says(q, i, k, g) == \E j \in 1..Len(q) : i < j /\ q[j].kind = k /\ q[j].gen = g

Ends(w, a, q, link, ann) ==
  /\ w[Len(q)] = link /\ a[Len(q)] = ann
  /\ \A i \in 0..Len(q) :
       /\ w[i] \notin {0, link} => Says(q, i, "Disconnected", w[i])
       /\ link # 0 /\ w[i] # link => Says(q, i, "Connected", link)
       /\ link # 0 /\ w[i] = link => a[i] = ann

(* The messages of a queue make sense to a peer that has been told of a    *)
(* link and a database, and, in FullTale, bring it up to date.             *)
Tale(q, last, told, data) == \E w, a : Path(w, a, q, last) /\ w[0] = told /\ a[0] = data

FullTale(q, last, told, data, link, ann) ==
  \E w, a : Path(w, a, q, last) /\ w[0] = told /\ a[0] = data /\ Ends(w, a, q, link, ann)

LEMMA FullIsTale ==
  ASSUME NEW q, NEW last, NEW told, NEW data, NEW link, NEW ann, FullTale(q, last, told, data, link, ann)
  PROVE  Tale(q, last, told, data)
BY DEF Tale, FullTale

(* An empty queue says nothing.                                            *)
LEMMA EmptyTale ==
  ASSUME NEW last \in Nat, NEW told \in 0..last, NEW data \in SUBSET (Images \cup {0})
  PROVE  FullTale(<<>>, last, told, data, told, data)
<1> DEFINE w == [i \in 0..0 |-> told]
           a == [i \in 0..0 |-> data]
<1>1. Len(<<>>) = 0
  OBVIOUS
<1>2. Path(w, a, <<>>, last)
  BY <1>1 DEF Path, Timely
<1>3. Ends(w, a, <<>>, told, data)
  BY <1>1 DEF Ends
<1>4. w[0] = told /\ a[0] = data
  OBVIOUS
<1> QED BY <1>2, <1>3, <1>4 DEF FullTale

(* More links may follow.                                                  *)
LEMMA LaterTale ==
  ASSUME NEW q \in Seq(PeerMsg), NEW last \in Nat, NEW last2 \in Nat, last <= last2, NEW told, NEW data
  PROVE  /\ Tale(q, last, told, data) => Tale(q, last2, told, data)
         /\ \A link, ann : FullTale(q, last, told, data, link, ann) => FullTale(q, last2, told, data, link, ann)
<1>1. ASSUME NEW w, NEW a, Path(w, a, q, last) PROVE Path(w, a, q, last2)
  <2>1. w \in [0..Len(q) -> 0..last2]
    BY <1>1 DEF Path
  <2>2. \A i \in 1..Len(q) : q[i].gen <= last2
    <3>1. \A i \in 1..Len(q) : q[i].gen \in Int
      BY Bounds DEF PeerMsg, PeerMsgs
    <3> QED BY <1>1, <3>1 DEF Path
  <2> QED BY <1>1, <2>1, <2>2 DEF Path
<1> QED BY <1>1 DEF Tale, FullTale

(* What is left of a queue when its sender gives the socket up.            *)
LEMMA CutTale ==
  ASSUME NEW q \in Seq(PeerMsg), NEW last, NEW told, NEW data, Tale(q, last, told, data), NEW p, CutShort(q, p)
  PROVE  Tale(p, last, told, data)
<1>1. PICK w, a : Path(w, a, q, last) /\ w[0] = told /\ a[0] = data
  BY DEF Tale
<1>2. PICK n \in 0..Len(q) : p = SubSeq(q, 1, n)
  BY DEF CutShort
<1>3. Len(p) = n /\ \A i \in 1..n : p[i] = q[i]
  BY <1>2
<1> DEFINE v == [i \in 0..n |-> w[i]]
           b == [i \in 0..n |-> a[i]]
<1>4. \A i \in 0..n : i \in 0..Len(q) /\ v[i] = w[i] /\ b[i] = a[i]
  BY <1>2
<1>5. v \in [0..Len(p) -> 0..last] /\ b \in [0..Len(p) -> SUBSET (Images \cup {0})]
  BY <1>1, <1>3, <1>4 DEF Path
<1>6. ASSUME NEW i \in 1..Len(p) PROVE Moves(v[i - 1], b[i - 1], p[i], v[i], b[i]) /\ p[i].gen <= last
  <2>1. i \in 1..Len(q) /\ i \in 0..n /\ i - 1 \in 0..n /\ p[i] = q[i]
    BY <1>2, <1>3
  <2> HIDE DEF v, b
  <2> QED BY <1>1, <1>4, <2>1 DEF Path
<1>7. Timely(v, p)
  <2> SUFFICES ASSUME NEW i \in 1..Len(p), NEW h \in 0..i - 1
               PROVE  /\ p[i].kind = "Connected" => v[h] < p[i].gen
                      /\ p[i].kind = "Encryption" => v[h] = p[i].gen
    BY DEF Timely
  <2>1. i \in 1..Len(q) /\ h \in 0..n /\ p[i] = q[i]
    BY <1>2, <1>3
  <2> HIDE DEF v, b
  <2> QED BY <1>1, <1>4, <2>1 DEF Path, Timely
<1>8. v[0] = told /\ b[0] = data
  BY <1>1, <1>4
<1> HIDE DEF v, b
<1>9. Path(v, b, p, last)
  BY <1>5, <1>6, <1>7 DEF Path
<1> QED BY <1>8, <1>9 DEF Tale

(* The peer reads the first message.                                       *)
LEMMA TakePath ==
  ASSUME NEW q \in Seq(PeerMsg), q # <<>>, NEW last, NEW w, NEW a, Path(w, a, q, last)
  PROVE  /\ Moves(w[0], a[0], Head(q), w[1], a[1])
         /\ \E v, b : /\ Path(v, b, Tail(q), last) /\ v[0] = w[1] /\ b[0] = a[1]
                     /\ \A link, ann : Ends(w, a, q, link, ann) => Ends(v, b, Tail(q), link, ann)
<1>0. Len(q) \in Nat /\ Len(q) >= 1 /\ q[1] = Head(q)
  OBVIOUS
<1> DEFINE r == Tail(q)
           n == Len(q)
           v == [i \in 0..n - 1 |-> w[i + 1]]
           b == [i \in 0..n - 1 |-> a[i + 1]]
<1>1. r \in Seq(PeerMsg) /\ Len(r) = n - 1 /\ \A i \in 1..n - 1 : r[i] = q[i + 1]
  OBVIOUS
<1>2. \A i \in 0..n - 1 : v[i] = w[i + 1] /\ b[i] = a[i + 1] /\ i + 1 \in 0..n
  BY <1>0
<1>3. v \in [0..n - 1 -> 0..last] /\ b \in [0..n - 1 -> SUBSET (Images \cup {0})]
  BY <1>2 DEF Path
<1>4. Moves(w[0], a[0], Head(q), w[1], a[1])
  <2>1. 1 \in 1..Len(q) /\ 1 - 1 = 0
    BY <1>0
  <2>2. Moves(w[1 - 1], a[1 - 1], q[1], w[1], a[1])
    BY <2>1 DEF Path
  <2> QED BY <1>0, <2>1, <2>2
<1> HIDE DEF v, b, r
<1>5. ASSUME NEW i \in 1..n - 1 PROVE Moves(v[i - 1], b[i - 1], r[i], v[i], b[i]) /\ r[i].gen <= last
  <2>1. i \in 0..n - 1 /\ i - 1 \in 0..n - 1 /\ i + 1 \in 1..n /\ (i - 1) + 1 = i /\ (i + 1) - 1 = i
    BY <1>0
  <2>2. Moves(w[(i + 1) - 1], a[(i + 1) - 1], q[i + 1], w[i + 1], a[i + 1]) /\ q[i + 1].gen <= last
    BY <2>1 DEF Path
  <2>3. v[i - 1] = w[i] /\ b[i - 1] = a[i] /\ v[i] = w[i + 1] /\ b[i] = a[i + 1] /\ r[i] = q[i + 1]
    BY <1>1, <1>2, <2>1
  <2> QED BY <2>1, <2>2, <2>3
<1>6. Timely(v, r)
  <2> SUFFICES ASSUME NEW i \in 1..n - 1, NEW h \in 0..i - 1
               PROVE  /\ r[i].kind = "Connected" => v[h] < r[i].gen
                      /\ r[i].kind = "Encryption" => v[h] = r[i].gen
    BY <1>1 DEF Timely
  <2>1. i + 1 \in 1..n /\ h + 1 \in 0..(i + 1) - 1 /\ h \in 0..n - 1
    BY <1>0
  <2>2. Timely(w, q)
    BY DEF Path
  <2>3. /\ q[i + 1].kind = "Connected" => w[h + 1] < q[i + 1].gen
        /\ q[i + 1].kind = "Encryption" => w[h + 1] = q[i + 1].gen
    BY <2>1, <2>2 DEF Timely
  <2> QED BY <1>1, <1>2, <2>1, <2>3
<1>7. Path(v, b, r, last)
  BY <1>1, <1>3, <1>5, <1>6 DEF Path
<1>8. v[0] = w[1] /\ b[0] = a[1]
  BY <1>0, <1>2
<1>9. ASSUME NEW i \in 0..n - 1, NEW k, NEW g, Says(q, i + 1, k, g) PROVE Says(r, i, k, g)
  <2>1. PICK j \in 1..Len(q) : i + 1 < j /\ q[j].kind = k /\ q[j].gen = g
    BY <1>9 DEF Says
  <2>2. j - 1 \in 1..n - 1 /\ i < j - 1 /\ (j - 1) + 1 = j
    BY <1>0, <2>1
  <2>3. r[j - 1] = q[j]
    BY <1>1, <2>2
  <2> QED BY <1>1, <2>1, <2>2, <2>3 DEF Says
<1>10. ASSUME NEW link, NEW ann, Ends(w, a, q, link, ann) PROVE Ends(v, b, r, link, ann)
  <2>1. n - 1 \in 0..n - 1 /\ (n - 1) + 1 = n
    BY <1>0
  <2>2. v[n - 1] = link /\ b[n - 1] = ann
    BY <1>2, <1>10, <2>1 DEF Ends
  <2>3. ASSUME NEW i \in 0..n - 1
        PROVE  /\ v[i] \notin {0, link} => Says(r, i, "Disconnected", v[i])
               /\ link # 0 /\ v[i] # link => Says(r, i, "Connected", link)
               /\ link # 0 /\ v[i] = link => b[i] = ann
    <3>1. i + 1 \in 0..Len(q) /\ v[i] = w[i + 1] /\ b[i] = a[i + 1]
      BY <1>2
    <3>2. /\ w[i + 1] \notin {0, link} => Says(q, i + 1, "Disconnected", w[i + 1])
          /\ link # 0 /\ w[i + 1] # link => Says(q, i + 1, "Connected", link)
          /\ link # 0 /\ w[i + 1] = link => a[i + 1] = ann
      BY <1>10, <3>1 DEF Ends
    <3> QED BY <1>9, <3>1, <3>2
  <2> QED BY <1>1, <2>2, <2>3 DEF Ends
<1> QED BY <1>4, <1>7, <1>8, <1>10 DEF r

LEMMA TakeTale ==
  ASSUME NEW q \in Seq(PeerMsg), q # <<>>, NEW last, NEW told, NEW data, Tale(q, last, told, data)
  PROVE  \E c, y : Moves(told, data, Head(q), c, y) /\ Tale(Tail(q), last, c, y)
<1>1. PICK w, a : Path(w, a, q, last) /\ w[0] = told /\ a[0] = data
  BY DEF Tale
<1>2. Moves(told, data, Head(q), w[1], a[1])
  BY <1>1, TakePath
<1>3. PICK v, b : Path(v, b, Tail(q), last) /\ v[0] = w[1] /\ b[0] = a[1]
  BY <1>1, TakePath
<1>4. Tale(Tail(q), last, w[1], a[1])
  BY <1>3 DEF Tale
<1> QED BY <1>2, <1>4

LEMMA TakeFullTale ==
  ASSUME NEW q \in Seq(PeerMsg), q # <<>>, NEW last, NEW told, NEW data, NEW link, NEW ann,
         FullTale(q, last, told, data, link, ann)
  PROVE  \E c, y : Moves(told, data, Head(q), c, y) /\ FullTale(Tail(q), last, c, y, link, ann)
<1>1. PICK w, a : Path(w, a, q, last) /\ w[0] = told /\ a[0] = data /\ Ends(w, a, q, link, ann)
  BY DEF FullTale
<1>2. Moves(told, data, Head(q), w[1], a[1])
  BY <1>1, TakePath
<1>3. PICK v, b : Path(v, b, Tail(q), last) /\ v[0] = w[1] /\ b[0] = a[1] /\ Ends(v, b, Tail(q), link, ann)
  BY <1>1, TakePath
<1>4. FullTale(Tail(q), last, w[1], a[1], link, ann)
  BY <1>3 DEF FullTale
<1> QED BY <1>2, <1>4

(* What the messages on the way say of a peer that reads them.             *)
Has(q, k, g) == \E i \in 1..Len(q) : q[i].kind = k /\ q[i].gen = g

LEMMA TaleFacts ==
  ASSUME NEW q \in Seq(PeerMsg), NEW last \in Nat, NEW told, NEW data, Tale(q, last, told, data)
  PROVE  /\ told \in 0..last /\ data \in SUBSET (Images \cup {0})
         /\ \A i \in 1..Len(q) : q[i].gen <= last
         /\ \A i \in 1..Len(q) : q[i].kind = "Encryption" => q[i].gen = told /\ told # 0
         /\ \A i \in 1..Len(q) : q[i].kind = "Connected" => q[i].gen > told
<1>1. PICK w, a : Path(w, a, q, last) /\ w[0] = told /\ a[0] = data
  BY DEF Tale
<1>2. told \in 0..last /\ data \in SUBSET (Images \cup {0})
  BY <1>1 DEF Path
<1>3. ASSUME NEW i \in 1..Len(q)
      PROVE  /\ q[i].gen <= last
             /\ q[i].kind = "Encryption" => q[i].gen = told /\ told # 0
             /\ q[i].kind = "Connected" => q[i].gen > told
  <2>1. q[i].gen <= last /\ Moves(w[i - 1], a[i - 1], q[i], w[i], a[i])
    BY <1>1 DEF Path
  <2>2. 0 \in 0..i - 1
    OBVIOUS
  <2>3. (q[i].kind = "Encryption" => w[0] = q[i].gen) /\ (q[i].kind = "Connected" => w[0] < q[i].gen)
    BY <1>1, <2>2 DEF Path, Timely
  <2>4. q[i].kind = "Encryption" => q[i].gen # 0
    BY <2>1 DEF Moves
  <2>5. q[i].gen \in Nat
    BY Bounds DEF PeerMsg, PeerMsgs
  <2> QED BY <1>1, <1>2, <2>1, <2>3, <2>4, <2>5
<1> QED BY <1>2, <1>3

LEMMA FullFacts ==
  ASSUME NEW q \in Seq(PeerMsg), NEW last \in Nat, NEW told, NEW data, NEW link, NEW ann,
         FullTale(q, last, told, data, link, ann)
  PROVE  /\ told \notin {0, link} => Has(q, "Disconnected", told)
         /\ link # 0 /\ told # link => Has(q, "Connected", link)
         /\ link # 0 /\ told = link => data = ann
<1>1. PICK w, a : Path(w, a, q, last) /\ w[0] = told /\ a[0] = data /\ Ends(w, a, q, link, ann)
  BY DEF FullTale
<1>2. 0 \in 0..Len(q)
  OBVIOUS
<1>3. /\ w[0] \notin {0, link} => Says(q, 0, "Disconnected", w[0])
      /\ link # 0 /\ w[0] # link => Says(q, 0, "Connected", link)
      /\ link # 0 /\ w[0] = link => a[0] = ann
  BY <1>1, <1>2 DEF Ends
<1> QED BY <1>1, <1>3 DEF Says, Has

(* The controller adds a message.                                          *)
LEMMA AddTale ==
  ASSUME NEW q \in Seq(PeerMsg), NEW last \in Nat, NEW last2 \in Nat, last <= last2,
         NEW told, NEW data, NEW link, NEW ann, FullTale(q, last, told, data, link, ann),
         NEW m \in PeerMsg, NEW c \in 0..last2, NEW y \in SUBSET (Images \cup {0}),
         Moves(link, ann, m, c, y), m.gen <= last2,
         c \notin {0, link} => c > last,
         m.kind = "Encryption" => told = link
  PROVE  FullTale(q \o <<m>>, last2, told, data, c, y)
<1> DEFINE n == Len(q)
           r == q \o <<m>>
<1>0. n \in Nat
  OBVIOUS
<1>1. r \in Seq(PeerMsg) /\ Len(r) = n + 1 /\ (\A i \in 1..n : r[i] = q[i]) /\ r[n + 1] = m
  OBVIOUS
<1>2. PICK w, a : Path(w, a, q, last) /\ w[0] = told /\ a[0] = data /\ Ends(w, a, q, link, ann)
  BY DEF FullTale
<1> DEFINE v == [i \in 0..n + 1 |-> IF i = n + 1 THEN c ELSE w[i]]
           b == [i \in 0..n + 1 |-> IF i = n + 1 THEN y ELSE a[i]]
<1>3. /\ \A i \in 0..n : i \in 0..n + 1 /\ v[i] = w[i] /\ b[i] = a[i] /\ w[i] \in 0..last /\ a[i] \in SUBSET (Images \cup {0})
      /\ v[n + 1] = c /\ b[n + 1] = y
  BY <1>0, <1>2 DEF Path
<1>4. v \in [0..n + 1 -> 0..last2] /\ b \in [0..n + 1 -> SUBSET (Images \cup {0})]
  <2>1. ASSUME NEW i \in 0..n + 1 PROVE v[i] \in 0..last2 /\ b[i] \in SUBSET (Images \cup {0})
    <3> HIDE DEF v, b
    <3>1. CASE i = n + 1
      BY <1>3, <3>1
    <3>2. CASE i # n + 1
      <4>1. i \in 0..n
        BY <1>0, <3>2
      <4>2. v[i] \in 0..last /\ b[i] \in SUBSET (Images \cup {0})
        BY <1>3, <4>1
      <4> QED BY <4>2
    <3> QED BY <3>1, <3>2
  <2> QED BY <2>1
<1> HIDE DEF v, b, r
<1>5. ASSUME NEW i \in 1..n + 1 PROVE Moves(v[i - 1], b[i - 1], r[i], v[i], b[i]) /\ r[i].gen <= last2
  <2>1. CASE i = n + 1
    <3>1. i - 1 = n /\ n \in 0..n
      BY <1>0, <2>1
    <3>2. w[n] = link /\ a[n] = ann
      BY <1>2 DEF Ends
    <3> QED BY <1>1, <1>3, <2>1, <3>1, <3>2
  <2>2. CASE i # n + 1
    <3>1. i \in 1..n /\ i \in 0..n /\ i - 1 \in 0..n
      BY <1>0, <2>2
    <3>2. Moves(w[i - 1], a[i - 1], q[i], w[i], a[i]) /\ q[i].gen <= last
      BY <1>2, <3>1 DEF Path
    <3>3. q[i].gen \in Int
      BY <3>1, Bounds DEF PeerMsg, PeerMsgs
    <3> QED BY <1>1, <1>3, <3>1, <3>2, <3>3
  <2> QED BY <2>1, <2>2
<1>6. m.kind = "Encryption" => \A h \in 0..n : w[h] = m.gen
  <2> SUFFICES ASSUME m.kind = "Encryption", NEW h \in 0..n, w[h] # m.gen PROVE FALSE
    OBVIOUS
  <2>1. link = m.gen /\ link # 0 /\ w[0] = link
    BY <1>2 DEF Moves
  <2>2. Says(q, h, "Connected", link)
    BY <1>2, <2>1 DEF Ends
  <2>3. PICK j \in 1..Len(q) : q[j].kind = "Connected" /\ q[j].gen = link
    BY <2>2 DEF Says
  <2>4. w[0] < q[j].gen
    BY <1>2, <2>3 DEF Path, Timely
  <2>5. w[0] \in Int
    BY <1>0, <1>3
  <2> QED BY <2>1, <2>3, <2>4, <2>5
<1>7. m.kind = "Connected" => \A h \in 0..n : w[h] < m.gen
  <2> SUFFICES ASSUME m.kind = "Connected", NEW h \in 0..n PROVE w[h] < m.gen
    OBVIOUS
  <2>1. link = 0 /\ c = m.gen /\ c # 0
    BY DEF Moves
  <2> QED BY <1>3, <2>1
<1>8. Timely(v, r)
  <2> SUFFICES ASSUME NEW i \in 1..n + 1, NEW h \in 0..i - 1
               PROVE  /\ r[i].kind = "Connected" => v[h] < r[i].gen
                      /\ r[i].kind = "Encryption" => v[h] = r[i].gen
    BY <1>1 DEF Timely
  <2>1. h \in 0..n /\ v[h] = w[h]
    BY <1>0, <1>3
  <2>2. CASE i = n + 1
    BY <1>1, <1>6, <1>7, <2>1, <2>2
  <2>3. CASE i # n + 1
    <3>1. i \in 1..n
      BY <1>0, <2>3
    <3> QED BY <1>1, <1>2, <2>1, <3>1 DEF Path, Timely
  <2> QED BY <2>2, <2>3
<1>9. Path(v, b, r, last2)
  BY <1>1, <1>4, <1>5, <1>8 DEF Path
<1>10. ASSUME NEW i \in 0..n, NEW k, NEW g, Says(q, i, k, g) PROVE Says(r, i, k, g)
  <2>1. PICK j \in 1..Len(q) : i < j /\ q[j].kind = k /\ q[j].gen = g
    BY <1>10 DEF Says
  <2>2. j \in 1..n + 1 /\ r[j] = q[j]
    BY <1>0, <1>1
  <2> QED BY <1>1, <2>1, <2>2 DEF Says
<1>11. ASSUME NEW i \in 0..n PROVE Says(r, i, m.kind, m.gen)
  <2>1. n + 1 \in 1..n + 1 /\ i < n + 1
    BY <1>0
  <2> QED BY <1>1, <2>1 DEF Says
<1>12. ASSUME NEW i \in 0..n + 1
       PROVE  /\ v[i] \notin {0, c} => Says(r, i, "Disconnected", v[i])
              /\ c # 0 /\ v[i] # c => Says(r, i, "Connected", c)
              /\ c # 0 /\ v[i] = c => b[i] = y
  <2>1. CASE i = n + 1
    BY <1>3, <2>1
  <2>2. CASE i # n + 1
    <3>1. i \in 0..n /\ v[i] = w[i] /\ b[i] = a[i] /\ w[i] \in 0..last
      BY <1>0, <1>3, <2>2
    <3>2. /\ w[i] \notin {0, link} => Says(r, i, "Disconnected", w[i])
          /\ link # 0 /\ w[i] # link => Says(r, i, "Connected", link)
          /\ link # 0 /\ w[i] = link => a[i] = ann
      BY <1>2, <1>10, <3>1 DEF Ends
    <3>3. link # 0 /\ c # link => m.kind = "Disconnected" /\ m.gen = link /\ c = 0
      BY DEF Moves
    <3>4. c # 0 /\ c # link => m.kind = "Connected" /\ m.gen = c /\ link = 0 /\ w[i] # c
      BY <3>1 DEF Moves
    <3>5. c # 0 /\ c = link => y = ann
      BY DEF Moves
    <3>6. Says(r, i, m.kind, m.gen)
      BY <1>11, <3>1
    <3>7. v[i] \notin {0, c} => Says(r, i, "Disconnected", v[i])
      BY <3>1, <3>2, <3>3, <3>6
    <3>8. c # 0 /\ v[i] # c => Says(r, i, "Connected", c)
      BY <3>1, <3>2, <3>4, <3>6
    <3>9. c # 0 /\ v[i] = c => b[i] = y
      BY <3>1, <3>2, <3>4, <3>5
    <3> QED BY <3>7, <3>8, <3>9
  <2> QED BY <2>1, <2>2
<1>13. Ends(v, b, r, c, y)
  BY <1>1, <1>3, <1>12 DEF Ends
<1>14. v[0] = told /\ b[0] = data
  BY <1>0, <1>2, <1>3
<1> QED BY <1>9, <1>13, <1>14 DEF FullTale, r

-----------------------------------------------------------------------------
(* The story of a socket under steps of the controller.                    *)

(* The database the current advertisement or connection was announced with.*)
Announced == IF cAdvertising \/ conn # 0 THEN {published} ELSE {}

(* The messages of a socket make sense to the peer; those of the socket    *)
(* the controller still has bring it up to date.                           *)
SocketStory(s, told, data) ==
  /\ Tale(toPeer[s], nextGeneration, told, data)
  /\ s = cSock /\ PeerHears => FullTale(toPeer[s], nextGeneration, told, data, conn, Announced)
  /\ s > acceptedSockets => told = 0 /\ data = {}

WireInv ==
  /\ \A s \in Sockets : \A i \in 1..Len(toCtl[s]) : toCtl[s][i].gen <= nextGeneration
  /\ \A s \in Sockets : s > acceptedSockets => toCtl[s] = <<>>
  /\ \A s \in Sockets : s > opened => toPeer[s] = <<>>
  /\ opened > acceptedSockets => conn = 0

LEMMA Numbers ==
  ASSUME LinkTypes
  PROVE  /\ nextGeneration \in Nat /\ conn \in 0..nextGeneration
         /\ opened \in 0..MaxSockets /\ acceptedSockets \in 0..opened
         /\ cSock \in Sockets \cup {0} /\ pSock \in Sockets \cup {0}
         /\ Announced \in SUBSET (Images \cup {0})
<1>1. nextGeneration \in Nat /\ conn \in 0..nextGeneration
  BY KeyFacts DEF LinkTypes, CtlTypes
<1>2. opened \in 0..MaxSockets /\ acceptedSockets \in 0..opened
  BY DEF LinkTypes, SocketTypes
<1>3. cSock \in Sockets \cup {0} /\ pSock \in Sockets \cup {0}
  BY Bounds DEF LinkTypes, SocketTypes, Sockets
<1>4. Announced \in SUBSET (Images \cup {0})
  BY DEF LinkTypes, CtlTypes, Announced
<1> QED BY <1>1, <1>2, <1>3, <1>4

(* The story goes on when what the controller sends brings the peer up to  *)
(* date again.                                                             *)
Added(s, msgs, told, data) ==
  FullTale(toPeer[s] \o msgs, nextGeneration', told, data, conn', Announced')

LEMMA AddsOne ==
  ASSUME LinkTypes, NEW s \in Sockets, NEW told, NEW data,
         FullTale(toPeer[s], nextGeneration, told, data, conn, Announced),
         NEW m \in PeerMsg, nextGeneration' \in Nat, nextGeneration <= nextGeneration', m.gen <= nextGeneration',
         conn' \in 0..nextGeneration', Announced' \in SUBSET (Images \cup {0}),
         Moves(conn, Announced, m, conn', Announced'),
         conn' \notin {0, conn} => conn' > nextGeneration,
         m.kind = "Encryption" => told = conn
  PROVE  Added(s, <<m>>, told, data)
<1>1. toPeer[s] \in Seq(PeerMsg) /\ nextGeneration \in Nat
  BY Numbers DEF LinkTypes, QueueTypes
<1> QED BY <1>1, AddTale DEF Added

LEMMA StoryGoesOn ==
  ASSUME LinkTypes, NEW msgs \in Seq(PeerMsg), CtlSends(msgs), UNCHANGED <<wire, pSock>>,
         nextGeneration' \in Nat, nextGeneration <= nextGeneration',
         NEW s \in Sockets, NEW told, NEW data, SocketStory(s, told, data),
         s = cSock /\ PeerHears => Added(s, msgs, told, data)
  PROVE  SocketStory(s, told, data)'
<1> DEFINE q == toPeer[s]
           last == nextGeneration
           last2 == nextGeneration'
<1>0. q \in Seq(PeerMsg) /\ last \in Nat /\ cSock \in Sockets \cup {0} /\ toPeer \in [Sockets -> Seq(PeerMsg)]
  BY Numbers DEF LinkTypes, QueueTypes
<1>1. Tale(q, last2, told, data)
  BY <1>0, LaterTale DEF SocketStory
<1>2. s > acceptedSockets' => told = 0 /\ data = {}
  BY DEF SocketStory, wire
<1>3. Sent(toPeer, cSock, PeerHears, msgs, <<toPeer', cSock'>>) /\ cSock' \in {0, cSock}
  BY CtlSent
<1>4. CASE s # cSock
  <2>1. toPeer'[s] = toPeer[s] /\ s # cSock'
    BY <1>3, <1>4, CtlSent DEF Sockets
  <2> QED BY <1>1, <1>2, <2>1 DEF SocketStory
<1>5. CASE s = cSock
  <2>0. cSock # 0 /\ s # 0
    BY <1>5 DEF Sockets
  <2>1. CASE toPeer' = toPeer /\ cSock' = 0
    BY <1>1, <1>2, <2>0, <2>1 DEF SocketStory
  <2>2. CASE PeerHears /\ cSock' = cSock /\ toPeer' = [toPeer EXCEPT ![cSock] = toPeer[cSock] \o msgs]
    <3>1. toPeer'[s] = q \o msgs
      BY <1>0, <1>5, <2>2
    <3>2. FullTale(toPeer'[s], last2, told, data, conn', Announced')
      BY <1>5, <2>2, <3>1 DEF Added
    <3>3. Tale(toPeer'[s], last2, told, data)
      BY <3>2, FullIsTale
    <3> QED BY <1>2, <3>2, <3>3 DEF SocketStory
  <2>3. CASE PeerHears /\ cSock' = 0 /\ \E p : CutShort(toPeer[cSock] \o msgs, p) /\ toPeer' = [toPeer EXCEPT ![cSock] = p]
    <3>1. PICK p : CutShort(toPeer[cSock] \o msgs, p) /\ toPeer' = [toPeer EXCEPT ![cSock] = p]
      BY <2>3
    <3>2. toPeer'[s] = p /\ q \o msgs \in Seq(PeerMsg)
      BY <1>0, <1>5, <3>1, ConcatProperties
    <3>3. Tale(q \o msgs, last2, told, data)
      BY <1>5, <2>3, FullIsTale DEF Added
    <3>4. Tale(p, last2, told, data)
      BY <1>5, <3>1, <3>2, <3>3, CutTale
    <3> QED BY <1>2, <2>0, <2>3, <3>2, <3>4 DEF SocketStory
  <2>4. CASE msgs = <<>> /\ toPeer' = toPeer /\ cSock' = cSock
    <3>1. q \o msgs = q
      BY <1>0, <2>4, ConcatEmptySeq
    <3>2. PeerHears' => PeerHears
      BY <2>4 DEF PeerHears, wire
    <3>3. PeerHears' => FullTale(toPeer'[s], last2, told, data, conn', Announced')
      BY <1>5, <2>4, <3>1, <3>2 DEF Added
    <3> QED BY <1>1, <1>2, <2>4, <3>3 DEF SocketStory
  <2> QED BY <1>3, <2>0, <2>1, <2>2, <2>3, <2>4 DEF Sent
<1> QED BY <1>4, <1>5

(* A message of the current link that is not about the link itself.        *)
LEMMA AddsOfLink ==
  ASSUME LinkTypes, NEW s \in Sockets, NEW told, NEW data,
         FullTale(toPeer[s], nextGeneration, told, data, conn, Announced),
         NEW m \in PeerMsg, m.gen = conn, conn # 0,
         m.kind \in {"Att", "AttSecurity", "Smp", "SecurityRequest", "Encryption"},
         m.kind = "Encryption" => told = conn,
         UNCHANGED <<nextGeneration, conn, published, cAdvertising>>
  PROVE  Added(s, <<m>>, told, data)
<1>1. /\ nextGeneration \in Nat /\ conn \in 0..nextGeneration /\ Announced \in SUBSET (Images \cup {0})
  BY Numbers
<1>2. Announced' = Announced
  BY DEF Announced
<1>3. Moves(conn, Announced, m, conn', Announced')
  BY <1>2 DEF Moves
<1>4. nextGeneration' \in Nat /\ nextGeneration <= nextGeneration' /\ m.gen <= nextGeneration' /\ conn' \in 0..nextGeneration'
  BY <1>1
<1>5. Announced' \in SUBSET (Images \cup {0}) /\ ~(conn' \notin {0, conn})
  BY <1>1, <1>2
<1> QED BY <1>3, <1>4, <1>5, AddsOne

(* The end of the link, and the news of it.                                *)
LEMMA AddsDisconnected ==
  ASSUME LinkTypes, CtlInv, NEW s \in Sockets, NEW told, NEW data,
         FullTale(toPeer[s], nextGeneration, told, data, conn, Announced),
         conn # 0, conn' = 0, UNCHANGED <<nextGeneration, cAdvertising>>
  PROVE  Added(s, Disconnected, told, data)
<1> DEFINE m == Msg("Disconnected", conn, 0)
<1>1. /\ nextGeneration \in Nat /\ conn \in 0..nextGeneration
  BY Numbers
<1>2. ~cAdvertising' /\ Announced' = {}
  BY DEF Announced, CtlInv
<1>3. Disconnected = <<m>> /\ m.kind = "Disconnected" /\ m.gen = conn
  BY DEF Disconnected, Msg
<1>4. m \in PeerMsg
  BY PeerMsgType, KeyFacts DEF PeerKinds, LinkTypes, CtlTypes
<1> HIDE DEF m
<1>5. Moves(conn, Announced, m, conn', Announced')
  BY <1>2, <1>3 DEF Moves
<1>6. /\ nextGeneration' \in Nat /\ nextGeneration <= nextGeneration' /\ m.gen <= nextGeneration'
      /\ conn' \in 0..nextGeneration' /\ Announced' \in SUBSET (Images \cup {0}) /\ ~(conn' \notin {0, conn})
      /\ m.kind # "Encryption"
  BY <1>1, <1>2, <1>3
<1>7. Added(s, <<m>>, told, data)
  BY <1>4, <1>5, <1>6, AddsOne
<1> QED BY <1>3, <1>7

LEMMA AddsReset ==
  ASSUME LinkTypes, CtlInv, NEW s \in Sockets, NEW told, NEW data,
         FullTale(toPeer[s], nextGeneration, told, data, conn, Announced),
         conn' = 0, cAdvertising' = FALSE, UNCHANGED nextGeneration
  PROVE  Added(s, ResetMessages, told, data)
<1> DEFINE m == Msg("Disconnected", conn, 0)
           n == Msg("Reset", 0, 0)
           q == toPeer[s]
<1>0. conn \in Keys /\ q \in Seq(PeerMsg) /\ nextGeneration \in Nat /\ conn \in 0..nextGeneration
  BY Numbers, KeyFacts DEF LinkTypes, CtlTypes, QueueTypes
<1>1. m \in PeerMsg /\ m.kind = "Disconnected" /\ m.gen = conn
  BY <1>0, PeerMsgType, KeyFacts DEF PeerKinds, Msg
<1>2. n \in PeerMsg /\ n.kind = "Reset" /\ n.gen = 0
  BY PeerMsgType, KeyFacts DEF PeerKinds, Msg
<1>3. Announced' = {} /\ nextGeneration' = nextGeneration
  BY DEF Announced
<1>4. ResetMessages = Disconnected \o <<n>>
  BY DEF ResetMessages
<1> HIDE DEF n
<1>5. CASE conn = 0
  <2>1. Disconnected = <<>>
    BY <1>5 DEF Disconnected
  <2>2. ResetMessages = <<n>>
    BY <1>2, <1>4, <2>1
  <2>3. Moves(conn, Announced, n, conn', Announced')
    BY <1>2, <1>3, <1>5 DEF Moves
  <2>4. /\ nextGeneration' \in Nat /\ nextGeneration <= nextGeneration' /\ n.gen <= nextGeneration'
        /\ conn' \in 0..nextGeneration' /\ Announced' \in SUBSET (Images \cup {0}) /\ ~(conn' \notin {0, conn})
        /\ n.kind # "Encryption"
    BY <1>0, <1>2, <1>3
  <2>5. Added(s, <<n>>, told, data)
    BY <1>2, <2>3, <2>4, AddsOne
  <2> QED BY <2>2, <2>5
<1>6. CASE conn # 0
  <2>1. Disconnected = <<m>>
    BY <1>6 DEF Disconnected
  <2> HIDE DEF m
  <2>2. Moves(conn, Announced, m, 0, {})
    BY <1>1, <1>6 DEF Moves
  <2>3. /\ m.gen <= nextGeneration /\ 0 \in 0..nextGeneration /\ {} \in SUBSET (Images \cup {0})
        /\ m.kind # "Encryption" /\ nextGeneration <= nextGeneration
    BY <1>0, <1>1
  <2>4. FullTale(q \o <<m>>, nextGeneration, told, data, 0, {})
    BY <1>0, <1>1, <2>2, <2>3, AddTale
  <2>5. q \o <<m>> \in Seq(PeerMsg)
    BY <1>0, <1>1
  <2>6. Moves(0, {}, n, 0, {})
    BY <1>2 DEF Moves
  <2>7. n.gen <= nextGeneration /\ n.kind # "Encryption"
    BY <1>0, <1>2
  <2>8. FullTale((q \o <<m>>) \o <<n>>, nextGeneration, told, data, 0, {})
    BY <1>0, <1>2, <2>3, <2>4, <2>5, <2>6, <2>7, AddTale
  <2>9. (q \o <<m>>) \o <<n>> = q \o (<<m>> \o <<n>>)
    BY <1>0, <1>1, <1>2
  <2>10. ResetMessages = <<m>> \o <<n>>
    BY <1>4, <2>1
  <2> QED BY <1>3, <2>8, <2>9, <2>10 DEF Added
<1> QED BY <1>5, <1>6

LEMMA AddsRejected ==
  ASSUME LinkTypes, NEW s \in Sockets, NEW told, NEW data,
         FullTale(toPeer[s], nextGeneration, told, data, conn, Announced),
         NEW g \in Keys, g <= nextGeneration, UNCHANGED <<nextGeneration, conn, published, cAdvertising>>
  PROVE  Added(s, <<Msg("Rejected", g, 0)>>, told, data)
<1> DEFINE m == Msg("Rejected", g, 0)
<1>1. /\ nextGeneration \in Nat /\ conn \in 0..nextGeneration /\ Announced \in SUBSET (Images \cup {0})
  BY Numbers
<1>2. m \in PeerMsg /\ m.kind = "Rejected" /\ m.gen = g
  BY PeerMsgType, KeyFacts DEF PeerKinds, Msg
<1>3. Announced' = Announced
  BY DEF Announced
<1> HIDE DEF m
<1>4. Moves(conn, Announced, m, conn', Announced')
  BY <1>2, <1>3 DEF Moves
<1>5. /\ nextGeneration' \in Nat /\ nextGeneration <= nextGeneration' /\ m.gen <= nextGeneration'
      /\ conn' \in 0..nextGeneration' /\ Announced' \in SUBSET (Images \cup {0}) /\ ~(conn' \notin {0, conn})
      /\ m.kind # "Encryption"
  BY <1>1, <1>2, <1>3
<1>6. Added(s, <<m>>, told, data)
  BY <1>2, <1>4, <1>5, AddsOne
<1> QED BY <1>6 DEF m

LEMMA AddsConnected ==
  ASSUME LinkTypes, CtlInv, NEW s \in Sockets, NEW told, NEW data,
         FullTale(toPeer[s], nextGeneration, told, data, conn, Announced),
         conn = 0, cAdvertising, nextGeneration < MaxGenerations,
         nextGeneration' = nextGeneration + 1, conn' = nextGeneration + 1, UNCHANGED published
  PROVE  Added(s, <<Msg("Connected", nextGeneration + 1, 0)>>, told, data)
<1> DEFINE m == Msg("Connected", nextGeneration + 1, 0)
<1>1. nextGeneration \in Nat /\ nextGeneration + 1 \in Keys /\ Announced \in SUBSET (Images \cup {0})
  BY Numbers, Bounds DEF Keys
<1>2. m \in PeerMsg /\ m.kind = "Connected" /\ m.gen = nextGeneration + 1
  BY <1>1, PeerMsgType, KeyFacts DEF PeerKinds, Msg
<1>3. Announced' = Announced
  <2>1. conn' # 0
    BY <1>1
  <2> QED BY <2>1 DEF Announced
<1> HIDE DEF m
<1>4. Moves(conn, Announced, m, conn', Announced')
  BY <1>1, <1>2, <1>3 DEF Moves
<1>5. /\ nextGeneration' \in Nat /\ nextGeneration <= nextGeneration' /\ m.gen <= nextGeneration'
      /\ conn' \in 0..nextGeneration' /\ Announced' \in SUBSET (Images \cup {0}) /\ conn' > nextGeneration
      /\ m.kind # "Encryption"
  BY <1>1, <1>2, <1>3
<1>6. Added(s, <<m>>, told, data)
  BY <1>2, <1>4, <1>5, AddsOne
<1> QED BY <1>6 DEF m

LEMMA AddsAdvertising ==
  ASSUME LinkTypes, NEW s \in Sockets, NEW told, NEW data,
         FullTale(toPeer[s], nextGeneration, told, data, conn, Announced),
         conn = 0, NEW x \in Images, NEW db \in Images \cup {0},
         published' = db, cAdvertising' = TRUE, UNCHANGED <<nextGeneration, conn>>
  PROVE  Added(s, <<Msg("AdvertisingOn", 0, x)>> \o publishGatt(db), told, data)
<1> DEFINE m == Msg("AdvertisingOn", 0, x)
           n == Msg("Gatt", 0, db)
           q == toPeer[s]
<1>0. q \in Seq(PeerMsg) /\ nextGeneration \in Nat
  BY Numbers DEF LinkTypes, QueueTypes
<1>1. m \in PeerMsg /\ m.kind = "AdvertisingOn" /\ m.gen = 0
  BY PeerMsgType, KeyFacts DEF PeerKinds, Msg
<1>2. n \in PeerMsg /\ n.kind = "Gatt" /\ n.gen = 0 /\ n.val = db
  BY PeerMsgType, KeyFacts DEF PeerKinds, Msg
<1>3. Announced' = {db}
  BY DEF Announced
<1> HIDE DEF m, n
<1>4. Moves(conn, Announced, m, 0, {}) /\ Moves(0, {}, n, 0, {db})
  BY <1>1, <1>2 DEF Moves
<1>5. /\ m.gen <= nextGeneration /\ n.gen <= nextGeneration /\ 0 \in 0..nextGeneration
      /\ {} \in SUBSET (Images \cup {0}) /\ {db} \in SUBSET (Images \cup {0})
      /\ m.kind # "Encryption" /\ n.kind # "Encryption" /\ nextGeneration <= nextGeneration
  BY <1>0, <1>1, <1>2
<1>6. FullTale(q \o <<m>>, nextGeneration, told, data, 0, {})
  BY <1>0, <1>1, <1>4, <1>5, AddTale
<1>7. q \o <<m>> \in Seq(PeerMsg)
  BY <1>0, <1>1
<1>8. FullTale((q \o <<m>>) \o <<n>>, nextGeneration, told, data, 0, {db})
  BY <1>0, <1>2, <1>4, <1>5, <1>6, <1>7, AddTale
<1>9. (q \o <<m>>) \o <<n>> = q \o (<<m>> \o <<n>>)
  BY <1>0, <1>1, <1>2
<1> QED BY <1>3, <1>8, <1>9 DEF Added, m, n, publishGatt

LEMMA AddsAdvertisingOff ==
  ASSUME LinkTypes, CtlInv, NEW s \in Sockets, NEW told, NEW data,
         FullTale(toPeer[s], nextGeneration, told, data, conn, Announced),
         NEW x \in Images, cAdvertising' = FALSE, published' = IF conn = 0 THEN 0 ELSE published,
         UNCHANGED <<nextGeneration, conn>>
  PROVE  Added(s, <<Msg("AdvertisingOff", 0, x)>>, told, data)
<1> DEFINE m == Msg("AdvertisingOff", 0, x)
<1>1. nextGeneration \in Nat /\ conn \in 0..nextGeneration /\ Announced \in SUBSET (Images \cup {0})
  BY Numbers
<1>2. m \in PeerMsg /\ m.kind = "AdvertisingOff" /\ m.gen = 0
  BY PeerMsgType, KeyFacts DEF PeerKinds, Msg
<1>3. Announced' = IF conn = 0 THEN {} ELSE Announced
  BY DEF Announced
<1> HIDE DEF m
<1>4. Moves(conn, Announced, m, conn', Announced')
  BY <1>2, <1>3 DEF Moves
<1>5. /\ nextGeneration' \in Nat /\ nextGeneration <= nextGeneration' /\ m.gen <= nextGeneration'
      /\ conn' \in 0..nextGeneration' /\ Announced' \in SUBSET (Images \cup {0}) /\ ~(conn' \notin {0, conn})
      /\ m.kind # "Encryption"
  BY <1>1, <1>2, <1>3
<1>6. Added(s, <<m>>, told, data)
  BY <1>2, <1>4, <1>5, AddsOne
<1> QED BY <1>6 DEF m

(* The controller that sends nothing changes nothing of a story, whether   *)
(* it keeps its socket or loses it.                                        *)
LEMMA SilentStory ==
  ASSUME LinkTypes, NEW s \in Sockets, NEW told, NEW data, SocketStory(s, told, data),
         UNCHANGED <<wire, toPeer, pSock, nextGeneration>>,
         cSock' = 0 \/ (cSock' = cSock /\ conn' = conn /\ Announced' = Announced)
  PROVE  SocketStory(s, told, data)'
<1>1. PeerHears' /\ cSock' # 0 => PeerHears
  BY DEF PeerHears, wire
<1>2. s # 0
  BY DEF Sockets
<1> QED BY <1>1, <1>2 DEF SocketStory, wire

LEMMA MessageStory ==
  ASSUME LinkTypes, CtlInv, WireInv, cSock # 0, NEW m \in CtlMsgs, m.gen <= nextGeneration, peerMessage(m),
         UNCHANGED <<wire, peer>>,
         NEW s \in Sockets, NEW told, NEW data, SocketStory(s, told, data)
  PROVE  SocketStory(s, told, data)'
<1> USE DEF radio, security, guest, peer
<1>0. /\ nextGeneration \in Nat /\ m.gen \in Keys /\ m.val \in Keys /\ conn \in Keys
      /\ MaxGenerations \in Nat
  BY Numbers, Bounds DEF CtlMsgs, Keys, LinkTypes, CtlTypes
<1>f. s = cSock /\ PeerHears => FullTale(toPeer[s], nextGeneration, told, data, conn, Announced)
  BY DEF SocketStory
<1>1. CASE reject(m)
  <2>1. CtlSends(<<Msg("Rejected", m.gen, 0)>>) /\ UNCHANGED <<pSock, nextGeneration, conn, published, cAdvertising>>
    BY <1>1 DEF reject
  <2>2. <<Msg("Rejected", m.gen, 0)>> \in Seq(PeerMsg)
    BY <1>0, PeerMsgType, KeyFacts DEF PeerKinds
  <2>3. s = cSock /\ PeerHears => Added(s, <<Msg("Rejected", m.gen, 0)>>, told, data)
    BY <1>0, <1>f, <2>1, AddsRejected
  <2>4. nextGeneration' \in Nat /\ nextGeneration <= nextGeneration'
    BY <1>0, <2>1
  <2> QED BY <2>1, <2>2, <2>3, <2>4, StoryGoesOn
<1>2. CASE m.kind = "Connect" /\ conn = 0 /\ cAdvertising /\ nextGeneration < MaxGenerations
           /\ nextGeneration' = nextGeneration + 1 /\ conn' = nextGeneration + 1
           /\ cAdvertising' = FALSE /\ cEncrypted' = FALSE /\ cKey' = 0
           /\ CtlSends(<<Msg("Connected", nextGeneration + 1, 0)>>)
           /\ UNCHANGED <<cOpened, published, guest>>
  <2>0. nextGeneration + 1 \in Keys /\ nextGeneration' \in Nat /\ nextGeneration <= nextGeneration'
    BY <1>0, <1>2 DEF Keys
  <2>1. <<Msg("Connected", nextGeneration + 1, 0)>> \in Seq(PeerMsg)
    BY <2>0, PeerMsgType, KeyFacts DEF PeerKinds
  <2>2. s = cSock /\ PeerHears => Added(s, <<Msg("Connected", nextGeneration + 1, 0)>>, told, data)
    BY <1>f, <1>2, AddsConnected
  <2> QED BY <1>2, <2>0, <2>1, <2>2, StoryGoesOn
<1>3. CASE m.kind = "Disconnect" /\ ForThisLink(m) /\ CtlSends(Disconnected) /\ NoLink /\ GuestLinkDown /\ UNCHANGED radio
  <2>1. conn # 0 /\ conn' = 0 /\ UNCHANGED <<nextGeneration, cAdvertising, pSock>>
    BY <1>3 DEF ForThisLink, NoLink
  <2>2. s = cSock /\ PeerHears => Added(s, Disconnected, told, data)
    BY <1>f, <2>1, AddsDisconnected
  <2>3. nextGeneration' \in Nat /\ nextGeneration <= nextGeneration'
    BY <1>0, <2>1
  <2> QED BY <1>3, <2>1, <2>2, <2>3, DisconnectedType, StoryGoesOn
<1>4. CASE UNCHANGED <<toPeer, cSock, radio, conn, published>>
  <2>1. Announced' = Announced
    BY <1>4 DEF Announced
  <2>2. UNCHANGED <<wire, toPeer, pSock, nextGeneration, cSock, conn>>
    BY <1>4
  <2> QED BY <2>1, <2>2, SilentStory
<1>5. CASE /\ m.kind = "Att" /\ ForThisLink(m) /\ guestAtt' = TRUE
           /\ UNCHANGED <<toPeer, cSock, radio, conn, security, guestSmp, guestLtk, guestBond>>
  BY <1>4, <1>5
<1>6. CASE /\ m.kind = "Smp" /\ ForThisLink(m) /\ guestSmp' = TRUE
           /\ UNCHANGED <<toPeer, cSock, radio, conn, security, guestAtt, guestLtk, guestBond>>
  BY <1>4, <1>6
<1>7. CASE /\ m.kind = "Encrypt" /\ ForThisLink(m) /\ cKey = 0 /\ ~cEncrypted /\ cKey' = m.val
           /\ UNCHANGED <<toPeer, cSock, radio, conn, published, cEncrypted, guest>>
  BY <1>4, <1>7
<1> QED BY <1>1, <1>2, <1>3, <1>5, <1>6, <1>7 DEF peerMessage

LEMMA CtlStory ==
  ASSUME LinkTypes, CtlInv, WireInv, CtlStep,
         NEW s \in Sockets, NEW told, NEW data, SocketStory(s, told, data),
         cKey # 0 /\ s = cSock /\ PeerHears => told = conn
  PROVE  SocketStory(s, told, data)'
<1> USE DEF radio, security, guest, peer
<1>0. nextGeneration \in Nat /\ conn \in Keys /\ cSock \in Sockets \cup {0} /\ opened \in Nat /\ acceptedSockets \in 0..opened
  <2>1. conn \in Keys
    BY KeyFacts DEF LinkTypes, CtlTypes
  <2>2. nextGeneration \in Nat /\ cSock \in Sockets \cup {0} /\ opened \in Nat /\ acceptedSockets \in 0..opened
    BY Numbers, Bounds
  <2> QED BY <2>1, <2>2
<1>f. s = cSock /\ PeerHears => FullTale(toPeer[s], nextGeneration, told, data, conn, Announced)
  BY DEF SocketStory
<1>g. ASSUME UNCHANGED nextGeneration PROVE nextGeneration' \in Nat /\ nextGeneration <= nextGeneration'
  BY <1>0, <1>g
<1>1. CASE CtlOpen
  <2>1. /\ UNCHANGED <<acceptedSockets, toPeer, nextGeneration, conn, published, cAdvertising, pSock>>
        /\ cSock' = opened + 1 /\ ~cAdvertising /\ conn = 0
    BY <1>1 DEF CtlOpen, CtlInv
  <2>2. Announced' = {} /\ conn' = 0
    BY <2>1 DEF Announced
  <2>3. s = opened + 1 => toPeer[s] = <<>> /\ told = 0 /\ data = {}
    BY <1>0 DEF WireInv, SocketStory
  <2>4. FullTale(<<>>, nextGeneration, 0, {}, 0, {})
    BY <1>0, EmptyTale
  <2>5. s = cSock' => FullTale(toPeer'[s], nextGeneration', told, data, conn', Announced')
    BY <2>1, <2>2, <2>3, <2>4
  <2> QED BY <2>1, <2>5 DEF SocketStory
<1>2. CASE CtlRestarts
  BY <1>2, SilentStory DEF CtlRestarts
<1>3. CASE GuestForgetsBond
  <2>1. UNCHANGED <<wire, toPeer, pSock, nextGeneration, cSock, conn, published, cAdvertising>>
    BY <1>3 DEF GuestForgetsBond
  <2>2. Announced' = Announced
    BY <2>1 DEF Announced
  <2> QED BY <2>1, <2>2, SilentStory
<1>4. CASE CtlLosesSocket
  BY <1>4, SilentStory DEF CtlLosesSocket
<1>5. CASE CtlReceive
  <2>1. cSock \in Sockets /\ toCtl[cSock] # <<>> /\ toCtl[cSock] \in Seq(CtlMsgs)
    BY <1>0, <1>5 DEF CtlReceive, LinkTypes, QueueTypes
  <2>2. Head(toCtl[cSock]) \in CtlMsgs /\ Head(toCtl[cSock]) = toCtl[cSock][1] /\ 1 \in 1..Len(toCtl[cSock])
    BY <2>1
  <2>3. Head(toCtl[cSock]).gen <= nextGeneration
    BY <2>1, <2>2 DEF WireInv
  <2>4. cSock # 0 /\ peerMessage(Head(toCtl[cSock])) /\ UNCHANGED <<wire, peer>>
    BY <1>5 DEF CtlReceive
  <2> QED BY <2>2, <2>3, <2>4, MessageStory
<1>6. CASE GuestAdvertises
  <2>1. PICK x \in Images, db \in Images \cup {0} :
          CtlSends(<<Msg("AdvertisingOn", 0, x)>> \o publishGatt(db)) /\ published' = db
    BY <1>6 DEF GuestAdvertises
  <2>2. Msg("AdvertisingOn", 0, x) \in PeerMsg /\ Msg("Gatt", 0, db) \in PeerMsg
    BY PeerMsgType, KeyFacts DEF PeerKinds
  <2>3. <<Msg("AdvertisingOn", 0, x)>> \o publishGatt(db) \in Seq(PeerMsg)
    BY <2>2, ConcatProperties DEF publishGatt
  <2>4. conn = 0 /\ cAdvertising' = TRUE /\ UNCHANGED <<wire, pSock, nextGeneration, conn>>
    BY <1>6 DEF GuestAdvertises
  <2>5. s = cSock /\ PeerHears => Added(s, <<Msg("AdvertisingOn", 0, x)>> \o publishGatt(db), told, data)
    BY <1>f, <2>1, <2>4, AddsAdvertising
  <2> QED BY <1>g, <2>1, <2>3, <2>4, <2>5, StoryGoesOn
<1>7. CASE GuestStopsAdvertising
  <2>1. PICK x \in Images : CtlSends(<<Msg("AdvertisingOff", 0, x)>>)
    BY <1>7 DEF GuestStopsAdvertising
  <2>2. <<Msg("AdvertisingOff", 0, x)>> \in Seq(PeerMsg)
    BY PeerMsgType, KeyFacts DEF PeerKinds
  <2>3. /\ cAdvertising' = FALSE /\ published' = IF conn = 0 THEN 0 ELSE published
        /\ UNCHANGED <<wire, pSock, nextGeneration, conn>>
    BY <1>7 DEF GuestStopsAdvertising
  <2>5. s = cSock /\ PeerHears => Added(s, <<Msg("AdvertisingOff", 0, x)>>, told, data)
    BY <1>f, <2>1, <2>3, AddsAdvertisingOff
  <2> QED BY <1>g, <2>1, <2>2, <2>3, <2>5, StoryGoesOn
<1>8. CASE GuestDisconnects
  <2>1. CtlSends(Disconnected) /\ conn # 0 /\ conn' = 0 /\ UNCHANGED <<wire, nextGeneration, cAdvertising, pSock>>
    BY <1>8 DEF GuestDisconnects, NoLink
  <2>2. s = cSock /\ PeerHears => Added(s, Disconnected, told, data)
    BY <1>f, <2>1, AddsDisconnected
  <2> QED BY <1>g, <2>1, <2>2, DisconnectedType, StoryGoesOn
<1>9. CASE GuestResets
  <2>1. CtlSends(ResetMessages) /\ conn' = 0 /\ cAdvertising' = FALSE /\ UNCHANGED <<wire, nextGeneration, pSock>>
    BY <1>9 DEF GuestResets, NoLink
  <2>2. s = cSock /\ PeerHears => Added(s, ResetMessages, told, data)
    BY <1>f, <2>1, AddsReset
  <2> QED BY <1>g, <2>1, <2>2, DisconnectedType, StoryGoesOn
<1>h. ASSUME NEW m \in PeerMsg, m.gen = conn, conn # 0,
             m.kind \in {"Att", "AttSecurity", "Smp", "SecurityRequest", "Encryption"},
             m.kind = "Encryption" => cKey # 0,
             CtlSends(<<m>>), UNCHANGED <<wire, pSock, nextGeneration, conn, published, cAdvertising>>
      PROVE  SocketStory(s, told, data)'
  <2>1. s = cSock /\ PeerHears => Added(s, <<m>>, told, data)
    BY <1>f, <1>h, AddsOfLink
  <2>2. <<m>> \in Seq(PeerMsg)
    OBVIOUS
  <2> QED BY <1>g, <1>h, <2>1, <2>2, StoryGoesOn
<1>10. CASE GuestAnswersAtt
  <2>1. PICK k \in {"Att", "AttSecurity"} : CtlSends(<<Msg(k, conn, 0)>>)
    BY <1>10 DEF GuestAnswersAtt
  <2>2. Msg(k, conn, 0) \in PeerMsg /\ Msg(k, conn, 0).kind = k /\ Msg(k, conn, 0).gen = conn
    BY <1>0, PeerMsgType, KeyFacts DEF PeerKinds, Msg
  <2>3. conn # 0 /\ UNCHANGED <<wire, pSock, nextGeneration, conn, published, cAdvertising>>
    BY <1>10 DEF GuestAnswersAtt
  <2> QED BY <1>h, <2>1, <2>2, <2>3
<1>11. CASE GuestPairs
  <2>1. CtlSends(<<Msg("Smp", conn, conn)>>)
    BY <1>11 DEF GuestPairs
  <2>2. Msg("Smp", conn, conn) \in PeerMsg /\ Msg("Smp", conn, conn).kind = "Smp" /\ Msg("Smp", conn, conn).gen = conn
    BY <1>0, PeerMsgType, KeyFacts DEF PeerKinds, Msg
  <2>3. conn # 0 /\ UNCHANGED <<wire, pSock, nextGeneration, conn, published, cAdvertising>>
    BY <1>11 DEF GuestPairs
  <2> QED BY <1>h, <2>1, <2>2, <2>3
<1>12. CASE GuestRequestsSecurity
  <2>1. CtlSends(<<Msg("SecurityRequest", conn, 0)>>)
    BY <1>12 DEF GuestRequestsSecurity
  <2>2. /\ Msg("SecurityRequest", conn, 0) \in PeerMsg
        /\ Msg("SecurityRequest", conn, 0).kind = "SecurityRequest" /\ Msg("SecurityRequest", conn, 0).gen = conn
    BY <1>0, PeerMsgType, KeyFacts DEF PeerKinds, Msg
  <2>3. conn # 0 /\ UNCHANGED <<wire, pSock, nextGeneration, conn, published, cAdvertising>>
    BY <1>12 DEF GuestRequestsSecurity
  <2> QED BY <1>h, <2>1, <2>2, <2>3
<1>13. CASE GuestAnswersKey
  <2>1. PICK status \in {0, 5, 6} : CtlSends(<<Msg("Encryption", conn, status)>>)
    BY <1>13 DEF GuestAnswersKey
  <2>2. /\ Msg("Encryption", conn, status) \in PeerMsg
        /\ Msg("Encryption", conn, status).kind = "Encryption" /\ Msg("Encryption", conn, status).gen = conn
    BY <1>0, PeerMsgType, KeyFacts DEF PeerKinds, Msg
  <2>3. cKey # 0 /\ UNCHANGED <<wire, pSock, nextGeneration, conn, published, cAdvertising>>
    BY <1>13 DEF GuestAnswersKey
  <2>4. conn # 0
    BY <2>3 DEF CtlInv
  <2> QED BY <1>h, <2>1, <2>2, <2>3, <2>4
<1> QED
  BY <1>1, <1>2, <1>3, <1>4, <1>5, <1>6, <1>7, <1>8, <1>9, <1>10, <1>11, <1>12, <1>13 DEF CtlStep

-----------------------------------------------------------------------------
(* The story of a socket under steps of the peer.                          *)

(* Where the peer reads nothing.                                           *)
LEMMA PeerKeepsStory ==
  ASSUME LinkTypes, UNCHANGED <<wire, controller>>, pSock' \in {0, pSock},
         NEW s \in Sockets, toPeer'[s] = toPeer[s], NEW told, NEW data, SocketStory(s, told, data)
  PROVE  SocketStory(s, told, data)'
<1>1. UNCHANGED <<acceptedSockets, cSock, conn, nextGeneration, Announced>>
  BY DEF wire, controller, radio, security, Announced
<1>2. s # 0
  BY DEF Sockets
<1>3. s = cSock /\ PeerHears' => PeerHears
  BY <1>1, <1>2 DEF PeerHears
<1> QED BY <1>1, <1>3 DEF SocketStory

(* Where it drops what it has not read, of a socket that is not open.      *)
LEMMA EmptyStory ==
  ASSUME LinkTypes, UNCHANGED controller, NEW s \in Sockets, toPeer'[s] = <<>>,
         acceptedSockets' \in Nat, s <= acceptedSockets', s # pSock'
  PROVE  SocketStory(s, 0, {})'
<1>1. nextGeneration' \in Nat
  BY Numbers DEF controller, radio
<1>2. FullTale(<<>>, nextGeneration', 0, {}, 0, {})
  BY <1>1, EmptyTale
<1>3. Tale(toPeer'[s], nextGeneration', 0, {})
  BY <1>2, FullIsTale
<1>4. ~(s = cSock' /\ PeerHears')
  BY DEF PeerHears, Sockets
<1> QED BY <1>3, <1>4 DEF SocketStory

(* A peer that has been told of the current link is not told of its end.   *)
LEMMA NoStepBack ==
  ASSUME NEW q \in Seq(PeerMsg), q # <<>>, NEW last \in Nat, NEW data, NEW link, link # 0, NEW ann,
         Tale(q, last, link, data),
         NEW c, NEW y, Moves(link, data, Head(q), c, y), FullTale(Tail(q), last, c, y, link, ann)
  PROVE  c = link
<1> SUFFICES ASSUME c # link PROVE FALSE
  OBVIOUS
<1>1. Tail(q) \in Seq(PeerMsg) /\ \A i \in 1..Len(Tail(q)) : i + 1 \in 1..Len(q) /\ Tail(q)[i] = q[i + 1]
  OBVIOUS
<1>2. Has(Tail(q), "Connected", link)
  BY <1>1, FullFacts
<1>3. PICK i \in 1..Len(Tail(q)) : Tail(q)[i].kind = "Connected" /\ Tail(q)[i].gen = link
  BY <1>2 DEF Has
<1>4. q[i + 1].kind = "Connected" /\ q[i + 1].gen = link /\ i + 1 \in 1..Len(q)
  BY <1>1, <1>3
<1>5. link \in 0..last /\ q[i + 1].gen > link
  BY <1>4, TaleFacts
<1> QED BY <1>4, <1>5

(* The peer reads a message of its socket.                                 *)
GoesOnTo(s, told, data, c, y) ==
  /\ Moves(told, data, Head(toPeer[s]), c, y) /\ SocketStory(s, c, y)'
  /\ c \in 0..nextGeneration /\ y \in SUBSET (Images \cup {0})
  /\ s = cSock /\ conn # 0 /\ told = conn => c = conn

LEMMA ReadStory ==
  ASSUME LinkTypes, PollReceives, pSock' \in {0, pSock},
         NEW s \in Sockets, s = pSock, NEW told, NEW data, SocketStory(s, told, data)
  PROVE  \E c, y : GoesOnTo(s, told, data, c, y)
<1> DEFINE q == toPeer[s]
<1>0. q \in Seq(PeerMsg) /\ q # <<>> /\ nextGeneration \in Nat /\ s # 0 /\ Tail(q) \in Seq(PeerMsg)
      /\ toPeer \in [Sockets -> Seq(PeerMsg)]
  <2>1. toPeer \in [Sockets -> Seq(PeerMsg)]
    BY DEF LinkTypes, QueueTypes
  <2> QED BY <2>1, Numbers DEF PollReceives, Sockets
<1>1. toPeer'[s] = Tail(q)
  BY <1>0 DEF PollReceives
<1>2. UNCHANGED <<acceptedSockets, cSock, conn, nextGeneration, Announced>>
  BY DEF PollReceives, wire, controller, radio, security, Announced
<1>3. acceptedSockets \in Nat /\ ~(s > acceptedSockets')
  BY <1>0, <1>2, Numbers DEF LinkTypes, SocketTypes
<1>4. Tale(q, nextGeneration, told, data)
  BY DEF SocketStory
<1>5. CASE s = cSock
  <2>1. FullTale(q, nextGeneration, told, data, conn, Announced)
    BY <1>5 DEF SocketStory, PeerHears
  <2>2. PICK c, y : Moves(told, data, Head(q), c, y) /\ FullTale(Tail(q), nextGeneration, c, y, conn, Announced)
    BY <1>0, <2>1, TakeFullTale
  <2>3. Tale(Tail(q), nextGeneration, c, y)
    BY <2>2, FullIsTale
  <2>4. SocketStory(s, c, y)'
    BY <1>1, <1>2, <1>3, <2>2, <2>3 DEF SocketStory
  <2>5. c \in 0..nextGeneration /\ y \in SUBSET (Images \cup {0})
    BY <1>0, <2>3, TaleFacts
  <2>6. conn # 0 /\ told = conn => c = conn
    BY <1>0, <1>4, <2>2, NoStepBack
  <2> QED BY <2>2, <2>4, <2>5, <2>6 DEF GoesOnTo
<1>6. CASE s # cSock
  <2>1. PICK c, y : Moves(told, data, Head(q), c, y) /\ Tale(Tail(q), nextGeneration, c, y)
    BY <1>0, <1>4, TakeTale
  <2>2. SocketStory(s, c, y)'
    BY <1>1, <1>2, <1>3, <1>6, <2>1 DEF SocketStory
  <2>3. c \in 0..nextGeneration /\ y \in SUBSET (Images \cup {0})
    BY <1>0, <2>1, TaleFacts
  <2> QED BY <1>6, <2>1, <2>2, <2>3 DEF GoesOnTo
<1> QED BY <1>5, <1>6

-----------------------------------------------------------------------------
(* What the peer says, and what that makes of the link and the database.   *)

(* At most one message, of M, is added to the peer's own socket; none that *)
(* was there is lost to a peer that keeps it.                              *)
Said(M) ==
  /\ pSock' \in {0, pSock}
  /\ \A s \in Sockets : \A i \in 1..Len(toCtl'[s]) :
       \/ i \in 1..Len(toCtl[s]) /\ toCtl'[s][i] = toCtl[s][i]
       \/ s = pSock /\ i = Len(toCtl[s]) + 1 /\ toCtl'[s][i] \in M
  /\ pSock' # 0 =>
       /\ \A i \in 1..Len(toCtl[pSock]) : i \in 1..Len(toCtl'[pSock]) /\ toCtl'[pSock][i] = toCtl[pSock][i]
       /\ M # {} => \E i \in 1..Len(toCtl'[pSock]) : toCtl'[pSock][i] \in M

LEMMA SaidNothing == ASSUME LinkTypes, UNCHANGED <<toCtl, pSock>> \/ PeerSends(<<>>) PROVE Said({})
<1>1. UNCHANGED <<toCtl, pSock>>
  BY DEF PeerSends, SocketSend
<1> QED BY <1>1 DEF Said

LEMMA SaidOne == ASSUME LinkTypes, NEW m \in CtlMsgs, PeerSends(<<m>>) PROVE Said({m})
<1>1. toCtl \in [Sockets -> Seq(CtlMsgs)] /\ <<m>> \in Seq(CtlMsgs) /\ Len(<<m>>) = 1 /\ <<m>>[1] = m /\ <<m>> # <<>>
  BY DEF LinkTypes, QueueTypes
<1>2. Sent(toCtl, pSock, cSock = pSock, <<m>>, <<toCtl', pSock'>>) /\ pSock' \in {0, pSock}
  BY <1>1, PeerSent
<1>3. CASE toCtl' = toCtl /\ pSock' = 0
  BY <1>3 DEF Said
<1>4. CASE toCtl' = toCtl /\ pSock' = pSock /\ pSock = 0
  BY <1>4 DEF Said
<1> DEFINE q == toCtl[pSock]
<1>5. ASSUME pSock # 0 PROVE pSock \in Sockets /\ q \in Seq(CtlMsgs) /\ Len(q) \in Nat
  BY <1>1, <1>5, Numbers
<1>6. ASSUME pSock # 0 PROVE /\ Len(q \o <<m>>) = Len(q) + 1
                           /\ \A i \in 1..Len(q) + 1 : (q \o <<m>>)[i] = IF i <= Len(q) THEN q[i] ELSE m
  BY <1>1, <1>5, <1>6, ConcatProperties
<1>7. CASE pSock # 0 /\ pSock' = pSock /\ toCtl' = [toCtl EXCEPT ![pSock] = q \o <<m>>]
  <2>1. /\ \A s \in Sockets : s # pSock => toCtl'[s] = toCtl[s]
        /\ toCtl'[pSock] = q \o <<m>> /\ pSock \in Sockets
    BY <1>1, <1>5, <1>7
  <2>2. ASSUME NEW i \in 1..Len(toCtl'[pSock])
        PROVE  (i \in 1..Len(q) /\ toCtl'[pSock][i] = q[i]) \/ (i = Len(q) + 1 /\ toCtl'[pSock][i] = m)
    BY <1>5, <1>6, <1>7, <2>1
  <2>3. \A i \in 1..Len(q) : i \in 1..Len(toCtl'[pSock]) /\ toCtl'[pSock][i] = q[i]
    BY <1>5, <1>6, <1>7, <2>1
  <2>4. Len(q) + 1 \in 1..Len(toCtl'[pSock]) /\ toCtl'[pSock][Len(q) + 1] = m
    BY <1>5, <1>6, <1>7, <2>1
  <2> QED BY <1>7, <2>1, <2>2, <2>3, <2>4 DEF Said
<1>8. CASE pSock # 0 /\ pSock' = 0 /\ \E p : CutShort(q \o <<m>>, p) /\ toCtl' = [toCtl EXCEPT ![pSock] = p]
  <2>1. PICK n \in 0..Len(q \o <<m>>) : toCtl' = [toCtl EXCEPT ![pSock] = SubSeq(q \o <<m>>, 1, n)]
    BY <1>8 DEF CutShort
  <2>2. /\ \A s \in Sockets : s # pSock => toCtl'[s] = toCtl[s]
        /\ toCtl'[pSock] = SubSeq(q \o <<m>>, 1, n) /\ pSock \in Sockets /\ n \in 0..Len(q) + 1
    BY <1>1, <1>5, <1>6, <1>8, <2>1
  <2>3. Len(toCtl'[pSock]) = n /\ \A i \in 1..n : toCtl'[pSock][i] = (q \o <<m>>)[i]
    BY <1>5, <1>6, <1>8, <2>2
  <2>4. ASSUME NEW i \in 1..Len(toCtl'[pSock])
        PROVE  (i \in 1..Len(q) /\ toCtl'[pSock][i] = q[i]) \/ (i = Len(q) + 1 /\ toCtl'[pSock][i] = m)
    BY <1>5, <1>6, <1>8, <2>2, <2>3
  <2> QED BY <1>8, <2>2, <2>4 DEF Said
<1> QED BY <1>1, <1>2, <1>3, <1>4, <1>7, <1>8 DEF Sent

(* The peer's half of a link: it is the one its socket has told it of, and *)
(* a link it has been told of but does not have is being disconnected; of  *)
(* a link it has not been told of it has said nothing.                     *)
LinkStart(told) ==
  /\ generation # 0 => told = generation
  /\ conn # 0 /\ cSock = pSock /\ told = conn /\ generation # conn => Has(toCtl[pSock], "Disconnect", conn)
  /\ conn # 0 /\ cSock = pSock /\ told # conn =>
       cKey = 0 /\ ~cEncrypted /\ \A i \in 1..Len(toCtl[pSock]) : toCtl[pSock][i].gen # conn

(* A step of a peer told of the link told that leaves it told of link c:   *)
(* what it says is about these two, and a link it does not take or gives   *)
(* up is disconnected.                                                     *)
Tells(told, c, M) ==
  /\ Said(M) /\ M \in SUBSET CtlMsgs /\ \A m \in M : m.gen \in {0, told, c}
  /\ generation' # 0 => generation' = c
  /\ c # 0 /\ generation' # c => (told = c /\ generation # c) \/ M = {Msg("Disconnect", c, 0)}

LEMMA LinkGoesOn ==
  ASSUME LinkTypes, WireInv, LinkTypes', UNCHANGED controller, NEW told, NEW c, NEW M, Tells(told, c, M), LinkStart(told),
         pSock' # 0, cSock = pSock /\ conn # 0 /\ told = conn => c = conn
  PROVE  LinkStart(c)'
<1>1. pSock' = pSock /\ UNCHANGED <<cSock, conn, cKey, cEncrypted>> /\ pSock \in Sockets
  BY Numbers DEF Tells, Said, controller, security
<1>2. generation' # 0 => c = generation'
  BY DEF Tells
<1>3. ASSUME conn # 0, cSock = pSock, c = conn, generation' # conn
      PROVE  Has(toCtl'[pSock], "Disconnect", conn)
  <2>1. CASE told = c /\ generation # c
    <3>1. Has(toCtl[pSock], "Disconnect", conn)
      BY <1>3, <2>1 DEF LinkStart
    <3> QED BY <1>1, <3>1 DEF Tells, Said, Has
  <2>2. CASE M = {Msg("Disconnect", c, 0)}
    <3>1. PICK i \in 1..Len(toCtl'[pSock]) : toCtl'[pSock][i] = Msg("Disconnect", c, 0)
      BY <1>1, <2>2 DEF Tells, Said
    <3> QED BY <1>3, <3>1 DEF Has, Msg
  <2> QED BY <1>3, <2>1, <2>2 DEF Tells
<1>4. ASSUME conn # 0, cSock = pSock, c # conn
      PROVE  cKey = 0 /\ ~cEncrypted /\ \A i \in 1..Len(toCtl'[pSock]) : toCtl'[pSock][i].gen # conn
  <2>1. told # conn
    BY <1>4
  <2>2. cKey = 0 /\ ~cEncrypted /\ \A i \in 1..Len(toCtl[pSock]) : toCtl[pSock][i].gen # conn
    BY <1>4, <2>1 DEF LinkStart
  <2>3. ASSUME NEW i \in 1..Len(toCtl'[pSock]) PROVE toCtl'[pSock][i].gen # conn
    BY <1>1, <1>4, <2>1, <2>2 DEF Tells, Said
  <2> QED BY <2>2, <2>3
<1> QED BY <1>1, <1>2, <1>3, <1>4 DEF LinkStart

(* The queues to the controller: links that exist, and nothing on a socket *)
(* the peer has not accepted.                                              *)
LEMMA WireGoesOn ==
  ASSUME LinkTypes, WireInv, NEW M, Said(M), \A m \in M : m.gen <= nextGeneration, UNCHANGED <<wire, controller>>,
         \A s \in Sockets : toPeer'[s] = <<>> \/ toPeer'[s] = toPeer[s] \/ s = pSock,
         LinkTypes'
  PROVE  WireInv'
<1>1. UNCHANGED <<opened, acceptedSockets, nextGeneration, conn>>
  BY DEF wire, controller, radio
<1>2. ASSUME NEW s \in Sockets, NEW i \in 1..Len(toCtl'[s]) PROVE toCtl'[s][i].gen <= nextGeneration
  BY DEF WireInv, Said
<1>3. ASSUME NEW s \in Sockets, s > acceptedSockets PROVE toCtl'[s] = <<>>
  <2>1. s # pSock
    BY <1>3, Numbers DEF LinkTypes, SocketTypes, Sockets
  <2>2. toCtl[s] = <<>> /\ Len(toCtl[s]) = 0
    BY <1>3 DEF WireInv
  <2>3. ~\E i \in 1..Len(toCtl'[s]) : TRUE
    BY <2>1, <2>2 DEF Said
  <2>4. toCtl'[s] \in Seq(CtlMsgs)
    BY DEF LinkTypes, QueueTypes
  <2> QED BY <2>3, <2>4
<1>4. ASSUME NEW s \in Sockets, s > opened PROVE toPeer'[s] = <<>>
  <2>1. s # pSock
    BY <1>4, Numbers DEF LinkTypes, SocketTypes, Sockets
  <2> QED BY <1>4, <2>1 DEF WireInv
<1> QED BY <1>1, <1>2, <1>3, <1>4 DEF WireInv

(* What the peer offers is the database its socket has announced, or none; *)
(* with none it has no session either, once a close is over.               *)
Offers(v) ==
  /\ catalog \in {0, v}
  /\ ~closing /\ catalog = 0 => ~sessionRequested /\ ~connecting /\ generation = 0

DataStart(data) == \A v \in data : Offers(v)

LEMMA DropsTells ==
  ASSUME LinkTypes, PeerInv, disconnect, NEW told, NEW c, generation # 0 => told = generation, c \in {0, told}
  PROVE  \E M : Tells(told, c, M)
<1>1. generation' = 0 /\ generation \in Keys /\ 0 \in Keys
  BY DisconnectedSession, KeyFacts DEF NoSession, LinkTypes, PeerTypes
<1>2. closing => generation = 0
  BY DEF PeerInv, SessionInv
<1>3. CASE generation = 0
  <2>1. closing => UNCHANGED <<toCtl, pSock>>
    BY Disconnects
  <2>2. ~closing => PeerSends(<<>>)
    BY <1>3, Disconnects
  <2>3. Said({})
    BY <2>1, <2>2, SaidNothing
  <2> QED BY <1>1, <1>3, <2>3 DEF Tells
<1>4. CASE generation # 0
  <2>1. PeerSends(<<Msg("Disconnect", generation, 0)>>)
    BY <1>2, <1>4, Disconnects
  <2>2. Msg("Disconnect", generation, 0) \in CtlMsgs
    BY <1>1, CtlMsgType DEF CtlKinds
  <2>3. Said({Msg("Disconnect", generation, 0)})
    BY <2>1, <2>2, SaidOne
  <2>4. Msg("Disconnect", generation, 0).gen = generation /\ told = generation
    BY <1>4 DEF Msg
  <2> QED BY <1>1, <1>4, <2>2, <2>3, <2>4 DEF Tells
<1> QED BY <1>3, <1>4

LEMMA StaysTells ==
  ASSUME LinkTypes, UNCHANGED <<toCtl, pSock>>, NEW told, NEW c, generation # 0 => told = generation,
         c \in {0, told}, generation' \in {0, generation}, generation' = 0 => c = 0 \/ generation = 0,
         generation' # 0 => c = told
  PROVE  \E M : Tells(told, c, M)
<1>1. Said({})
  BY SaidNothing
<1> QED BY <1>1 DEF Tells

LEMMA SpeaksTells ==
  ASSUME LinkTypes, NEW k \in CtlKinds, NEW g \in Keys, NEW v \in Keys, PeerSends(<<Msg(k, g, v)>>),
         UNCHANGED generation, NEW told, generation # 0 => told = generation, g \in {0, generation}
  PROVE  \E M : Tells(told, told, M)
<1>1. Msg(k, g, v) \in CtlMsgs /\ Msg(k, g, v).gen = g
  BY CtlMsgType DEF Msg
<1>2. Said({Msg(k, g, v)})
  BY <1>1, SaidOne
<1>3. g \in {0, told}
  OBVIOUS
<1> QED BY <1>1, <1>2, <1>3 DEF Tells

LEMMA DropsData ==
  ASSUME LinkTypes, PeerInv, disconnect, NEW y, \A v \in y : catalog' \in {0, v}
  PROVE  DataStart(y)'
<1>1. /\ ~closing => ~sessionRequested'
      /\ ~connecting' /\ generation' = 0
      /\ closing => closing'
  BY DisconnectedSession DEF NoSession
<1>2. ~closing' => ~sessionRequested' /\ ~connecting' /\ generation' = 0
  BY <1>1
<1> QED BY <1>2 DEF DataStart, Offers

LEMMA KeepsData ==
  ASSUME NEW y, DataStart(y), catalog' = catalog, ~closing' => ~closing,
         sessionRequested' => sessionRequested \/ catalog # 0,
         connecting' => connecting \/ sessionRequested,
         generation' # 0 => generation # 0 \/ connecting
  PROVE  DataStart(y)'
BY DEF DataStart, Offers

LEMMA NoData == DataStart({})'
BY DEF DataStart

LEMMA StaysToldTells ==
  ASSUME LinkTypes, UNCHANGED <<toCtl, pSock, generation>>, NEW told, generation # 0 => told = generation
  PROVE  \E M : Tells(told, told, M)
BY StaysTells

LEMMA StartTells ==
  ASSUME LinkTypes, start, UNCHANGED generation, NEW told, generation # 0 => told = generation
  PROVE  \E M : Tells(told, told, M)
<1>1. generation \in Keys /\ bond \in Keys /\ 0 \in Keys
  BY KeyFacts DEF LinkTypes, PeerTypes
<1>2. CASE smp # "Idle"
  BY <1>2, StaysToldTells DEF start
<1>3. CASE smp = "Idle" /\ bond # 0
  <2>1. PeerSends(<<Msg("Encrypt", generation, bond)>>)
    BY <1>3 DEF start, requestEncryption
  <2> QED BY <1>1, <2>1, SpeaksTells DEF CtlKinds
<1>4. CASE smp = "Idle" /\ bond = 0
  <2>1. PeerSends(<<Msg("Smp", generation, 0)>>)
    BY <1>4 DEF start, pair
  <2> QED BY <1>1, <2>1, SpeaksTells DEF CtlKinds
<1> QED BY <1>2, <1>3, <1>4

LEMMA SendNextTells ==
  ASSUME LinkTypes, NEW left, sendNext(left), UNCHANGED generation, NEW told, generation # 0 => told = generation
  PROVE  \E M : Tells(told, told, M)
<1>1. generation \in Keys /\ 0 \in Keys
  BY KeyFacts DEF LinkTypes, PeerTypes
<1>2. CASE left > 0
  <2>1. PeerSends(<<Msg("Att", generation, 0)>>)
    BY <1>2 DEF sendNext
  <2> QED BY <1>1, <2>1, SpeaksTells DEF CtlKinds
<1>3. CASE ~(left > 0)
  <2>1. PeerSends(<<>>)
    BY <1>3 DEF sendNext
  <2>2. UNCHANGED <<toCtl, pSock>>
    BY <2>1 DEF PeerSends, SocketSend
  <2> QED BY <2>2, StaysToldTells
<1> QED BY <1>2, <1>3

Outcome(told, c, y) == (\E M : Tells(told, c, M)) /\ DataStart(y)'

(* A failure, whatever the message.                                        *)
LEMMA FailsOutcome ==
  ASSUME LinkTypes, PeerInv, Fails, NEW told, NEW c, NEW y, generation # 0 => told = generation, c \in {0, told}
  PROVE  Outcome(told, c, y)
<1>1. disconnect /\ catalog' = 0
  BY DEF Fails
<1>2. \E M : Tells(told, c, M)
  BY <1>1, DropsTells
<1>3. DataStart(y)'
  BY <1>1, DropsData
<1> QED BY <1>2, <1>3 DEF Outcome

LEMMA KeepsOutcome ==
  ASSUME NEW told, NEW y, DataStart(y), UNCHANGED <<catalog, closing, sessionRequested, connecting, generation>>,
         \E M : Tells(told, told, M)
  PROVE  Outcome(told, told, y)
<1>1. DataStart(y)'
  BY KeepsData
<1> QED BY <1>1 DEF Outcome

LEMMA AttOutcome ==
  ASSUME LinkTypes, PeerInv, NEW m, receiveAtt(m), NEW told, NEW data, generation # 0 => told = generation, DataStart(data)
  PROVE  Outcome(told, told, data)
<1>1. CASE Fails
  BY <1>1, FailsOutcome
<1>2. CASE start /\ Stays /\ UNCHANGED <<connecting, ready, sessionRequested, generation, setup, requests, bond>>
  <2>1. \E M : Tells(told, told, M)
    BY <1>2, StartTells
  <2> QED BY <1>2, <2>1, KeepsOutcome DEF Stays, publication, closes
<1>3. CASE discoverNext /\ Stays /\ UNCHANGED <<connecting, sessionRequested, generation, attSecurityPending, smp, bond>>
  <2>1. PICK left : sendNext(left)
    BY <1>3 DEF discoverNext
  <2>2. \E M : Tells(told, told, M)
    BY <1>3, <2>1, SendNextTells
  <2> QED BY <1>3, <2>2, KeepsOutcome DEF Stays, publication, closes
<1>4. CASE /\ sendNext(requests - 1)
           /\ Stays /\ UNCHANGED <<connecting, ready, sessionRequested, generation, setup, attSecurityPending, smp, bond>>
  <2>1. \E M : Tells(told, told, M)
    BY <1>4, SendNextTells
  <2> QED BY <1>4, <2>1, KeepsOutcome DEF Stays, publication, closes
<1> QED BY <1>1, <1>2, <1>3, <1>4 DEF receiveAtt

LEMMA SmpOutcome ==
  ASSUME LinkTypes, PeerInv, NEW m \in PeerMsg, receiveSmp(m), NEW told, NEW data,
         generation # 0 => told = generation, DataStart(data), m.gen = generation
  PROVE  Outcome(told, told, data)
<1> DEFINE rest == UNCHANGED <<connecting, ready, sessionRequested, generation, setup, requests, attBusy, attSecurityPending, bond>>
<1>1. CASE Fails
  BY <1>1, FailsOutcome
<1>2. CASE start /\ Stays /\ rest
  <2>1. \E M : Tells(told, told, M)
    BY <1>2, StartTells
  <2> QED BY <1>2, <2>1, KeepsOutcome DEF Stays, publication, closes
<1>3. CASE m.kind = "Smp" /\ requestEncryption(generation, m.val) /\ Stays /\ rest
  <2>1. generation \in Keys /\ m.val \in Keys /\ PeerSends(<<Msg("Encrypt", generation, m.val)>>)
    BY <1>3 DEF LinkTypes, PeerTypes, PeerMsg, requestEncryption
  <2>2. \E M : Tells(told, told, M)
    BY <1>3, <2>1, SpeaksTells DEF CtlKinds
  <2> QED BY <1>3, <2>2, KeepsOutcome DEF Stays, publication, closes
<1> QED BY <1>1, <1>2, <1>3 DEF receiveSmp

LEMMA EncryptionOutcome ==
  ASSUME LinkTypes, PeerInv, NEW m, encryptionChanged(m), NEW told, NEW data,
         generation # 0 => told = generation, DataStart(data)
  PROVE  Outcome(told, told, data)
<1>1. CASE Fails
  BY <1>1, FailsOutcome
<1>2. CASE /\ pair
           /\ Stays /\ UNCHANGED <<connecting, ready, sessionRequested, generation, setup, requests, attBusy, attSecurityPending>>
  <2>1. generation \in Keys /\ 0 \in Keys /\ PeerSends(<<Msg("Smp", generation, 0)>>)
    BY <1>2, KeyFacts DEF LinkTypes, PeerTypes, pair
  <2>2. \E M : Tells(told, told, M)
    BY <1>2, <2>1, SpeaksTells DEF CtlKinds
  <2> QED BY <1>2, <2>2, KeepsOutcome DEF Stays, publication, closes
<1>3. CASE /\ IF attBusy THEN UNCHANGED <<toCtl, pSock, requests, attBusy>> ELSE sendNext(requests)
           /\ Stays /\ UNCHANGED <<connecting, ready, sessionRequested, generation, setup>>
  <2>1. attBusy => \E M : Tells(told, told, M)
    BY <1>3, StaysToldTells
  <2>2. ~attBusy => sendNext(requests)
    BY <1>3
  <2>3. ~attBusy => \E M : Tells(told, told, M)
    BY <1>3, <2>2, SendNextTells
  <2> QED BY <1>3, <2>1, <2>3, KeepsOutcome DEF Stays, publication, closes
<1> QED BY <1>1, <1>2, <1>3 DEF encryptionChanged

LEMMA ConnectedOutcome ==
  ASSUME Handles, NEW m \in PeerMsg, receiveConnected(m), NEW told, NEW data, NEW c, NEW y, Moves(told, data, m, c, y),
         generation # 0 => told = generation, DataStart(data)
  PROVE  Outcome(told, c, y)
<1>0. /\ told = 0 /\ c = m.gen /\ c # 0 /\ y = data /\ generation = 0 /\ m.kind = "Connected"
      /\ m.gen \in Keys /\ 0 \in Keys /\ bond \in Keys
  BY KeyFacts DEF Moves, receiveConnected, Handles, LinkTypes, PeerTypes, PeerMsg, PeerMsgs, Keys
<1>t. LinkTypes
  BY DEF Handles
<1>1. CASE /\ ~AcceptsConnection(m)
           /\ closing' = TRUE /\ closingGeneration' = m.gen
           /\ PeerSends(<<Msg("Disconnect", m.gen, 0)>>)
           /\ UNCHANGED <<failed, publication, session, bond>>
  <2>1. Msg("Disconnect", c, 0) \in CtlMsgs /\ Msg("Disconnect", c, 0).gen = c
    BY <1>0, CtlMsgType DEF CtlKinds, Msg
  <2>2. Said({Msg("Disconnect", c, 0)})
    BY <1>0, <1>1, <1>t, <2>1, SaidOne
  <2>3. generation' = 0
    BY <1>0, <1>1 DEF session
  <2>4. Tells(told, c, {Msg("Disconnect", c, 0)})
    BY <1>0, <2>1, <2>2, <2>3 DEF Tells
  <2>5. catalog' = catalog /\ connecting' = connecting /\ sessionRequested' = sessionRequested
    BY <1>1 DEF session, publication
  <2>6. DataStart(y)'
    BY <1>0, <1>1, <2>3, <2>5, KeepsData
  <2> QED BY <2>4, <2>6 DEF Outcome
<1>2. CASE /\ AcceptsConnection(m)
           /\ generation' = m.gen /\ connecting' = FALSE /\ pAdvertising' = FALSE
           /\ IF bond # 0 THEN requestEncryption(m.gen, bond) ELSE PeerSends(<<Msg("Att", m.gen, 0)>>)
           /\ UNCHANGED <<failed, pImage, catalog, ready, sessionRequested, closes, bond>>
  <2>1. PICK x \in {Msg("Encrypt", c, bond), Msg("Att", c, 0)} : PeerSends(<<x>>)
    BY <1>0, <1>2 DEF requestEncryption
  <2>2. x \in CtlMsgs /\ x.gen = c
    BY <1>0, CtlMsgType DEF CtlKinds, Msg
  <2>3. Said({x})
    BY <1>t, <2>1, <2>2, SaidOne
  <2>4. Tells(told, c, {x})
    BY <1>0, <1>2, <2>2, <2>3 DEF Tells
  <2>5. connecting /\ closing' = closing
    BY <1>2 DEF AcceptsConnection, closes
  <2>6. DataStart(y)'
    BY <1>0, <1>2, <2>5, KeepsData
  <2> QED BY <2>4, <2>6 DEF Outcome
<1> QED BY <1>1, <1>2 DEF receiveConnected

(* A database, or the end of an advertisement.                             *)
LEMMA CatalogOutcome ==
  ASSUME LinkTypes, PeerInv, NEW m, receiveCatalog(m), NEW told, generation # 0 => told = generation
  PROVE  told = 0 => Outcome(told, 0, {m.val})
<1> SUFFICES ASSUME told = 0 PROVE Outcome(told, 0, {m.val})
  OBVIOUS
<1>1. CASE disconnect /\ catalog' \in {0, m.val}
  <2>1. \E M : Tells(told, 0, M)
    BY <1>1, DropsTells
  <2>2. DataStart({m.val})'
    BY <1>1, DropsData
  <2> QED BY <2>1, <2>2 DEF Outcome
<1>2. CASE /\ m.val # 0 /\ catalog = m.val
           /\ Stays /\ UNCHANGED <<toCtl, pSock, session, bond>>
  <2>1. UNCHANGED <<toCtl, pSock, generation, catalog>>
    BY <1>2 DEF Stays, publication, session
  <2>2. \E M : Tells(told, told, M)
    BY <2>1, StaysToldTells
  <2>3. DataStart({m.val})'
    BY <1>2, <2>1 DEF DataStart, Offers
  <2> QED BY <2>2, <2>3 DEF Outcome
<1> QED BY <1>1, <1>2 DEF receiveCatalog, Fails

LEMMA AdvertisementOutcome ==
  ASSUME LinkTypes, PeerInv, NEW m, advertisement(m), NEW told, NEW y, generation # 0 => told = generation, DataStart(y)
  PROVE  Outcome(told, told, y)
<1>1. CASE disconnect /\ catalog' = 0
  <2>1. \E M : Tells(told, told, M)
    BY <1>1, DropsTells
  <2>2. DataStart(y)'
    BY <1>1, DropsData
  <2> QED BY <2>1, <2>2 DEF Outcome
<1>2. CASE UNCHANGED <<toCtl, pSock, session, closes, catalog>>
  <2>1. \E M : Tells(told, told, M)
    BY <1>2, StaysToldTells DEF session
  <2> QED BY <1>2, <2>1, KeepsOutcome DEF session, closes
<1> QED BY <1>1, <1>2 DEF advertisement

(* The news of an end leaves the peer without a link.                      *)
LEMMA EndOutcome ==
  ASSUME LinkTypes, UNCHANGED <<toCtl, pSock>>, NEW told, generation # 0 => told = generation, generation' = 0
  PROVE  Outcome(told, 0, {})
<1>1. \E M : Tells(told, 0, M)
  BY StaysTells
<1> QED BY <1>1, NoData DEF Outcome

LEMMA ReceiveOutcome ==
  ASSUME Handles, NEW m \in PeerMsg, receive(m), NEW told, NEW data, NEW c, NEW y, Moves(told, data, m, c, y),
         generation # 0 => told = generation, DataStart(data)
  PROVE  Outcome(told, c, y)
<1>0. LinkTypes /\ PeerInv
  BY DEF Handles
<1>d. y \in {{}, data} => DataStart(y)
  BY DEF DataStart
<1>1. CASE receiveCatalog(m)
  <2>1. told = 0 /\ c = 0 /\ y = {m.val}
    BY <1>1 DEF receiveCatalog, Moves
  <2> QED BY <1>0, <1>1, <2>1, CatalogOutcome
<1>2. CASE receiveReset(m)
  <2>1. c = 0 /\ y = {} /\ UNCHANGED <<toCtl, pSock>> /\ generation' = 0
    BY <1>2 DEF receiveReset, Moves, clearLink
  <2> QED BY <1>0, <2>1, EndOutcome
<1>3. CASE DisconnectAnswered(m) /\ UNCHANGED <<toCtl, pSock, failed, publication, session, bond>>
  <2>1. c = 0 /\ y = {} /\ closing
    BY <1>3 DEF DisconnectAnswered, Moves
  <2>2. generation' = 0
    BY <1>0, <1>3, <2>1 DEF PeerInv, SessionInv, session
  <2> QED BY <1>0, <1>3, <2>1, <2>2, EndOutcome
<1>4. CASE advertisement(m)
  <2>1. c = told /\ y \in {{}, data}
    BY <1>4 DEF advertisement, Moves
  <2> QED BY <1>0, <1>4, <1>d, <2>1, AdvertisementOutcome
<1>5. CASE receiveConnected(m)
  BY <1>5, ConnectedOutcome
<1>6. CASE receiveRejected(m)
  <2>1. c = told /\ y = data
    BY <1>6 DEF receiveRejected, Moves
  <2>2. CASE Fails
    BY <1>0, <2>1, <2>2, FailsOutcome
  <2>3. CASE Stays /\ UNCHANGED <<toCtl, pSock, session, bond>>
    <3>1. \E M : Tells(told, told, M)
      BY <1>0, <2>3, StaysToldTells DEF session
    <3> QED BY <2>1, <2>3, <3>1, KeepsOutcome DEF Stays, publication, closes, session
  <2> QED BY <1>6, <2>2, <2>3 DEF receiveRejected
<1>7. CASE /\ m.kind \in {"Disconnected", "Att", "AttSecurity", "Smp", "SecurityRequest", "Encryption"}
           /\ ~CurrentLink(m)
           /\ Stays /\ UNCHANGED <<toCtl, pSock, session, bond>>
  <2>1. told = m.gen /\ c \in {0, told} /\ (c = 0 => y = {}) /\ (c # 0 => y = data)
    BY <1>7 DEF Moves
  <2>2. generation = 0 /\ generation' = 0 /\ UNCHANGED <<toCtl, pSock>>
    BY <1>7, <2>1 DEF CurrentLink, session
  <2>3. CASE c = 0
    BY <1>0, <2>1, <2>2, <2>3, EndOutcome
  <2>4. CASE c # 0
    <3>1. \E M : Tells(told, told, M)
      BY <1>0, <2>2, StaysToldTells
    <3> QED BY <1>7, <2>1, <2>4, <3>1, KeepsOutcome DEF Stays, publication, closes, session
  <2> QED BY <2>3, <2>4
<1>8. CASE m.kind = "Disconnected" /\ clearLink /\ Stays /\ UNCHANGED <<toCtl, pSock, bond>>
  <2>1. c = 0 /\ y = {} /\ generation' = 0
    BY <1>8 DEF clearLink, Moves
  <2> QED BY <1>0, <1>8, <2>1, EndOutcome
<1>9. CASE CurrentLink(m) /\ receiveAtt(m)
  <2>1. c = told /\ y = data
    BY <1>9 DEF receiveAtt, Moves
  <2> QED BY <1>0, <1>9, <2>1, AttOutcome
<1>10. CASE CurrentLink(m) /\ receiveSmp(m)
  <2>1. c = told /\ y = data /\ m.gen = generation
    BY <1>10 DEF receiveSmp, Moves, CurrentLink
  <2> QED BY <1>0, <1>10, <2>1, SmpOutcome
<1>11. CASE CurrentLink(m) /\ encryptionChanged(m)
  <2>1. c = told /\ y = data
    BY <1>11 DEF encryptionChanged, Moves
  <2> QED BY <1>0, <1>11, <2>1, EncryptionOutcome
<1> QED BY <1>1, <1>2, <1>3, <1>4, <1>5, <1>6, <1>7, <1>8, <1>9, <1>10, <1>11 DEF receive

-----------------------------------------------------------------------------
(* The inductive invariant.                                                *)

(* Every socket tells a story; the peer's state is where the one of its    *)
(* own socket begins.                                                      *)
SocketInv ==
  \A s \in Sockets : \E told, data :
    SocketStory(s, told, data) /\ (s = pSock => LinkStart(told) /\ DataStart(data))

LinkInv == LinkTypes /\ CtlInv /\ PeerInv /\ SocketInv /\ WireInv

LEMMA ControllerStays == ASSUME LinkTypes, CtlInv, UNCHANGED controller PROVE CtlTypes' /\ CtlInv'
<1>1. CtlTypes'
  BY DEF LinkTypes, CtlTypes, controller, radio, security, guest
<1>2. CtlInv'
  BY DEF CtlInv, controller, radio, security, guest
<1> QED BY <1>1, <1>2

LEMMA PeerStepTypes ==
  ASSUME LinkTypes, CtlInv, UNCHANGED controller, LinkBasics'
  PROVE  LinkTypes' /\ CtlInv' /\ PeerInv'
BY ControllerStays DEF LinkBasics, PeerBasics, LinkTypes

(* A step that reads nothing: the story of the peer's socket begins where  *)
(* it began.                                                               *)
LEMMA SpokenSockets ==
  ASSUME LinkInv, LinkTypes', UNCHANGED <<wire, toPeer, controller>>,
         \A told, data : (generation # 0 => told = generation) /\ DataStart(data) => Outcome(told, told, data)
  PROVE  SocketInv' /\ WireInv'
<1>0. LinkTypes /\ WireInv /\ SocketInv
  BY DEF LinkInv
<1>1. Outcome(generation, generation, {})
  BY DEF DataStart
<1>2. pSock' \in {0, pSock}
  BY <1>1 DEF Outcome, Tells, Said
<1>3. ASSUME NEW s \in Sockets
      PROVE  \E told, data : SocketStory(s, told, data)' /\ (s = pSock' => LinkStart(told)' /\ DataStart(data)')
  <2>1. PICK told, data : SocketStory(s, told, data) /\ (s = pSock => LinkStart(told) /\ DataStart(data))
    BY <1>0 DEF SocketInv
  <2>2. SocketStory(s, told, data)'
    BY <1>0, <1>2, <2>1, PeerKeepsStory
  <2>3. ASSUME s = pSock' PROVE LinkStart(told)' /\ DataStart(data)'
    <3>1. s = pSock /\ pSock' # 0
      BY <1>2, <2>3 DEF Sockets
    <3>2. LinkStart(told) /\ DataStart(data)
      BY <2>1, <3>1
    <3>3. Outcome(told, told, data)
      BY <3>2 DEF LinkStart
    <3>4. PICK M : Tells(told, told, M)
      BY <3>3 DEF Outcome
    <3>5. LinkStart(told)'
      BY <1>0, <3>1, <3>2, <3>4, LinkGoesOn
    <3> QED BY <3>3, <3>5 DEF Outcome
  <2> QED BY <2>2, <2>3
<1>4. SocketInv'
  BY <1>3 DEF SocketInv, Sockets
<1>5. \E M : Said(M) /\ \A m \in M : m.gen <= nextGeneration
  <2>1. PICK M : Tells(generation, generation, M)
    BY <1>1 DEF Outcome
  <2>2. CASE pSock = 0
    <3>1. Said({})
      BY <2>1, <2>2 DEF Tells, Said, Sockets
    <3> QED BY <3>1
  <2>3. CASE pSock # 0
    <3>1. pSock \in Sockets
      BY <1>0, <2>3, Numbers
    <3>2. PICK told, data : SocketStory(pSock, told, data) /\ LinkStart(told)
      BY <1>0, <3>1 DEF SocketInv
    <3>3. told \in 0..nextGeneration
      <4>1. toPeer[pSock] \in Seq(PeerMsg) /\ nextGeneration \in Nat
        BY <1>0, <3>1, Numbers DEF LinkTypes, QueueTypes
      <4>2. Tale(toPeer[pSock], nextGeneration, told, data)
        BY <3>2 DEF SocketStory
      <4> QED BY <4>1, <4>2, TaleFacts
    <3>4. generation \in 0..nextGeneration
      <4>1. nextGeneration \in Nat
        BY <1>0, Numbers
      <4> QED BY <3>2, <3>3, <4>1 DEF LinkStart
    <3>5. \A m \in M : m.gen <= nextGeneration
      <4>1. nextGeneration \in Nat
        BY <1>0, Numbers
      <4> QED BY <2>1, <3>4, <4>1 DEF Tells
    <3> QED BY <2>1, <3>5 DEF Tells
  <2> QED BY <2>2, <2>3
<1>6. WireInv'
  BY <1>0, <1>5, WireGoesOn
<1> QED BY <1>4, <1>6

(* A step that gives the socket up, with what was on it or not.            *)
LEMMA LostSockets ==
  ASSUME LinkInv, LinkTypes', UNCHANGED <<wire, toCtl, controller>>, pSock' = 0,
         toPeer' = toPeer \/ toPeer' = Unread(toPeer, pSock)
  PROVE  SocketInv' /\ WireInv'
<1>0. LinkTypes /\ WireInv /\ SocketInv /\ pSock \in Sockets \cup {0}
  BY Numbers DEF LinkInv
<1>1. \A s \in Sockets : s # pSock => toPeer'[s] = toPeer[s]
  BY <1>0 DEF Unread, LinkTypes, QueueTypes
<1>2. pSock # 0 => toPeer'[pSock] = toPeer[pSock] \/ toPeer'[pSock] = <<>>
  BY <1>0 DEF Unread, LinkTypes, QueueTypes
<1>3. ASSUME NEW s \in Sockets PROVE \E told, data : SocketStory(s, told, data)' /\ s # pSock'
  <2>0. s # pSock' /\ s # 0
    BY DEF Sockets
  <2>1. CASE toPeer'[s] = toPeer[s]
    <3>1. PICK told, data : SocketStory(s, told, data)
      BY <1>0 DEF SocketInv
    <3>2. SocketStory(s, told, data)'
      BY <1>0, <2>1, <3>1, PeerKeepsStory
    <3> QED BY <2>0, <3>2
  <2>2. CASE s = pSock /\ toPeer'[s] = <<>>
    <3>1. acceptedSockets' \in Nat /\ s <= acceptedSockets'
      <4>1. acceptedSockets' = acceptedSockets
        BY DEF wire
      <4>2. acceptedSockets \in Nat
        BY <1>0, Numbers, Bounds
      <4> QED BY <1>0, <2>0, <2>2, <4>1, <4>2 DEF LinkTypes, SocketTypes
    <3>2. SocketStory(s, 0, {})'
      BY <1>0, <2>0, <2>2, <3>1, EmptyStory
    <3> QED BY <2>0, <3>2
  <2> QED BY <1>1, <1>2, <2>0, <2>1, <2>2
<1>4. SocketInv'
  BY <1>3 DEF SocketInv, Sockets
<1>5. Said({})
  BY DEF Said
<1>6. WireInv'
  BY <1>0, <1>1, <1>5, WireGoesOn
<1> QED BY <1>4, <1>6

(* The next socket is one the controller may have written to, but with no  *)
(* link yet, and no word from the peer.                                    *)
LEMMA AcceptedSockets == ASSUME LinkInv, LinkTypes', PollAccepts PROVE SocketInv' /\ WireInv'
<1>0. LinkTypes /\ WireInv /\ SocketInv /\ SessionInv /\ acceptedSockets \in 0..opened /\ opened \in 0..MaxSockets
      /\ MaxSockets \in Nat /\ acceptedSockets \in Sockets \cup {0}
  BY Numbers, Bounds DEF LinkInv, PeerInv, Sockets
<1>1. /\ UNCHANGED <<opened, toCtl, controller>> /\ pSock = 0 /\ toPeer' = Unread(toPeer, acceptedSockets)
      /\ UNCHANGED <<cSock, conn, nextGeneration, Announced>>
  BY DEF PollAccepts, controller, radio, security, Announced
<1>2. \/ acceptedSockets < opened /\ acceptedSockets' = acceptedSockets + 1 /\ pSock' = acceptedSockets + 1
      \/ acceptedSockets' = acceptedSockets /\ pSock' = 0
  BY <1>1 DEF PollAccepts
<1>3. /\ \A s \in Sockets : s # acceptedSockets => toPeer'[s] = toPeer[s]
      /\ acceptedSockets # 0 => toPeer'[acceptedSockets] = <<>>
  BY <1>0, <1>1 DEF Unread, LinkTypes, QueueTypes
<1>4. generation' = 0
  BY <1>0 DEF PollAccepts, clearLink, SessionInv, session
<1>5. ASSUME NEW s \in Sockets
      PROVE  \E told, data : SocketStory(s, told, data)' /\ (s = pSock' => LinkStart(told)' /\ DataStart(data)')
  <2>0. s \in Nat /\ s # 0
    BY <1>0 DEF Sockets
  <2>1. CASE s = acceptedSockets
    <3>1. toPeer'[s] = <<>> /\ acceptedSockets' \in Nat /\ s <= acceptedSockets' /\ s # pSock'
      BY <1>0, <1>2, <1>3, <2>0, <2>1
    <3>2. SocketStory(s, 0, {})'
      BY <1>0, <1>1, <3>1, EmptyStory
    <3> QED BY <3>1, <3>2
  <2>2. CASE s # acceptedSockets
    <3>1. PICK told, data : SocketStory(s, told, data)
      BY <1>0 DEF SocketInv
    <3>2. s = cSock /\ PeerHears' => PeerHears
      BY <1>0, <1>1, <1>2, <2>0 DEF PeerHears
    <3>3. s > acceptedSockets' => s > acceptedSockets
      BY <1>0, <1>2, <2>0
    <3>4. toPeer'[s] = toPeer[s]
      BY <1>3, <2>2
    <3>5. SocketStory(s, told, data)'
      BY <1>1, <3>1, <3>2, <3>3, <3>4 DEF SocketStory
    <3>6. ASSUME s = pSock' PROVE LinkStart(told)' /\ DataStart(data)'
      <4>1. acceptedSockets < opened /\ s = acceptedSockets + 1
        BY <1>2, <2>0, <3>6
      <4>2. told = 0 /\ data = {} /\ conn = 0
        BY <1>0, <2>0, <3>1, <4>1 DEF SocketStory, WireInv
      <4>3. LinkStart(told)'
        BY <1>1, <1>4, <4>2 DEF LinkStart
      <4> QED BY <4>2, <4>3, NoData
    <3> QED BY <3>5, <3>6
  <2> QED BY <2>1, <2>2
<1>6. SocketInv'
  BY <1>5 DEF SocketInv, Sockets
<1>7. WireInv'
  <2>1. ASSUME NEW s \in Sockets, s > opened PROVE toPeer'[s] = <<>>
    BY <1>0, <1>3, <2>1 DEF WireInv
  <2>2. ASSUME NEW s \in Sockets, s > acceptedSockets' PROVE toCtl[s] = <<>>
    <3>1. s > acceptedSockets
      BY <1>0, <1>2, <2>2 DEF Sockets
    <3> QED BY <1>0, <3>1 DEF WireInv
  <2>3. opened > acceptedSockets' => conn = 0
    BY <1>0, <1>2 DEF WireInv
  <2> QED BY <1>0, <1>1, <2>1, <2>2, <2>3 DEF WireInv
<1> QED BY <1>6, <1>7

(* What the peer reads next: its socket's story goes one message on.       *)
ReadsOn(told, data, c, y) ==
  /\ LinkStart(told) /\ DataStart(data) /\ Moves(told, data, Head(toPeer[pSock]), c, y)
  /\ told \in 0..nextGeneration /\ c \in 0..nextGeneration
  /\ SocketStory(pSock, told, data)
  /\ \A s \in Sockets : s = pSock => SocketStory(s, c, y)'
  /\ pSock = cSock /\ conn # 0 /\ told = conn => c = conn

LEMMA ReadsTold ==
  ASSUME LinkInv, PollReceives, pSock' \in {0, pSock}
  PROVE  /\ pSock \in Sockets /\ Head(toPeer[pSock]) \in PeerMsg
         /\ \E told, data, c, y : ReadsOn(told, data, c, y)
<1>0. LinkTypes /\ SocketInv /\ pSock \in Sockets
  BY Numbers DEF LinkInv, PollReceives
<1>1. toPeer[pSock] \in Seq(PeerMsg) /\ toPeer[pSock] # <<>> /\ nextGeneration \in Nat
  BY <1>0, Numbers DEF PollReceives, LinkTypes, QueueTypes
<1>2. Head(toPeer[pSock]) \in PeerMsg
  BY <1>1
<1>3. PICK told, data : SocketStory(pSock, told, data) /\ LinkStart(told) /\ DataStart(data)
  BY <1>0 DEF SocketInv
<1>4. told \in 0..nextGeneration
  BY <1>1, <1>3, TaleFacts DEF SocketStory
<1>5. PICK s \in Sockets : s = pSock
  BY <1>0
<1>6. SocketStory(s, told, data)
  BY <1>3, <1>5
<1>7. PICK c, y : GoesOnTo(s, told, data, c, y)
  BY <1>0, <1>5, <1>6, ReadStory
<1>8. /\ Moves(told, data, Head(toPeer[pSock]), c, y) /\ (pSock = cSock /\ conn # 0 /\ told = conn => c = conn)
      /\ SocketStory(s, c, y)' /\ c \in 0..nextGeneration
  BY <1>5, <1>7 DEF GoesOnTo
<1>9. ASSUME NEW t \in Sockets, t = pSock PROVE SocketStory(t, c, y)'
  <2>1. t = s
    BY <1>5, <1>9
  <2> QED BY <1>8, <2>1
<1>10. ReadsOn(told, data, c, y)
  BY <1>3, <1>4, <1>8, <1>9 DEF ReadsOn
<1> QED BY <1>0, <1>2, <1>10

LEMMA ReadsHandles == ASSUME LinkInv, PollReceives PROVE Handles /\ polling' \in BOOLEAN
<1>1. transport = TRUE
  BY DEF PollReceives, LinkInv, LinkTypes, SocketTypes
<1>2. transport' = TRUE /\ UNCHANGED <<enabled, transport>>
  BY <1>1 DEF PollReceives, mode
<1>3. polling' \in BOOLEAN
  BY DEF PollReceives, Unfinished, ConnectWanted
<1> QED BY <1>1, <1>2, <1>3 DEF Handles, LinkInv

LEMMA ReadsWelcome == ASSUME LinkInv, PollReceives PROVE Welcome(Head(toPeer[pSock]))
<1>0. LinkTypes /\ SocketInv /\ pSock \in Sockets
  BY Numbers DEF LinkInv, PollReceives
<1>1. toPeer[pSock] \in Seq(PeerMsg) /\ toPeer[pSock] # <<>>
  BY <1>0 DEF PollReceives, LinkTypes, QueueTypes
<1>2. PICK told, data : SocketStory(pSock, told, data) /\ LinkStart(told)
  BY <1>0 DEF SocketInv
<1>3. PICK c, y : Moves(told, data, Head(toPeer[pSock]), c, y)
  BY <1>1, <1>2, TakeTale DEF SocketStory
<1> QED BY <1>2, <1>3 DEF Moves, Welcome, LinkStart

LEMMA ReadSockets == ASSUME LinkInv, LinkTypes', PollReceives, EarTypes PROVE SocketInv' /\ WireInv'
<1>0. LinkTypes /\ WireInv /\ SocketInv /\ Handles /\ pSock' \in {0, pSock}
  BY ReadsHandles DEF LinkInv, EarTypes
<1>p. PICK told, data, c, y : ReadsOn(told, data, c, y)
  BY <1>0, ReadsTold
<1>1. /\ LinkStart(told) /\ DataStart(data) /\ Moves(told, data, Head(toPeer[pSock]), c, y)
      /\ told \in 0..nextGeneration /\ c \in 0..nextGeneration
      /\ SocketStory(pSock, told, data)
      /\ \A s \in Sockets : s = pSock => SocketStory(s, c, y)'
      /\ pSock = cSock /\ conn # 0 /\ told = conn => c = conn
  BY <1>p DEF ReadsOn
<1>2. pSock \in Sockets /\ Head(toPeer[pSock]) \in PeerMsg /\ receive(Head(toPeer[pSock]))
  BY <1>0, ReadsTold DEF PollReceives
<1>3. UNCHANGED <<wire, controller>> /\ \A s \in Sockets : s # pSock => toPeer'[s] = toPeer[s]
  BY <1>0 DEF PollReceives, LinkTypes, QueueTypes
<1>4. Outcome(told, c, y)
  BY <1>0, <1>1, <1>2, ReceiveOutcome DEF LinkStart
<1>5. PICK M : Tells(told, c, M)
  BY <1>4 DEF Outcome
<1>6. ASSUME NEW s \in Sockets
      PROVE  \E t, d : SocketStory(s, t, d)' /\ (s = pSock' => LinkStart(t)' /\ DataStart(d)')
  <2>1. CASE s = pSock
    <3>1. SocketStory(s, c, y)'
      BY <1>1, <2>1
    <3>2. s = pSock' => pSock' # 0
      BY DEF Sockets
    <3>3. s = pSock' => LinkStart(c)'
      BY <1>0, <1>1, <1>3, <1>5, <3>2, LinkGoesOn
    <3> QED BY <1>4, <3>1, <3>3 DEF Outcome
  <2>2. CASE s # pSock
    <3>1. PICK t, d : SocketStory(s, t, d)
      BY <1>0 DEF SocketInv
    <3>2. SocketStory(s, t, d)'
      BY <1>0, <1>3, <2>2, <3>1, PeerKeepsStory
    <3>3. s # pSock'
      BY <1>0, <2>2 DEF Sockets
    <3> QED BY <3>2, <3>3
  <2> QED BY <2>1, <2>2
<1>7. SocketInv'
  BY <1>6 DEF SocketInv, Sockets
<1>8. \A m \in M : m.gen <= nextGeneration
  <2>1. nextGeneration \in Nat
    BY <1>0, Numbers
  <2> QED BY <1>1, <1>5, <2>1 DEF Tells
<1>9. WireInv'
  BY <1>0, <1>3, <1>5, <1>8, WireGoesOn DEF Tells
<1> QED BY <1>7, <1>9

(* The other steps of the peer.                                            *)
LEMMA QuietOutcomes ==
  ASSUME LinkTypes, PeerInv, NEW told, NEW data, generation # 0 => told = generation, DataStart(data),
         \/ PollEnds
         \/ disconnect /\ catalog' = catalog
         \/ Fails
         \/ startSession
         \/ request
         \/ UNCHANGED <<toCtl, pSock, session, closes, catalog>>
  PROVE  Outcome(told, told, data)
<1>1. CASE PollEnds
  <2>1. CASE ConnectWanted
    <3>1. connecting' = TRUE /\ PeerSends(<<Msg("Connect", 0, 0)>>) /\ sessionRequested
          /\ UNCHANGED <<publication, sessionRequested, generation, closes>>
      BY <1>1, <2>1 DEF PollEnds, connect, ConnectWanted
    <3>2. \E M : Tells(told, told, M)
      BY <3>1, SpeaksTells, KeyFacts DEF CtlKinds
    <3>3. DataStart(data)'
      BY <3>1, KeepsData DEF publication, closes
    <3> QED BY <3>2, <3>3 DEF Outcome
  <2>2. CASE ~ConnectWanted
    <3>1. UNCHANGED <<connecting, toCtl, pSock, publication, sessionRequested, generation, closes>>
      BY <1>1, <2>2 DEF PollEnds
    <3>2. \E M : Tells(told, told, M)
      BY <3>1, StaysToldTells
    <3> QED BY <3>1, <3>2, KeepsOutcome DEF publication, closes
  <2> QED BY <2>1, <2>2
<1>2. CASE disconnect /\ catalog' = catalog
  <2>1. \E M : Tells(told, told, M)
    BY <1>2, DropsTells
  <2>2. DataStart(data)'
    BY <1>2, DropsData DEF DataStart, Offers
  <2> QED BY <2>1, <2>2 DEF Outcome
<1>3. CASE Fails
  BY <1>3, FailsOutcome
<1>4. CASE startSession
  <2>1. UNCHANGED <<toCtl, pSock, publication, connecting, generation, closes>> /\ catalog # 0
    BY <1>4 DEF startSession, available
  <2>2. \E M : Tells(told, told, M)
    BY <2>1, StaysToldTells
  <2>3. DataStart(data)'
    BY <2>1, KeepsData DEF publication, closes
  <2> QED BY <2>2, <2>3 DEF Outcome
<1>5. CASE request
  <2>1. UNCHANGED <<publication, connecting, sessionRequested, generation, closes>>
    BY <1>5 DEF request
  <2>2. (UNCHANGED <<toCtl, pSock>>) \/ \E left : sendNext(left)
    BY <1>5 DEF request
  <2>3. \E M : Tells(told, told, M)
    BY <2>1, <2>2, StaysToldTells, SendNextTells
  <2> QED BY <2>1, <2>3, KeepsOutcome DEF publication, closes
<1>6. CASE UNCHANGED <<toCtl, pSock, session, closes, catalog>>
  <2>1. \E M : Tells(told, told, M)
    BY <1>6, StaysToldTells DEF session
  <2> QED BY <1>6, <2>1, KeepsOutcome DEF session, closes
<1> QED BY <1>1, <1>2, <1>3, <1>4, <1>5, <1>6

LEMMA PeerStepInv == ASSUME LinkInv, PeerStep PROVE LinkInv'
<1>0. LinkTypes /\ CtlInv /\ PeerInv
  BY DEF LinkInv
<1>q. ASSUME UNCHANGED <<wire, toPeer, controller>>, LinkTypes',
             \/ PollEnds
             \/ disconnect /\ catalog' = catalog
             \/ Fails
             \/ startSession
             \/ request
             \/ UNCHANGED <<toCtl, pSock, session, closes, catalog>>
      PROVE  SocketInv' /\ WireInv'
  <2>1. ASSUME NEW told, NEW data, generation # 0 => told = generation, DataStart(data)
        PROVE  Outcome(told, told, data)
    BY <1>0, <1>q, <2>1, QuietOutcomes
  <2> QED BY <1>q, <2>1, SpokenSockets
<1>1. CASE PollAccepts
  <2>1. LinkBasics' /\ UNCHANGED controller
    BY <1>0, <1>1, AcceptsBasics DEF PollAccepts
  <2>2. LinkTypes' /\ CtlInv' /\ PeerInv'
    BY <1>0, <2>1, PeerStepTypes
  <2> QED BY <1>1, <2>2, AcceptedSockets DEF LinkInv
<1>2. CASE PollFindsEnd
  <2>1. LinkBasics' /\ UNCHANGED <<wire, toPeer, toCtl, controller>> /\ pSock' = 0
    BY <1>0, <1>2, FindsEndBasics DEF PollFindsEnd
  <2>2. LinkTypes' /\ CtlInv' /\ PeerInv'
    BY <1>0, <2>1, PeerStepTypes
  <2> QED BY <2>1, <2>2, LostSockets DEF LinkInv
<1>3. CASE PollReceives
  <2>0. Welcome(Head(toPeer[pSock]))
    BY <1>3, ReadsWelcome
  <2>1. LinkBasics' /\ UNCHANGED controller
    BY <1>0, <1>3, <2>0, ReadsBasics DEF PollReceives
  <2>2. LinkTypes' /\ CtlInv' /\ PeerInv'
    BY <1>0, <2>1, PeerStepTypes
  <2>3. EarTypes
    <3>1. Head(toPeer[pSock]) \in PeerMsg /\ Handles /\ receive(Head(toPeer[pSock]))
      <4>1. toPeer[pSock] \in Seq(PeerMsg) /\ toPeer[pSock] # <<>>
        BY <1>0, <1>3, Numbers DEF PollReceives, LinkTypes, QueueTypes
      <4> QED BY <1>3, <4>1, ReadsHandles DEF PollReceives
    <3> QED BY <2>0, <3>1, ReceiveBasics
  <2> QED BY <1>3, <2>2, <2>3, ReadSockets DEF LinkInv
<1>4. CASE PollEnds
  <2>1. LinkBasics' /\ UNCHANGED <<wire, toPeer, controller>>
    BY <1>0, <1>4, PollEndsBasics DEF PollEnds
  <2>2. LinkTypes' /\ CtlInv' /\ PeerInv'
    BY <1>0, <2>1, PeerStepTypes
  <2> QED BY <1>4, <1>q, <2>1, <2>2 DEF LinkInv
<1>5. CASE PollTimesOut
  <2>1. LinkBasics' /\ UNCHANGED <<wire, controller>>
    BY <1>0, <1>5, TimeoutBasics DEF PollTimesOut
  <2>2. LinkTypes' /\ CtlInv' /\ PeerInv'
    BY <1>0, <2>1, PeerStepTypes
  <2>3. CASE Fails /\ UNCHANGED toPeer
    <3>1. UNCHANGED <<wire, toPeer, controller>>
      BY <2>1, <2>3
    <3> QED BY <1>q, <2>2, <2>3, <3>1 DEF LinkInv
  <2>4. CASE pSock' = 0 /\ toPeer' = Unread(toPeer, pSock) /\ UNCHANGED toCtl
    BY <2>1, <2>2, <2>4, LostSockets DEF LinkInv
  <2> QED BY <1>5, <2>3, <2>4 DEF PollTimesOut
<1>6. CASE SetEnabled
  <2>1. LinkBasics' /\ UNCHANGED <<wire, toPeer, controller>>
    BY <1>0, <1>6, SetEnabledBasics DEF SetEnabled
  <2>2. LinkTypes' /\ CtlInv' /\ PeerInv'
    BY <1>0, <2>1, PeerStepTypes
  <2>3. (disconnect /\ catalog' = catalog) \/ UNCHANGED <<toCtl, pSock, session, closes, catalog>>
    BY <1>6 DEF SetEnabled, publication
  <2> QED BY <1>q, <2>1, <2>2, <2>3 DEF LinkInv
<1>7. CASE PeerReset
  <2>1. LinkBasics' /\ UNCHANGED <<wire, toCtl, controller>> /\ pSock' = 0 /\ toPeer' = Unread(toPeer, pSock)
    BY <1>0, <1>7, PeerResetBasics DEF PeerReset
  <2>2. LinkTypes' /\ CtlInv' /\ PeerInv'
    BY <1>0, <2>1, PeerStepTypes
  <2> QED BY <2>1, <2>2, LostSockets DEF LinkInv
<1>8. CASE startSession
  <2>1. LinkBasics' /\ UNCHANGED <<wire, toPeer, controller>>
    BY <1>0, <1>8, StartSessionBasics DEF startSession
  <2>2. LinkTypes' /\ CtlInv' /\ PeerInv'
    BY <1>0, <2>1, PeerStepTypes
  <2> QED BY <1>8, <1>q, <2>1, <2>2 DEF LinkInv
<1>9. CASE ClientDisconnects
  <2>1. LinkBasics' /\ UNCHANGED <<wire, toPeer, controller>>
    BY <1>0, <1>9, ClientBasics DEF ClientDisconnects
  <2>2. LinkTypes' /\ CtlInv' /\ PeerInv'
    BY <1>0, <2>1, PeerStepTypes
  <2>3. disconnect /\ catalog' = catalog
    BY <1>9 DEF ClientDisconnects, publication
  <2> QED BY <1>q, <2>1, <2>2, <2>3 DEF LinkInv
<1>10. CASE request
  <2>1. LinkBasics' /\ UNCHANGED <<wire, toPeer, controller>>
    BY <1>0, <1>10, RequestBasics DEF request
  <2>2. LinkTypes' /\ CtlInv' /\ PeerInv'
    BY <1>0, <2>1, PeerStepTypes
  <2> QED BY <1>10, <1>q, <2>1, <2>2 DEF LinkInv
<1> QED BY <1>1, <1>2, <1>3, <1>4, <1>5, <1>6, <1>7, <1>8, <1>9, <1>10 DEF PeerStep

LEMMA CtlKeepsEnd == ASSUME NEW msgs, CtlSends(msgs) PROVE cSock' \in {0, cSock}
BY DEF CtlSends, SocketSend

(* A step of the controller that leaves it with a link and with the peer's *)
(* socket.                                                                 *)
LEMMA CtlKeepsStart ==
  ASSUME LinkTypes, UNCHANGED <<wire, toCtl, pSock, generation>>, cSock' \in {0, cSock}, pSock # 0,
         conn' \in {0, conn}, cKey' \in {0, cKey}, cEncrypted' => cEncrypted \/ cKey # 0,
         NEW told, LinkStart(told)
  PROVE  LinkStart(told)'
BY DEF LinkStart

LEMMA CtlTakesStart ==
  ASSUME LinkInv, CtlReceive, pSock # 0, NEW told, told \in 0..nextGeneration, LinkStart(told)
  PROVE  LinkStart(told)'
<1> DEFINE q == toCtl[cSock]
           m == Head(q)
<1>0. LinkTypes /\ WireInv /\ CtlInv /\ cSock \in Sockets /\ q \in Seq(CtlMsgs) /\ q # <<>> /\ nextGeneration \in Nat
      /\ toCtl \in [Sockets -> Seq(CtlMsgs)]
  BY Numbers DEF LinkInv, CtlReceive, LinkTypes, QueueTypes
<1>1. m = q[1] /\ 1 \in 1..Len(q) /\ m \in CtlMsgs /\ peerMessage(m)
  BY <1>0 DEF CtlReceive
<1>2. /\ toCtl'[cSock] = Tail(q) /\ Len(Tail(q)) = Len(q) - 1
      /\ \A i \in 1..Len(Tail(q)) : i + 1 \in 1..Len(q) /\ Tail(q)[i] = q[i + 1]
  BY <1>0 DEF CtlReceive
<1>3. UNCHANGED <<pSock, generation>>
  BY DEF CtlReceive, peer, session
<1>4. generation # 0 => told = generation
  BY DEF LinkStart
<1> SUFFICES ASSUME conn' # 0, cSock' = pSock
             PROVE  /\ told = conn' /\ generation # conn' => Has(toCtl'[pSock], "Disconnect", conn')
                    /\ told # conn' =>
                         cKey' = 0 /\ ~cEncrypted' /\ \A i \in 1..Len(toCtl'[pSock]) : toCtl'[pSock][i].gen # conn'
  BY <1>3, <1>4 DEF LinkStart
<1>5. cSock' \in {0, cSock}
  <2>1. cSock' = cSock \/ \E sent : CtlSends(sent)
    BY <1>1 DEF peerMessage, reject
  <2> QED BY <2>1, CtlKeepsEnd
<1>6. cSock = pSock
  BY <1>5
<1>7. CASE conn = 0 /\ conn' = nextGeneration + 1 /\ cEncrypted' = FALSE /\ cKey' = 0
  <2>1. told # conn'
    BY <1>0, <1>7
  <2>2. ASSUME NEW i \in 1..Len(toCtl'[pSock]) PROVE toCtl'[pSock][i].gen # conn'
    <3>1. i + 1 \in 1..Len(q) /\ toCtl'[pSock][i] = q[i + 1]
      BY <1>2, <1>6
    <3>2. q[i + 1].gen <= nextGeneration
      BY <1>0, <3>1 DEF WireInv
    <3>3. q[i + 1] \in CtlMsgs
      BY <1>0, <3>1
    <3>4. q[i + 1].gen \in Int
      BY <3>3, Bounds DEF CtlMsgs
    <3> QED BY <1>0, <1>7, <3>1, <3>2, <3>4
  <2> QED BY <1>7, <2>1, <2>2
<1>8. CASE conn' = conn /\ (m.kind # "Disconnect" \/ ~ForThisLink(m)) /\ cEncrypted' = cEncrypted
           /\ (cKey' = cKey \/ ForThisLink(m))
  <2>1. conn # 0
    BY <1>8
  <2>2. ASSUME told = conn, generation # conn PROVE Has(toCtl'[pSock], "Disconnect", conn)
    <3>1. Has(q, "Disconnect", conn)
      BY <1>6, <2>1, <2>2 DEF LinkStart
    <3>2. PICK i \in 1..Len(q) : q[i].kind = "Disconnect" /\ q[i].gen = conn
      BY <3>1 DEF Has
    <3>3. i # 1
      BY <1>1, <1>8, <2>1, <3>2 DEF ForThisLink
    <3>4. i - 1 \in 1..Len(Tail(q)) /\ (i - 1) + 1 = i
      BY <1>0, <1>2, <3>3
    <3>5. Tail(q)[i - 1] = q[i]
      BY <1>2, <3>4
    <3> QED BY <1>2, <1>6, <3>2, <3>4, <3>5 DEF Has
  <2>3. ASSUME told # conn
        PROVE  cKey' = 0 /\ ~cEncrypted' /\ \A i \in 1..Len(toCtl'[pSock]) : toCtl'[pSock][i].gen # conn
    <3>1. cKey = 0 /\ ~cEncrypted /\ \A i \in 1..Len(q) : q[i].gen # conn
      BY <1>6, <2>1, <2>3 DEF LinkStart
    <3>2. ~ForThisLink(m)
      BY <1>1, <3>1 DEF ForThisLink
    <3> QED BY <1>2, <1>6, <1>8, <3>1, <3>2
  <2> QED BY <1>8, <2>2, <2>3
<1>9. reject(m) => conn' = conn /\ cEncrypted' = cEncrypted /\ cKey' = cKey
  BY DEF reject, security
<1> QED BY <1>1, <1>7, <1>8, <1>9 DEF peerMessage, NoLink, security, radio, ForThisLink

LEMMA CtlStartGoesOn ==
  ASSUME LinkInv, CtlStep, pSock # 0, NEW told, told \in 0..nextGeneration, LinkStart(told)
  PROVE  LinkStart(told)'
<1>0. LinkTypes /\ CtlInv /\ opened \in Nat /\ acceptedSockets \in 0..opened /\ pSock \in {0, acceptedSockets}
  BY Numbers, Bounds DEF LinkInv, LinkTypes, SocketTypes
<1>g. UNCHANGED <<pSock, generation>>
  BY DEF CtlStep, CtlOpen, CtlRestarts, GuestForgetsBond, CtlLosesSocket, CtlReceive, GuestAdvertises,
         GuestStopsAdvertising, GuestDisconnects, GuestResets, GuestAnswersAtt, GuestPairs,
         GuestRequestsSecurity, GuestAnswersKey, peer, session
<1>k. generation # 0 => told = generation
  BY DEF LinkStart
<1>1. CASE CtlReceive
  BY <1>1, CtlTakesStart
<1>2. CASE CtlOpen
  <2>1. cSock' # pSock'
    BY <1>0, <1>2, <1>g DEF CtlOpen
  <2> QED BY <1>g, <1>k, <2>1 DEF LinkStart
<1>3. CASE CtlRestarts \/ CtlLosesSocket \/ GuestDisconnects \/ GuestResets
  <2>1. conn' = 0
    BY <1>3 DEF CtlRestarts, CtlLosesSocket, GuestDisconnects, GuestResets, NoLink
  <2> QED BY <1>g, <1>k, <2>1 DEF LinkStart
<1>4. CASE GuestForgetsBond \/ GuestAdvertises \/ GuestStopsAdvertising \/ GuestAnswersAtt \/ GuestPairs
           \/ GuestRequestsSecurity
  <2>1. UNCHANGED <<wire, toCtl, conn, cKey, cEncrypted>>
    BY <1>4 DEF GuestForgetsBond, GuestAdvertises, GuestStopsAdvertising, GuestAnswersAtt, GuestPairs,
                GuestRequestsSecurity, security
  <2>2. cSock' = cSock \/ \E msgs : CtlSends(msgs)
    BY <1>4 DEF GuestForgetsBond, GuestAdvertises, GuestStopsAdvertising, GuestAnswersAtt, GuestPairs,
                GuestRequestsSecurity
  <2>3. cSock' \in {0, cSock}
    BY <2>2, CtlKeepsEnd
  <2> QED BY <1>0, <1>g, <2>1, <2>3, CtlKeepsStart
<1>5. CASE GuestAnswersKey
  <2>1. UNCHANGED <<wire, toCtl, conn>> /\ cKey' = 0 /\ cKey # 0
    BY <1>5 DEF GuestAnswersKey
  <2>2. cSock' \in {0, cSock}
    BY <1>5 DEF GuestAnswersKey, CtlSends, SocketSend
  <2> QED BY <1>0, <1>g, <2>1, <2>2, CtlKeepsStart
<1> QED BY <1>1, <1>2, <1>3, <1>4, <1>5 DEF CtlStep

(* What the steps of the controller leave alone.                           *)
LEMMA CtlLeavesSockets ==
  ASSUME LinkInv, CtlStep, ~CtlOpen
  PROVE  /\ \A s \in Sockets : s # cSock => toPeer'[s] = toPeer[s]
         /\ nextGeneration' \in Nat /\ nextGeneration <= nextGeneration'
         /\ \A s \in Sockets :
              toCtl'[s] = toCtl[s] \/ toCtl'[s] = <<>> \/ (toCtl[s] # <<>> /\ toCtl'[s] = Tail(toCtl[s]))
         /\ opened > acceptedSockets => conn' = 0
<1>0. /\ LinkTypes /\ WireInv /\ CtlInv /\ nextGeneration \in Nat
      /\ toCtl \in [Sockets -> Seq(CtlMsgs)] /\ cSock \in Sockets \cup {0} /\ cSock \in {0, opened}
      /\ toPeer \in [Sockets -> Seq(PeerMsg)]
  BY Numbers DEF LinkInv, LinkTypes, SocketTypes, QueueTypes
<1>s. ASSUME NEW msgs, CtlSends(msgs) PROVE \A s \in Sockets : s # cSock => toPeer'[s] = toPeer[s]
  BY <1>0, <1>s DEF CtlSends, SocketSend
<1>1. CASE CtlReceive
  <2>1. cSock \in Sockets /\ toCtl[cSock] # <<>> /\ peerMessage(Head(toCtl[cSock])) /\ UNCHANGED wire
        /\ toCtl' = [toCtl EXCEPT ![cSock] = Tail(toCtl[cSock])]
    BY <1>0, <1>1 DEF CtlReceive
  <2>2. (\E msgs : CtlSends(msgs)) \/ toPeer' = toPeer
    BY <2>1 DEF peerMessage, reject
  <2>3. nextGeneration' \in {nextGeneration, nextGeneration + 1}
    BY <2>1 DEF peerMessage, reject, radio
  <2>4. ~(opened > acceptedSockets)
    BY <1>0, <2>1 DEF WireInv, Sockets
  <2> QED BY <1>0, <1>s, <2>1, <2>2, <2>3, <2>4
<1>2. CASE ~CtlReceive
  <2>1. UNCHANGED nextGeneration /\ (toCtl' = toCtl \/ toCtl' = Unread(toCtl, cSock)) /\ conn' \in {0, conn}
    BY <1>2 DEF CtlStep, CtlRestarts, GuestForgetsBond, CtlLosesSocket, GuestAdvertises,
         GuestStopsAdvertising, GuestDisconnects, GuestResets, GuestAnswersAtt, GuestPairs,
         GuestRequestsSecurity, GuestAnswersKey, NoLink, radio
  <2>2. (\E msgs : CtlSends(msgs)) \/ toPeer' = toPeer
    BY <1>2 DEF CtlStep, CtlRestarts, GuestForgetsBond, CtlLosesSocket, GuestAdvertises,
         GuestStopsAdvertising, GuestDisconnects, GuestResets, GuestAnswersAtt, GuestPairs,
         GuestRequestsSecurity, GuestAnswersKey
  <2>3. \A s \in Sockets : toCtl'[s] = toCtl[s] \/ toCtl'[s] = <<>>
    BY <1>0, <2>1 DEF Unread
  <2>4. opened > acceptedSockets => conn' = 0
    BY <1>0, <2>1 DEF WireInv
  <2> QED BY <1>0, <1>s, <2>1, <2>2, <2>3, <2>4
<1> QED BY <1>1, <1>2

LEMMA CtlStepInv == ASSUME LinkInv, CtlStep PROVE LinkInv'
<1>0. /\ LinkTypes /\ CtlInv /\ WireInv /\ SocketInv /\ PeerInv /\ PeerTypes
      /\ opened \in 0..MaxSockets /\ MaxSockets \in Nat /\ acceptedSockets \in 0..opened /\ nextGeneration \in Nat
      /\ cSock \in {0, opened} /\ pSock \in {0, acceptedSockets}
  BY Numbers, Bounds DEF LinkInv, LinkTypes, SocketTypes
<1>1. UNCHANGED peer
  BY DEF CtlStep, CtlOpen, CtlRestarts, GuestForgetsBond, CtlLosesSocket, CtlReceive, GuestAdvertises,
         GuestStopsAdvertising, GuestDisconnects, GuestResets, GuestAnswersAtt, GuestPairs,
         GuestRequestsSecurity, GuestAnswersKey
<1>2. PeerTypes' /\ PeerInv'
  <2>1. PeerTypes'
    BY <1>0, <1>1 DEF PeerTypes, peer, mode, publication, session, attention, closes
  <2>2. SessionInv'
    BY <1>0, <1>1 DEF PeerInv, SessionInv, peer, mode, publication, session, attention, closes
  <2>3. SecurityInv'
    BY <1>0, <1>1 DEF PeerInv, SecurityInv, peer, session, attention
  <2> QED BY <2>1, <2>2, <2>3 DEF PeerInv
<1>3. LinkTypes' /\ CtlInv'
  BY <1>0, <1>2, CtlStepBasics DEF CtlBasics, LinkTypes
<1>4. ASSUME NEW s \in Sockets
      PROVE  \E told, data : SocketStory(s, told, data)' /\ (s = pSock' => LinkStart(told)' /\ DataStart(data)')
  <2>1. PICK told, data : SocketStory(s, told, data) /\ (s = pSock => LinkStart(told) /\ DataStart(data))
    BY <1>0 DEF SocketInv
  <2>2. ASSUME cKey # 0, s = cSock, PeerHears PROVE told = conn
    <3>1. conn # 0 /\ s # 0
      BY <1>0, <2>2 DEF CtlInv, Sockets
    <3>2. ~(opened > acceptedSockets)
      BY <1>0, <3>1 DEF WireInv
    <3>3. pSock = cSock
      BY <1>0, <2>2, <3>1, <3>2 DEF PeerHears
    <3> QED BY <2>1, <2>2, <3>1, <3>3 DEF LinkStart
  <2>3. SocketStory(s, told, data)'
    BY <1>0, <2>1, <2>2, CtlStory
  <2>4. told \in 0..nextGeneration
    <3>1. toPeer[s] \in Seq(PeerMsg)
      BY <1>0 DEF LinkTypes, QueueTypes
    <3> QED BY <1>0, <2>1, <3>1, TaleFacts DEF SocketStory
  <2>5. ASSUME s = pSock' PROVE LinkStart(told)' /\ DataStart(data)'
    <3>1. s = pSock /\ pSock # 0
      BY <1>1, <2>5 DEF peer, Sockets
    <3>2. LinkStart(told)'
      BY <2>1, <2>4, <3>1, CtlStartGoesOn
    <3>3. DataStart(data)'
      BY <1>1, <2>1, <3>1 DEF DataStart, Offers, peer, publication, session, closes
    <3> QED BY <3>2, <3>3
  <2> QED BY <2>3, <2>5
<1>5. SocketInv'
  BY <1>4 DEF SocketInv, Sockets
<1>6. WireInv'
  <2>1. CASE CtlOpen
    <3>1. UNCHANGED <<acceptedSockets, toPeer, toCtl, nextGeneration, conn>> /\ opened' = opened + 1 /\ conn = 0
      BY <1>0, <2>1 DEF CtlOpen, CtlInv
    <3>2. \A s \in Sockets : s > opened' => s > opened
      BY <1>0, <3>1 DEF Sockets
    <3> QED BY <1>0, <3>1, <3>2 DEF WireInv
  <2>2. CASE ~CtlOpen
    <3>1. UNCHANGED wire
      BY <2>2 DEF CtlStep, CtlRestarts, GuestForgetsBond, CtlLosesSocket, CtlReceive, GuestAdvertises,
         GuestStopsAdvertising, GuestDisconnects, GuestResets, GuestAnswersAtt, GuestPairs,
         GuestRequestsSecurity, GuestAnswersKey
    <3>2. \A s \in Sockets : s # cSock => toPeer'[s] = toPeer[s]
      BY <1>0, <1>3, <2>2, CtlLeavesSockets
    <3>3. nextGeneration' \in Nat /\ nextGeneration <= nextGeneration'
      BY <1>0, <2>2, CtlLeavesSockets
    <3>4. \A s \in Sockets : toCtl'[s] = toCtl[s] \/ toCtl'[s] = <<>> \/ (toCtl[s] # <<>> /\ toCtl'[s] = Tail(toCtl[s]))
      BY <1>0, <2>2, CtlLeavesSockets
    <3>5. opened > acceptedSockets => conn' = 0
      BY <1>0, <2>2, CtlLeavesSockets
    <3>6. ASSUME NEW s \in Sockets, NEW i \in 1..Len(toCtl'[s]) PROVE toCtl'[s][i].gen <= nextGeneration'
      <4>1. toCtl[s] \in Seq(CtlMsgs)
        BY <1>0 DEF LinkTypes, QueueTypes
      <4>2. \E j \in 1..Len(toCtl[s]) : toCtl'[s][i] = toCtl[s][j]
        <5>1. CASE toCtl'[s] = toCtl[s]
          BY <5>1
        <5>2. CASE toCtl'[s] = <<>>
          BY <5>2
        <5>3. CASE toCtl[s] # <<>> /\ toCtl'[s] = Tail(toCtl[s])
          <6> DEFINE q == toCtl[s]
          <6>1. \A j \in 1..Len(Tail(q)) : j + 1 \in 1..Len(q) /\ Tail(q)[j] = q[j + 1]
            BY <4>1, <5>3
          <6> QED BY <5>3, <6>1
        <5> QED BY <3>4, <5>1, <5>2, <5>3
      <4>3. PICK j \in 1..Len(toCtl[s]) : toCtl'[s][i] = toCtl[s][j]
        BY <4>2
      <4>4. toCtl[s][j].gen <= nextGeneration
        BY <1>0 DEF WireInv
      <4>5. toCtl[s][j] \in CtlMsgs
        BY <4>1
      <4>6. toCtl[s][j].gen \in Int
        BY <4>5, Bounds DEF CtlMsgs
      <4> QED BY <1>0, <3>3, <4>3, <4>4, <4>6
    <3>7. ASSUME NEW s \in Sockets, s > acceptedSockets PROVE toCtl'[s] = <<>>
      BY <1>0, <3>4, <3>7 DEF WireInv
    <3>8. ASSUME NEW s \in Sockets, s > opened PROVE toPeer'[s] = <<>>
      <4>1. s # cSock
        BY <1>0, <3>8 DEF Sockets
      <4> QED BY <1>0, <3>2, <3>8, <4>1 DEF WireInv
    <3> QED BY <3>1, <3>5, <3>6, <3>7, <3>8 DEF WireInv, wire
  <2> QED BY <2>1, <2>2
<1> QED BY <1>2, <1>3, <1>5, <1>6 DEF LinkInv

LEMMA InitInv == Init => LinkInv
<1> SUFFICES ASSUME Init PROVE LinkInv
  OBVIOUS
<1> USE DEF Init
<1>1. SocketTypes
  <2>1. opened \in 0..MaxSockets /\ acceptedSockets \in 0..opened /\ cSock \in {0, opened} /\ pSock \in {0, acceptedSockets}
    BY Bounds
  <2>2. cSock = 0 /\ pSock = 0 /\ cOpened \in BOOLEAN /\ transport \in BOOLEAN
    OBVIOUS
  <2> QED BY <2>1, <2>2 DEF SocketTypes
<1>2. QueueTypes
  BY Bounds DEF QueueTypes
<1>3. CtlTypes
  BY KeyFacts DEF CtlTypes
<1>4. PeerTypes
  <2>1. /\ enabled \in BOOLEAN /\ failed \in BOOLEAN /\ polling \in BOOLEAN /\ pAdvertising \in BOOLEAN
        /\ connecting \in BOOLEAN /\ closing \in BOOLEAN /\ ready \in BOOLEAN /\ sessionRequested \in BOOLEAN
        /\ attBusy \in BOOLEAN /\ attSecurityPending \in BOOLEAN
    OBVIOUS
  <2>2. bond \in Keys /\ generation \in Keys /\ closingGeneration \in Keys
    BY KeyFacts
  <2>3. setup \in 0..SetupSteps /\ requests \in 0..MaxRequests
    BY Bounds
  <2>4. pImage \in Images \cup {0} /\ catalog \in Images \cup {0} /\ smp \in SmpStates
    BY DEF SmpStates
  <2> QED BY ONLY <2>1, <2>2, <2>3, <2>4 DEF PeerTypes
<1>5. CtlInv
  BY DEF CtlInv
<1>6. PeerInv
  BY DEF PeerInv, SessionInv, SecurityInv
<1>7. WireInv
  BY DEF WireInv
<1>8. ASSUME NEW s \in Sockets
      PROVE  \E told, data : SocketStory(s, told, data) /\ (s = pSock => LinkStart(told) /\ DataStart(data))
  <2>1. s # pSock /\ s # cSock
    BY DEF Sockets
  <2>2. FullTale(<<>>, nextGeneration, 0, {}, 0, {})
    BY EmptyTale
  <2>3. Tale(toPeer[s], nextGeneration, 0, {})
    BY <2>2, FullIsTale
  <2>4. SocketStory(s, 0, {})
    BY <2>1, <2>3 DEF SocketStory
  <2> QED BY <2>1, <2>4
<1>9. SocketInv
  BY <1>8 DEF SocketInv
<1> QED BY <1>1, <1>2, <1>3, <1>4, <1>5, <1>6, <1>7, <1>9 DEF LinkInv, LinkTypes

LEMMA StepInv == LinkInv /\ [Next]_vars => LinkInv'
<1> SUFFICES ASSUME LinkInv, [Next]_vars PROVE LinkInv'
  OBVIOUS
<1>1. CASE CtlStep
  BY <1>1, CtlStepInv
<1>2. CASE PeerStep
  BY <1>2, PeerStepInv
<1>3. CASE UNCHANGED vars
  <2> USE <1>3 DEF vars, wire, controller, radio, security, guest, peer, mode, publication, session, attention, closes
  <2>1. LinkTypes'
    BY DEF LinkInv, LinkTypes, SocketTypes, QueueTypes, CtlTypes, PeerTypes
  <2>2. CtlInv' /\ PeerInv'
    BY DEF LinkInv, CtlInv, PeerInv, SessionInv, SecurityInv
  <2>3. WireInv'
    BY DEF LinkInv, WireInv
  <2>4. UNCHANGED Announced /\ UNCHANGED PeerHears
    BY DEF Announced, PeerHears
  <2>5. ASSUME NEW s, NEW told, NEW data
        PROVE  /\ SocketStory(s, told, data) => SocketStory(s, told, data)'
               /\ LinkStart(told) => LinkStart(told)'
               /\ DataStart(data) => DataStart(data)'
    <3>1. SocketStory(s, told, data) => SocketStory(s, told, data)'
      BY <2>4 DEF SocketStory
    <3>2. LinkStart(told) => LinkStart(told)'
      BY DEF LinkStart
    <3>3. DataStart(data) => DataStart(data)'
      BY DEF DataStart, Offers
    <3> QED BY <3>1, <3>2, <3>3
  <2>6. SocketInv'
    BY <2>5 DEF LinkInv, SocketInv, Sockets
  <2> QED BY <2>1, <2>2, <2>3, <2>6 DEF LinkInv
<1> QED BY <1>1, <1>2, <1>3 DEF Next

(* LinkInv holds in every reachable state: whatever the controller has     *)
(* said and not yet delivered, VirtualPeer::receive finds it in an order   *)
(* that continues its own state.                                           *)
THEOREM Invariance == Spec => []LinkInv
<1>1. Init => LinkInv
  BY InitInv
<1>2. LinkInv /\ [Next]_vars => LinkInv'
  BY StepInv
<1> QED BY <1>1, <1>2, PTL DEF Spec

(* The sockets, while both sides hold the same one.                        *)
LEMMA JoinedStory ==
  ASSUME LinkInv, Joined
  PROVE  \E told, data :
           /\ LinkStart(told) /\ DataStart(data)
           /\ told \notin {0, conn} => Has(toPeer[pSock], "Disconnected", told)
           /\ conn # 0 /\ told # conn => Has(toPeer[pSock], "Connected", conn)
           /\ conn # 0 /\ told = conn => data = {published}
<1>1. LinkTypes /\ SocketInv /\ pSock \in Sockets /\ cSock = pSock
  BY Numbers DEF LinkInv, Joined
<1>2. PICK told, data : SocketStory(pSock, told, data) /\ LinkStart(told) /\ DataStart(data)
  BY <1>1 DEF SocketInv
<1>3. toPeer[pSock] \in Seq(PeerMsg) /\ nextGeneration \in Nat
  BY <1>1, Numbers DEF LinkTypes, QueueTypes
<1>4. FullTale(toPeer[pSock], nextGeneration, told, data, conn, Announced)
  BY <1>1, <1>2 DEF SocketStory, PeerHears
<1>5. /\ told \notin {0, conn} => Has(toPeer[pSock], "Disconnected", told)
      /\ conn # 0 /\ told # conn => Has(toPeer[pSock], "Connected", conn)
      /\ conn # 0 /\ told = conn => data = Announced
  BY <1>3, <1>4, FullFacts
<1>6. conn # 0 => Announced = {published}
  BY DEF Announced
<1> QED BY <1>2, <1>5, <1>6

(* The two ends agree on the link: TypeOK, Agreement, NoHalfOpen and       *)
(* ClosingExclusive of every reachable state, for VirtualPeer::receive and *)
(* BleController::peerMessage under every loss and crossing of sockets.    *)
THEOREM LinkCorrect == Spec => []LinkSafety
<1>1. LinkInv => LinkSafety
  <2> SUFFICES ASSUME LinkInv PROVE LinkSafety
    OBVIOUS
  <2>0. LinkTypes /\ PeerInv
    BY DEF LinkInv
  <2>1. TypeOK
    <3>1. \A s \in Sockets : toPeer[s] \in Seq(PeerMsgs) /\ Len(toPeer[s]) <= MaxQueue
                             /\ toCtl[s] \in Seq(CtlMsgs) /\ Len(toCtl[s]) <= MaxQueue
      <4>1. ASSUME NEW q \in Seq(PeerMsg) PROVE q \in Seq(PeerMsgs)
        <5>1. \A i \in 1..Len(q) : q[i] \in PeerMsgs
          BY DEF PeerMsg
        <5> QED BY <5>1
      <4> QED BY <2>0, <4>1 DEF LinkTypes, QueueTypes
    <3>2. {cKey, guestLtk, guestBond, bond, generation, closingGeneration} \subseteq Keys
      BY <2>0 DEF LinkTypes, CtlTypes, PeerTypes
    <3>3. {cOpened, cAdvertising, cEncrypted, guestAtt, guestSmp, transport, enabled, failed, polling, pAdvertising,
           connecting, closing, ready, sessionRequested, attBusy, attSecurityPending} \subseteq BOOLEAN
      BY <2>0 DEF LinkTypes, CtlTypes, PeerTypes, SocketTypes
    <3>4. {pImage, catalog, published} \subseteq Images \cup {0}
      BY <2>0 DEF LinkTypes, CtlTypes, PeerTypes
    <3>5. setup \in 0..SetupSteps /\ requests \in 0..MaxRequests /\ smp \in SmpStates
          /\ nextGeneration \in Keys /\ conn \in {0, nextGeneration}
      BY <2>0 DEF LinkTypes, CtlTypes, PeerTypes
    <3> QED BY <2>0, <3>1, <3>2, <3>3, <3>4, <3>5 DEF TypeOK, LinkTypes, SocketTypes
  <2>2. ClosingExclusive
    BY <2>0 DEF PeerInv, SessionInv, ClosingExclusive
  <2>3. Agreement
    <3> SUFFICES ASSUME Joined, generation # 0, conn # generation PROVE Coming("Disconnected", generation)
      BY DEF Agreement
    <3>1. PICK told, data : LinkStart(told) /\ (told \notin {0, conn} => Has(toPeer[pSock], "Disconnected", told))
      BY JoinedStory
    <3>2. told = generation
      BY <3>1 DEF LinkStart
    <3> QED BY <3>1, <3>2 DEF Has, Coming
  <2>4. NoHalfOpen
    <3> SUFFICES ASSUME Joined, conn # 0, generation # conn
                 PROVE  Coming("Connected", conn) \/ Has(toCtl[pSock], "Disconnect", conn)
      BY DEF NoHalfOpen, Has
    <3>1. PICK told, data : LinkStart(told) /\ (conn # 0 /\ told # conn => Has(toPeer[pSock], "Connected", conn))
      BY JoinedStory
    <3>2. CASE told = conn
      BY <3>1, <3>2 DEF LinkStart, Joined
    <3>3. CASE told # conn
      BY <3>1, <3>3 DEF Has, Coming
    <3> QED BY <3>2, <3>3
  <2> QED BY <2>1, <2>2, <2>3, <2>4 DEF LinkSafety
<1> QED BY <1>1, Invariance, PTL

(* What clients are offered is what the firmware has: VirtualPeer's        *)
(* catalog during a connection is the database the controller accepted the *)
(* connection with, and a ready session is for a published database.       *)
THEOREM DatabaseCorrect == Spec => []DatabaseSafety
<1>1. LinkInv => DatabaseSafety
  <2> SUFFICES ASSUME LinkInv PROVE DatabaseSafety
    OBVIOUS
  <2>1. SessionInv
    BY DEF LinkInv, PeerInv
  <2>2. ReadySession
    BY <2>1 DEF SessionInv, ReadySession
  <2>3. SessionDatabase
    <3> SUFFICES ASSUME Joined, generation # 0, conn = generation PROVE catalog = published
      BY DEF SessionDatabase
    <3>1. PICK told, data : LinkStart(told) /\ DataStart(data) /\ (conn # 0 /\ told = conn => data = {published})
      BY JoinedStory
    <3>2. data = {published}
      BY <3>1 DEF LinkStart
    <3>3. Offers(published)
      BY <3>1, <3>2 DEF DataStart
    <3> QED BY <2>1, <3>3 DEF Offers, SessionInv
  <2> QED BY <2>2, <2>3 DEF DatabaseSafety
<1> QED BY <1>1, Invariance, PTL

(* VirtualPeer sends an ATT request on a link with a bond only once the    *)
(* bond's encryption has been restored.                                    *)
THEOREM AttCorrect == Spec => []AttAfterRestore
<1>1. LinkInv => AttAfterRestore
  <2> SUFFICES ASSUME LinkInv, attBusy, bond # 0 PROVE smp = "Encrypted"
    BY DEF AttAfterRestore
  <2>1. SessionInv /\ SecurityInv
    BY DEF LinkInv, PeerInv
  <2>2. generation # 0
    BY <2>1 DEF SessionInv
  <2> QED BY <2>1, <2>2 DEF SecurityInv
<1> QED BY <1>1, Invariance, PTL

=============================================================================
