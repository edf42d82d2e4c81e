----------------------------- MODULE AttClient -----------------------------
(* The virtual peer's ATT client on one link: a bounded queue of requests, one *)
(* transaction at a time, long writes as prepared fragments, the MTU exchange  *)
(* that either side may begin, and a request that is sent again once the link  *)
(* is encrypted.  Sizes are in bytes of a small unit; a PDU's size counts its  *)
(* header.  The guest's ATT server answers in order and one at a time.         *)
EXTENDS Integers, Sequences, FiniteSets

CONSTANTS
  RequestIds,           \* bound: requests, in the order in which they are made
  ValueSizes,           \* bound: sizes of the values that are written
  DefaultMtu, MaxMtu,   \* DefaultAttMtu; what exchangeMtu is called with
  GuestMtu,             \* what the guest offers
  MaxPendingRequests,
  MaxValues             \* bound: notifications on their way

AttAssumption ==
  /\ RequestIds \subseteq Nat /\ ValueSizes \subseteq Nat \ {0} /\ MaxValues \in Nat
  /\ DefaultMtu \in Nat /\ DefaultMtu > 5 /\ MaxMtu \in Nat /\ GuestMtu \in Nat
  /\ DefaultMtu <= MaxMtu /\ DefaultMtu <= GuestMtu
  /\ MaxPendingRequests \in Nat \ {0}

VARIABLES
  connected,      \* _generation # 0
  requests,       \* _requests
  busy, securing, encrypted,       \* _attBusy, _attSecurityPending, _security.encrypted()
  mtu, localMtu, exchanged,        \* _mtu, _localMtu, _mtuExchanged
  toGuest, toPeer,                 \* L2CAP, in order
  guest,          \* external: the server's MTU, its prepared fragments, whether it asked for an exchange
  stored,         \* external: the fragments of the last value written
  made, done      \* history: requests made; how each was completed

link == <<busy, securing, encrypted, mtu, localMtu, exchanged>>
vars == <<connected, requests, busy, securing, encrypted, mtu, localMtu, exchanged,
          toGuest, toPeer, guest, stored, made, done>>

Min(a, b) == IF a <= b THEN a ELSE b
Unmade == -1
NoGuest == [mtu |-> DefaultMtu, prepared |-> <<>>, asked |-> FALSE]

Init ==
  /\ connected = TRUE /\ requests = <<>> /\ busy = FALSE /\ securing = FALSE /\ encrypted = FALSE
  /\ mtu = DefaultMtu /\ localMtu = DefaultMtu /\ exchanged = FALSE
  /\ toGuest = <<>> /\ toPeer = <<>> /\ guest = NoGuest /\ stored = <<>>
  /\ made = [i \in RequestIds |-> Unmade] /\ done = [i \in RequestIds |-> "no"]

-----------------------------------------------------------------------------
(* PDUs of the client                                                         *)

Pdu(op, id, offset, length, size) == [op |-> op, id |-> id, offset |-> offset, length |-> length, size |-> size]

\* Plausible bug: a fragment fills the MTU and leaves no room for its header.
prepareWriteWide(r, m, offset) ==
  LET length == Min(m - 3, r.value - offset)
  IN Pdu("prepare", r.id, offset, length, 5 + length)

prepareWrite(r, m, offset) ==
  LET length == Min(m - 5, r.value - offset)
  IN Pdu("prepare", r.id, offset, length, 5 + length)

\* Plausible bug: the flag of Execute Write says commit.
CancelCommits(r) == Pdu("execute", r.id, 0, 0, 2)

Execute(r) == Pdu("execute", r.id, 0, 0, 2)
Cancel(r) == Pdu("cancel", r.id, 0, 0, 2)

\* A value that does not fit one write is a long one, prepared for the MTU of now.
NewRequest(kind, id, value) ==
  LET r == [id |-> id, value |-> value, long |-> kind = "write" /\ value > mtu - 3, prepareError |-> FALSE,
            packet |-> Pdu(kind, id, 0, value, 3 + value)]
  IN IF r.long THEN [r EXCEPT !.packet = prepareWrite(r, mtu, 0)] ELSE r

\* Plausible bug: a response does not hold back the next request.
SendNextAlways(q, isBusy, isSecuring) ==
  IF isSecuring \/ q = <<>>
    THEN requests' = q /\ busy' = isBusy /\ toGuest' = toGuest
    ELSE requests' = q /\ busy' = TRUE /\ toGuest' = Append(toGuest, Head(q).packet)

\* sendNext, of a queue "q" and with the flags as they now are.
SendNext(q, isBusy, isSecuring) ==
  IF isBusy \/ isSecuring \/ q = <<>>
    THEN requests' = q /\ busy' = isBusy /\ toGuest' = toGuest
    ELSE requests' = q /\ busy' = TRUE /\ toGuest' = Append(toGuest, Head(q).packet)

-----------------------------------------------------------------------------
(* Client requests; a completion that makes another one is this action next   *)

\* The ids are taken in order; "value" is what is to be written.
Make(id, value) ==
  /\ connected /\ \A i \in RequestIds : made[i] = Unmade <=> i >= id
  /\ made' = [made EXCEPT ![id] = value]

\* Plausible bug: a full queue takes one more.
EnqueueLate(r) ==
  IF Len(requests) > MaxPendingRequests
    THEN done' = [done EXCEPT ![r.id] = "refused"] /\ UNCHANGED <<requests, busy, toGuest>>
    ELSE UNCHANGED done /\ SendNext(Append(requests, r), busy, securing)

\* request: refused inside the call when the queue is full.
Enqueue(r) ==
  IF Len(requests) >= MaxPendingRequests
    THEN done' = [done EXCEPT ![r.id] = "refused"] /\ UNCHANGED <<requests, busy, toGuest>>
    ELSE UNCHANGED done /\ SendNext(Append(requests, r), busy, securing)

Read(id) ==
  /\ Make(id, 0) /\ Enqueue(NewRequest("read", id, 0))
  /\ UNCHANGED <<connected, securing, encrypted, mtu, localMtu, exchanged, toPeer, guest, stored>>

Write(id, size) ==
  /\ Make(id, size) /\ Enqueue(NewRequest("write", id, size))
  /\ UNCHANGED <<connected, securing, encrypted, mtu, localMtu, exchanged, toPeer, guest, stored>>

\* exchangeMtu: once in a session, the value of the central's.
ExchangeMtu(id) ==
  /\ Make(id, 0) /\ localMtu = DefaultMtu
  /\ IF exchanged
       THEN done' = [done EXCEPT ![id] = "ok"] /\ UNCHANGED <<requests, busy, toGuest, localMtu>>
       ELSE localMtu' = MaxMtu /\ Enqueue(NewRequest("mtu", id, 0))
  /\ UNCHANGED <<connected, securing, encrypted, mtu, exchanged, toPeer, guest, stored>>

-----------------------------------------------------------------------------
(* The guest's server                                                         *)

Reply(op, pdu, size) == [op |-> op, of |-> pdu, size |-> size]

GuestReceives == connected /\ toGuest # <<>> /\ toGuest' = Tail(toGuest)

Serve(g, reply, value) ==
  /\ GuestReceives /\ guest' = g /\ toPeer' = Append(toPeer, reply) /\ stored' = value
  /\ UNCHANGED <<connected, requests, link, made, done>>

GuestServes ==
  LET p == Head(toGuest)
  IN \/ GuestReceives /\ p.op = "read" /\ Serve(guest, Reply("answer", p, guest.mtu), stored)
     \/ GuestReceives /\ p.op = "write" /\ Serve(guest, Reply("answer", p, 1), <<p>>)
     \/ /\ GuestReceives /\ p.op = "prepare"
        /\ Serve([guest EXCEPT !.prepared = Append(@, p)], Reply("answer", p, p.size), stored)
     \/ GuestReceives /\ p.op = "execute" /\ Serve([guest EXCEPT !.prepared = <<>>], Reply("answer", p, 1), guest.prepared)
     \/ GuestReceives /\ p.op = "cancel" /\ Serve([guest EXCEPT !.prepared = <<>>], Reply("answer", p, 1), stored)
     \/ GuestReceives /\ p.op = "mtu" /\ Serve([guest EXCEPT !.mtu = Min(GuestMtu, MaxMtu)], Reply("answer", p, 3), stored)

\* A fragment that was stored, and whose echo is not the request.
GuestGarbles ==
  GuestReceives /\ Head(toGuest).op = "prepare"
  /\ Serve([guest EXCEPT !.prepared = Append(@, Head(toGuest))], Reply("garbled", Head(toGuest), Head(toGuest).size), stored)

GuestRefuses ==
  GuestReceives /\ Head(toGuest).op \notin {"cancel", "answered"} /\ Serve(
    IF Head(toGuest).op = "execute" THEN [guest EXCEPT !.prepared = <<>>] ELSE guest, Reply("error", Head(toGuest), 5), stored)

GuestDemandsSecurity ==
  GuestReceives /\ ~encrypted /\ Head(toGuest).op \in {"read", "write", "prepare"}
  /\ Serve(guest, Reply("insecure", Head(toGuest), 5), stored)

\* The answer to the guest's own exchange: its MTU from now on.
GuestAnswered ==
  /\ GuestReceives /\ Head(toGuest).op = "answered"
  /\ guest' = [guest EXCEPT !.mtu = Min(GuestMtu, Head(toGuest).length)]
  /\ UNCHANGED <<connected, requests, link, toPeer, stored, made, done>>

GuestExchangesMtu ==
  /\ connected /\ ~guest.asked /\ guest' = [guest EXCEPT !.asked = TRUE]
  /\ toPeer' = Append(toPeer, Reply("mtu", Pdu("mtu", 0, 0, GuestMtu, 3), 3))
  /\ UNCHANGED <<connected, requests, link, toGuest, stored, made, done>>

\* As long as its MTU lets it be.
GuestNotifies ==
  /\ connected /\ Cardinality({i \in DOMAIN toPeer : toPeer[i].op = "value"}) < MaxValues
  /\ toPeer' = Append(toPeer, Reply("value", Pdu("value", 0, 0, 0, guest.mtu), guest.mtu))
  /\ UNCHANGED <<connected, requests, link, toGuest, guest, stored, made, done>>

-----------------------------------------------------------------------------
(* receiveAtt                                                                 *)

Packet == Head(toPeer)
Front == Head(requests)

Receive == connected /\ toPeer # <<>> /\ toPeer' = Tail(toPeer) /\ UNCHANGED <<connected, guest, stored, made>>

\* onValue is the bridge's.
ReceiveValue == Receive /\ Packet.op = "value" /\ UNCHANGED <<requests, link, toGuest, done>>

ReceiveMtu ==
  /\ Receive /\ Packet.op = "mtu"
  /\ toGuest' = Append(toGuest, Pdu("answered", 0, 0, localMtu, 3))
  /\ mtu' = Min(localMtu, Packet.of.length) /\ exchanged' = TRUE
  /\ UNCHANGED <<requests, busy, securing, encrypted, localMtu, done>>

\* The request stays in front and is sent again by securityReady.
ReceiveInsecure ==
  /\ Receive /\ Packet.op = "insecure" /\ ~encrypted /\ securing' = TRUE /\ busy' = FALSE
  /\ UNCHANGED <<requests, encrypted, mtu, localMtu, exchanged, toGuest, done>>

Complete(result) ==
  /\ done' = [done EXCEPT ![Front.id] = result]
  /\ SendNext(Tail(requests), FALSE, securing)

\* What follows a fragment: the next one, the execution, or the cancellation.
Continue(failed) ==
  LET p == Front.packet
      offset == p.offset + p.length
      next == IF failed THEN Cancel(Front)
              ELSE IF offset < Front.value THEN prepareWrite(Front, mtu, offset) ELSE Execute(Front)
  IN SendNext([requests EXCEPT ![1].packet = next, ![1].prepareError = failed], FALSE, securing)

\* Plausible bug: a refused fragment completes the write.
ReceivePreparedDrops ==
  /\ Receive /\ Packet.op \in {"answer", "garbled", "error"} /\ Front.packet.op = "prepare"
  /\ IF Packet.op # "answer" THEN Complete("error") ELSE Continue(FALSE) /\ UNCHANGED done
  /\ UNCHANGED <<securing, encrypted, mtu, localMtu, exchanged>>

ReceivePrepared ==
  /\ Receive /\ Packet.op \in {"answer", "garbled", "error"} /\ Front.packet.op = "prepare"
  /\ Continue(Packet.op # "answer") /\ UNCHANGED <<securing, encrypted, mtu, localMtu, exchanged, done>>

ReceiveAnswer ==
  /\ Receive /\ Packet.op \in {"answer", "error"} /\ Front.packet.op # "prepare"
  /\ IF Front.packet.op = "mtu" /\ Packet.op = "answer"
       THEN mtu' = Min(IF exchanged THEN mtu ELSE MaxMtu, GuestMtu) /\ exchanged' = TRUE
       ELSE UNCHANGED <<mtu, exchanged>>
  /\ Complete(IF Packet.op = "answer" /\ ~Front.prepareError THEN "ok" ELSE "error")
  /\ UNCHANGED <<securing, encrypted, localMtu>>

-----------------------------------------------------------------------------
(* Security and the end of the session                                        *)

\* Plausible bug: the request that waited is not sent again.
SecurityReadySilently ==
  /\ connected /\ securing /\ securing' = FALSE /\ encrypted' = TRUE
  /\ UNCHANGED <<connected, requests, busy, mtu, localMtu, exchanged, toGuest, toPeer, guest, stored, made, done>>

SecurityReady ==
  /\ connected /\ securing /\ securing' = FALSE /\ encrypted' = TRUE
  /\ SendNext(requests, busy, FALSE)
  /\ UNCHANGED <<connected, mtu, localMtu, exchanged, toPeer, guest, stored, made, done>>

\* Plausible bug: the queue is emptied and nobody is told.
ClearLinkSilently ==
  /\ connected /\ connected' = FALSE
  /\ requests' = <<>> /\ busy' = FALSE /\ securing' = FALSE /\ encrypted' = FALSE
  /\ mtu' = DefaultMtu /\ localMtu' = DefaultMtu /\ exchanged' = FALSE
  /\ toGuest' = <<>> /\ toPeer' = <<>> /\ guest' = NoGuest /\ UNCHANGED <<stored, made, done>>

\* clearLink: what waits is completed, and what is on its way has an old generation.
ClearLink ==
  /\ connected /\ connected' = FALSE
  /\ done' = [i \in RequestIds |-> IF \E k \in DOMAIN requests : requests[k].id = i THEN "closed" ELSE done[i]]
  /\ requests' = <<>> /\ busy' = FALSE /\ securing' = FALSE /\ encrypted' = FALSE
  /\ mtu' = DefaultMtu /\ localMtu' = DefaultMtu /\ exchanged' = FALSE
  /\ toGuest' = <<>> /\ toPeer' = <<>> /\ guest' = NoGuest /\ UNCHANGED <<stored, made>>

\* poll: AttTimeout, while a transaction or its security is pending.
TimesOut == (busy \/ securing) /\ ClearLink

\* A guest that disconnects, a failure of the link, disconnect().
Disconnected == ClearLink

Next ==
  \/ \E id \in RequestIds : Read(id)
  \/ \E id \in RequestIds, size \in ValueSizes : Write(id, size)
  \/ \E id \in RequestIds : ExchangeMtu(id)
  \/ GuestServes \/ GuestGarbles \/ GuestRefuses \/ GuestDemandsSecurity
  \/ GuestAnswered \/ GuestExchangesMtu \/ GuestNotifies
  \/ ReceiveValue \/ ReceiveMtu \/ ReceiveInsecure \/ ReceivePrepared \/ ReceiveAnswer
  \/ SecurityReady \/ TimesOut \/ Disconnected

Spec == Init /\ [][Next]_vars

\* Every poll compares the deadline; the guest need not answer.
LiveSpec == Spec /\ WF_vars(TimesOut)

-----------------------------------------------------------------------------
(* Types of the state; the queue within its bound.                            *)
TypeOK ==
  /\ connected \in BOOLEAN /\ busy \in BOOLEAN /\ securing \in BOOLEAN /\ encrypted \in BOOLEAN
  /\ exchanged \in BOOLEAN /\ mtu \in DefaultMtu..MaxMtu /\ localMtu \in {DefaultMtu, MaxMtu}
  /\ Len(requests) <= MaxPendingRequests /\ made \in [RequestIds -> {Unmade, 0} \cup ValueSizes]
  /\ done \in [RequestIds -> {"no", "ok", "error", "refused", "closed"}]

InFlight ==
  Cardinality({i \in DOMAIN toGuest : toGuest[i].op # "answered"})
  + Cardinality({i \in DOMAIN toPeer : toPeer[i].op \in {"answer", "garbled", "error", "insecure"}})

(* One request at a time is with the guest, through errors, fragments, retries *)
(* after encryption and new requests: exactly one while _attBusy.              *)
OneTransaction == InFlight = IF busy THEN 1 ELSE 0

(* The guest never stores a part of a value, or parts of two: a write that the *)
(* MTU splits is applied as one ("Preserve a physical GATT value as one guest  *)
(* write, even across different MTUs").                                        *)
WritesWhole ==
  \A i \in DOMAIN stored :
    /\ stored[i].id = stored[1].id
    /\ stored[i].offset = IF i = 1 THEN 0 ELSE stored[i - 1].offset + stored[i - 1].length
    /\ i = Len(stored) => stored[i].offset + stored[i].length = made[stored[1].id]

(* What the guest has prepared belongs to the write in front of the queue: a   *)
(* write that fails leaves no fragment behind that a later one would commit.   *)
PreparedOwned ==
  guest.prepared # <<>> =>
    /\ requests # <<>> /\ Front.long
    /\ \A i \in DOMAIN guest.prepared : guest.prepared[i].id = Front.id

(* No PDU is longer than its receiver's MTU, however the two exchanges cross   *)
(* and whatever was queued before ("invalid ATT PDU length" is never raised).  *)
PduFits ==
  /\ toGuest # <<>> => Head(toGuest).size <= guest.mtu
  /\ toPeer # <<>> => Packet.size <= mtu

(* A request that was made is waiting or was completed, never both and never   *)
(* neither.                                                                    *)
Accounted ==
  \A i \in RequestIds : made[i] # Unmade => ((done[i] = "no") <=> \E k \in DOMAIN requests : requests[k].id = i)

(* Every request is completed, whether or not the guest answers.               *)
Completed == \A i \in RequestIds : made[i] # Unmade ~> done[i] # "no"

(* The client's part of ATT is kept to: one request at a time, writes and what *)
(* the guest has prepared for them whole, every PDU within its receiver's MTU, *)
(* and no request lost or completed twice, in any order of answers, exchanges, *)
(* demands for security and lost links.                                        *)
AttSafety == TypeOK /\ OneTransaction /\ WritesWhole /\ PreparedOwned /\ PduFits /\ Accounted
=============================================================================
