-------------------------- MODULE PeripheralBridge --------------------------
(* The macOS peripheral bridge: M5PeripheralDelegate publishes the firmware's *)
(* GATT services through CoreBluetooth and carries the requests of one real   *)
(* central to the virtual peer's ATT session.                                 *)
(*                                                                            *)
(* Everything runs on the main thread, but by callbacks that call each other: *)
(* a refused request ends the session, which completes the other requests,    *)
(* which invalidates the publication, which cancels what waits.  A handler is *)
(* therefore an operator from a state record to the next one, and an action   *)
(* applies the handler of one event.                                          *)
(*                                                                            *)
(* The number _publication is only ever compared with its present value, so a *)
(* captured number is modelled by "current": whether it still is that value.  *)
(* The peer is modelled by what the bridge can see of VirtualPeer; BleLink    *)
(* has its other side.  Attribute data and error codes are left out.          *)
EXTENDS Naturals, FiniteSets, SequencesExt

CONSTANTS
  Services,             \* application services; each has one characteristic
  Advertised,           \* those whose UUID the firmware advertises
  Centrals, NoCentral,  \* real clients
  MaxRequests,          \* bound: reads and writes issued by the clients
  MaxPendingOperations, MaxPendingValues,   \* 64 and 64 in the source
  MaxPendingRequests,   \* 64, of the ATT client
  Room                  \* values CoreBluetooth takes before it is full

BridgeAssumption ==
  /\ Services # {} /\ Advertised \subseteq Services /\ NoCentral \notin Centrals
  /\ {MaxRequests, MaxPendingOperations, MaxPendingValues, MaxPendingRequests, Room} \subseteq Nat \ {0}

VARIABLES
  delegate,   \* M5PeripheralDelegate
  peer,       \* VirtualPeer, as the delegate sees it
  radio,      \* CoreBluetooth and, beyond the peer, the guest's link
  answers     \* how often CoreBluetooth was given an answer to each request

vars == <<delegate, peer, radio, answers>>

Ids == 1..MaxRequests
Catalogs == 1..2
Operation == [kind : {"request", "subscribe", "unsubscribe", "mtu"}, id : 0..MaxRequests,
              handle : Services \cup {0}, central : Centrals, current : BOOLEAN]

Init ==
  /\ delegate = [enabled |-> TRUE, published |-> FALSE, pending |-> 0, services |-> {},
                 characteristics |-> {}, catalog |-> 0, central |-> NoCentral, preparing |-> FALSE,
                 operations |-> <<>>, desired |-> {}, subscriptions |-> {}, values |-> <<>>]
  /\ peer = [enabled |-> FALSE, failed |-> FALSE, advertising |-> FALSE, catalog |-> 0, closing |-> FALSE,
             link |-> "none", ready |-> FALSE, requested |-> FALSE, mtu |-> FALSE, requests |-> <<>>]
  /\ radio = [on |-> FALSE, adding |-> {}, subscribers |-> {}, room |-> Room, onAir |-> FALSE, guest |-> "idle", issued |-> 0,
              alive |-> TRUE]
  /\ answers = [i \in Ids |-> 0]

Now == [d |-> delegate, p |-> peer, r |-> radio, a |-> answers]
Becomes(s) == delegate' = s.d /\ peer' = s.p /\ radio' = s.r /\ answers' = s.a

Occurrences(i, ops) == Cardinality({k \in DOMAIN ops : ops[k].id = i})
Respond(s, ops) == [s EXCEPT !.a = [i \in Ids |-> @[i] + Occurrences(i, ops)]]

\* ++_publication: what was captured before is no longer current.
Retired(s) ==
  [s EXCEPT !.p.requests = [k \in DOMAIN @ |-> [@[k] EXCEPT !.current = FALSE]],
            !.r.adding = {[o EXCEPT !.current = FALSE] : o \in @}]

available(p) ==
  /\ p.catalog # 0 /\ p.enabled /\ ~p.failed /\ ~p.closing
  /\ p.advertising \/ p.link # "none" \/ p.requested

-----------------------------------------------------------------------------
(* Publication and sessions                                                   *)

Unpublished(d) ==
  [d EXCEPT !.published = FALSE, !.pending = 0, !.services = {}, !.characteristics = {}, !.catalog = 0,
            !.central = NoCentral, !.preparing = FALSE, !.operations = <<>>, !.desired = {},
            !.subscriptions = {}, !.values = <<>>]

\* stopAdvertising and removeAllServices.
OffAir(r) == [r EXCEPT !.onAir = FALSE, !.subscribers = {}]

\* Plausible bug: operations that wait are forgotten without an answer.
invalidateDropsOperations(s) == [Retired(s) EXCEPT !.d = Unpublished(@), !.r = OffAir(@)]

invalidate(s) ==
  Respond([Retired(s) EXCEPT !.d = Unpublished(@), !.r = OffAir(@)], s.d.operations)

\* Completions run before onClosed; the disconnect() their errors ask for finds
\* nothing left to do.
clearLink(s) ==
  LET active == s.p.link # "none" \/ s.p.ready \/ s.p.requested
      cleared == [s EXCEPT !.p = [@ EXCEPT !.link = "none", !.ready = FALSE, !.requested = FALSE,
                                           !.mtu = FALSE, !.requests = <<>>]]
      completed == Respond(cleared, s.p.requests)
  IN  IF active THEN invalidate(completed) ELSE completed

disconnect(s) ==
  IF s.p.closing THEN s ELSE clearLink([s EXCEPT !.p.closing = s.p.link # "none"])

\* Plausible bug: services are published again while they are being added.
publishTwice(s) ==
  IF ~s.d.enabled \/ ~available(s.p) \/ ~s.r.on \/ s.d.published
  THEN s
  ELSE [Retired(s) EXCEPT !.d = [@ EXCEPT !.services = Services, !.characteristics = Services,
                                          !.catalog = s.p.catalog, !.pending = @ + Cardinality(Services)],
                          !.r.adding = @ \cup [handle : Services, current : {TRUE}]]

publish(s) ==
  IF ~s.d.enabled \/ ~available(s.p) \/ ~s.r.on \/ s.d.published \/ s.d.pending > 0
  THEN s
  ELSE [Retired(s) EXCEPT !.d = [@ EXCEPT !.services = Services, !.characteristics = Services,
                                          !.catalog = s.p.catalog, !.pending = Cardinality(Services)],
                          !.r.adding = @ \cup [handle : Services, current : {TRUE}]]

updateAvailability(s) == IF available(s.p) THEN publish(s) ELSE invalidate(s)

peerSetEnabled(s, enabled) ==
  LET changed == [s EXCEPT !.p.enabled = enabled, !.p.failed = @ /\ ~enabled]
  IN  IF s.p.enabled = enabled THEN s
      ELSE updateAvailability(IF enabled THEN changed ELSE disconnect(changed))

invalidateCatalog(s) == updateAvailability([s EXCEPT !.p.catalog = 0])

-----------------------------------------------------------------------------
(* Values and operations                                                      *)

Sendable(s) ==
  s.d.central # NoCentral /\ ~s.d.preparing /\ s.d.values # <<>> /\ Head(s.d.values).handle \in s.d.subscriptions

drainValues(s) ==
  FoldLeft(LAMBDA t, v : IF Sendable(t) /\ t.r.room > 0
                         THEN [t EXCEPT !.d.values = Tail(@), !.r.room = @ - 1] ELSE t,
           s, s.d.values)

Subscribed(s, op) ==
  [s EXCEPT !.d.subscriptions = IF op.handle \in s.d.desired THEN @ \cup {op.handle} ELSE @]

\* The completion of a request the delegate made, the MTU exchange apart.
Completed(s, op, failed) ==
  CASE op.kind = "request" -> Respond(s, <<op>>)
    [] ~op.current         -> s
    [] failed              -> disconnect(s)
    [] op.kind = "subscribe" -> drainValues(Subscribed(s, op))
    [] OTHER               -> s

\* VirtualPeer::read, write and request.
request(s, op) ==
  IF ~s.p.ready \/ s.p.link # "up" \/ Len(s.p.requests) >= MaxPendingRequests
  THEN Completed(s, op, TRUE)
  ELSE [s EXCEPT !.p.requests = Append(@, op)]

run(s, op) ==
  CASE ~op.current -> IF op.kind = "request" THEN Respond(s, <<op>>) ELSE s
    [] op.kind = "subscribe" /\ op.handle \notin s.d.desired -> s
    [] OTHER -> request(s, op)

\* Plausible bug: only the first operation is run.
drainOne(s) ==
  IF s.d.preparing \/ s.d.operations = <<>> THEN s
  ELSE run([s EXCEPT !.d.operations = Tail(@)], Head(s.d.operations))

drainOperations(s) ==
  FoldLeft(LAMBDA t, op : IF t.d.preparing \/ t.d.operations = <<>> THEN t
                          ELSE run([t EXCEPT !.d.operations = Tail(@)], Head(t.d.operations)),
           s, s.d.operations)

mtuCompleted(s, op, failed) ==
  IF ~op.current THEN s
  ELSE IF failed THEN disconnect(s)
  ELSE drainOperations([s EXCEPT !.d.preparing = FALSE])

prepareSession(s) ==
  LET op == [kind |-> "mtu", id |-> 0, handle |-> 0, central |-> s.d.central, current |-> TRUE]
  IN  IF s.d.central = NoCentral \/ ~s.d.preparing \/ ~s.p.ready THEN s
      ELSE IF s.p.mtu THEN mtuCompleted(s, op, FALSE)
      ELSE IF s.p.link # "up" \/ Len(s.p.requests) >= MaxPendingRequests THEN mtuCompleted(s, op, TRUE)
      ELSE [s EXCEPT !.p.requests = Append(@, op)]

cancel(s, op) ==
  CASE op.kind = "request"   -> Respond(s, <<op>>)
    [] op.kind = "subscribe" -> [s EXCEPT !.d.desired = IF op.current THEN @ \ {op.handle} ELSE @]
    [] OTHER                 -> s

\* Plausible bug: a second client is let into the session of the first.
enqueueAnyCentral(s, op, fits) ==
  IF ~s.d.published \/ ~available(s.p) THEN cancel(s, op)
  ELSE [s EXCEPT !.d.operations = Append(@, op), !.d.central = op.central, !.d.preparing = TRUE, !.p.requested = TRUE]

enqueue(s, op, fits) ==
  LET queued == [s EXCEPT !.d.operations = Append(@, op)]
      bound == [queued EXCEPT !.d.central = op.central, !.d.preparing = TRUE, !.p.requested = TRUE]
  IN  CASE \/ ~s.d.published \/ ~available(s.p)
           \/ s.d.central \notin {NoCentral, op.central}            -> cancel(s, op)
        [] Len(s.d.operations) >= MaxPendingOperations \/ ~fits     -> cancel(s, op)
        [] s.d.central = NoCentral /\ s.p.ready                     -> prepareSession(bound)
        [] s.d.central = NoCentral /\ ~s.p.ready                    -> bound
        [] s.d.central # NoCentral /\ ~s.d.preparing                -> drainOperations(queued)
        [] OTHER                                                    -> queued

-----------------------------------------------------------------------------
(* CoreBluetooth callbacks                                                    *)

DidUpdateState ==
  LET s == [Now EXCEPT !.r = [OffAir(@) EXCEPT !.on = ~radio.on]]
      enabled == peerSetEnabled(s, TRUE)
  IN  /\ radio.alive
      /\ Becomes(IF s.r.on /\ s.d.enabled
                 THEN IF available(enabled.p) THEN publish(enabled) ELSE enabled
                 ELSE invalidate(peerSetEnabled(s, FALSE)))

\* The callback for a service that was removed meanwhile is told by its object.
didAddService(o, error) ==
  LET heard == [Now EXCEPT !.r.adding = @ \ {o}]
      s == IF error = "none" THEN heard
           ELSE [heard EXCEPT !.d.services = @ \ {o.handle}, !.d.characteristics = @ \ {o.handle}]
      counted == [s EXCEPT !.d.pending = @ - 1]
      done == [counted EXCEPT !.d.published = TRUE]
  IN  CASE ~o.current \/ o.handle \notin delegate.services -> heard
        [] error = "other" \/ (error = "reserved" /\ o.handle \in Advertised) ->
             invalidate(peerSetEnabled(heard, FALSE))
        [] counted.d.pending > 0 -> counted
        [] counted.d.services \cap Advertised = {} -> peerSetEnabled(done, FALSE)
        [] OTHER -> [done EXCEPT !.r.onAir = TRUE]

DidAddService(o, error) == radio.alive /\ Becomes(didAddService(o, error))

\* A read or a write of characteristic h, of the present publication or of an
\* earlier one: "handled" is FALSE when the characteristic, the offset or the
\* batch makes the delegate answer it at once.
ReceiveRequest(c, h, handled, fits) ==
  LET i == radio.issued + 1
      op == [kind |-> "request", id |-> i, handle |-> h, central |-> c, current |-> TRUE]
      s == [Now EXCEPT !.r.issued = i]
  IN  /\ radio.alive /\ i \in Ids
      /\ Becomes(IF handled /\ h \in delegate.characteristics THEN enqueue(s, op, fits) ELSE Respond(s, <<op>>))

DidSubscribe(c, h, fits) ==
  LET op == [kind |-> "subscribe", id |-> 0, handle |-> h, central |-> c, current |-> TRUE]
      s == [Now EXCEPT !.r.subscribers = @ \cup {<<c, h>>}]
  IN  /\ radio.alive /\ h \in delegate.characteristics /\ <<c, h>> \notin radio.subscribers
      /\ Becomes(IF delegate.central \in {NoCentral, c}
                 THEN enqueue([s EXCEPT !.d.desired = @ \cup {h}], op, fits) ELSE s)

DidUnsubscribe(c, h) ==
  LET told == [Now EXCEPT !.r.subscribers = @ \ {<<c, h>>}]
      s == [told EXCEPT !.d.desired = @ \ {h}, !.d.subscriptions = @ \ {h},
                        !.d.values = SelectSeq(@, LAMBDA v : v.handle # h)]
      op == [kind |-> "unsubscribe", id |-> 0, handle |-> h, central |-> c, current |-> TRUE]
  IN  /\ radio.alive /\ h \in delegate.characteristics /\ <<c, h>> \in radio.subscribers
      /\ Becomes(CASE delegate.central # c -> told
                   [] s.d.desired = {}     -> disconnect(s)
                   [] OTHER                -> enqueue(s, op, TRUE))

\* Plausible bug: the callback does not look at the queue.
ReadyIgnored == radio.alive /\ radio.room = 0 /\ Becomes([Now EXCEPT !.r.room = Room])

ReadyToUpdateSubscribers ==
  radio.alive /\ radio.room = 0 /\ Becomes(drainValues([Now EXCEPT !.r.room = Room]))

-----------------------------------------------------------------------------
(* The application: menu, poll, a new QEMU process, the end                   *)

SetEnabled ==
  LET s == peerSetEnabled([Now EXCEPT !.d.enabled = ~@], ~delegate.enabled /\ radio.on)
  IN  /\ radio.alive
      /\ Becomes(IF ~s.d.enabled THEN invalidate(s) ELSE IF available(s.p) THEN publish(s) ELSE s)

\* poll(): 30 seconds without activity of a client that holds no subscription.
IdleExpires ==
  /\ radio.alive /\ delegate.central # NoCentral /\ ~delegate.preparing /\ delegate.desired = {}
  /\ Becomes(disconnect(Now))

peerReset(s) ==
  invalidateCatalog(clearLink([s EXCEPT !.p.advertising = FALSE, !.p.failed = FALSE, !.p.closing = FALSE,
                                        !.r.guest = "idle"]))

BridgeReset ==
  /\ radio.alive
  /\ Becomes(peerSetEnabled(peerReset(Now), delegate.enabled /\ radio.on))

Shutdown == radio.alive /\ Becomes([invalidate(peerReset(Now)) EXCEPT !.r.alive = FALSE])

-----------------------------------------------------------------------------
(* What VirtualPeer::poll does and reports                                    *)

PeerConnects ==
  /\ radio.alive /\ peer.enabled /\ ~peer.failed /\ peer.advertising /\ peer.link = "none"
  /\ ~peer.closing /\ peer.requested
  /\ Becomes([Now EXCEPT !.p.link = "connecting", !.r.guest = "asked"])

PeerConnected ==
  /\ radio.alive /\ radio.guest = "asked"
  /\ Becomes(IF peer.link = "connecting" /\ peer.enabled
             THEN [Now EXCEPT !.p.link = "up", !.p.advertising = FALSE, !.r.guest = "linked"]
             ELSE [Now EXCEPT !.p.closing = TRUE, !.r.guest = "linked"])

PeerDisconnected ==
  /\ radio.alive /\ radio.guest = "linked"
  /\ LET s == [Now EXCEPT !.r.guest = "idle"]
     IN  Becomes(IF peer.closing THEN [s EXCEPT !.p.closing = FALSE] ELSE clearLink(s))

\* Plausible bug: a session that is ready is not reported.
PeerReadySilently ==
  radio.alive /\ peer.link = "up" /\ ~peer.ready /\ Becomes([Now EXCEPT !.p.ready = TRUE])

\* clearSubscriptions has ended.
PeerReady ==
  /\ radio.alive /\ peer.link = "up" /\ ~peer.ready
  /\ Becomes(prepareSession([Now EXCEPT !.p.ready = TRUE]))

GuestExchangesMtu ==
  radio.alive /\ peer.link = "up" /\ ~peer.mtu /\ Becomes([Now EXCEPT !.p.mtu = TRUE])

PeerAnswers(failed) ==
  LET op == Head(peer.requests)
      s == [Now EXCEPT !.p.requests = Tail(@), !.p.mtu = @ \/ (op.kind = "mtu" /\ ~failed)]
  IN  /\ radio.alive /\ peer.requests # <<>>
      /\ Becomes(IF op.kind = "mtu" THEN mtuCompleted(s, op, failed) ELSE Completed(s, op, failed))

\* Plausible bug: the limit is one too high.
acceptValueLate(s, h, fits) ==
  CASE s.d.central = NoCentral \/ h \notin s.d.desired -> s
    [] h \notin s.d.characteristics \/ Len(s.d.values) > MaxPendingValues \/ ~fits -> disconnect(s)
    [] OTHER -> drainValues([s EXCEPT !.d.values = Append(@, [handle |-> h])])

acceptValue(s, h, fits) ==
  CASE s.d.central = NoCentral \/ h \notin s.d.desired -> s
    [] h \notin s.d.characteristics \/ Len(s.d.values) >= MaxPendingValues \/ ~fits -> disconnect(s)
    [] OTHER -> drainValues([s EXCEPT !.d.values = Append(@, [handle |-> h])])

GuestNotifies(h, fits) == radio.alive /\ peer.ready /\ Becomes(acceptValue(Now, h, fits))

GuestAdvertises(on, changed) ==
  LET s == [Now EXCEPT !.p.advertising = on]
      dropped == invalidateCatalog(disconnect(s))
  IN  /\ radio.alive /\ radio.guest # "linked" /\ (on # peer.advertising \/ changed)
      /\ Becomes(updateAvailability(
           IF (peer.catalog # 0 /\ changed) \/ (~on /\ peer.link = "none" /\ ~peer.closing) THEN dropped ELSE s))

\* Plausible bug: a new database replaces the old one in place.
receiveCatalogInPlace(s, c) == updateAvailability([s EXCEPT !.p.catalog = c])

receiveCatalog(s, c) ==
  updateAvailability(IF s.p.catalog = c THEN s
                     ELSE [invalidateCatalog(disconnect(s)) EXCEPT !.p.catalog = c])

\* The controller publishes the database of firmware that advertises.
GuestPublishes(c) == radio.alive /\ radio.guest # "linked" /\ Becomes(receiveCatalog(Now, c))

\* An exception in poll(): a rejected operation, a timeout, a malformed message.
PeerFails ==
  /\ radio.alive /\ (peer.link # "none" \/ peer.closing)
  /\ \E late, rejected \in BOOLEAN :   \* the close's deadline; a Connect refused
       LET s == [Now EXCEPT !.p.failed = TRUE, !.p.closing = @ /\ ~late,
                            !.r.guest = IF late \/ (rejected /\ @ = "asked") THEN "idle" ELSE @]
       IN  (late => peer.closing) /\ Becomes(invalidateCatalog(disconnect(s)))

\* A Reset message, or the loss of the socket noticed by poll().
PeerRestarts == radio.alive /\ Becomes(peerReset(Now))

Next ==
  \/ DidUpdateState
  \/ \E o \in radio.adding, e \in {"none", "reserved", "other"} : DidAddService(o, e)
  \/ \E c \in Centrals, h \in Services, ok, fits \in BOOLEAN : ReceiveRequest(c, h, ok, fits)
  \/ \E c \in Centrals, h \in Services, fits \in BOOLEAN : DidSubscribe(c, h, fits)
  \/ \E c \in Centrals, h \in Services : DidUnsubscribe(c, h)
  \/ ReadyToUpdateSubscribers \/ SetEnabled \/ IdleExpires \/ BridgeReset \/ Shutdown
  \/ PeerConnects \/ PeerConnected \/ PeerDisconnected \/ PeerReady \/ GuestExchangesMtu
  \/ \E failed \in BOOLEAN : PeerAnswers(failed)
  \/ \E h \in Services, fits \in BOOLEAN : GuestNotifies(h, fits)
  \/ \E on, changed \in BOOLEAN : GuestAdvertises(on, changed)
  \/ \E c \in Catalogs : GuestPublishes(c)
  \/ PeerFails \/ PeerRestarts

Spec == Init /\ [][Next]_vars

\* Setup, close and ATT transactions have deadlines; a session at rest has none.
DeadlinePasses == PeerFails /\ (~peer.ready \/ peer.closing \/ peer.requests # <<>>)

\* The run loop delivers CoreBluetooth's callbacks, poll() runs in every frame
\* and its deadlines pass, and the firmware advertises again when it may.
Fairness ==
  /\ WF_vars(\E o \in radio.adding : DidAddService(o, "none"))
  /\ WF_vars(ReadyToUpdateSubscribers) /\ WF_vars(PeerConnects) /\ WF_vars(PeerConnected)
  /\ WF_vars(PeerDisconnected /\ peer.closing) /\ WF_vars(PeerReady) /\ WF_vars(DeadlinePasses)
  /\ WF_vars(PeerAnswers(TRUE) \/ PeerAnswers(FALSE))
  /\ WF_vars(GuestAdvertises(TRUE, FALSE))

LiveSpec == Spec /\ Fairness

-----------------------------------------------------------------------------
TypeOK ==
  /\ delegate \in [enabled : BOOLEAN, published : BOOLEAN, pending : 0..Cardinality(Services),
                   services : SUBSET Services, characteristics : SUBSET Services, catalog : {0} \cup Catalogs,
                   central : Centrals \cup {NoCentral}, preparing : BOOLEAN, operations : Seq(Operation),
                   desired : SUBSET Services, subscriptions : SUBSET Services, values : Seq([handle : Services])]
  /\ peer \in [enabled : BOOLEAN, failed : BOOLEAN, advertising : BOOLEAN, catalog : {0} \cup Catalogs,
               closing : BOOLEAN, link : {"none", "connecting", "up"}, ready : BOOLEAN, requested : BOOLEAN,
               mtu : BOOLEAN, requests : Seq(Operation)]
  /\ radio \in [on : BOOLEAN, adding : SUBSET [handle : Services, current : BOOLEAN],
                subscribers : SUBSET (Centrals \X Services), room : 0..Room, onAir : BOOLEAN, guest : {"idle", "asked", "linked"}, issued : 0..MaxRequests, alive : BOOLEAN]
  /\ answers \in [Ids -> Nat]

\* CoreBluetooth gets exactly one answer for each request it hands over: until
\* then the request is in one of the two queues, whatever ends the session, the
\* publication or the program (operation.cancel, AttRequest::completed).
EachAnsweredOnce ==
  \A i \in 1..radio.issued :
    answers[i] + Occurrences(i, delegate.operations) + Occurrences(i, peer.requests) = 1

\* Nothing of a client survives its session: what waits in the delegate or in
\* the ATT client is of the bound central and of the present publication, and
\* without a central nothing waits.
SessionIsolation ==
  /\ \A q \in {delegate.operations, peer.requests} :
       \A k \in DOMAIN q : q[k].current /\ q[k].central = delegate.central
  /\ delegate.subscriptions \subseteq delegate.desired
  /\ \A k \in DOMAIN delegate.values : delegate.values[k].handle \in delegate.desired
  /\ delegate.central = NoCentral => delegate.desired = {} /\ delegate.operations = <<>> /\ delegate.values = <<>>

\* A value that waits has something that will move it: CoreBluetooth is full
\* and will call back, or the subscription of the first one is not confirmed yet.
ValuesMove ==
  delegate.values # <<>> =>
    \/ radio.room = 0
    \/ \E k \in DOMAIN peer.requests : peer.requests[k].kind = "subscribe"
    \/ \E k \in DOMAIN delegate.operations : delegate.operations[k].kind = "subscribe"

\* The services given to CoreBluetooth are those of the peer's present database,
\* and each addition still counted has its callback coming: publish(), invalidate()
\* and the additions in flight cannot get out of step.
PublishedIsCurrent ==
  /\ delegate.services # {} => delegate.catalog = peer.catalog
  /\ delegate.pending = Cardinality({o \in radio.adding : o.current})
  /\ radio.onAir => delegate.published /\ delegate.pending = 0

\* A bound central has a session of the peer, and operations wait only while the
\* session is being prepared: requested, connecting, discovering or exchanging MTU.
OperationsProgress ==
  /\ delegate.central # NoCentral => peer.requested
  /\ delegate.operations # <<>> => delegate.preparing
  /\ delegate.preparing /\ peer.ready => \E k \in DOMAIN peer.requests : peer.requests[k].kind = "mtu"

\* Both queues keep to their limits.
QueuesBounded ==
  /\ Len(delegate.operations) <= MaxPendingOperations
  /\ Len(delegate.values) <= MaxPendingValues
  /\ Len(peer.requests) <= MaxPendingRequests

\* Every request of a client is answered in the end.
RequestsAnswered == \A i \in Ids : (radio.issued >= i) ~> (answers[i] > 0)

\* CoreBluetooth, the delegate and the peer stay in step whatever comes between
\* their calls: each request is answered once and within its session, what waits
\* is bounded and has something that moves it, and what is on the air is what the
\* firmware published.
BridgeSafety ==
  /\ TypeOK /\ EachAnsweredOnce /\ SessionIsolation /\ ValuesMove
  /\ PublishedIsCurrent /\ OperationsProgress /\ QueuesBounded
=============================================================================
