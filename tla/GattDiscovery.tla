---------------------------- MODULE GattDiscovery ----------------------------
(* How the virtual peer learns the guest's GATT database, twice: from the     *)
(* metadata the controller publishes in chunks, and, when a session begins,   *)
(* through ATT discovery, whose answers hold as many entries as the guest     *)
(* likes.  The two must agree before clients are let in, and the              *)
(* subscriptions that the guest restored for the bond are cleared.  The       *)
(* catalog may be withdrawn at any time, also between two chunks.             *)
(* MaxHandle stands for 0xFFFF.                                               *)
EXTENDS Integers, Sequences, FiniteSets, Functions

CONSTANTS
  Databases,      \* bound: databases, sequences of attributes in handle order
  MaxHandle,
  ChunkSize,      \* attributes of a chunk
  MaxServices, MaxCharacteristics, MaxDescriptors

Types == {"service", "include", "characteristic", "value", "cccd", "descriptor"}

DiscoveryAssumption ==
  /\ MaxHandle \in Nat /\ ChunkSize \in Nat \ {0}
  /\ \A db \in Databases : \A i \in DOMAIN db :
       /\ db[i].handle \in 1..MaxHandle /\ db[i].type \in Types
       /\ i > 1 => db[i].handle > db[i - 1].handle

VARIABLES
  guest,          \* external: the database the guest serves now
  restored,       \* external: handles of the CCCDs that are not zero
  chunks,         \* metadata on its way
  published,      \* the database it was taken from
  receiving, buffer,      \* _catalogReceiving, _catalogBuffer
  catalog,        \* _services, when _catalogReady; or NoCatalog
  phase,          \* the request whose answer is awaited, or how it ended
  at, start,      \* its service and characteristic, and its first handle
  found           \* _discoveredServices

vars == <<guest, restored, chunks, published, receiving, buffer, catalog, phase, at, start, found>>

NoCatalog == <<>>

-----------------------------------------------------------------------------
(* The reference: the services of a database, from their definition           *)

HandlesOf(db, type) == {db[i].handle : i \in {j \in DOMAIN db : db[j].type = type}}
After(handles, handle, otherwise) ==
  LET later == {h \in handles : h > handle}
  IN IF later = {} THEN otherwise ELSE (CHOOSE h \in later : \A k \in later : h <= k) - 1
Sorted(handles) ==
  [i \in 1..Cardinality(handles) |-> CHOOSE h \in handles : Cardinality({k \in handles : k < h}) = i - 1]
Within(handles, first, last) == {h \in handles : first <= h /\ h <= last}

Descriptors(db, first, last) ==
  LET hs == Sorted(Within(HandlesOf(db, "cccd") \cup HandlesOf(db, "descriptor"), first, last))
  IN [i \in DOMAIN hs |-> [handle |-> hs[i], cccd |-> hs[i] \in HandlesOf(db, "cccd")]]

ServiceEnd(db, h) == After(HandlesOf(db, "service"), h, MaxHandle)

\* A characteristic's descriptors end where the next declaration, of either kind, begins.
Structure(db) ==
  LET hs == Sorted(HandlesOf(db, "service"))
      bounds == HandlesOf(db, "service") \cup HandlesOf(db, "characteristic")
  IN [i \in DOMAIN hs |->
       LET cs == Sorted(Within(HandlesOf(db, "characteristic"), hs[i], ServiceEnd(db, hs[i])))
       IN [start |-> hs[i], end |-> ServiceEnd(db, hs[i]),
           characteristics |->
             [j \in DOMAIN cs |-> [declaration |-> cs[j], handle |-> cs[j] + 1,
                                   descriptors |-> Descriptors(db, cs[j] + 2, After(bounds, cs[j], MaxHandle))]]]]

-----------------------------------------------------------------------------
(* The published metadata: publishGatt and receiveCatalog                     *)

\* An empty database is published as a chunk that has none.
ChunksOf(db) ==
  LET n == IF db = <<>> THEN 1 ELSE (Len(db) + ChunkSize - 1) \div ChunkSize
  IN [i \in 1..n |-> [first |-> i = 1, last |-> i = n,
                      attributes |-> SubSeq(db, (i - 1) * ChunkSize + 1, IF i * ChunkSize < Len(db) THEN i * ChunkSize ELSE Len(db))]]

Refused == [ok |-> FALSE, services |-> <<>>]

\* A service ends where the next one begins.
AddService(services, a) ==
  IF Len(services) >= MaxServices THEN Refused
  ELSE LET closed == IF services = <<>> THEN services ELSE [services EXCEPT ![Len(services)].end = a.handle - 1]
       IN [ok |-> TRUE, services |-> Append(closed, [start |-> a.handle, end |-> MaxHandle, characteristics |-> <<>>])]

AddAttribute(services, a) ==
  LET s == Len(services)
      cs == services[s].characteristics
      c == Len(cs)
  IN CASE a.type = "service" -> AddService(services, a)
       [] a.type # "service" /\ services = <<>> -> Refused
       [] a.type = "include" /\ services # <<>> -> [ok |-> TRUE, services |-> services]
       [] a.type = "characteristic" /\ services # <<>> ->
            IF c >= MaxCharacteristics THEN Refused
            ELSE [ok |-> TRUE, services |-> [services EXCEPT ![s].characteristics =
                   Append(@, [declaration |-> a.handle, handle |-> a.handle + 1, descriptors |-> <<>>])]]
       [] OTHER ->
            IF c = 0 THEN Refused
            ELSE IF a.handle = cs[c].handle THEN [ok |-> TRUE, services |-> services]
            ELSE IF a.handle < cs[c].handle \/ Len(cs[c].descriptors) >= MaxDescriptors THEN Refused
            ELSE [ok |-> TRUE, services |-> [services EXCEPT ![s].characteristics[c].descriptors =
                   Append(@, [handle |-> a.handle, cccd |-> a.type = "cccd"])]]

Parse(attributes) ==
  LET parsed[i \in 0..Len(attributes)] ==
        IF i = 0 THEN [ok |-> TRUE, services |-> <<>>]
        ELSE IF ~parsed[i - 1].ok THEN Refused ELSE AddAttribute(parsed[i - 1].services, attributes[i])
  IN parsed[Len(attributes)]

\* The request p is sent, for a service and a characteristic, from a handle on.
Ask(p, position, handle) == phase' = p /\ at' = position /\ start' = handle

Session == {"services", "characteristics", "descriptors", "compare", "clear", "ready"}

\* invalidateCatalog.
Withdrawn == receiving' = FALSE /\ buffer' = <<>> /\ catalog' = NoCatalog /\ found' = <<>>

\* poll's exception: the bridge stays closed until it is enabled anew.
Fails(how) == Withdrawn /\ Ask(how, <<0, 0>>, 0)

\* disconnect: a session ends, a bridge that is closed stays so.
Disconnects == IF phase \in Session THEN Ask("idle", <<0, 0>>, 0) ELSE UNCHANGED <<phase, at, start>>

\* One publication at a time is on its way.
Publish ==
  /\ chunks = <<>> /\ chunks' = ChunksOf(guest) /\ published' = guest
  /\ UNCHANGED <<guest, restored, receiving, buffer, catalog, phase, at, start, found>>

\* Plausible bug: a chunk is taken whether or not the one before it was.
ReceiveCatalogTorn ==
  LET c == Head(chunks)
      attributes == (IF c.first THEN <<>> ELSE buffer) \o c.attributes
      parsed == Parse(attributes)
  IN /\ chunks # <<>> /\ chunks' = Tail(chunks) /\ UNCHANGED <<guest, restored, published>>
     /\ \/ ~c.last /\ receiving' = TRUE /\ buffer' = attributes /\ UNCHANGED <<catalog, phase, at, start, found>>
        \/ c.last /\ (~parsed.ok \/ parsed.services = <<>>) /\ Fails("failed")
        \/ /\ c.last /\ parsed.ok /\ parsed.services # <<>>
           /\ receiving' = FALSE /\ buffer' = <<>> /\ catalog' = parsed.services
           /\ IF parsed.services = catalog THEN UNCHANGED <<phase, at, start, found>> ELSE found' = <<>> /\ Disconnects

\* A chunk whose beginning was withdrawn, and metadata that is refused, close the
\* bridge; what differs from the catalog ends the session, and what does not is ignored.
ReceiveCatalog ==
  LET c == Head(chunks)
      attributes == (IF c.first THEN <<>> ELSE buffer) \o c.attributes
      parsed == Parse(attributes)
      follows == c.first \/ receiving
      accepted == parsed.ok /\ parsed.services # <<>>
  IN /\ chunks # <<>> /\ chunks' = Tail(chunks) /\ UNCHANGED <<guest, restored, published>>
     /\ \/ ~follows /\ Fails("torn")
        \/ follows /\ ~c.last /\ receiving' = TRUE /\ buffer' = attributes /\ UNCHANGED <<catalog, phase, at, start, found>>
        \/ follows /\ c.last /\ ~accepted /\ Fails("failed")
        \/ /\ follows /\ c.last /\ accepted
           /\ receiving' = FALSE /\ buffer' = <<>> /\ catalog' = parsed.services
           /\ IF parsed.services = catalog THEN UNCHANGED <<phase, at, start, found>> ELSE found' = <<>> /\ Disconnects

\* advertisement: one that ends, or has other data; it comes between publications.
Advertisement ==
  /\ catalog # NoCatalog /\ (IF chunks = <<>> THEN TRUE ELSE Head(chunks).first)
  /\ Withdrawn /\ Disconnects /\ UNCHANGED <<guest, restored, chunks, published>>

\* poll: an ATT transaction or the setup of the session has taken too long.
TimesOut == phase \in Session /\ Fails("late") /\ UNCHANGED <<guest, restored, chunks, published>>

\* poll and reset: the socket is lost, or closed for a new emulator, and what is in it; a new one is taken up.
Reconnect ==
  /\ Withdrawn /\ Ask("idle", <<0, 0>>, 0) /\ chunks' = <<>>
  /\ (chunks # <<>> \/ catalog # NoCatalog) /\ UNCHANGED <<guest, restored, published>>

\* setEnabled, off and on again.
Enable ==
  /\ phase # "idle" /\ Ask("idle", <<0, 0>>, 0) /\ found' = <<>>
  /\ UNCHANGED <<guest, restored, chunks, published, receiving, buffer, catalog>>

\* The guest's firmware changes its database, and publishes it in the end or does not.
GuestChanges(db) ==
  /\ phase \notin Session /\ chunks = <<>> /\ catalog # NoCatalog /\ guest' = db /\ restored' \in SUBSET HandlesOf(db, "cccd")
  /\ UNCHANGED <<chunks, published, receiving, buffer, catalog, phase, at, start, found>>

-----------------------------------------------------------------------------
(* Discovery: an answer has the next n entries, or there are none             *)

Entries(list, from, last, Key(_)) == SelectSeq(list, LAMBDA e : from <= Key(e) /\ Key(e) <= last)
Take(list, n) == SubSeq(list, 1, n)

Kept == UNCHANGED <<guest, restored, chunks, published>>

\* What has been found so far.
Finds(f) == found' = f /\ UNCHANGED <<receiving, buffer, catalog>>

\* The last handle of a characteristic: before the next one, or the service's.
LastHandle(f, s, c) ==
  IF c < Len(f[s].characteristics) THEN f[s].characteristics[c + 1].declaration - 1 ELSE f[s].end

\* discoverDescriptors skips services that are done and characteristics without room.
Positions(f) == {p \in (DOMAIN f) \X (1..MaxCharacteristics) :
                   /\ p[2] \in DOMAIN f[p[1]].characteristics
                   /\ f[p[1]].characteristics[p[2]].handle # LastHandle(f, p[1], p[2])}
Before(p, q) == p[1] < q[1] \/ (p[1] = q[1] /\ p[2] < q[2])

AskDescriptors(f, past) ==
  LET rest == {p \in Positions(f) : Before(past, p)}
      next == CHOOSE p \in rest : \A q \in rest : p = q \/ Before(p, q)
  IN IF rest = {} THEN Ask("compare", <<0, 0>>, 0)
     ELSE Ask("descriptors", next, f[next[1]].characteristics[next[2]].handle + 1)

AskCharacteristics(f, s) ==
  IF s > Len(f) THEN AskDescriptors(f, <<0, 0>>) ELSE Ask("characteristics", <<s, 0>>, f[s].start)

\* connect, for a catalog that is known.
StartSession ==
  /\ phase = "idle" /\ catalog # NoCatalog
  /\ Finds(<<>>) /\ Ask("services", <<0, 0>>, 1) /\ Kept

AnswerServices(n) ==
  LET Handle(e) == e.start
      list == Entries(Structure(guest), start, MaxHandle, Handle)
      more == [i \in 1..n |-> [list[i] EXCEPT !.characteristics = <<>>]]
      all == found \o more
  IN /\ phase = "services" /\ n <= Len(list) /\ (n = 0 => list = <<>>) /\ Kept
     /\ IF Len(all) > MaxServices \/ all = <<>> THEN Fails("failed")
        ELSE /\ Finds(all)
             /\ IF n = 0 \/ more[n].end = MaxHandle THEN AskCharacteristics(all, 1)
                ELSE Ask("services", at, more[n].end + 1)

AnswerCharacteristics(n) ==
  LET Handle(e) == e.declaration
      s == at[1]
      service == CHOOSE x \in Range(Structure(guest)) : x.start = found[s].start
      list == Entries(service.characteristics, start, found[s].end, Handle)
      more == [i \in 1..n |-> [list[i] EXCEPT !.descriptors = <<>>]]
      all == [found EXCEPT ![s].characteristics = @ \o more]
  IN /\ phase = "characteristics" /\ n <= Len(list) /\ (n = 0 => list = <<>>) /\ Kept
     /\ IF Len(all[s].characteristics) > MaxCharacteristics THEN Fails("failed")
        ELSE /\ Finds(all)
             /\ IF n = 0 \/ more[n].handle = found[s].end THEN AskCharacteristics(all, s + 1)
                ELSE Ask("characteristics", at, more[n].handle + 1)

\* Plausible bug: the last descriptor is asked for again.
AnswerDescriptorsAgain(n) ==
  LET Handle(e) == e.handle
      s == at[1]
      c == at[2]
      last == LastHandle(found, s, c)
      list == Entries(Descriptors(guest, start, last), start, last, Handle)
      more == Take(list, n)
      all == [found EXCEPT ![s].characteristics[c].descriptors = @ \o more]
  IN /\ phase = "descriptors" /\ n <= Len(list) /\ (n = 0 => list = <<>>) /\ Kept
     /\ IF Len(all[s].characteristics[c].descriptors) > MaxDescriptors THEN Fails("failed")
        ELSE /\ Finds(all)
             /\ IF n = 0 \/ more[n].handle = last THEN AskDescriptors(all, at) ELSE Ask("descriptors", at, more[n].handle)

AnswerDescriptors(n) ==
  LET Handle(e) == e.handle
      s == at[1]
      c == at[2]
      last == LastHandle(found, s, c)
      list == Entries(Descriptors(guest, start, last), start, last, Handle)
      more == Take(list, n)
      all == [found EXCEPT ![s].characteristics[c].descriptors = @ \o more]
  IN /\ phase = "descriptors" /\ n <= Len(list) /\ (n = 0 => list = <<>>) /\ Kept
     /\ IF Len(all[s].characteristics[c].descriptors) > MaxDescriptors THEN Fails("failed")
        ELSE /\ Finds(all)
             /\ IF n = 0 \/ more[n].handle = last THEN AskDescriptors(all, at) ELSE Ask("descriptors", at, more[n].handle + 1)

-----------------------------------------------------------------------------
(* discoveryComplete and clearSubscriptions                                   *)

\* The first CCCD of a characteristic past a position.
Subscriptions(past) ==
  {p \in (DOMAIN catalog) \X (1..MaxCharacteristics) :
     /\ p[2] \in DOMAIN catalog[p[1]].characteristics /\ Before(past, p)
     /\ \E d \in Range(catalog[p[1]].characteristics[p[2]].descriptors) : d.cccd}

AskClear(past) ==
  LET rest == Subscriptions(past)
  IN IF rest = {} THEN Ask("ready", <<0, 0>>, 0)
     ELSE Ask("clear", CHOOSE p \in rest : \A q \in rest : p = q \/ Before(p, q), 0)

Compare ==
  /\ phase = "compare" /\ Kept
  /\ IF found = catalog THEN Finds(<<>>) /\ AskClear(<<0, 0>>) ELSE Fails("failed")

\* The guest writes the CCCD; the next is asked for when it has answered.
AnswerClear ==
  LET ds == catalog[at[1]].characteristics[at[2]].descriptors
      first == SelectSeq(ds, LAMBDA d : d.cccd)[1]
  IN /\ phase = "clear" /\ restored' = restored \ {first.handle} /\ AskClear(at)
     /\ UNCHANGED <<guest, chunks, published, receiving, buffer, catalog, found>>

\* An error other than "attribute not found" closes the bridge.
GuestRefuses ==
  /\ phase \in {"services", "characteristics", "descriptors", "clear"}
  /\ Fails("refused") /\ Kept

-----------------------------------------------------------------------------
Init ==
  /\ guest \in Databases /\ restored \in SUBSET HandlesOf(guest, "cccd")
  /\ chunks = <<>> /\ published = guest /\ receiving = FALSE /\ buffer = <<>> /\ catalog = NoCatalog
  /\ phase = "idle" /\ at = <<0, 0>> /\ start = 0 /\ found = <<>>

Counts == 0..MaxHandle

Next ==
  \/ Publish \/ ReceiveCatalog \/ Advertisement \/ TimesOut \/ Reconnect \/ Enable
  \/ \E db \in Databases : GuestChanges(db)
  \/ StartSession
  \/ \E n \in Counts : AnswerServices(n)
  \/ \E n \in Counts : AnswerCharacteristics(n)
  \/ \E n \in Counts : AnswerDescriptors(n)
  \/ Compare \/ AnswerClear \/ GuestRefuses

Spec == Init /\ [][Next]_vars

-----------------------------------------------------------------------------
(* Types of the state.                                                        *)
TypeOK ==
  /\ guest \in Databases /\ restored \subseteq HandlesOf(guest, "cccd")
  /\ receiving \in BOOLEAN /\ (~receiving => buffer = <<>>)
  /\ phase \in Session \cup {"idle", "failed", "refused", "torn", "late"}
  /\ start \in 0..MaxHandle /\ Len(found) <= MaxServices + 1

(* Discovery finds the guest's database whatever the sizes of the answers: no  *)
(* entry is skipped or found twice at a boundary, the last handle included.    *)
DiscoveryExact == phase = "compare" => found = Structure(guest)

(* The metadata that was accepted is the database that was published, from the *)
(* first chunk to the last, also when the catalog was withdrawn between two.   *)
CatalogExact == chunks = <<>> /\ catalog # NoCatalog => catalog = Structure(published)

(* A session is only ready for the database the guest has: "Verify the        *)
(* published database through actual ATT before releasing queued client       *)
(* requests".                                                                 *)
ReadyMatches == phase \in {"clear", "ready"} => catalog = Structure(guest)

(* No subscription that the guest restored is left when the session is ready.  *)
SubscriptionsCleared ==
  phase = "ready" =>
    \A s \in Range(Structure(guest)) : \A c \in Range(s.characteristics) :
      \A d \in Range(c.descriptors) : d.cccd => d.handle \notin restored

WithinLimits(db) ==
  LET services == Structure(db)
      Fits(list, bound) == Len(list) <= bound
  IN /\ services # <<>> /\ Fits(services, MaxServices)
     /\ \A s \in Range(services) : Fits(s.characteristics, MaxCharacteristics)
          /\ \A c \in Range(s.characteristics) : Fits(c.descriptors, MaxDescriptors)
     /\ \A h \in HandlesOf(db, "cccd") \cup HandlesOf(db, "descriptor") :
          \E s \in Range(services) : \E c \in Range(s.characteristics) :
            \E d \in Range(c.descriptors) : d.handle = h

(* The bridge is closed for its database only when that is to blame: metadata *)
(* that is taken whole is refused only beyond the limits, and discovery fails *)
(* only when the guest no longer has what it published.                       *)
NoSpuriousFailure ==
  [][phase # "failed" /\ phase' = "failed"
     => IF chunks' # chunks THEN ~WithinLimits(published) ELSE catalog # Structure(guest)]_vars

Rank(p) == CASE p = "services" -> 1 [] p = "characteristics" -> 2 [] p = "descriptors" -> 3
             [] p = "compare" -> 4 [] p = "clear" -> 5 [] p = "idle" -> 7 [] OTHER -> 6
Request == <<Rank(phase), at[1], at[2], start>>
Later(p, q) == \E i \in DOMAIN p : p[i] < q[i] /\ \A j \in 1..i - 1 : p[j] = q[j]

(* Whatever the guest answers, the next request is for later handles, a later *)
(* characteristic or a later phase: discovery and the clearing of the         *)
(* subscriptions cannot ask the same thing for ever.                          *)
Advances ==
  [][(/\ Rank(phase) < 6 /\ phase' # "idle"
      /\ <<phase, at, start, found>>' # <<phase, at, start, found>>)
     => Later(Request, Request')]_vars

(* Metadata and discovery find the same database, the one the guest has: exact *)
(* at every boundary of a chunk, an answer or a service, and with no           *)
(* subscription left when clients are let in.                                  *)
DiscoverySafety ==
  TypeOK /\ DiscoveryExact /\ CatalogExact /\ ReadyMatches /\ SubscriptionsCleared
=============================================================================
