------------------------------ MODULE I2sStream ------------------------------
(* I2S0: two streams, each carried by a channel of the GDMA, on one pair of   *)
(* clocks that may depend on each other.  The guest writes the GDMA's         *)
(* registers behind the stream's back; the stream looks at them when its own  *)
(* timer expires or a register of I2S is written.  A tick is the time of one  *)
(* byte; times are relative to the virtual clock, and negative when late.     *)
EXTENDS Integers

CONSTANTS
  Directions,     \* of "in" and "out", those the guest uses
  Slaves,         \* bound: those the guest lets follow the other's clock
  Channels, None, \* GDMA channels of a direction
  Selections,     \* bound: the channels that the guest selects for I2S, one of them from the start
  Orders,         \* bound: of "start", "restart", "stop", "reset", "clear", "give" and "take", what the guest does ("reset" of both)
  Descriptors,    \* addresses of descriptors
  Located,        \* of a descriptor: whether it is aligned and can be read
  Size, Length, Link, Eof,      \* of a descriptor: its buffer's bytes, those to play, the next or 0, its EOF bit
  Readable,       \* of a descriptor: whether its buffer is memory, and it too where it is written back
  Check, WriteBack,   \* CHECK_OWNER of a direction, and AUTO_WRBACK
  RxEof,          \* RX_EOF_NUM
  Poll,           \* DmaPollIntervalNs
  MaxLate         \* bound: how late a timer is dispatched

I2sAssumption ==
  /\ Directions \subseteq {"in", "out"} /\ Slaves \subseteq Directions /\ None \notin Channels /\ Selections \subseteq Channels \cup {None} /\ 0 \notin Descriptors
  /\ {Size, Length} \subseteq [Descriptors -> Nat] /\ Link \in [Descriptors -> Descriptors \cup {0}]
  /\ {Located, Eof, Readable} \subseteq [Descriptors -> BOOLEAN] /\ Check \in [{"in", "out"} -> BOOLEAN] /\ WriteBack \in BOOLEAN
  /\ {RxEof, Poll} \subseteq Nat \ {0} /\ MaxLate \in Nat

VARIABLES
  regs,           \* registers[]: what decides whether a direction has a clock
  stream,         \* Esp32s3I2SStream, with the channels of its direction and the rate its codec was told
  owner           \* of a descriptor of a direction: DMA (TRUE) or software

vars == <<regs, stream, owner>>

Both == {"in", "out"}
Other(d) == CHOOSE e \in Both : e # d
Least(m, n) == IF m < n THEN m ELSE n
Most(m, n) == IF m > n THEN m ELSE n

-----------------------------------------------------------------------------
(* esp32s3I2sBytePeriodNs: the formats the guest sets are of the kind modelled *)

Running(r, d) ==
  /\ r.start[d] /\ ~r.reset[d] /\ r.active[d] /\ r.enabled
  /\ r.slave[d] => /\ r.share /\ r.active[Other(d)]
                   /\ r.start[Other(d)] /\ ~r.slave[Other(d)] /\ ~r.reset[Other(d)]

-----------------------------------------------------------------------------
(* The channel                                                                *)

Begun(x) ==
  LET c == x.selected
      link == x.channel[c]
  IN IF c = None \/ ~(link.start \/ link.restart) THEN x
     ELSE [x EXCEPT !.deadline = 0, !.chosen = c, !.pending = FALSE, !.eofBytes = 0,
                    !.descriptor = IF link.start \/ link.descAddr = 0 THEN link.first ELSE link.descAddr,
                    !.channel[c] = [link EXCEPT !.start = FALSE, !.restart = FALSE, !.stop = FALSE, !.park = FALSE]]

Mine(x) == x.selected # None /\ x.selected = x.chosen

streamChannel(x) ==
  LET b == Begun(x)
      link == b.channel[b.selected]
  IN IF Mine(b) /\ (link.reset \/ link.stop \/ link.park)
     THEN [b EXCEPT !.channel[b.selected].stop = FALSE, !.channel[b.selected].park = TRUE,
                    !.descriptor = 0, !.pending = FALSE]
     ELSE b

\* streamChannel returned a channel.
Served(x) == Mine(x) /\ x.descriptor # 0 /\ ~x.channel[x.selected].park

dmaError(x) ==
  [x EXCEPT !.channel[x.selected].raw = @ \cup {"error"}, !.channel[x.selected].park = TRUE,
            !.descriptor = 0, !.pending = FALSE]

-----------------------------------------------------------------------------
(* The stream                                                                 *)

At(x, time) == [x EXCEPT !.armed = TRUE, !.timer = time]
Unarmed(x) == [x EXCEPT !.armed = FALSE, !.timer = 0]

\* Plausible bug: a buffer is filled whatever is left of the frame.
BytesOfFull(x, d) == Size[x.descriptor]

BytesOf(x, d) ==
  IF d = "in" THEN Least(Size[x.descriptor], RxEof - Least(x.eofBytes, RxEof)) ELSE Length[x.descriptor]

\* Plausible bug: a buffer that its frame has no room for is refused.
UnfitFrame(d, own, x) ==
  ~Located[x.descriptor] \/ BytesOf(x, d) # Size[x.descriptor] \/ (Check[d] /\ ~own[d][x.descriptor])

\* The descriptor at which the stream is cannot be carried out.
Unfit(d, own, x) ==
  \/ ~Located[x.descriptor]
  \/ BytesOf(x, d) \notin 1..Size[x.descriptor]
  \/ Check[d] /\ ~own[d][x.descriptor]

\* Plausible bug: the next interval begins when the timer is dispatched.
DueLate(x, bytes) == Most(bytes, 1)

\* Plausible bug: the two channels of a frame are counted again.
DueTwice(x, bytes) == x.deadline + 2 * bytes

Due(x, bytes) == x.deadline + Most(bytes, 1)

\* Plausible bug: the channel is looked at once.
IdleForever(x) == Unarmed([x EXCEPT !.deadline = 0])

\* No channel: GDMA register writes give no notice, so look again.
Idle(x) == At([x EXCEPT !.deadline = 0], Poll)

streamSchedule(d, r, own, x0) ==
  LET told == [x0 EXCEPT !.rate = Running(r, d)]
      x == streamChannel(told)
      bytes == BytesOf(x, d)
      due == Due(x, bytes)
  IN IF ~Running(r, d) THEN Unarmed([told EXCEPT !.pending = FALSE, !.deadline = 0])
     ELSE IF ~Served(x) THEN Idle(x)
     ELSE IF x.pending THEN x
     ELSE IF Unfit(d, own, x) THEN dmaError(x)
     ELSE At([x EXCEPT !.pending = TRUE, !.bytes = bytes, !.deadline = due], due)

\* Plausible bug: the frame that ended is not forgotten.
FrameKept(x) == x.eofBytes + x.bytes

\* rxEofBytes after a buffer.
Frame(x) == IF x.eofBytes + x.bytes = RxEof THEN 0 ELSE x.eofBytes + x.bytes

\* The end of streamComplete for a buffer that was carried: the channel's registers, and the stream.
Ended(link, next, eof) ==
  [link EXCEPT !.descAddr = next, !.park = @ \/ next = 0,
               !.raw = @ \cup {"done"} \cup (IF eof THEN {"eof"} ELSE {}) \cup (IF next = 0 THEN {"end"} ELSE {})]

Carried(d, x) ==
  LET eof == IF d = "in" THEN x.eofBytes + x.bytes = RxEof ELSE Eof[x.descriptor]
      next == Link[x.descriptor]
  IN [x EXCEPT !.eofBytes = IF d = "in" THEN Frame(x) ELSE @, !.descriptor = next, !.pending = FALSE,
               !.channel[x.selected] = Ended(@, next, eof)]

streamComplete(d) ==
  LET x == streamChannel(Unarmed(stream[d]))
      carries == Served(x) /\ x.pending /\ Running(regs, d)
      returned == [owner EXCEPT ![d][x.descriptor] = IF d = "in" \/ WriteBack THEN FALSE ELSE @]
  IN /\ stream[d].armed /\ stream[d].timer <= 0 /\ UNCHANGED regs
     /\ \/ ~carries /\ stream' = [stream EXCEPT ![d] = streamSchedule(d, regs, owner, x)] /\ UNCHANGED owner
        \/ carries /\ ~Readable[x.descriptor] /\ stream' = [stream EXCEPT ![d] = dmaError(x)] /\ UNCHANGED owner
        \/ /\ carries /\ Readable[x.descriptor] /\ owner' = returned
           /\ stream' = [stream EXCEPT ![d] = streamSchedule(d, regs, returned, Carried(d, x))]

Tick ==
  /\ \A d \in Both : stream[d].armed => stream[d].timer > -MaxLate
  /\ \E d \in Both : stream[d].armed
  /\ stream' = [d \in Both |-> [stream[d] EXCEPT !.timer = IF stream[d].armed THEN @ - 1 ELSE @,
                                                 !.deadline = Most(@ - 1, -(Poll + MaxLate))]]
  /\ UNCHANGED <<regs, owner>>

-----------------------------------------------------------------------------
(* i2sWrite: a register from RxConf to RxEof                                  *)

\* Plausible bug: only the direction that is written looks at its clock.
RescheduledOne(r, d, streams) ==
  [streams EXCEPT ![d] = streamSchedule(d, r, owner, [@ EXCEPT !.pending = FALSE, !.deadline = 0])]

Rescheduled(r, d, streams) ==
  [e \in Both |-> streamSchedule(e, r, owner, [streams[e] EXCEPT !.pending = FALSE, !.deadline = 0])]

\* Plausible bug: what was begun goes on after the reset.
WriteConfKeeps(d, start, reset, slave) ==
  LET r == [regs EXCEPT !.start[d] = start, !.reset[d] = reset, !.slave[d] = slave]
  IN regs' = r /\ UNCHANGED <<stream, owner>>

WriteConf(d, start, reset, slave) ==
  LET r == [regs EXCEPT !.start[d] = start, !.reset[d] = reset, !.slave[d] = slave]
      cleared == [Unarmed(stream[d]) EXCEPT !.descriptor = 0, !.pending = FALSE, !.eofBytes = 0]
  IN /\ regs' = r /\ UNCHANGED owner
     /\ stream' = Rescheduled(r, d, IF reset THEN [stream EXCEPT ![d] = cleared] ELSE stream)

WriteShare(share) ==
  /\ share # regs.share /\ UNCHANGED owner
  /\ regs' = [regs EXCEPT !.share = share] /\ stream' = Rescheduled(regs', "out", stream)

\* RxClk and TxClk; the clock of both is gated by the latter.
WriteClock(d, active, enabled) ==
  LET r == [regs EXCEPT !.active[d] = active, !.enabled = IF d = "out" THEN enabled ELSE @]
  IN r # regs /\ regs' = r /\ stream' = Rescheduled(r, d, stream) /\ UNCHANGED owner

Off == [d \in Both |-> FALSE]
Stopped == [start |-> Off, reset |-> Off, slave |-> Off, active |-> Off, share |-> FALSE, enabled |-> FALSE]

Initial(x) ==
  [Unarmed(x) EXCEPT !.chosen = None, !.descriptor = 0, !.eofBytes = 0, !.pending = FALSE, !.rate = FALSE]

i2sReset ==
  regs' = Stopped /\ stream' = [d \in Both |-> Initial(stream[d])] /\ UNCHANGED owner

-----------------------------------------------------------------------------
(* The guest writes registers of the GDMA and descriptors in memory           *)

WriteChannel(d, c, link) ==
  stream' = [stream EXCEPT ![d].channel[c] = link] /\ UNCHANGED <<regs, owner>>

StartLink(d, c, first) == WriteChannel(d, c, [stream[d].channel[c] EXCEPT !.start = TRUE, !.first = first])
RestartLink(d, c) ==
  stream[d].channel[c].first # 0 /\ WriteChannel(d, c, [stream[d].channel[c] EXCEPT !.restart = TRUE])
StopLink(d, c) == WriteChannel(d, c, [stream[d].channel[c] EXCEPT !.stop = TRUE])
ResetChannel(d, c) == WriteChannel(d, c, [stream[d].channel[c] EXCEPT !.reset = ~@])
\* An error is cleared once the direction has stopped.
ClearRaw(d, c) ==
  /\ stream[d].channel[c].raw # {} /\ ("error" \in stream[d].channel[c].raw => ~Running(regs, d))
  /\ WriteChannel(d, c, [stream[d].channel[c] EXCEPT !.raw = {}])

\* One channel of a direction serves a peripheral.
SelectChannel(d, c) ==
  /\ c # stream[d].selected /\ stream' = [stream EXCEPT ![d].selected = c]
  /\ UNCHANGED <<regs, owner>>

GiveDescriptor(d, a) == ~owner[d][a] /\ owner' = [owner EXCEPT ![d][a] = TRUE] /\ UNCHANGED <<regs, stream>>

\* Software takes a descriptor back once the direction has stopped.
TakeDescriptor(d, a) ==
  owner[d][a] /\ ~Running(regs, d) /\ owner' = [owner EXCEPT ![d][a] = FALSE] /\ UNCHANGED <<regs, stream>>

-----------------------------------------------------------------------------
NoLink == [start |-> FALSE, restart |-> FALSE, stop |-> FALSE, park |-> FALSE, reset |-> FALSE,
           first |-> 0, descAddr |-> 0, raw |-> {}]

Init ==
  /\ regs = Stopped /\ owner = [d \in Both |-> [a \in Descriptors |-> TRUE]]
  /\ \E selected \in Selections :
       stream = [d \in Both |->
         [armed |-> FALSE, timer |-> 0, deadline |-> 0, chosen |-> None, selected |-> selected, descriptor |-> 0, pending |-> FALSE,
          bytes |-> 0, eofBytes |-> 0, rate |-> FALSE, channel |-> [c \in Channels \cup {None} |-> NoLink]]]

Next ==
  \/ Tick
  \/ \E d \in Directions : streamComplete(d)
  \/ \E d \in Directions, start, reset, slave \in BOOLEAN :
       (slave => d \in Slaves) /\ (reset => "reset" \in Orders) /\ WriteConf(d, start, reset, slave)
  \/ \E share \in BOOLEAN : Slaves # {} /\ WriteShare(share)
  \/ \E d \in {"out"} \cup Directions, active, enabled \in BOOLEAN :
       (d = "in" => enabled = regs.enabled) /\ WriteClock(d, active, enabled)
  \/ i2sReset
  \/ \E d \in Directions, c \in Channels, a \in Descriptors : "start" \in Orders /\ StartLink(d, c, a)
  \/ \E d \in Directions, c \in Channels : "restart" \in Orders /\ RestartLink(d, c)
  \/ \E d \in Directions, c \in Channels : "stop" \in Orders /\ StopLink(d, c)
  \/ \E d \in Directions, c \in Channels : "reset" \in Orders /\ ResetChannel(d, c)
  \/ \E d \in Directions, c \in Channels : "clear" \in Orders /\ ClearRaw(d, c)
  \/ \E d \in Directions, c \in Selections : SelectChannel(d, c)
  \/ \E d \in Directions, a \in Descriptors : "give" \in Orders /\ GiveDescriptor(d, a)
  \/ \E d \in Directions, a \in Descriptors : "take" \in Orders /\ TakeDescriptor(d, a)

Spec == Init /\ [][Next]_vars

-----------------------------------------------------------------------------
(* Types of the state.                                                        *)
TypeOK ==
  /\ owner \in [Both -> [Descriptors -> BOOLEAN]]
  /\ \A d \in Both : /\ stream[d].descriptor \in Descriptors \cup {0} /\ stream[d].chosen \in Channels \cup {None}
                     /\ stream[d].bytes \in Nat /\ stream[d].eofBytes \in Nat
                     /\ stream[d].timer >= -(Poll + MaxLate)
                     /\ stream[d].timer <= Poll \/ \E a \in Descriptors : stream[d].timer <= Size[a]

(* A direction without a clock, be it its own or the one it borrows, has no   *)
(* timer, no buffer under way and a codec at rest; one with a clock has its   *)
(* codec running.  A write that stops one direction may stop both.            *)
StoppedIsStill ==
  \A d \in Directions : /\ stream[d].rate = Running(regs, d)
                        /\ ~Running(regs, d) => ~stream[d].armed /\ ~stream[d].pending

Errors(d) == {c \in Channels : "error" \in stream[d].channel[c].raw}

(* "Poll only while I2S has a running clock": while there is one, the timer   *)
(* is armed, unless a descriptor error ended the list.                        *)
Polls ==
  \A d \in Directions : Running(regs, d) /\ ~stream[d].armed => Errors(d) # {}

(* A buffer that is under way has a channel chosen for it and a length that   *)
(* its frame has room for; with owner checking its descriptor is the DMA's:   *)
(* it is dropped when its direction stops, is reset or begins anew.           *)
PendingServed ==
  \A d \in Directions : stream[d].pending =>
    /\ stream[d].descriptor # 0 /\ stream[d].chosen # None /\ stream[d].armed
    /\ stream[d].bytes \in 1..Size[stream[d].descriptor]
    /\ d = "in" => stream[d].eofBytes + stream[d].bytes <= RxEof
    /\ Check[d] => owner[d][stream[d].descriptor]

(* Received buffers add up to frames of RX_EOF_NUM bytes: what was received   *)
(* of a frame never fills or exceeds it without the EOF.                      *)
FramesExact == stream["in"].eofBytes < RxEof

\* A descriptor that cannot be carried out, whatever its frame has room for.
Faulty(d, a, own) ==
  /\ a \in Descriptors
  /\ ~Located[a] \/ Size[a] = 0 \/ (d = "out" /\ Length[a] \notin 1..Size[a]) \/ (Check[d] /\ ~own[d][a])

\* Whether the descriptor a stream is at deserves an error, now or when its buffer
\* is carried, or else the next one does.
Deserves(d, x, before, after) ==
  LET a == x.descriptor IN
  Faulty(d, a, before) \/ (x.pending /\ IF Readable[a] THEN Faulty(d, Link[a], after) ELSE a \in Descriptors)

(* The guest is told of a descriptor error only for the descriptor that its   *)
(* channel has come to, and only when that one deserves it: it cannot be read,*)
(* is empty, longer than its buffer or software's, or its buffer is not       *)
(* memory.  What is left of a frame, a reset or a new start never is a reason.*)
ErrorsDeserved ==
  [][\A d \in Directions : Errors(d)' \subseteq Errors(d) \/ Deserves(d, Begun(stream[d]), owner, owner')]_vars

(* "Late callbacks slowed the I2S sample clock": however late a timer is, the *)
(* next buffer ends its own length after the end of the one before.           *)
SteadyClock ==
  [][\A d \in Directions :
       (stream[d].pending /\ stream'[d].pending /\ Served(stream[d]) /\ Begun(stream[d]) = stream[d] /\ streamComplete(d))
       => stream'[d].deadline = stream[d].deadline + stream'[d].bytes]_vars

(* The state's invariants together, for runs that take the streams with others. *)
I2sSafety == TypeOK /\ StoppedIsStill /\ Polls /\ PendingServed /\ FramesExact
=============================================================================
