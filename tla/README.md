# M5 Emulator: verification project

M5 Emulator runs the firmware of an M5Stack StopWatch on a patched QEMU and shows
it in an SDL frontend. Two processes take part: QEMU, with the emulated devices and
a high-level emulation (HLE) of the ESP32-S3 Bluetooth controller, and the frontend,
with the user interface and the bridge to the Mac's Bluetooth. This directory holds
TLA+ models of the program, the TLC configurations that check them, and proofs that
TLAPS checks. `PROJECT.json` maps every definition to the source lines it models,
lists the hazards of the code at their lines with the properties about them, and
gives each property a plausible bug (a mutant of a definition) that it catches.

## Inventory

| Part | State it keeps | Operations | Interacts with | What is hard | What makes it correct |
|---|---|---|---|---|---|
| BLE controller (`qemu/esp32s3/bluetooth/BleController*`) | lifecycle status, guest resources, event queue, delivery flags, link, keys, credits | API hooks, OSI continuations, worker poll, HCI commands, ACL | guest tasks (callbacks), peer socket | guest tasks run between a call and its continuation; `Disable` inside a callback; queue limits | events delivered in order and once, no leak, no `fail()` for a compliant host |
| Resolving list (`BleController.Hci.cpp`) | vector of identities, array of modes | add, remove, clear, set mode | HCI | two arrays kept aligned by hand | is a map |
| Peer transport (`PeerSocket`) | incoming and outgoing bytes, file descriptor | open, adopt, send, flush, receive, close | both processes | partial writes, full queue, lost peer | FIFO of whole messages until closed |
| Virtual peer (`src/bluetooth/VirtualPeer*`) | transport, advertisement, catalog, generation, closing, ATT queue | poll, receive, connect, disconnect, sessions | transport, SMP, delegate | messages that cross, stale generations, deadlines | both sides agree on the link, sessions settle |
| SMP (`SmpSession`) | state, bond | start, receive, encryptionChanged | virtual peer | bonds lost on one side | keys agree |
| ATT client (`VirtualPeer.Att.cpp`) | request queue, transaction, MTU, prepared fragments | read, write, MTU, indications, deadline | virtual peer, guest's server | retry after encryption, a link that goes away half-way | one transaction, writes whole, each request answered |
| GATT publication (`BleController.Gatt.cpp`, `VirtualPeer.Catalog.cpp`, `.Discovery.cpp`) | catalog buffer, services, subscriptions | publish, receive, discover | transport, delegate | change during a session, entries cut over chunks and answers | session uses the published database |
| macOS bridge (`bluetooth/macos`) | publication epoch, operations, values, subscriptions | CoreBluetooth callbacks | virtual peer | callbacks of an old publication | each request answered once |
| Application (`src/app/Application*`) | session, recording | open, restart, record, quit | QEMU process, files, bridge | failure half-way through opening | old session kept until the new one is ready |
| QEMU process (`QemuProcess*`) | pid, pipes, output line | start, stop, poll | QEMU | exit racing a stop | no orphan, no wait for ever |
| Run files (`RunFiles`, `FileLock`) | lock, temporary files | prepare, save | file system | crash between write and rename | save is old or new, one writer |
| Recording (`recording_capture.c`, `Recording*`) | channel, packets, writer | capture, drain, stop | both processes | an exit or an error while stopping | no lost packet, no recorder left open |
| Input and shared state (`src/models`, `m5_stopwatch.c`) | touch, buttons, the shared file | frame, tick | both processes | torn copies, taps shorter than a tick | the guest sees whole samples of every tap |
| Power chip, expander, touch panel (`m5pm1.c`, `m5ioe1.c`, `cst820.c`) | pins, masks, latches, pulse timer, click timer | register access, board lines, timers | one another and the shared interrupt line | a latch against its acknowledgement, a timer due in the same moment | no interrupt lost, none invented |
| Clock, motion sensor (`rx8130ce.c`, `bmi270.c`) | base and elapsed time, alarm; upload, samples, pin | I2C transfers, timers | virtual clock | late timers, writes between expiry and callback | alarms exact, pin is what the latches say |
| Chip peripherals (`esp32s3_gpio.c`, `_i2c.c`, `_i2s.c`) | pads, FIFOs, command engine, streams | register access, timers | devices, GDMA | chains of callbacks inside one access, waits for a FIFO | levels settled, bytes conserved |
| Display, audio codec (`co5300.c`, `es8311*.c`) | GRAM, refresh, sample buffers | SPI bytes, power, host callbacks | board, host | late refresh, two clocks on one FIFO | the last picture is shown, no sample twice |
| Menus, recent files, options, log (`src/ui`, `src/app`) | menu, list, ring of text | SDL events | application | | |

`PROJECT.json` lists the parts that are not modelled, with the reason.

## Modules

| Module | Models |
|---|---|
| `BleController` | the controller object: `step`, `poll`, `pollPeer`, `peerMessage`, `send`, the HCI commands that change link state |
| `HciChannel` | abstract: what the VHCI boundary promises the guest's host |
| `ResolvingList`, `PrivacyMap` | the resolving list and its modes; abstract: a map from identity to privacy mode |
| `BleLink` | the controller's end and the virtual peer's end of the socket, composed: link, session, SMP, publication |
| `AttClient` | the ATT client on one link |
| `GattDiscovery` | chunked metadata, ATT discovery, comparison, clearing of subscriptions |
| `PeripheralBridge` | `M5PeripheralDelegate` between CoreBluetooth and the virtual peer |
| `QemuProcess` | start, watch, stop and kill of the child; console lines |
| `EmulatorSession` | the application: opening, restart, recording, quit |
| `FlashSave` | saves, locks, staging files, crashes |
| `InputMailbox` | one frame's exchange through the shared state file |
| `PowerChip`, `TouchPanel`, `MotionSensor`, `RtcClock` | the devices on the I2C buses |
| `GpioPads`, `I2cMaster`, `I2sStream` | the chip's peripherals |
| `DisplayPanel`, `AudioCodec` | CO5300 and ES8311 |
| `Frontend`, `Devices`, `Peripherals` | components side by side with all their parameters, to be checked in one run and proved in one module: saves, session, shared file, ATT client and console; power chip, clock, display and motion sensor; touch panel, pads, I2C master, I2S streams and codec |
| `MCBleFirmware`, `MCRtcLate` | one component for TLC |
| `MCFrontend`, `MCDevices`, `MCPeripherals`, `MCLiveness` | groups of components for TLC |
| `BleControllerProofs`, `BleLinkProofs`, `BleSecurityProofs`, `ResolvingListProofs`, `DeviceProofs`, `PeripheralProofs`, `QemuProcessProofs`, `FrontendProofs` | theorems |

The controller and the peer are composed in `BleLink`; `BleController` has the same
controller seen from the guest's side, with an arbitrary peer. The other components meet
at interfaces narrow enough to be an environment of each: a pin, a transfer, a callback.
Operators under a comment `Plausible bug` or `Mutant` beside a definition are bugs that the
properties are tried against; no specification uses them.

### BleController

State: the members of `BleController` under their names without underscore; `heap`,
the guest objects that exist; `api`, the OSI call an `Init` or `Deinit` waits for;
`worker`, where the worker task is. QEMU insists on one TCG thread, so one call of
`step` is atomic, and a poll is one step: it is split into one action per peer message
and a last one, and no other guest code runs while `worker = "poll"`. Between a call
into the guest (allocation, task creation, a callback) and its continuation any guest
task may run, which is what the actions interleave.

The guest's host stack (NimBLE) is external and modelled as a compliant host: one HCI
command outstanding, no ACL beyond its credits, fragments of one SDU in a row, sends only
when `HleAvailable` says so, the event masks set before it advertises. It may refuse a
packet any number of times and may act at any point, also inside its receive callback.
`aborted` records a call of `fail()`, after which the emulator is gone.

The peer is an arbitrary environment: any message that `peerMessage` accepts, any time.
Messages it rejects change none of this state. An HCI event is reduced to its type, its
handle and the one value the host uses (credits, encryption on or off). The registers for
power, sleep, PHY and features (`BleController.cpp` 150-202 and 221-239) are left out, and so
are the `fail()` exits of the worker's wait (lines 243-249), which are for a guest whose semaphore
does not block, and the growth of that wait's timeout.

### ResolvingList

Commands 0x2027, 0x2028, 0x2029, 0x204E, 0x202D and 0x200A with all their refusals, the
connection that ends advertising, and the reset. `reply` is the status byte. The list is
checked against `PrivacyMap`, whose state is a function.

### BleLink

Each socket has a FIFO of messages per direction. The controller opens one socket for each
controller object (`PeerSocket::open` runs once); a restart makes a new object and the new
socket waits in the listener's backlog until the peer's poll finds the old one gone. What
was written before a close is still read; what the closing side had not read is lost; a
full queue (`MaxQueuedMessages`, 64 in the code) or a dead socket closes the sender's end.

The frontend is single-threaded. One `poll()` is `PollAccepts` when there is no socket, any
number of `PollReceives`, and `PollEnds`, `PollTimesOut` or an exception (`Fails`). How
many messages a poll finds depends on the other process, so it may end after any of them;
the flag `polling` keeps user actions out only while the poll has something left to do (a
connection to request). `PollTimesOut` stands for either deadline and may happen whenever
the code would test it. An exception on a poll in which a close is also overdue is two
steps, `Fails` and then `PollTimesOut`.

A generation is a number from an arbitrary start that survives restarts (a static). A key
is named after the connection it was made on. An ATT exchange is reduced to `SetupSteps`
transactions before the session is ready and client requests, queued, after; a pairing
is one message each way; a database is a value, 0 when it cannot be read. The guest answers,
disconnects, resets, restarts, stops advertising or loses its bond store when it likes.
`Secured` says whether the firmware asks for encryption; `Images` are firmware images and
`Databases` what they publish. `published` is a history variable: the database that went
with the current advertisement.

### The frontend

- `AttClient`: requests are queued up to a limit, one transaction at a time; a long write
  goes as prepared fragments and an execute, any failure cancels them; insufficient
  encryption sends the request once more after the link is encrypted; either side may begin
  the MTU exchange; the deadline or the end of the link completes every request.
- `GattDiscovery`: the controller's publication in chunks, the parser, the answers of ATT
  discovery with as many entries as the guest likes, and the comparison of the two. The catalog
  may be withdrawn at any time, also between two chunks: by a chunk that does not follow, refused
  metadata, an advertisement, a failed or overdue discovery, or another socket. A chunk whose
  beginning was withdrawn closes the bridge until it is enabled anew.
- `PeripheralBridge`: handlers call each other (a refused request ends the session, which
  completes the others, which withdraws the publication), so a handler is an operator from a
  state record to the next and an action applies it. The captured publication number is only
  compared with the present one, so it is modelled by "current".
- `QemuProcess`: the steps of `start` and `stop` of the main thread, with the child running,
  writing and exiting between any two of them.
- `EmulatorSession`: the handlers as state transformers; an exception is a choice of how far
  a handler gets; the worker that writes a recording runs beside the main thread. Stopping a
  recording reads what QEMU has sent before it sends the stop, and both may throw while QEMU
  runs (`Stops`): the code then finishes the recording with no stop sent, which `history.unsent`
  remembers until another recording is started or QEMU ends.
- `FlashSave`: the constructor of `RunFiles` step by step for several emulators, each of
  which may be killed anywhere; `QemuSurvives` says whether its QEMU goes on then.
- `InputMailbox`: every field of the shared file copied in a step of its own, the frontend
  with a blocking lock, the board's tick with a lock it only tries.

### Devices and peripherals

- `PowerChip`: pins, masks, latched status, the shared line, and the power button's clicks.
- `TouchPanel`: CST820 behind the expander's reset pin; the pulse of its line is a timer.
- `MotionSensor`: upload, sampling, data-ready and any-motion, the pin that both feed.
- `RtcClock`: the calendar as a base and the time since, STOP, the search for the next alarm.
- `GpioPads`: `todo` is the list of pads a handler has still to bring up to date; each update
  may have a device drive a pad at once (the software I2C bus).
- `I2cMaster`: `engine` is the command loop that runs inside a register access.
- `I2sStream`: two streams on GDMA channels the guest may change behind their back, and
  clocks that may depend on each other. A descriptor is a number with what the stream finds
  there: whether it can be read (`Located`), the size of its buffer and the length in it, its
  owner, its link, and whether the buffer is memory (`Readable`).
- `DisplayPanel`: power, reset, bytes over SPI, GRAM, the 60 Hz refresh, what the host reads.
- `AudioCodec`: the two sample buffers between I2S and the host's audio.

Times are relative to the virtual clock; a timer whose time has come runs before time goes
on, but another event of the same moment may come first, and in `RtcClock` with `Late`, the
motion sensor, I2S and the display it may run late. What is assumed of the guest, because the
code relies on it too: an I2C list is programmed while none runs; the I2S frame count is not
changed in a running transfer, one channel serves one direction, and errors are cleared
while the stream is stopped.

## Runs

| Run | Bounds | Distinct states | Properties |
|---|---|---|---|
| `controller_lifecycle` | poll limit 2, capacity 8, 2 credits, 1 fragment, no keys, advertising types 0 and 3 | 209,602 | `ControllerInv`, `ImplementsChannel`, `CommandAnswered`, `DropReported` |
| `controller_link` | poll limit 2, capacity 8, 2 credits, 2 fragments, 2 handles, one key | 1,557,254 | `WithinBounds`, `HostBelief`, `CreditsConserved`, `LinkHistory` |
| `resolving_list` | 5 identities, capacity 4 (the code's) | 69,384 | `ListSafety`, `ImplementsMap` |
| `link_sockets` | 2 sockets, 2 generations, queue of 2, no security | 1,764,878 | `LinkSafety` |
| `link_firmware` | 1 socket, 2 generations, queue of 2; firmware that asks for encryption, and firmware with 2 databases | 1,393,195 | `DatabaseSafety`, `AttAfterRestore`, `SecurityAgreement`, `NoSpuriousReject` |
| `link_live` | 1 socket, 1 generation, firmware that asks for encryption | 182,343 | `SetupEnds`, `NewsTaken` |
| `frontend` | 2 emulators on 2 saves; 2 services and 2 centrals of the bridge; the others as in `MCFrontend` | 840,963 | `SaveSafety`, `SealedSaves`, `AttSafety`, `DiscoverySafety`, `BridgeSafety`, `SessionSafety`, `MailboxSafety`, `OutputForwarded`, `FrontendSteps` |
| `devices` | 2 pins, delays 1 and 2, 3 clicks; the others as in `MCDevices` | 562,568 | `PowerSafety`, `RtcSafety`, `MotionSafety`, `DisplaySafety`, `DeviceSteps` |
| `peripherals` | 3 points, pulses up to 4; streams that receive, that play, that share a clock or that meet faulty descriptors; the others as in `MCPeripherals` | 564,505 | `TouchSafety`, `GpioSafety`, `I2cSafety`, `AudioSafety`, `PeripheralSteps` |
| `liveness` | 2 children, 2 polls of a stop; the others as in `MCLiveness` | 80,837 | `ChildSafety`, `ProcessesEnd`, `RequestsEnd`, `DevicesReport` |
| `rtc_late` | one alarm, callbacks may be late | violation | `LateAlarmKept` |
| `flash_save_in_use` | 2 emulators, 1 save, QEMU outlives its application | violation | `SingleWriter` |

The runs `frontend`, `devices`, `peripherals` and `liveness` take several components side by
side. They share no state; `component` is chosen at the start and only that component
moves, so the states are the sum of the components' states. A component with two names is
taken with two sets of bounds. `link_firmware` does the same with two kinds of firmware.

What the properties are made of:

| Property | Its parts |
|---|---|
| `WithinBounds` | `NoAbort` (no `fail()` for a compliant host), `QueueBounded` |
| `HostBelief` | `NothingOutlivesLink`, `DisconnectQueued`, `EncryptionHonest` |
| `LinkHistory` | `LinkEventsInOrder`, `OneConnection` |
| `LinkSafety` | `TypeOK`, `Agreement`, `NoHalfOpen`, `ClosingExclusive` |
| `DatabaseSafety` | `SessionDatabase`, `ReadySession` |
| `SecurityAgreement` | `EncryptionAgreement`, `BondsMatch` |
| `SetupEnds`, `NewsTaken` | `ClosingEnds`, `SessionSettles`; `ConnectionsTaken`, `EndNoticed` |
| `SaveSafety`, `SealedSafety` | `TypeOK`, `SaveWhole`, `LocksExact`; `SingleWriter`, `CopyIsCurrent` |
| `AttSafety` | `OneTransaction`, `WritesWhole`, `PreparedOwned`, `PduFits`, `Accounted` |
| `DiscoverySafety` | `DiscoveryExact`, `CatalogExact`, `ReadyMatches`, `SubscriptionsCleared` |
| `BridgeSafety` | `EachAnsweredOnce`, `SessionIsolation`, `ValuesMove`, `PublishedIsCurrent`, `OperationsProgress`, `QueuesBounded` |
| `SessionSafety` | `FilesOutliveQemu`, `RecordingOwnSession`, `RecorderExclusive`, `NoRecordingLost`, `CaptureStops` |
| `MailboxSafety` | `PointWhole`, `PictureWhole`, `TapReaches` |
| `FrontendSteps` | `SaveKept`; of the discovery `Advances`, `NoSpuriousFailure` |
| `PowerSafety` | `OutputsCurrent`, `NoStaleEvent`, `SharedLine`, `ClicksConserved`, `OneCandidate` |
| `RtcSafety` | `AlarmExact`, `WeekExact` |
| `MotionSafety` | `PinCurrent`, `TimerAtNextEvent`, `NoBusyTimer`, `NoStaleReady`, `UploadWhole` |
| `DisplaySafety` | `RefreshWhileAwake`, `AwakeIsRecovered` |
| `DeviceSteps` | `PhaseKept`, `CadenceKept`, `UpdatesSignalled`, `TeSteady` |
| `TouchSafety` | `NoGhostTouch`, `LineHeldByTimer`, `ResetFollowsPin`, `ChangeSignalled` |
| `GpioSafety` | `PadsResolved`, `InterruptLine` |
| `I2cSafety` | `TxConserved`, `RxConserved`, `RightDevice`, `BusReleased`, `IrqCurrent`, `WaitsForFifo` |
| `AudioSafety` | of I2S `StoppedIsStill`, `Polls`, `PendingServed`, `FramesExact`; of the codec `PlaybackRecent`, `SilentWhenMuted`, `CaptureRecent`, `NoneSkipped` |
| `PeripheralSteps` | `OwnDeadline`, `SdaBeforeScl`, `ErrorsDeserved`, `SteadyClock` |
| `ChildSafety` | `SignalsOwnChild`, `NoStrayChild`, `DescriptorsClosed` |
| `ProcessesEnd` | `StopReturns`, `SessionEnds` |
| `RequestsEnd` | `Completed` of the ATT client, `RequestsAnswered` of the bridge |
| `DevicesReport` | `LineRises`, `TouchReported`, `PictureShown` |

Why the bounds are enough for the cases of interest. A poll limit of 2 with a capacity of
8 keeps the ratio of the code (24 and 64): the limit is reached, passed by a fragmented
packet, and passed again by the host's credits and command. Two handles make the wrap happen
on every second connection, with events of the handle before still queued. The faulty
descriptors of I2S are misaligned, have no room for their data, have a buffer that is not memory,
or belong to software; the guest starts at them or a sound one leads there. In the link, two sockets and two generations let a message of
the previous connection or socket meet the next; a queue of 2 holds the pair of messages
an advertisement sends and overflows on the third. Two emulators with two saves meet in
every step of an opening. The devices' delays are 1 and 2 so that a delay can be shorter or
longer than another already running; three clicks fill the count the chip tells apart; the
display and I2S have times late by less and by more than one period. The bounds of every
component are named in its MC module. In `controller_lifecycle` and `resolving_list` nothing
is bounded but by the constants of the code.

`CHECK_DEADLOCK FALSE` is said where the system really may stop: the link when sockets and
generations are used up, a session that has ended, a component whose clock or number of
inputs has reached its bound.

### Fairness

- `controller_lifecycle` (`FairSpec`): weak fairness of the worker's steps (the guest kernel
  schedules the task, its semaphore wait has a timeout of `_pollTimeoutMs`, callbacks
  return) and strong fairness of the host accepting what it is offered: the host refuses a
  packet only while it is out of buffers. Nothing is assumed of the API task, the peer or
  the host's commands.
- `link_live`: weak fairness of each part of the peer's poll (the frontend calls it on
  every turn of its main loop), of its deadlines passing, and of the controller's reading of
  the socket and noticing its end (its worker polls). Nothing is assumed of the guest's
  answers or the user: that a session settles although the guest never answers is the point.
- `liveness`: weak fairness of the main thread's steps of a stop, of the frontend's polling and of
  the recording's worker thread; of the ATT deadline; of CoreBluetooth's callbacks for what the
  bridge waits for and of the peer's deadlines; of the touch panel's timer, of time, and of
  the board's tick and the frame. QEMU, the guest, the client and the user may do nothing.

### What the models show beyond their properties

Disagreements with what the repository says of itself (runs that expect a violation):

- `rtc_late`: `rx8130ce.c` 114 says a late host callback cannot miss a match; a register
  write between the expiry and the late callback (line 96) replaces the alarm that is due.
- `flash_save_in_use`: a save's lock is the application's (`RunFiles.cpp` 77); when the
  application is killed its QEMU goes on, and a second emulator is not refused (line 81)
  unless QEMU's own image locking refuses it.

Consequences of the code as written, not contradictions of its documentation:

- A stop of a recording that cannot be sent to QEMU, because the encoder cannot keep up with a
  packet that is read first or because the send fails (`Application.Capture.cpp` 143-147),
  ends the recording without it: QEMU captures on and fills its socket until the next recording is
  stopped, or it ends. `CaptureStops` excepts this case and no other.
- A `Connect` that reaches the controller just after advertising stopped is rejected with
  generation 0. The peer fails and waits for a close without a generation; only the deadline
  ends that, by closing the socket. The controller opens no second one until it is
  recreated, so the bridge is down until the firmware restarts its controller.
- A `Connected` that is refused (`VirtualPeer.cpp` 229) sets `_closing` without clearing
  `_sessionRequested` and without a new deadline. The request survives the close, and
  `disconnect()` while closing returns before it would clear it. It is served by the next
  advertisement, or waits without a deadline if none comes; `SessionSettles` therefore
  asks that the firmware can be reached.
- The bridge ends its session on the last unsubscription (`PeripheralDelegate.Requests.mm` 158).
  When no link has been asked for yet, `disconnect()` clears the session and withdraws the
  services, and nothing offers them again before the firmware's availability changes
  (`VirtualPeer.Catalog.cpp` 116).
- A reset of the receive FIFO while an I2C read waits for room (`esp32s3_i2c.c` 345) does not
  resume the command (line 204 waits for a read access), and an I2S stream is not armed again by
  a register write after a DMA error (`esp32s3_i2s.c` 159 and 147).
- A QEMU that dies in the middle of a copy leaves a torn picture in the shared file until the
  next one; a touch that changes again after the guest read it, within one pulse, has no
  edge of its own.

## Proofs

Eight modules hold theorems. Every proof is of the specification TLC checks, for every
value of the constants that the module's `ASSUME` allows; the assumptions say only that
counts are natural numbers, that the values for "none" are none, and what the code's own
constants satisfy.

**`BleControllerProofs`** (every poll limit, capacity, number of credits, fragments, handles, keys):

- `Invariance`: `Spec => []ControllerInv`. None of `DeliveryIntact`, `NoLeak` and
  `WorkerResources` is inductive. `ControllerInv` adds what exists in the guest at each
  point of `Init` and `Deinit` (`ApiInv`), that a delivery in progress belongs to the
  receive callback of a session that is open unless cancelled (`DeliveryInv`), and that
  outside a session there is no link and nothing queued (`SessionInv`, without which
  registering new callbacks could expose old events). `TypeCorrect`, `DeliveryCorrect`,
  `LinkStateCorrect` and `ResourcesCorrect` follow from it.
- `ChannelRefinement`: `Spec => ImplementsChannel`. The abstract queue is the events the
  host has not accepted, that is, without the head while an accepted packet has not been
  popped. Steps of peers and hosts append; `HostTakes` is the abstract `Take`; the pop on return,
  refusals and cancelled deliveries are stuttering steps; `Disable` and restarts close.
- `BeliefCorrect` (`HostBelief`) and `HistoryCorrect` (`LinkHistory`), from `HostInv`: what the
  host will believe after each event still queued, ending in what the controller is. The
  host's masks are set before it advertises, so no link event is filtered away; after the
  last answer queued the picture is settled; at most one command answer is outstanding.
  That an old event carries the handle of a new link is excluded by this picture and
  not by counting handles, so the wrap of handles needs no bound; the handle of a new connection is never 0, the value for none.
- `BoundsCorrect` (`WithinBounds`): with a host that keeps the rules no `fail()` of the controller
  is reached, and the queue holds at most PollLimit + MaxFragments + AclCredits + 2 events,
  43 with the 24, 5 and 12 of the code. The assumption is that this is within EventCapacity
  (`QueueAssumption`; `queueEvent` stops the emulator at 64). A bound on the length is not
  inductive, since who may still add to the queue depends on what is in it. `Ledger` counts,
  from each queued event to the last, the credits that Completed events return and the other
  events. `Budget` bounds these: in the whole queue by the credits, what one poll reads, the
  end of the link, and the answer awaited; behind an answer by what was read or produced
  since. What the host owes once it has accepted what is queued, with what the worker has
  still to return, is what it has outstanding (`BoundInv`). `Current` says that the host has
  heard of the live link, or will, before it sends on it, `Sends` that the fragments of an SDU are
  the host's and the controller's alike. The sum of the credits is stated by the
  function `Ledger` asks for and never computed, so no induction over the queue is needed.
- `CreditsCorrect` (`CreditsConserved`): the credits in `Budget` are exact, and by induction over the queue they are
  the ones in its events (`CreditsCounted`), which all name the live connection (`NewsKept`). The induction is by the least
  counterexample: `Least` is the well-foundedness of `<` on the naturals, `Backward` what follows for a queue.

**`BleLinkProofs`** (every queue limit, set of images and databases, number of sockets,
generations and requests):

- `Invariance`: `Spec => []LinkInv`. The properties relate the two ends, but between the ends
  are messages, and after a restart more than one socket. The invariant therefore says of
  every socket's queue towards the peer that it tells a story (`Tale`, `FullTale`): read from
  the front, each message continues the link the peer will have been told of by then and the
  database announced by then. The peer's own state is where the story of its own socket
  begins, and a waiting socket's begins with nothing (`SocketInv`, `LinkStart`, `DataStart`).
  `CtlInv` ties the controller to the end of its own socket's story, `PeerInv` is the peer by itself
  (`SessionInv`, `SecurityInv`), and `WireInv` says which sockets can be in use.
  A message the peer reads moves the story's start; what the controller writes extends its end;
  a lost or closed socket is a story nobody reads.
- `LinkCorrect` (`LinkSafety`), `DatabaseCorrect` (`DatabaseSafety`), `AttCorrect` (`AttAfterRestore`).

**`BleSecurityProofs`** (the same constants; `LinkInv` is a hypothesis of its steps):

- `KeysInvariance`: `Spec => []KeysInv`. The key of a link is in four places, the peer's session and bond, the
  controller's `cKey` and the guest's bond, and they change by an `Encrypt`, the guest's answer and
  the `Encryption` that reports it, any of which may be on its way. `AskInv` says that an `Encrypt`
  the controller has still to read is the only one, finds a link without key, and carries the key
  the peer waits for; `AnswerInv` that an answer is the only one and somebody waits for it;
  `SharedInv` that otherwise the peer's state is the controller's. `UnheardInv` is the case
  in which the peer is not on the controller's link yet: then nothing of that link's security has
  happened. `BondInv` carries agreement on the bond through the exchange: a key in `cKey` or in a
  queued `Encrypt` is already the bond's, if the peer has one. `ConnectInv` says that a `Connect`
  is about no link, so that refusing it is not refusing a request of one.
  A message of the controller that is neither `Connected`, `Encryption` nor `Rejected` changes
  none of this, which is one lemma (`LinkKept`), and the end of the controller's link is another (`LinkEnds`).
- `SecurityCorrect` (`SecurityAgreement`) and `RejectCorrect` (`NoSpuriousReject`). A `Rejected` can be
  on its way to a peer, but only about a link that one of the two no longer has.

**`ResolvingListProofs`** (every capacity and set of identities): `ListCorrect` (`ListSafety`) and
`MapRefinement` (`ImplementsMap`), from the invariant that identities are distinct and unused
slots hold 0. The step that matters is a removal: shifting the modes behind it gives every other
identity the mode it had.

**`DeviceProofs`** (every set of pins, registers and delays; every size and viewport of the panel; every
set of sensor settings and periods; every calendar, whatever the length of its units):

- `PowerCorrect` (`PowerSafety`): `PinInv` says outputs and latches are those of the registers, `ClickInv`
  where each press is counted, `TimeInv` that the click timer stands for the candidate it will confirm.
- `DisplayCorrect` (`DisplaySafety`), from `PanelInv`: the timer is armed exactly while the panel is awake, awake means
  recovered, a reset that is asserted means asleep, and a command has at most the parameters kept of it.
  `UpdatesCorrect` says that no step changes what the host would show without counting an
  update, over the bytes of any command (`Sound`); `TeCorrect` that a refresh dispatched late keeps
  the phase of those after it.
- `MotionCorrect` (`MotionSafety`), from `MotionInv`: the timer is at its event or due, a sensor that is off has no
  event and no ready flag, the pin is what the watched conditions are, and the upload's count is the number of
  different places written, so that `loaded = Size` says all of them were. `CadenceCorrect`
  is its action property; it needs that two rates have different periods,
  which the code's `1280000000 >> (odr - 1)` gives.
- `WeekCorrect` (`WeekExact`, of the clock's part of `RtcSafety`) and `PhaseCorrect` (`PhaseKept`), from `ClockInv`: the days the calendar
  shows now are those that were set, turned by the midnights since. `Continues` says what `snapshot`, `commit`, the change of
  STOP and `updateAlarm` each make of a calendar; it is transitive, so that it holds of the handlers made of them.
- `RtcCorrect` (`RtcSafety`), from `AlarmInv`, unless the host dispatches an expired timer late (`Late`, of which the run
  `rtc_late` shows what goes wrong): the timer stands at the first minute the alarm matches. It rests on the search of
  `updateAlarm`: each jump goes forward and over no match (`DayJumped`, `HourJumped`, `MinuteJumped`), so that the search ends at the
  first match (`FirstMatch`); an alarm that is not refused has a match within a month times a week of days (`MatchComes`), and one that
  is refused has none (`Never`). The search is a recursive function: that there is one and what it returns is shown by
  induction over the naturals (`SearchExists`, `SearchReaches`), from the library's theorem that a set in which `<` is well-founded
  has a least element (`LeastOf`).
- `DeviceStepsCorrect` (`DeviceSteps`) takes `PhaseCorrect`, `CadenceCorrect`, `UpdatesCorrect` and `TeCorrect` together.

**`PeripheralProofs`** (every set of points, widths and delays; every set of pads, signals and routes; every
command list and depth of the FIFOs; every list of descriptors, frame and delay of a timer; every burst of the host):

- `TouchCorrect` (`TouchSafety`) and `PulseDeadline` (`OwnDeadline`, the touch panel's part of `PeripheralSteps`). `EdgeOfPulse` is
  the strengthening: a change the guest has not read has a pulse that began with it or after it.
- `GpioCorrect` (`GpioSafety`). What the pads show is inductive although an update of one pad calls
  back into the updates of others: what is stale is in `todo`, and between two accesses `todo` is empty.
  `SdaToldFirst` (`SdaFirst`, of the pads' part of `PeripheralSteps`) says that the bus on two pads is told of SDA before SCL.
- `I2cCorrect` (`I2cSafety`), from `I2cInv`. It gives each FIFO with the numbers of the bytes that went through it, and says that
  the bus is taken only by a list that runs, or one that ended with END; that a selected device is the one the last
  address names, while the engine is in the middle of a command too; and that a list waits only for a FIFO that
  lacks what its command needs. The loops that move bytes are one lemma (`BytesMove`).
- `AudioCorrect` (`AudioSafety`), from `StreamInv` and `CodecInv`. `StreamInv` says of each stream that an armed timer is never
  earlier than the deadline of its buffer unless that has passed (`Good`), so that the time of a buffer is over when the timer
  runs; that a buffer under way is one its frame has room for and its descriptor the DMA's (`Held`), whatever the
  guest has since written to the channel; and that only an error leaves a stream with a clock without a timer. `Scheduled`
  shows it of `streamSchedule` for any stream it may be given, which every register write and every timer comes down to.
  `CodecInv` gives both FIFOs with the numbers of the samples that went through them: they follow one another modulo the
  bound on the numbers (`SumModulo`), and the last one is the newest (`Plays`, `Captures`).
- `DescriptorErrors` (`ErrorsDeserved`) and `SampleClock` (`SteadyClock`), the streams' action properties, from `StreamInv`: what each
  call of `streamSchedule` and `dmaError` adds to the raw interrupts. An error is for the descriptor the channel stood at, or the
  one it links to once the buffer under way is carried, and for that very one: what a frame has room for is never the reason, since
  a frame that is full ends before the next buffer (`UnfitFaulty`). `BegunOnce` and `ChannelOnce` say that a start ordered
  by the guest is carried out once, although the error or the end of a buffer looks for the channel again. `SampleClock` says
  that a channel which is not started anew goes on from the deadline before. `StepsCorrect` (`PeripheralSteps`) takes them together with `PulseDeadline` and `SdaToldFirst`.

**`QemuProcessProofs`** (any number of children, polls, and sizes of reads, pipe and lines): `ChildrenCorrect` (`ChildSafety`),
with `ChildOfStop`, what each step of a stop knows of the child; `OutputCorrect` (the module's `OutputForwarded`), from `ConsoleInv`: what has been
read of a child's output is whole lines and the beginning of one, of which a part has been printed only when it is too
long to be a report, and what the pipe still holds continues it.

**`FrontendProofs`** (any number of emulators and saves; of starts, recordings and waiting messages; of packets, bytes and screens; of requests,
attributes, fragments and MTUs):

- `SavesCorrect` (`SaveSafety`) and `SavesKept` (`SaveKept`) whether or not QEMU survives its application, and
  `SealedCorrect` (`SealedSafety`, which the run checks as `SealedSaves`) when it does not. An
  emulator's `Sound` says for every step of the opening which file and which lock it has.
- `SessionCorrect` (`SessionSafety`), from `SessionInv`: a packet's time and the files of a recording are of the session
  they belong to while one session is replaced by another, each recording started is concluded, active or with the writer
  (`Counted`), and the last command to a machine that should not capture is to stop, unless the stop could not be sent (`CaptureInv`).
  The drain and the send of every stop may fail, with QEMU alive or not.
- `MailboxCorrect` (`MailboxSafety`), from `MailboxInv`: where the host and the machine stand in their copies says which
  fields of the shared state are already of one point (`PointInv`) or of one picture (`PictureInv`), and a press the
  board has not seen is younger than the frame or already on its way to the next tick (`TapInv`).
- `RequestsCorrect` (`AttSafety`), from `AttInv`. `MtuInv`: a PDU longer than its reader's MTU is only behind one that raises
  it. `QueueInv`: requests are distinct, and each one is owed exactly one answer. `TransactionInv`: the
  transaction is at the guest, on its way back, or waits to be sent, and what the guest has prepared is the value's beginning
  up to there, before and after the fragment in hand. `StoredInv`: a value stored is a value asked for.
- `ConsoleCorrect` (`OutputForwarded`): `OutputCorrect` of `QemuProcessProofs`, under the names of `Frontend`.

### What is only model-checked

- Liveness (`CommandAnswered`, `DropReported`, `SetupEnds`, `NewsTaken`, `ProcessesEnd`, `RequestsEnd`,
  `DevicesReport`): fairness and `ENABLED` are out of the prover's reach.
- `BridgeSafety` speaks of folds over sequences, `DiscoverySafety` of what a recursive parse returns. The
  library's induction theorems take an operator as a parameter, which the provers cannot instantiate; an induction over a set
  of naturals, as for the alarm's search, has not been carried out for them.
- `Advances` and `NoSpuriousFailure` of the discovery, for the same reason: the structure its steps compare is the one the
  parse returns.
- That the devices do not disturb one another: `Devices`, `Frontend` and `Peripherals` are taken as components without shared
  state, each theorem under its own component's specification.

## Plan

Done: the modules of the table above, their runs, and the proofs. Next, in this order:

1. The framing of `PeerSocket`, shown to implement the FIFO of messages `BleLink` assumes.
2. Invariants of the bridge and of the discovery that say of each step what it adds to a sequence, in place of folds over
   the whole, so that they can be proved.
3. The SPI master and the shared ring of the recording.

## Not modelled

Cryptography (`SmpCrypto`), code signatures and their tables, the SPI master and the ADC,
menus and drawing, recent files, options and the log, the encoding of recordings, build
scripts and the patches to QEMU, whose base tree is not part of the repository.
`PROJECT.json` gives the reason for each.
