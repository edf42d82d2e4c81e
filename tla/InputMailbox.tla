---------------------------- MODULE InputMailbox ----------------------------
(* The shared state file between the frontend and QEMU.  The frontend samples *)
(* the user's input once a frame and exchanges it, under a blocking lock, for *)
(* the pixels; the board's tick takes the lock without waiting, once in a     *)
(* millisecond, or goes on with the input it has.  Each field is copied in a  *)
(* step of its own.  A point is written as two coordinates and a picture as   *)
(* two halves, so that a torn copy shows.                                     *)
EXTENDS Integers

CONSTANTS
  Controls,       \* the touch screen and the buttons
  Touch,          \* the one with a position
  Points,         \* bound: where a finger can be; a point is a pair of equal coordinates
  MinimumPress,   \* milliseconds a press lasts at least
  FrameInterval,  \* the shortest time from one frame to the next
  FramePeriod,    \* the longest
  MaxUpdates,     \* bound: updates of the picture
  MaxSessions     \* bound: starts of QEMU

\* Frames are paced, by VSync or by a timer, and a press outlasts one.
MailboxAssumption ==
  /\ Touch \in Controls /\ Points \subseteq Nat /\ 0 \in Points
  /\ FrameInterval \in Nat /\ FramePeriod \in Nat /\ MinimumPress \in Nat
  /\ 2 <= FrameInterval /\ FrameInterval <= FramePeriod /\ FramePeriod < MinimumPress
  /\ MaxUpdates \in Nat /\ MaxSessions \in Nat

VARIABLES
  held, until,    \* Input: what is pressed; how long a press must still last
  dragging, at,   \* the finger went down on the screen; _touchX and _touchY
  app, sample,    \* the frontend's next step; Input::sample of this frame
  snapshot,       \* the frontend's pixels and their version
  screen,         \* the window: the pixels drawn last, and _lastUpdate
  lock,           \* holder of the file's lock
  shared,         \* the file
  qemu, board,    \* the tick's next step; the board's copy of the input
  session, updates,  \* which QEMU it is, or Dead; co5300Updates, which names the panel's picture
  frameAge, ticked,  \* time since the last frame; the board has ticked in this millisecond
  owed            \* history: time since a press the board has not seen, or Seen

input == <<held, until, dragging, at>>
vars == <<held, until, dragging, at, app, sample, snapshot, screen, lock, shared, qemu, board, session, updates,
          frameAge, ticked, owed>>

Seen == -1
Nobody == [c \in Controls |-> FALSE]
Blank == <<0, 0>>
Half(n) == IF n = 0 THEN Blank ELSE <<session, n>>   \* of the panel's n-th picture
Picture(n) == [first |-> Half(n), second |-> Half(n)]
Alive == qemu # "dead"

Init ==
  /\ held = Nobody /\ until = [c \in Controls |-> 0] /\ dragging = FALSE /\ at = 0
  /\ app = "frame" /\ sample = [x |-> 0, y |-> 0, down |-> Nobody]
  /\ session = 1 /\ updates = 0
  /\ snapshot = [pixels |-> Picture(0), updates |-> 0] /\ screen = snapshot
  /\ lock = "free" /\ shared = [x |-> 0, y |-> 0, down |-> Nobody, pixels |-> Picture(0), updates |-> 0]
  /\ qemu = "tick" /\ board = [x |-> 0, y |-> 0, down |-> Nobody]
  /\ frameAge = FramePeriod /\ ticked = FALSE
  /\ owed = [c \in Controls |-> Seen]

-----------------------------------------------------------------------------
(* Input::handle.  Events come before a frame is sampled.                     *)

Down(c) == held[c] \/ until[c] > 0

Handle == app = "frame" /\ UNCHANGED <<app, sample, snapshot, screen, lock, shared, qemu, board, session, updates, frameAge, ticked>>

Owe(c) == owed' = IF Down(c) THEN owed ELSE [owed EXCEPT ![c] = 0]

\* Plausible bug: a press lasts as long as the key is down.
PressBriefly(c, p) ==
  /\ Handle /\ held' = [held EXCEPT ![c] = TRUE] /\ UNCHANGED until /\ Owe(c)
  /\ dragging' = (IF c = Touch THEN TRUE ELSE dragging) /\ at' = IF c = Touch THEN p ELSE at

\* A key, a button's rectangle or the screen goes down.
Press(c, p) ==
  /\ Handle /\ held' = [held EXCEPT ![c] = TRUE] /\ until' = [until EXCEPT ![c] = MinimumPress] /\ Owe(c)
  /\ dragging' = (IF c = Touch THEN TRUE ELSE dragging) /\ at' = IF c = Touch THEN p ELSE at

\* A key goes up, or the mouse; a press that is too short goes on.
Release(c) ==
  /\ Handle /\ held' = [held EXCEPT ![c] = FALSE]
  /\ dragging' = (IF c = Touch THEN FALSE ELSE dragging) /\ UNCHANGED <<until, at, owed>>

\* The finger is dragged to another point, or back to the screen: no press of its own.
Drag(p) ==
  /\ Handle /\ dragging /\ at' = p /\ held' = [held EXCEPT ![Touch] = TRUE]
  /\ UNCHANGED <<until, dragging, owed>>

\* It leaves the screen: up at once, at the edge.
DragOut(p) ==
  /\ Handle /\ dragging /\ at' = p /\ held' = [held EXCEPT ![Touch] = FALSE]
  /\ until' = [until EXCEPT ![Touch] = 0] /\ owed' = [owed EXCEPT ![Touch] = Seen] /\ UNCHANGED dragging

FocusLost ==
  /\ Handle /\ held' = Nobody /\ until' = [c \in Controls |-> 0] /\ dragging' = FALSE
  /\ owed' = [c \in Controls |-> Seen] /\ UNCHANGED at

-----------------------------------------------------------------------------
(* The frontend's frame: sample, then exchangeShared under FileLock           *)

Sample ==
  /\ app = "frame" /\ frameAge >= FrameInterval /\ app' = "lock"
  /\ sample' = [x |-> at, y |-> at, down |-> [c \in Controls |-> Down(c)]]
  /\ frameAge' = 0
  /\ UNCHANGED <<input, snapshot, screen, lock, shared, qemu, board, session, updates, ticked, owed>>

AppLocks ==
  /\ app = "lock" /\ lock = "free" /\ lock' = "app" /\ app' = "x"
  /\ UNCHANGED <<input, sample, snapshot, screen, shared, qemu, board, session, updates, frameAge, ticked, owed>>

AppWrites ==
  /\ \/ app = "x" /\ app' = "y" /\ shared' = [shared EXCEPT !.x = sample.x]
     \/ app = "y" /\ app' = "down" /\ shared' = [shared EXCEPT !.y = sample.y]
     \/ app = "down" /\ app' = "pixels" /\ shared' = [shared EXCEPT !.down = sample.down]
  /\ UNCHANGED <<input, sample, snapshot, screen, lock, qemu, board, session, updates, frameAge, ticked, owed>>

AppReads ==
  /\ \/ app = "pixels" /\ snapshot.updates = shared.updates /\ app' = "unlock" /\ UNCHANGED snapshot
     \/ app = "pixels" /\ snapshot.updates # shared.updates /\ app' = "second"
        /\ snapshot' = [snapshot EXCEPT !.pixels.first = shared.pixels.first]
     \/ app = "second" /\ app' = "updates"
        /\ snapshot' = [snapshot EXCEPT !.pixels.second = shared.pixels.second]
     \/ app = "updates" /\ app' = "unlock" /\ snapshot' = [snapshot EXCEPT !.updates = shared.updates]
  /\ UNCHANGED <<input, sample, screen, lock, shared, qemu, board, session, updates, frameAge, ticked, owed>>

\* The end of exchangeState draws what is new.
AppUnlocks ==
  /\ app = "unlock" /\ app' = "frame" /\ lock' = "free"
  /\ screen' = IF snapshot.updates = screen.updates THEN screen ELSE snapshot
  /\ UNCHANGED <<input, sample, snapshot, shared, qemu, board, session, updates, frameAge, ticked, owed>>

-----------------------------------------------------------------------------
(* The board's tick                                                           *)

\* Plausible bug: the tick does not care for the lock.
TickLocksAnyway ==
  /\ qemu = "tick" /\ ~ticked /\ qemu' = "down" /\ lock' = "qemu"
  /\ UNCHANGED <<input, app, sample, snapshot, screen, shared, board, session, updates, frameAge, ticked, owed>>

\* flock with LOCK_NB: the tick goes on with what the board has.
TickLocks ==
  /\ qemu = "tick" /\ ~ticked
  /\ IF lock = "free" THEN lock' = "qemu" /\ qemu' = "down" ELSE UNCHANGED lock /\ qemu' = "done"
  /\ UNCHANGED <<input, app, sample, snapshot, screen, shared, board, session, updates, frameAge, ticked, owed>>

TickReads ==
  /\ \/ qemu = "down" /\ qemu' = "x" /\ board' = [board EXCEPT !.down = shared.down]
     \/ qemu = "x" /\ qemu' = "y" /\ board' = [board EXCEPT !.x = shared.x]
     \/ qemu = "y" /\ qemu' = "pixels" /\ board' = [board EXCEPT !.y = shared.y]
  /\ UNCHANGED <<input, app, sample, snapshot, screen, lock, shared, session, updates, frameAge, ticked, owed>>

\* Plausible bug: the version is compared with the board's own and set before the pixels.
TickWritesFirst ==
  /\ \/ qemu = "pixels" /\ shared.updates = updates /\ qemu' = "unlock" /\ UNCHANGED shared
     \/ qemu = "pixels" /\ shared.updates # updates /\ qemu' = "unlock"
        /\ shared' = [shared EXCEPT !.updates = updates, !.pixels.first = Half(updates)]
  /\ UNCHANGED <<input, app, sample, snapshot, screen, lock, board, session, updates, frameAge, ticked, owed>>

TickWrites ==
  /\ \/ qemu = "pixels" /\ shared.updates = updates /\ qemu' = "unlock" /\ UNCHANGED shared
     \/ qemu = "pixels" /\ shared.updates # updates /\ qemu' = "second"
        /\ shared' = [shared EXCEPT !.pixels.first = Half(updates)]
     \/ qemu = "second" /\ qemu' = "updates" /\ shared' = [shared EXCEPT !.pixels.second = Half(updates)]
     \/ qemu = "updates" /\ qemu' = "unlock" /\ shared' = [shared EXCEPT !.updates = updates]
  /\ UNCHANGED <<input, app, sample, snapshot, screen, lock, board, session, updates, frameAge, ticked, owed>>

TickUnlocks ==
  /\ qemu = "unlock" /\ qemu' = "done" /\ lock' = "free"
  /\ UNCHANGED <<input, app, sample, snapshot, screen, shared, board, session, updates, frameAge, ticked, owed>>

\* The buttons' lines and cst820SetTouch.
TickDelivers ==
  /\ qemu = "done" /\ qemu' = "tick" /\ ticked' = TRUE
  /\ owed' = [c \in Controls |-> IF board.down[c] THEN Seen ELSE owed[c]]
  /\ UNCHANGED <<input, app, sample, snapshot, screen, lock, shared, board, session, updates, frameAge>>

\* The guest draws, never within a tick.
GuestDraws ==
  /\ qemu = "tick" /\ updates < MaxUpdates /\ updates' = updates + 1
  /\ UNCHANGED <<input, app, sample, snapshot, screen, lock, shared, qemu, board, session, frameAge, ticked, owed>>

\* QEMU exits, or is killed, at any point; its lock goes with it.
QemuDies ==
  /\ Alive /\ qemu' = "dead" /\ lock' = IF lock = "qemu" THEN "free" ELSE lock
  /\ UNCHANGED <<input, app, sample, snapshot, screen, shared, board, session, updates, frameAge, ticked, owed>>

Fresh(pixels) == [pixels |-> pixels, updates |-> 0]

\* Plausible bug: the version of the last picture is kept.
RestartKeeps ==
  /\ app = "frame" /\ ~Alive /\ session < MaxSessions /\ session' = session + 1
  /\ held' = Nobody /\ until' = [c \in Controls |-> 0] /\ dragging' = FALSE /\ at' = 0
  /\ shared' = [x |-> 0, y |-> 0, down |-> Nobody, pixels |-> Picture(0), updates |-> 0]
  /\ snapshot' = Fresh(Picture(0)) /\ screen' = [screen EXCEPT !.pixels = Picture(0)]
  /\ qemu' = "tick" /\ board' = [x |-> 0, y |-> 0, down |-> Nobody] /\ updates' = 0
  /\ owed' = [c \in Controls |-> Seen]
  /\ UNCHANGED <<app, sample, lock, frameAge, ticked>>

\* restart, once QemuProcess::stop has returned: resetInput, resetState and a new picture.
Restart ==
  /\ app = "frame" /\ ~Alive /\ session < MaxSessions /\ session' = session + 1
  /\ held' = Nobody /\ until' = [c \in Controls |-> 0] /\ dragging' = FALSE /\ at' = 0
  /\ shared' = [x |-> 0, y |-> 0, down |-> Nobody, pixels |-> Picture(0), updates |-> 0]
  /\ snapshot' = Fresh(Picture(0)) /\ screen' = Fresh(Picture(0))
  /\ qemu' = "tick" /\ board' = [x |-> 0, y |-> 0, down |-> Nobody] /\ updates' = 0
  /\ owed' = [c \in Controls |-> Seen]
  /\ UNCHANGED <<app, sample, lock, frameAge, ticked>>

\* A millisecond passes; what is done under the lock takes far less.
Elapse ==
  /\ app = "frame" /\ (Alive => qemu = "tick" /\ ticked) /\ frameAge < FramePeriod
  /\ frameAge' = frameAge + 1 /\ ticked' = FALSE
  /\ until' = [c \in Controls |-> IF until[c] > 0 THEN until[c] - 1 ELSE 0]
  /\ owed' = [c \in Controls |-> IF owed[c] # Seen /\ Alive THEN owed[c] + 1 ELSE owed[c]]
  /\ UNCHANGED <<held, dragging, at, app, sample, snapshot, screen, lock, shared, qemu, board, session, updates>>

Next ==
  \/ \E c \in Controls, p \in Points : Press(c, p)
  \/ \E c \in Controls : Release(c)
  \/ \E p \in Points : Drag(p)
  \/ \E p \in Points : DragOut(p)
  \/ FocusLost
  \/ Sample \/ AppLocks \/ AppWrites \/ AppReads \/ AppUnlocks
  \/ TickLocks \/ TickReads \/ TickWrites \/ TickUnlocks \/ TickDelivers
  \/ GuestDraws \/ QemuDies \/ Restart \/ Elapse

Spec == Init /\ [][Next]_vars

\* Both processes run, and so does the clock.
LiveSpec ==
  /\ Spec /\ WF_vars(Sample \/ AppLocks \/ AppWrites \/ AppReads \/ AppUnlocks)
  /\ WF_vars(TickLocks \/ TickReads \/ TickWrites \/ TickUnlocks \/ TickDelivers) /\ WF_vars(Elapse)

-----------------------------------------------------------------------------
(* Types of the state.                                                        *)
TypeOK ==
  /\ held \in [Controls -> BOOLEAN] /\ until \in [Controls -> 0..MinimumPress]
  /\ dragging \in BOOLEAN /\ at \in Points
  /\ app \in {"frame", "lock", "x", "y", "down", "pixels", "second", "updates", "unlock"}
  /\ qemu \in {"tick", "down", "x", "y", "pixels", "second", "updates", "unlock", "done", "dead"}
  /\ lock \in {"free", "app", "qemu"}
  /\ lock = "app" <=> app \notin {"frame", "lock"}
  /\ lock = "qemu" <=> qemu \notin {"tick", "done", "dead"}

(* What the board hands to the touch chip is a point the user touched, whole:  *)
(* the copy of one frame's sample, never of two (boardTick, exchangeShared).   *)
PointWhole == qemu \in {"tick", "done"} => board.x = board.y

(* The window shows the picture its version names: both halves of it, of the   *)
(* QEMU that runs now, and not of one that was drawn before a restart          *)
(* ("Publish it with the corresponding pixels while holding the lock").  A     *)
(* QEMU that dies in the middle of a copy is excepted, until the restart.      *)
PictureWhole == Alive => screen.pixels = Picture(screen.updates)

(* A press, however short, reaches the board within a frame and two ticks,     *)
(* unless the finger leaves the screen or the window loses the focus: "Short   *)
(* taps must survive a host frame" (Input.cpp:43).                             *)
TapReaches == Alive => \A c \in Controls : owed[c] <= FramePeriod + 2

(* The window catches up with the panel: the last picture is shown, however    *)
(* often a tick found the lock taken, unless QEMU dies.                        *)
PictureShown == []<>(screen = [pixels |-> Picture(updates), updates |-> updates] \/ ~Alive)

(* The two processes hand each other whole points and whole pictures, and no   *)
(* tap is too short to be seen, wherever one of them is held up or dies.       *)
MailboxSafety == TypeOK /\ PointWhole /\ PictureWhole /\ TapReaches
=============================================================================
