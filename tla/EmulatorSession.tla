-------------------------- MODULE EmulatorSession --------------------------
(* The application: the firmware that is open, the QEMU process that runs it, *)
(* and the recording of its screen and speaker.  The main thread handles one  *)
(* event at a time; QEMU runs, captures audio and exits on its own, and a     *)
(* worker thread writes a finished recording to its file.                     *)
(*                                                                            *)
(* Handlers call each other (opening restarts, restarting stops the recording *)
(* and the process), so each is an operator from a state record to the next;  *)
(* an exception is a choice of how far a handler gets.  QemuProcess models    *)
(* start() and stop() in their steps; here they are one step each.            *)
EXTENDS Naturals, Sequences, SequencesExt

CONSTANTS
  MaxSessions,    \* bound: QEMU processes started
  MaxRecordings,  \* bound: recordings started
  MaxMessages     \* bound: datagrams that wait in the recording socket

SessionAssumption == {MaxSessions, MaxRecordings, MaxMessages} \subseteq Nat \ {0}

VARIABLES
  app,      \* Application: options, files, the state of its recorder
  qemu,     \* the child, its capture voice and both directions of the socket
  worker,   \* VideoRecorder::_finishing
  history   \* recordings started and concluded, the audio of the present one, and whether the last stop went unsent

vars == <<app, qemu, worker, history>>

Statuses == {"Started", "Stopped", "Failed"}
Message == [kind : Statuses \cup {"Pcm"}, time : 0..MaxRecordings]
NoQemu == [state |-> "none", files |-> 0, voice |-> FALSE, commands |-> <<>>, messages |-> <<>>]

Init ==
  /\ app = [files |-> 0, opened |-> 0, persist |-> FALSE, audio |-> TRUE, running |-> FALSE, phase |-> "loop",
            recorder |-> "idle", withAudio |-> FALSE, stopping |-> FALSE, starting |-> FALSE, session |-> 0]
  /\ qemu = NoQemu
  /\ worker = "none"
  /\ history = [started |-> 0, concluded |-> 0, audio |-> {}, unsent |-> FALSE]

Now == [a |-> app, q |-> qemu, w |-> worker, h |-> history]
Becomes(s) == app' = s.a /\ qemu' = s.q /\ worker' = s.w /\ history' = s.h

\* The main thread is in its loop and not inside recordAudio(true).
Looping == app.phase = "loop" /\ ~app.starting

-----------------------------------------------------------------------------
(* Recording                                                                  *)

\* Plausible bug: packets from before the start are not told from later ones.
appendAudioAlways(s, time) == IF s.a.withAudio THEN s.h.audio \cup {time} ELSE s.h.audio

\* A packet carries the time it was captured; "time" is the recording of that time.
appendAudio(s, time) ==
  IF s.a.recorder = "active" /\ s.a.withAudio /\ time >= s.h.started THEN s.h.audio \cup {time} ELSE s.h.audio

\* The status that drainRecordedAudio() returns: the last of those that wait.
Status(s) ==
  LET statuses == SelectSeq(s.q.messages, LAMBDA m : m.kind \in Statuses)
  IN  IF statuses = <<>> THEN "none" ELSE Last(statuses).kind

\* drainRecordedAudio(): all that waits, or, when it throws, all but the last
\* "left": the encoder "cannot keep up" with a packet, or the socket fails.
drainUntil(s, left) ==
  LET taken == Len(s.q.messages) - left
      packets == {m \in Range(SubSeq(s.q.messages, 1, taken)) : m.kind = "Pcm"}
  IN  IF taken < 0 THEN s
      ELSE [s EXCEPT !.h.audio = @ \cup UNION {appendAudio(s, m.time) : m \in packets},
                     !.q.messages = SubSeq(@, taken + 1, Len(@))]

drain(s) == drainUntil(s, 0)

\* Plausible bug: the time of the stop is read and not taken away.
finishKeepsStop(s) == [s EXCEPT !.a.recorder = "idle", !.a.withAudio = FALSE, !.w = "writing", !.h.audio = {}]

\* The file is handed to the worker.
finish(s) ==
  [s EXCEPT !.a.recorder = "idle", !.a.stopping = FALSE, !.a.withAudio = FALSE, !.w = "writing", !.h.audio = {}]

\* A byte for QEMU, once all that waits has been read; a dead QEMU takes none.
Command(s, enabled) ==
  IF s.q.state = "running" THEN [s EXCEPT !.q.commands = Append(@, enabled), !.h.unsent = FALSE] ELSE s

\* How stopping goes: "told" unless recordAudio(false) throws, from its drain or its
\* send, QEMU alive or not; "left" is what remains when the drain after it throws too.
Stops == [told : {TRUE}, left : {0}] \cup [told : {FALSE}, left : 0..MaxMessages]
ToldStop == [told |-> TRUE, left |-> 0]

\* Plausible bug: no stop command is sent.
stopRecordingSilently(s, ending, stop) ==
  IF s.a.recorder # "active" THEN s
  ELSE IF ~ending /\ s.a.running /\ s.a.audio THEN [drain(s) EXCEPT !.a.stopping = TRUE]
  ELSE finish(drain(s))

\* A stop that is not heard ends the recording at once, and QEMU captures on.
stopRecording(s, ending, stop) ==
  LET asks == ~s.a.stopping /\ s.a.running /\ s.a.audio
      heard == asks /\ stop.told /\ s.q.state = "running"
      asked == IF heard THEN Command(drain(s), FALSE) ELSE [s EXCEPT !.h.unsent = @ \/ asks]
  IN  IF s.a.recorder # "active" THEN s
      ELSE IF ~ending /\ s.a.running /\ s.a.audio /\ (asks => heard) THEN [asked EXCEPT !.a.stopping = TRUE]
      ELSE finish(drainUntil(asked, stop.left))

\* toggleRecording, up to the wait for QEMU's acknowledgement.
ToggleStops(stop) == Looping /\ app.recorder = "active" /\ Becomes(stopRecording(Now, FALSE, stop))

\* "begun" is FALSE when the first frame, or what recordAudio(true) does before it waits, throws.
ToggleStarts(begun, stop) ==
  LET started == [Now EXCEPT !.a.recorder = "active", !.a.withAudio = app.audio, !.a.session = app.opened,
                             !.h.started = @ + 1, !.h.audio = {}]
      commanded == [Command(drain(started), TRUE) EXCEPT !.a.starting = TRUE]
  IN  /\ Looping /\ app.recorder = "idle" /\ app.running /\ worker = "none" /\ history.started < MaxRecordings
      /\ Becomes(CASE ~begun \/ (app.audio /\ qemu.state # "running") -> stopRecording(started, TRUE, stop)
                   [] app.audio -> commanded
                   [] OTHER     -> started)

\* recordAudio(true) polls the socket until QEMU answers or two seconds pass.
StartAnswered(stop) ==
  LET s == [drain(Now) EXCEPT !.a.starting = FALSE]
  IN  /\ app.starting /\ qemu.messages # <<>>
      /\ Becomes(CASE Status(Now) = "Started" -> s
                   [] Status(Now) = "Failed"  -> stopRecording(s, TRUE, stop)
                   [] OTHER                   -> drain(Now))

\* The two seconds pass, or a drain throws.
StartTimesOut(stop) == app.starting /\ Becomes(stopRecording([Now EXCEPT !.a.starting = FALSE], TRUE, stop))

\* Plausible bug: no limit to the wait.
PollStoppingWaits(expired) ==
  /\ app.phase \in {"loop", "saving"} /\ ~app.starting /\ app.stopping
  /\ Becomes(IF Status(Now) \in {"Stopped", "Failed"} \/ ~app.running THEN finish(drain(Now)) ELSE drain(Now))

\* pollRecording, its two halves; "expired" once two seconds have passed.
PollStopping(expired) ==
  LET status == Status(Now)
  IN  /\ app.phase \in {"loop", "saving"} /\ ~app.starting /\ app.stopping
      /\ Becomes(IF status \in {"Stopped", "Failed"} \/ ~app.running \/ expired
                 THEN finish(drain(Now)) ELSE drain(Now))

\* Its drain throws: the recording ends with what has been read, the stop having been sent.
PollFails(left) ==
  /\ app.phase \in {"loop", "saving"} /\ ~app.starting /\ app.stopping
  /\ Becomes(stopRecording(Now, TRUE, [told |-> FALSE, left |-> left]))

PollFinished ==
  /\ app.phase \in {"loop", "saving"} /\ ~app.starting /\ worker \in {"saved", "failed"}
  /\ LET s == [Now EXCEPT !.w = "none", !.h.concluded = @ + 1]
     IN  Becomes(IF worker = "saved" THEN s ELSE stopRecording(s, TRUE, ToldStop))

\* One frame of an active recording; the encoder or the socket may fail.
AppendFrame(ok, stop) ==
  /\ Looping /\ app.recorder = "active" /\ ~app.stopping
  /\ Becomes(IF ok THEN drain(Now) ELSE stopRecording(Now, TRUE, stop))

WorkerFinishes(outcome) == worker = "writing" /\ worker' = outcome /\ UNCHANGED <<app, qemu, history>>

-----------------------------------------------------------------------------
(* The session                                                                *)

stopQemu(s) == [s EXCEPT !.q = NoQemu, !.a.running = FALSE, !.h.unsent = FALSE]

\* The recording and then QEMU: whether the stop is heard makes no difference.
endSession(s) == stopQemu(stopRecording(s, TRUE, ToldStop))

\* "launched" is FALSE when the bridge, the shared state or the spawn fails.
restart(s, launched) ==
  LET stopped == endSession(s)
  IN  IF s.a.files = 0 THEN s
      ELSE IF ~launched THEN stopped
      ELSE [stopped EXCEPT !.a.running = TRUE, !.a.opened = @ + 1,
                           !.q = [NoQemu EXCEPT !.state = "running", !.files = s.a.files]]

CanLaunch == app.opened < MaxSessions

\* openFirmware; a BIN that cannot be prepared throws before anything is changed.
OpenFirmware(reuse, launched) ==
  LET ended == endSession(Now)
  IN  /\ Looping /\ CanLaunch /\ (reuse => app.files # 0) /\ app.files < MaxSessions
      /\ Becomes(restart(IF reuse THEN ended ELSE [ended EXCEPT !.a.files = @ + 1], launched))

Restart(launched) ==
  Looping /\ app.files # 0 /\ CanLaunch /\ Becomes(restart(Now, launched))

\* "prepared" is FALSE when the copy of the Flash fails: the old one runs on.
ChangePersistence(prepared, launched) ==
  LET s == [endSession(Now) EXCEPT !.a.files = @ + 1, !.a.persist = ~@]
  IN  /\ Looping /\ CanLaunch /\ app.files < MaxSessions
      /\ Becomes(CASE app.files = 0 -> [Now EXCEPT !.a.persist = ~@]
                   [] prepared      -> restart(s, launched)
                   [] OTHER         -> restart(endSession(Now), launched))

\* Sound and the settings that restart; a new device unloads.
ChangeSound(launched) ==
  Looping /\ CanLaunch /\ Becomes(restart([Now EXCEPT !.a.audio = ~@], launched))

Unload ==
  /\ Looping /\ app.files # 0
  /\ Becomes([endSession(Now) EXCEPT !.a.files = 0])

ExitNoticed ==
  /\ Looping /\ app.running /\ qemu.state = "exited"
  /\ Becomes(endSession([Now EXCEPT !.a.running = FALSE]))

Quit(stop) == Looping /\ Becomes([stopRecording(Now, FALSE, stop) EXCEPT !.a.phase = "saving"])

\* The loop that waits for the recording; a QEMU that exits ends the wait for it.
SavingNoticesExit ==
  /\ app.phase = "saving" /\ (app.stopping \/ worker # "none") /\ app.running /\ qemu.state = "exited"
  /\ Becomes([Now EXCEPT !.a.running = FALSE])

\* Plausible bug: the worker is not waited for.
LeaveEarly == app.phase = "saving" /\ ~app.stopping /\ Becomes([stopQemu(Now) EXCEPT !.a.phase = "done", !.w = "none"])

Leave ==
  app.phase = "saving" /\ ~app.stopping /\ worker = "none" /\ Becomes([stopQemu(Now) EXCEPT !.a.phase = "done"])

-----------------------------------------------------------------------------
(* QEMU: recording_capture.c                                                  *)

\* Plausible bug: what the socket does not take is kept for later.
SendKeeps(q, kind) == [q EXCEPT !.messages = Append(@, [kind |-> kind, time |-> history.started])]

Send(q, kind) ==
  IF Len(q.messages) < MaxMessages
  THEN [q EXCEPT !.messages = Append(@, [kind |-> kind, time |-> history.started])] ELSE q

\* A status that finds the socket full is lost.
captureCommand(ok) ==
  LET enabled == Head(qemu.commands)
      q == [qemu EXCEPT !.commands = Tail(@), !.voice = enabled /\ ok]
  IN  /\ qemu.state = "running" /\ qemu.commands # <<>>
      /\ qemu' = Send(q, IF ~enabled THEN "Stopped" ELSE IF ok THEN "Started" ELSE "Failed")
      /\ UNCHANGED <<app, worker, history>>

capturePcm ==
  /\ qemu.state = "running" /\ qemu.voice
  /\ qemu' = Send(qemu, "Pcm") /\ UNCHANGED <<app, worker, history>>

QemuExits ==
  /\ qemu.state = "running"
  /\ qemu' = [qemu EXCEPT !.state = "exited", !.voice = FALSE, !.commands = <<>>]
  /\ UNCHANGED <<app, worker, history>>

Next ==
  \/ (\E stop \in Stops : ToggleStops(stop) \/ StartAnswered(stop) \/ StartTimesOut(stop) \/ Quit(stop))
  \/ (\E b \in BOOLEAN, stop \in Stops : ToggleStarts(b, stop) \/ AppendFrame(b, stop))
  \/ (\E b \in BOOLEAN : PollStopping(b)) \/ (\E left \in 0..MaxMessages : PollFails(left)) \/ PollFinished
  \/ (\E r, b \in BOOLEAN : OpenFirmware(r, b)) \/ (\E b \in BOOLEAN : Restart(b))
  \/ (\E p, b \in BOOLEAN : ChangePersistence(p, b)) \/ (\E b \in BOOLEAN : ChangeSound(b))
  \/ Unload \/ ExitNoticed \/ SavingNoticesExit \/ Leave
  \/ (\E o \in {"saved", "failed"} : WorkerFinishes(o))
  \/ (\E b \in BOOLEAN : captureCommand(b)) \/ capturePcm \/ QemuExits

Spec == Init /\ [][Next]_vars

\* Frames follow one another, the worker's own deadlines pass, and so do the two
\* seconds given to QEMU.  Nothing is assumed of QEMU or of the user.
Fairness ==
  /\ WF_vars(\E stop \in Stops : StartTimesOut(stop)) /\ WF_vars(PollStopping(TRUE)) /\ WF_vars(PollFinished) /\ WF_vars(Leave)
  /\ WF_vars(WorkerFinishes("saved") \/ WorkerFinishes("failed"))

LiveSpec == Spec /\ Fairness

-----------------------------------------------------------------------------
TypeOK ==
  /\ app \in [files : 0..MaxSessions, opened : 0..MaxSessions, persist : BOOLEAN, audio : BOOLEAN,
              running : BOOLEAN, phase : {"loop", "saving", "done"}, recorder : {"idle", "active"},
              withAudio : BOOLEAN, stopping : BOOLEAN, starting : BOOLEAN, session : 0..MaxSessions]
  /\ qemu \in [state : {"none", "running", "exited"}, files : 0..MaxSessions, voice : BOOLEAN,
               commands : Seq(BOOLEAN), messages : Seq(Message)]
  /\ Len(qemu.messages) <= MaxMessages
  /\ worker \in {"none", "writing", "saved", "failed"}
  /\ history \in [started : 0..MaxRecordings, concluded : 0..MaxRecordings, audio : SUBSET (0..MaxRecordings), unsent : BOOLEAN]

\* QEMU runs on working files that still exist: RunFiles, which deletes its
\* directory and unlocks the save, never goes before the process that uses it.
FilesOutliveQemu == qemu.state # "none" => qemu.files = app.files /\ app.files # 0

\* A recording belongs to one QEMU process: it is not carried into the next one,
\* and the audio of another recording never gets into it.
RecordingOwnSession ==
  /\ app.recorder = "active" => app.session = app.opened
  /\ history.audio \subseteq {history.started}

\* The recorder has one owner: while the worker writes the old file there is no
\* new recording, and a stop that waits for QEMU has a recording to finish.
RecorderExclusive ==
  /\ app.recorder = "active" => worker = "none"
  /\ app.stopping \/ app.starting => app.recorder = "active"

\* Every recording that was started is saved or reported as failed, once.
NoRecordingLost ==
  history.started = history.concluded + (IF app.recorder = "active" THEN 1 ELSE 0) + (IF worker # "none" THEN 1 ELSE 0)

\* QEMU goes on capturing for a recording that is over only when stopRecording could
\* not send it the stop: otherwise every command to start, also one whose answer was
\* lost, late or given up, is followed by one to stop or by the end of the process,
\* and a stop that went unsent is made up for by that of the next recording.
CaptureStops ==
  (app.recorder = "idle" /\ qemu.state = "running" /\ ~history.unsent) =>
    IF qemu.commands = <<>> THEN ~qemu.voice ELSE ~Last(qemu.commands)

\* A stop that has been asked for ends, even if QEMU never acknowledges it.
StopEnds == app.stopping ~> ~app.stopping

\* Quitting ends, with the recording written.
QuitEnds == (app.phase = "saving") ~> (app.phase = "done")

\* The files, the QEMU process, the recorder and its worker follow one another
\* in the right order through every start, stop, exit and quit.
SessionSafety ==
  TypeOK /\ FilesOutliveQemu /\ RecordingOwnSession /\ RecorderExclusive /\ NoRecordingLost /\ CaptureStops

\* What was asked to stop, a recording or the program, stops.
SessionEnds == StopEnds /\ QuitEnds
=============================================================================
