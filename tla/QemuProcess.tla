---------------------------- MODULE QemuProcess ----------------------------
(* The emulator's QEMU child: how it is started, watched, asked to stop and,  *)
(* when it does not, killed; the descriptors that belong to it; and the way   *)
(* its console output is cut into lines and forwarded.                        *)
(*                                                                            *)
(* The caller is the main thread, so the steps of start() and stop() follow   *)
(* one another; the child runs, writes and exits between any two of them.     *)
(* A character is "c" (text), "L" (a whole LED state report) or "\n".         *)
EXTENDS Naturals, Sequences

CONSTANTS
  MaxChildren,             \* bound: children started
  MaxOutput,               \* bound: characters a child writes
  ShutdownPollCount,       \* 50 in the source
  MaxOutputReadsPerFrame,  \* 16
  ReadSize,                \* 4096, also the longest line that is held back
  PipeCapacity             \* what a pipe holds

ASSUME ProcessAssumption ==
  /\ {MaxChildren, ShutdownPollCount, MaxOutputReadsPerFrame, ReadSize, PipeCapacity} \subseteq Nat \ {0}
  /\ MaxOutput \in Nat
  /\ ReadSize > 1    \* an LED report is shorter than a buffer
  /\ PipeCapacity <= MaxOutputReadsPerFrame * ReadSize

VARIABLES
  pid,          \* _pid, 0 for -1
  child,        \* what the operating system knows of each child
  fds,          \* descriptors this process holds open
  pc, polls,    \* the step of start() or stop() that comes next
  pipe,         \* characters in the output pipe
  outputLine, outputPassthrough,
  written, forwarded   \* history: what the present child wrote, and std::cout got of it

vars == <<pid, child, fds, pc, polls, pipe, outputLine, outputPassthrough, written, forwarded>>
process == <<pid, child, fds, pc, polls>>
output == <<pipe, outputLine, outputPassthrough, written, forwarded>>

Children == 1..MaxChildren
Fds == {"recording0", "recording1", "console0", "console1", "output0", "output1"}
Alive(c) == child[c] \in {"running", "terminating"}

Init ==
  /\ pid = 0 /\ child = [c \in Children |-> "none"] /\ fds = {} /\ pc = "idle" /\ polls = 0
  /\ pipe = <<>> /\ outputLine = <<>> /\ outputPassthrough = FALSE /\ written = <<>> /\ forwarded = <<>>

-----------------------------------------------------------------------------
(* Output                                                                     *)

isLedStateLine(line) == line \in {<<"L">>, <<"L", "\n">>}
forwardLine(line) == IF isLedStateLine(line) THEN <<>> ELSE line

\* The state of the splitter: pipe p, held line l, passthrough t, printed o.
Splitter == [p |-> pipe, l |-> outputLine, t |-> outputPassthrough, o |-> forwarded]

\* One character that has been read, moved from the line to the output when it ends it.
Character(s, ch) ==
  LET line == Append(s.l, ch)
  IN  IF ch # "\n" THEN [s EXCEPT !.l = line]
      ELSE [s EXCEPT !.l = <<>>, !.t = FALSE, !.o = @ \o (IF s.t THEN line ELSE forwardLine(line))]

\* Plausible bug: a long line is printed but the rest of it is still filtered.
HeldTooLongFiltered(s) ==
  IF Len(s.l) < ReadSize THEN s ELSE [s EXCEPT !.o = @ \o s.l, !.l = <<>>]

HeldTooLong(s) ==
  IF ~s.t /\ Len(s.l) < ReadSize THEN s ELSE [s EXCEPT !.o = @ \o s.l, !.l = <<>>, !.t = TRUE]

\* The state after n characters of the pipe.
Characters(s, n) ==
  LET read[k \in 0..n] == IF k = 0 THEN s ELSE Character(read[k - 1], s.p[k])
  IN  [read[n] EXCEPT !.p = SubSeq(@, n + 1, Len(@))]

Read(s) ==
  LET n == IF Len(s.p) < ReadSize THEN Len(s.p) ELSE ReadSize
  IN  IF n = 0 THEN s ELSE HeldTooLong(Characters(s, n))

drainOutput(s) ==
  LET reads[k \in 0..MaxOutputReadsPerFrame] == IF k = 0 THEN s ELSE Read(reads[k - 1])
  IN  reads[MaxOutputReadsPerFrame]

Splits(s) ==
  pipe' = s.p /\ outputLine' = s.l /\ outputPassthrough' = s.t /\ forwarded' = s.o

\* Output goes to the output pipe for as long as its reading end is open.
ChildWrites(ch) ==
  /\ pid # 0 /\ Alive(pid) /\ "output0" \in fds /\ Len(pipe) < PipeCapacity /\ Len(written) < MaxOutput
  /\ pipe' = Append(pipe, ch) /\ written' = Append(written, ch)
  /\ UNCHANGED <<process, outputLine, outputPassthrough, forwarded>>

-----------------------------------------------------------------------------
(* start() and exited()                                                       *)

Open(d) == fds' = fds \cup d

\* start() throws: the descriptors opened so far stay open until stop().
StartFails(opened) ==
  /\ pc = "idle" /\ fds = {} /\ pid = 0
  /\ Open(opened) /\ pc' = "failed" /\ UNCHANGED <<pid, child, polls, output>>

Start ==
  /\ pc = "idle" /\ fds = {} /\ pid = 0
  /\ \E c \in Children :
       /\ child[c] = "none" /\ \A b \in 1..(c - 1) : child[b] # "none"
       /\ child' = [child EXCEPT ![c] = "running"] /\ pid' = c
  /\ Open({"recording0", "console1", "output0"})
  /\ pipe' = <<>> /\ written' = <<>> /\ forwarded' = <<>>
  /\ UNCHANGED <<pc, polls, outputLine, outputPassthrough>>

ChildExits(c) ==
  Alive(c) /\ child' = [child EXCEPT ![c] = "zombie"] /\ UNCHANGED <<pid, fds, pc, polls, output>>

Reap(c) == child' = [child EXCEPT ![c] = "reaped"]

\* Plausible bug: the number of a child that has been waited for is kept.
ExitedKeepsPid ==
  /\ pc = "idle" /\ Splits(drainOutput(Splitter)) /\ UNCHANGED <<fds, polls, written>>
  /\ IF pid # 0 /\ child[pid] = "zombie"
     THEN Reap(pid) /\ pc' = "stop" /\ UNCHANGED pid
     ELSE UNCHANGED <<pid, child, pc>>

\* exited(), called in every frame; the application answers TRUE with stop().
Exited ==
  /\ pc = "idle" /\ Splits(drainOutput(Splitter)) /\ UNCHANGED <<fds, polls, written>>
  /\ IF pid # 0 /\ child[pid] = "zombie"
     THEN Reap(pid) /\ pid' = 0 /\ pc' = "stop"
     ELSE UNCHANGED <<pid, child, pc>>

-----------------------------------------------------------------------------
(* stop()                                                                     *)

\* A child that gets SIGTERM may take its time or ignore it; SIGKILL ends it.
Signalled(sig) == 
  IF pid = 0 \/ ~Alive(pid) THEN child
  ELSE [child EXCEPT ![pid] = IF sig = "KILL" THEN "zombie" ELSE "terminating"]

StopBegins ==
  /\ pc \in {"idle", "failed", "stop"}
  /\ child' = Signalled("TERM") /\ fds' = fds \ {"console0", "console1"}
  /\ polls' = 0 /\ pc' = IF pid # 0 THEN "poll" ELSE "close"
  /\ UNCHANGED <<pid, output>>

\* Plausible bug: one poll too many.
StopPollsOnce ==
  /\ pc = "poll" /\ polls <= ShutdownPollCount /\ polls' = polls + 1
  /\ UNCHANGED <<pid, child, fds, pc, output>>

StopPolls ==
  /\ pc = "poll" /\ polls < ShutdownPollCount
  /\ Splits(drainOutput(Splitter)) /\ UNCHANGED <<fds, written>>
  /\ IF child[pid] = "zombie"
     THEN Reap(pid) /\ pid' = 0 /\ pc' = "close" /\ UNCHANGED polls
     ELSE polls' = polls + 1 /\ UNCHANGED <<pid, child, pc>>

\* Plausible bug: it is waited for without being killed.
StopWaits ==
  /\ pc = "poll" /\ polls = ShutdownPollCount
  /\ pc' = "wait" /\ UNCHANGED <<pid, fds, polls, child, output>>

\* Plausible bug: a child that does not obey is left alone.
StopGivesUp ==
  /\ pc = "poll" /\ polls = ShutdownPollCount
  /\ pid' = 0 /\ pc' = "close" /\ UNCHANGED <<child, fds, polls, output>>

StopKills ==
  /\ pc = "poll" /\ polls = ShutdownPollCount
  /\ child' = Signalled("KILL") /\ pc' = "wait" /\ UNCHANGED <<pid, fds, polls, output>>

\* waitpid without WNOHANG blocks until the child is gone.
StopReaps ==
  /\ pc = "wait" /\ child[pid] = "zombie"
  /\ Reap(pid) /\ pid' = 0 /\ pc' = "close" /\ UNCHANGED <<fds, polls, output>>

\* Plausible bug: the host's end of the recording socket stays open.
StopKeepsRecording ==
  /\ pc = "close" /\ pc' = "idle" /\ fds' = fds \ {"output0", "output1"}
  /\ UNCHANGED <<pid, child, polls, output>>

\* Plausible bug: the pipe is closed without a last look at it.
StopClosesUndrained ==
  /\ pc = "close" /\ pc' = "idle" /\ fds' = {}
  /\ forwarded' = forwarded \o (IF outputPassthrough THEN outputLine ELSE forwardLine(outputLine))
  /\ outputLine' = <<>> /\ outputPassthrough' = FALSE /\ UNCHANGED <<pid, child, polls, pipe, written>>

StopCloses ==
  LET s == drainOutput(Splitter)
  IN  /\ pc = "close" /\ pc' = "idle" /\ fds' = {}
      /\ forwarded' = s.o \o (IF s.t THEN s.l ELSE forwardLine(s.l))
      /\ pipe' = s.p /\ outputLine' = <<>> /\ outputPassthrough' = FALSE
      /\ UNCHANGED <<pid, child, polls, written>>

Next ==
  \/ Start \/ (\E opened \in {{}, {"recording0", "recording1"}, Fds} : StartFails(opened))
  \/ Exited \/ StopBegins \/ StopPolls \/ StopKills \/ StopReaps \/ StopCloses
  \/ (\E ch \in {"c", "L", "\n"} : ChildWrites(ch)) \/ (\E c \in Children : ChildExits(c))

Spec == Init /\ [][Next]_vars

\* stop() runs to its end once it has begun.
Fairness == WF_vars(StopPolls) /\ WF_vars(StopKills) /\ WF_vars(StopReaps) /\ WF_vars(StopCloses)

LiveSpec == Spec /\ Fairness

-----------------------------------------------------------------------------
TypeOK ==
  /\ pid \in 0..MaxChildren /\ fds \subseteq Fds /\ polls \in 0..ShutdownPollCount
  /\ child \in [Children -> {"none", "running", "terminating", "zombie", "reaped"}]
  /\ pc \in {"idle", "failed", "stop", "poll", "wait", "close"}
  /\ outputPassthrough \in BOOLEAN
  /\ {pipe, outputLine, written, forwarded} \subseteq Seq({"c", "L", "\n"})

\* Signals go to a child that has not been waited for, whose number cannot have
\* been given to another process: _pid never outlives the wait.
SignalsOwnChild == pid # 0 => child[pid] \notin {"none", "reaped"}

\* No child is forgotten: every one that runs or is a zombie is the one in _pid,
\* so at most one QEMU runs and stop() leaves none behind.
NoStrayChild == \A c \in Children : child[c] \notin {"none", "reaped"} => c = pid

\* A start finds no descriptors of the run before: they are closed by the stop()
\* that also follows a start that failed half way.
DescriptorsClosed == (pc = "idle" /\ pid = 0) => fds = {}

\* The child is the application's to signal, none is left behind, and its
\* descriptors go with it.
ChildSafety == SignalsOwnChild /\ NoStrayChild /\ DescriptorsClosed

\* The reference for the forwarded text: the text cut into lines, without the
\* lines that are LED reports.
LineOf(s, k) ==
  {j \in 1..Len(s) : (\A i \in k..(j - 1) : s[i] # "\n") /\ (\A i \in j..(k - 1) : s[i] # "\n")}
Reported(s, k) ==
  /\ s[k] \in {"L", "\n"} /\ \A j \in LineOf(s, k) : s[j] # "c"
  /\ \E j \in LineOf(s, k) : s[j] = "L" /\ \A i \in LineOf(s, k) \ {j} : s[i] # "L"
Kept(s) ==
  LET kept[k \in 0..Len(s)] ==
        IF k = 0 THEN <<>> ELSE IF Reported(s, k) THEN kept[k - 1] ELSE Append(kept[k - 1], s[k])
  IN  kept[Len(s)]

\* When the child's output is closed, all it wrote has been printed once and in
\* order, except the LED reports, however it was cut by reads and long lines.
OutputForwarded == (pc = "idle" /\ pid = 0) => forwarded = Kept(written)

\* stop() returns, with the child gone, whether or not it obeys SIGTERM.
StopReturns == (pc # "idle" /\ pc # "failed" /\ pc # "stop") ~> (pc = "idle" /\ pid = 0)
=============================================================================
