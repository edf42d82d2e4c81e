----------------------------- MODULE FlashSave -----------------------------
(* Flash saves: several emulators, started by the user at will, on one set of *)
(* save files.  RunFiles' constructor is followed step by step, so that the   *)
(* others, and a crash, come between any two of them.                         *)
(*                                                                            *)
(* A Flash image is abstracted to the BIN it was made from and the number of  *)
(* guest writes since; a file holds a whole image, is torn, or is absent.     *)
EXTENDS Naturals, FiniteSets

CONSTANTS
  Emulators,     \* processes of the application
  Saves,         \* paths of save files
  Bins,          \* firmware images
  QemuSurvives,  \* whether QEMU runs on when the application is killed
  MaxWrites,     \* bound: guest writes to one image
  None

ASSUME SaveAssumption == QemuSurvives \in BOOLEAN /\ MaxWrites \in Nat /\ None \notin Emulators \cup Saves

VARIABLES
  save,     \* the save files
  lock,     \* flock on each save's lock file
  app,      \* the applications: the RunFiles in use and the ones being made
  orphans   \* saves that a QEMU without its application still writes

vars == <<save, lock, app, orphans>>

Absent == [state |-> "absent", bin |-> None, writes |-> 0]
Torn == [state |-> "torn", bin |-> None, writes |-> 0]
Whole(b, n) == [state |-> "whole", bin |-> b, writes |-> n]
Image == {Absent, Torn} \cup {Whole(b, n) : b \in Bins, n \in 0..MaxWrites}

\* RunFiles: _flashPath is a save or a file in a directory of its own.
NoFiles == [made |-> FALSE, save |-> None, own |-> Absent]
\* The RunFiles under construction: what for, on which save, from which image.
NoJob == [step |-> "none", change |-> FALSE, save |-> None, source |-> Absent, staged |-> Absent]
Dead == [alive |-> FALSE, files |-> NoFiles, qemu |-> FALSE, job |-> NoJob]

Init ==
  /\ save = [s \in Saves |-> Absent] /\ lock = [s \in Saves |-> None]
  /\ app = [e \in Emulators |-> Dead] /\ orphans = {}

\* The image QEMU runs on.
Flash(e) == IF app[e].files.save = None THEN app[e].files.own ELSE save[app[e].files.save]
Idle(e) == app[e].alive /\ app[e].job = NoJob

Start(e) == ~app[e].alive /\ app' = [app EXCEPT ![e].alive = TRUE] /\ UNCHANGED <<save, lock, orphans>>

-----------------------------------------------------------------------------
(* Opening a BIN and changing the persistence                                 *)

\* The save that is open already is used as it is; QEMU is started anew.
Reopen(e) ==
  /\ Idle(e) /\ app[e].files.made /\ app[e].files.save # None
  /\ \E launched \in BOOLEAN : app' = [app EXCEPT ![e].qemu = launched]
  /\ UNCHANGED <<save, lock, orphans>>

\* s = None: a temporary Flash.  The session that runs is left alone for now.
OpenFirmware(e, b, s) ==
  /\ Idle(e) /\ (s # None => app[e].files.save # s)
  /\ app' = [app EXCEPT ![e].job = [NoJob EXCEPT !.step = "lock", !.save = s, !.source = Whole(b, 0)]]
  /\ UNCHANGED <<save, lock, orphans>>

\* Plausible bug: QEMU runs on while its Flash is copied.
ChangePersistenceRunning(e, s) ==
  /\ Idle(e) /\ app[e].files.made /\ (s = None) # (app[e].files.save = None)
  /\ app' = [app EXCEPT ![e].job = [NoJob EXCEPT !.step = "lock", !.change = TRUE, !.save = s, !.source = Flash(e)]]
  /\ UNCHANGED <<save, lock, orphans>>

\* The other kind of Flash, from the present one; QEMU is stopped first.
ChangePersistence(e, s) ==
  /\ Idle(e) /\ app[e].files.made /\ (s = None) # (app[e].files.save = None)
  /\ app' = [app EXCEPT ![e].qemu = FALSE,
                        ![e].job = [NoJob EXCEPT !.step = "lock", !.change = TRUE, !.save = s, !.source = Flash(e)]]
  /\ UNCHANGED <<save, lock, orphans>>

-----------------------------------------------------------------------------
(* RunFiles::RunFiles                                                         *)

\* Plausible bug: the result of flock is not looked at.
LockSaveAnyway(e) ==
  /\ app[e].job.step = "lock" /\ app[e].job.save # None
  /\ lock' = [lock EXCEPT ![app[e].job.save] = e]
  /\ app' = [app EXCEPT ![e].job.step = "locked"] /\ UNCHANGED <<save, orphans>>

LockSave(e) ==
  /\ app[e].job.step = "lock" /\ app[e].job.save # None
  /\ lock[app[e].job.save] = None
  /\ lock' = [lock EXCEPT ![app[e].job.save] = e]
  /\ app' = [app EXCEPT ![e].job.step = "locked"] /\ UNCHANGED <<save, orphans>>

\* Plausible bug: a save that is not there is not made.
UseSaveUnseen(e) ==
  /\ app[e].job.step = "locked" /\ ~app[e].job.change
  /\ app' = [app EXCEPT ![e].job.step = "ready"] /\ UNCHANGED <<save, lock, orphans>>

\* The save is there and not to be replaced: it is validated and used.
UseSave(e) ==
  /\ app[e].job.step = "locked" /\ ~app[e].job.change /\ save[app[e].job.save] # Absent
  /\ app' = [app EXCEPT ![e].job.step = "ready"] /\ UNCHANGED <<save, lock, orphans>>

\* Plausible bug: a save that is there is made again.
StageSaveAlways(e) ==
  /\ app[e].job.step = "locked"
  /\ app' = [app EXCEPT ![e].job.step = "staging", ![e].job.staged = Torn] /\ UNCHANGED <<save, lock, orphans>>

\* replaceFlash: a temporary file is created, written, and renamed over the save.
StageSave(e) ==
  /\ app[e].job.step = "locked" /\ (app[e].job.change \/ save[app[e].job.save] = Absent)
  /\ app' = [app EXCEPT ![e].job.step = "staging", ![e].job.staged = Torn] /\ UNCHANGED <<save, lock, orphans>>

\* Plausible bug: the save itself is written.
WriteStagedInPlace(e) ==
  /\ app[e].job.step = "staging"
  /\ save' = [save EXCEPT ![app[e].job.save] = Torn]
  /\ app' = [app EXCEPT ![e].job.step = "staged", ![e].job.staged = app[e].job.source] /\ UNCHANGED <<lock, orphans>>

WriteStaged(e) ==
  /\ app[e].job.step = "staging"
  /\ app' = [app EXCEPT ![e].job.step = "staged", ![e].job.staged = app[e].job.source]
  /\ UNCHANGED <<save, lock, orphans>>

RenameStaged(e) ==
  /\ app[e].job.step = "staged"
  /\ save' = [save EXCEPT ![app[e].job.save] = app[e].job.staged]
  /\ app' = [app EXCEPT ![e].job.step = "ready", ![e].job.staged = Absent] /\ UNCHANGED <<lock, orphans>>

\* A temporary Flash is written into the directory of the run.
WriteTemporary(e) ==
  /\ app[e].job.step = "lock" /\ app[e].job.save = None
  /\ app' = [app EXCEPT ![e].job.step = "ready", ![e].job.staged = app[e].job.source] /\ UNCHANGED <<save, lock, orphans>>

Release(l, e, s) == IF s # None /\ l[s] = e THEN [l EXCEPT ![s] = None] ELSE l

\* An exception: the staged file, the directory and the lock go with the object.
\* A failed open changes nothing, a failed change starts QEMU again.
MakeFails(e) ==
  /\ app[e].job.step \notin {"none", "ready"}
  /\ lock' = IF app[e].job.step = "lock" THEN lock ELSE Release(lock, e, app[e].job.save)
  /\ \E launched \in BOOLEAN :
       app' = [app EXCEPT ![e].job = NoJob, ![e].qemu = IF app[e].job.change THEN launched ELSE @]
  /\ UNCHANGED <<save, orphans>>

\* Plausible bug: the old lock is kept when the files are replaced.
UseFilesKeepsLock(e) ==
  /\ app[e].job.step = "ready"
  /\ \E launched \in BOOLEAN :
       app' = [app EXCEPT ![e].files = [made |-> TRUE, save |-> app[e].job.save, own |-> app[e].job.staged],
                          ![e].qemu = launched, ![e].job = NoJob]
  /\ UNCHANGED <<save, lock, orphans>>

\* The session ends, the old RunFiles are destroyed and QEMU starts on the new.
UseFiles(e) ==
  /\ app[e].job.step = "ready"
  /\ lock' = Release(lock, e, app[e].files.save)
  /\ \E launched \in BOOLEAN :
       app' = [app EXCEPT ![e].files = [made |-> TRUE, save |-> app[e].job.save, own |-> app[e].job.staged],
                          ![e].qemu = launched, ![e].job = NoJob]
  /\ UNCHANGED <<save, orphans>>

Unload(e) ==
  /\ Idle(e) /\ app[e].files.made
  /\ lock' = Release(lock, e, app[e].files.save)
  /\ app' = [app EXCEPT ![e].files = NoFiles, ![e].qemu = FALSE] /\ UNCHANGED <<save, orphans>>

-----------------------------------------------------------------------------
(* The guest, and a crash                                                     *)

Written(i) == [i EXCEPT !.writes = @ + 1]

GuestWrites(e) ==
  /\ app[e].qemu /\ Flash(e).writes < MaxWrites
  /\ IF app[e].files.save = None
     THEN app' = [app EXCEPT ![e].files.own = Written(@)] /\ UNCHANGED save
     ELSE save' = [save EXCEPT ![app[e].files.save] = Written(@)] /\ UNCHANGED app
  /\ UNCHANGED <<lock, orphans>>

OrphanWrites(s) ==
  /\ s \in orphans /\ save[s].state = "whole" /\ save[s].writes < MaxWrites
  /\ save' = [save EXCEPT ![s] = Written(@)] /\ UNCHANGED <<lock, app, orphans>>

OrphanExits(s) == s \in orphans /\ orphans' = orphans \ {s} /\ UNCHANGED <<save, lock, app>>

\* The system drops the locks of a process that dies; its QEMU, which does not
\* share them (O_CLOEXEC), may live on.
Crash(e) ==
  /\ app[e].alive
  /\ app' = [app EXCEPT ![e] = Dead]
  /\ lock' = [s \in Saves |-> IF lock[s] = e THEN None ELSE lock[s]]
  /\ orphans' = IF QemuSurvives /\ app[e].qemu /\ app[e].files.save # None
                THEN orphans \cup {app[e].files.save} ELSE orphans
  /\ UNCHANGED save

Next ==
  \/ \E e \in Emulators : Start(e)
  \/ \E e \in Emulators : Reopen(e)
  \/ \E e \in Emulators, b \in Bins, s \in Saves \cup {None} : OpenFirmware(e, b, s)
  \/ \E e \in Emulators, s \in Saves \cup {None} : ChangePersistence(e, s)
  \/ \E e \in Emulators : LockSave(e)
  \/ \E e \in Emulators : UseSave(e)
  \/ \E e \in Emulators : StageSave(e)
  \/ \E e \in Emulators : WriteStaged(e)
  \/ \E e \in Emulators : RenameStaged(e)
  \/ \E e \in Emulators : WriteTemporary(e)
  \/ \E e \in Emulators : MakeFails(e)
  \/ \E e \in Emulators : UseFiles(e)
  \/ \E e \in Emulators : Unload(e)
  \/ \E e \in Emulators : GuestWrites(e)
  \/ \E s \in Saves : OrphanWrites(s)
  \/ \E s \in Saves : OrphanExits(s)
  \/ \E e \in Emulators : Crash(e)

Spec == Init /\ [][Next]_vars

-----------------------------------------------------------------------------
Files == [made : BOOLEAN, save : Saves \cup {None}, own : Image]
Steps == {"none", "lock", "locked", "staging", "staged", "ready"}
Job == [step : Steps, change : BOOLEAN, save : Saves \cup {None}, source : Image, staged : Image]

TypeOK ==
  /\ save \in [Saves -> Image]
  /\ lock \in [Saves -> Emulators \cup {None}]
  /\ app \in [Emulators -> [alive : BOOLEAN, files : Files, qemu : BOOLEAN, job : Job]]
  /\ orphans \subseteq Saves

\* A crash or an error at any step of RunFiles leaves a save whole or absent.
SaveWhole == \A s \in Saves : save[s] # Torn

\* The save an application uses, or is making, is locked by it and by no other,
\* and a lock that nobody uses is not left behind to refuse the next open.
Uses(e, s) == app[e].files.save = s \/ (app[e].job.save = s /\ app[e].job.step \notin {"none", "lock"})
LocksExact == \A s \in Saves, e \in Emulators : lock[s] = e <=> Uses(e, s)

\* A save's Flash is written by one QEMU at a time ("persistent Flash is
\* already in use" is what a second one is told).
Runs(e, s) == app[e].qemu /\ app[e].files.save = s
SingleWriter ==
  \A s \in Saves : Cardinality({e \in Emulators : Runs(e, s)}) + (IF s \in orphans THEN 1 ELSE 0) <= 1

\* When persistence changes, the new Flash holds all the guest has written: the
\* image that was copied is the one the session ended with.
CopyIsCurrent == \A e \in Emulators : app[e].job.change => app[e].job.source = Flash(e)

\* "The existing save is used without reinitializing it from the BIN": a save
\* that is there only changes by its guest's writes, and is replaced only by the
\* user's own change of persistence.
SaveKept ==
  [][\A s \in Saves : (save[s] # Absent /\ save'[s] # save[s]) =>
       \/ save'[s] = Written(save[s]) /\ (s \in orphans \/ \E e \in Emulators : Runs(e, s))
       \/ \E e \in Emulators : app[e].job.change /\ app[e].job.save = s /\ lock[s] = e]_vars

\* Whatever crashes: a save is whole, and locked by whoever uses it.
SaveSafety == TypeOK /\ SaveWhole /\ LocksExact

\* Where no QEMU outlives its application, each save has one writer, and a copy
\* of it is what the guest last wrote.
SealedSafety == ~QemuSurvives => SingleWriter /\ CopyIsCurrent
=============================================================================
