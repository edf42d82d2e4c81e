------------------------------ MODULE FrontendProofs ------------------------------
(***************************************************************************)
(* The host application, for any values of Frontend's parameters.          *)
(*                                                                         *)
(* Flash saves, for any number of emulators, saves and images: locks, the  *)
(* wholeness of a save, and what may change one; and when a QEMU dies with *)
(* its application, that a save has one writer.  The session, for any      *)
(* number of starts, recordings and messages: files, QEMU and recorder in  *)
(* order.  The shared state file, for any controls, points and times:      *)
(* what each side reads is whole, and no tap is lost.  The ATT client, for *)
(* any requests, sizes and MTUs: one transaction, values whole, PDUs that  *)
(* fit.                                                                    *)
(***************************************************************************)
EXTENDS Frontend, FiniteSetTheorems, SequenceTheorems, TLAPS

App == [alive : BOOLEAN, files : Files, qemu : BOOLEAN, job : Job]

\* What an application runs on is there, and whole.
FilesSound(e) ==
  LET f == app[e].files IN
  /\ f.own # Torn /\ (app[e].qemu => f.made)
  /\ f.made /\ f.save = None => f.own # Absent
  /\ f.save # None => f.made /\ save[f.save] # Absent

\* A job works on another file than the one in use, from a whole image.
JobSound(e) ==
  LET j == app[e].job IN
  /\ j.step = "none" => j = NoJob
  /\ j.step # "none" => j.source \notin {Torn, Absent} /\ (j.save # None => j.save # app[e].files.save)
  /\ j.change => app[e].files.made
  /\ j.step \in {"lock", "locked"} => j.staged = Absent
  /\ j.step \in {"locked", "staging", "staged"} => j.save # None
  /\ j.step = "staged" => j.staged \notin {Torn, Absent}
  /\ j.step = "ready" => j.staged # Torn /\ (IF j.save = None THEN j.staged # Absent ELSE save[j.save] # Absent)

\* A save that was found absent stays so until it is made.
StagedAbsent(e) ==
  app[e].job.step \in {"staging", "staged"} => app[e].job.change \/ save[app[e].job.save] = Absent

Sound(e) == FilesSound(e) /\ JobSound(e) /\ StagedAbsent(e)

SaveInv == TypeOK /\ SaveWhole /\ LocksExact /\ \A e \in Emulators : Sound(e)

-----------------------------------------------------------------------------
LEMMA Images ==
  /\ Absent \in Image /\ Torn \in Image /\ Absent # Torn
  /\ \A b \in Bins : Whole(b, 0) \in Image /\ Whole(b, 0) # Torn /\ Whole(b, 0) # Absent
  BY SaveAssumption DEF Image, Absent, Torn, Whole

LEMMA Nones == NoFiles \in Files /\ NoJob \in Job /\ Dead \in App
  BY Images DEF NoFiles, NoJob, Files, Job, Steps, Dead, App

LEMMA WrittenWhole ==
  ASSUME NEW i \in Image, i # Torn, i.writes < MaxWrites, i # Absent
  PROVE  Written(i) \in Image /\ Written(i) # Torn /\ Written(i) # Absent
<1>1. PICK b \in Bins, n \in 0..MaxWrites : i = Whole(b, n)
  BY DEF Image
<1>2. Written(i) = Whole(b, n + 1) /\ n + 1 \in 0..MaxWrites
  BY <1>1, SaveAssumption DEF Whole, Written
<1> QED
  BY <1>2 DEF Image, Whole, Torn, Absent

(* Nobody else uses a save that is locked.                                 *)
LEMMA LockedByOne ==
  ASSUME SaveInv, NEW e \in Emulators, NEW d \in Emulators, NEW s \in Saves, Uses(e, s), Uses(d, s)
  PROVE  d = e
  BY DEF SaveInv, LocksExact

(* The image an application runs on.                                       *)
LEMMA FlashWhole ==
  ASSUME SaveInv, NEW e \in Emulators, app[e].files.made
  PROVE  Flash(e) \in Image \ {Torn, Absent}
<1>1. app[e].files \in Files /\ FilesSound(e)
  BY DEF SaveInv, TypeOK, Sound
<1> QED
  BY <1>1 DEF SaveInv, TypeOK, SaveWhole, FilesSound, Flash, Files

-----------------------------------------------------------------------------
(* A step of one application, on saves and locks that are its own, or on   *)
(* saves that are there, keeps the others sound.                           *)
LEMMA Stepped ==
  ASSUME SaveInv, NEW e \in Emulators,
         app' \in [Emulators -> App], \A d \in Emulators \ {e} : app'[d] = app[d],
         save' \in [Saves -> Image], lock' \in [Saves -> Emulators \cup {None}], orphans' \subseteq Saves,
         \A s \in Saves : /\ save'[s] # Torn /\ (save[s] # Absent => save'[s] # Absent)
                          /\ save'[s] # save[s] => lock[s] = e \/ save[s] # Absent
                          /\ lock'[s] = e <=> Uses(e, s)'
                          /\ lock'[s] # lock[s] => {lock[s], lock'[s]} \subseteq {e, None},
         Sound(e)'
  PROVE  SaveInv'
<1>1. TypeOK' /\ SaveWhole'
  BY DEF TypeOK, App, SaveWhole
<1>2. LocksExact'
  <2> SUFFICES ASSUME NEW s \in Saves, NEW d \in Emulators PROVE (lock'[s] = d <=> Uses(d, s)')
    BY DEF LocksExact
  <2>1. CASE d = e
    BY <2>1
  <2>2. CASE d # e
    <3>1. Uses(d, s)' <=> Uses(d, s)
      BY <2>2 DEF Uses
    <3>2. lock'[s] = d <=> lock[s] = d
      BY <2>2, SaveAssumption
    <3> QED
      BY <3>1, <3>2 DEF SaveInv, LocksExact
  <2> QED
    BY <2>1, <2>2
<1>3. ASSUME NEW d \in Emulators \ {e} PROVE Sound(d)'
  <2>1. app'[d] = app[d] /\ Sound(d) /\ app[d].files \in Files /\ app[d].job \in Job
    BY DEF SaveInv, TypeOK
  <2>2. FilesSound(d)'
    BY <2>1 DEF Sound, FilesSound, Files
  <2>3. JobSound(d)'
    BY <2>1 DEF Sound, JobSound, Job
  <2>4. StagedAbsent(d)'
    <3> SUFFICES ASSUME app[d].job.step \in {"staging", "staged"}, ~app[d].job.change
                 PROVE  save'[app[d].job.save] = Absent
      BY <2>1 DEF StagedAbsent
    <3> DEFINE s == app[d].job.save
    <3>1. s \in Saves /\ save[s] = Absent
      BY <2>1 DEF Sound, JobSound, StagedAbsent, Job
    <3>2. lock[s] = d
      BY <3>1 DEF SaveInv, LocksExact, Uses
    <3> QED
      BY <3>1, <3>2
  <2> QED
    BY <2>2, <2>3, <2>4 DEF Sound
<1> QED
  BY <1>1, <1>2, <1>3 DEF SaveInv

(* A step of one application that only changes that application.           *)
LEMMA Private ==
  ASSUME SaveInv, NEW e \in Emulators, NEW a \in App, app' = [app EXCEPT ![e] = a],
         UNCHANGED <<save, lock, orphans>>, \A s \in Saves : Uses(e, s)' <=> Uses(e, s), Sound(e)'
  PROVE  SaveInv'
<1>1. app' \in [Emulators -> App] /\ \A d \in Emulators \ {e} : app'[d] = app[d]
  BY DEF SaveInv, TypeOK, App
<1>2. \A s \in Saves : /\ save'[s] # Torn /\ (save[s] # Absent => save'[s] # Absent) /\ save'[s] = save[s]
                       /\ (lock'[s] = e <=> Uses(e, s)') /\ lock'[s] = lock[s]
  BY DEF SaveInv, SaveWhole, LocksExact
<1>3. save' \in [Saves -> Image] /\ lock' \in [Saves -> Emulators \cup {None}] /\ orphans' \subseteq Saves
  BY DEF SaveInv, TypeOK
<1> QED
  BY <1>1, <1>2, <1>3, Stepped

\* An application as SaveInv has it, and as a step leaves it.
LEMMA OneApp ==
  ASSUME SaveInv, NEW e \in Emulators
  PROVE  /\ app[e] \in App /\ app[e].files \in Files /\ app[e].job \in Job /\ Sound(e)
         /\ app[e].qemu \in BOOLEAN /\ app[e].alive \in BOOLEAN
         /\ app[e].files.save \in Saves \cup {None} /\ app[e].job.save \in Saves \cup {None}
         /\ \A a : [app EXCEPT ![e] = a][e] = a
  BY DEF SaveInv, TypeOK, App, Files, Job

-----------------------------------------------------------------------------
(* One lemma for every kind of step.                                       *)

\* The new state of an application, by its parts.
LEMMA Becomes ==
  ASSUME SaveInv, NEW e \in Emulators, NEW a \in App, app' = [app EXCEPT ![e] = a]
  PROVE  /\ app'[e] = a /\ app' \in [Emulators -> App] /\ \A d \in Emulators \ {e} : app'[d] = app[d]
         /\ \A s \in Saves : Uses(e, s)' <=> (a.files.save = s \/ (a.job.save = s /\ a.job.step \notin {"none", "lock"}))
  BY DEF SaveInv, TypeOK, App, Uses

\* Nothing has been done yet for a new job.
LEMMA JobEnters ==
  ASSUME SaveInv, NEW e \in Emulators, Idle(e), NEW a \in App, app' = [app EXCEPT ![e] = a],
         UNCHANGED <<save, lock, orphans>>, a.files = app[e].files, a.qemu => app[e].qemu,
         a.job.step = "lock", a.job.staged = Absent, a.job.source \notin {Torn, Absent},
         a.job.save # None => a.job.save # app[e].files.save, a.job.change => app[e].files.made
  PROVE  SaveInv'
<1>1. app'[e] = a
  BY Becomes
<1>2. \A s \in Saves : Uses(e, s)' <=> a.files.save = s
  BY <1>1 DEF Uses
<1>3. \A s \in Saves : Uses(e, s) <=> app[e].files.save = s
  BY DEF Idle, Uses, NoJob
<1>4. Sound(e)'
  BY <1>1, OneApp DEF Sound, FilesSound, JobSound, StagedAbsent
<1> QED
  BY <1>2, <1>3, <1>4, Private

\* The job goes on to its next step, with the save locked as it was.
LEMMA JobSteps ==
  ASSUME SaveInv, NEW e \in Emulators, NEW a \in App, app' = [app EXCEPT ![e] = a],
         UNCHANGED <<save, lock, orphans>>, a.files = app[e].files, a.qemu = app[e].qemu,
         a.job.save = app[e].job.save, a.job.source = app[e].job.source, a.job.change = app[e].job.change,
         a.job.step \in {"staging", "staged", "ready"}, app[e].job.step # "none",
         a.job.save # None => app[e].job.step \in {"locked", "staging", "staged"},
         a.job.step \in {"staging", "staged"} => a.job.save # None /\ (a.job.change \/ save[a.job.save] = Absent),
         a.job.step = "staged" => a.job.staged \notin {Torn, Absent},
         a.job.step = "ready" =>
           a.job.staged # Torn /\ (IF a.job.save = None THEN a.job.staged # Absent ELSE save[a.job.save] # Absent)
  PROVE  SaveInv'
<1>1. app'[e] = a
  BY Becomes
<1>2. \A s \in Saves : Uses(e, s)' <=> (a.files.save = s \/ a.job.save = s)
  BY <1>1 DEF Uses
<1>3. \A s \in Saves : Uses(e, s) <=> (app[e].files.save = s \/ app[e].job.save = s)
  BY SaveAssumption DEF Uses
<1>4. Sound(e)'
  BY <1>1, OneApp DEF Sound, FilesSound, JobSound, StagedAbsent
<1> QED
  BY <1>2, <1>3, <1>4, Private

\* The application's files and job change, and the locks with them.
LEMMA LocksFollow ==
  ASSUME SaveInv, NEW e \in Emulators, NEW a \in App, app' = [app EXCEPT ![e] = a],
         UNCHANGED save, orphans' \subseteq Saves, lock' \in [Saves -> Emulators \cup {None}],
         \A s \in Saves : lock'[s] # lock[s] => {lock[s], lock'[s]} \subseteq {e, None},
         \A s \in Saves : lock'[s] = e <=> (a.files.save = s \/ (a.job.save = s /\ a.job.step \notin {"none", "lock"})),
         Sound(e)'
  PROVE  SaveInv'
<1>1. app' \in [Emulators -> App] /\ (\A d \in Emulators \ {e} : app'[d] = app[d])
      /\ \A s \in Saves : Uses(e, s)' <=> (a.files.save = s \/ (a.job.save = s /\ a.job.step \notin {"none", "lock"}))
  BY Becomes
<1>2. save' \in [Saves -> Image] /\ \A s \in Saves : save'[s] = save[s] /\ save'[s] # Torn
  BY DEF SaveInv, TypeOK, SaveWhole
<1> QED
  BY <1>1, <1>2, Stepped

LEMMA Released ==
  ASSUME SaveInv, NEW e \in Emulators, NEW s \in Saves \cup {None}
  PROVE  /\ Release(lock, e, s) \in [Saves -> Emulators \cup {None}]
         /\ \A t \in Saves : /\ Release(lock, e, s)[t] # lock[t] => lock[t] = e /\ Release(lock, e, s)[t] = None
                             /\ Release(lock, e, s)[t] = e <=> (lock[t] = e /\ t # s)
<1>1. lock \in [Saves -> Emulators \cup {None}] /\ e # None
  BY SaveAssumption DEF SaveInv, TypeOK
<1>2. CASE s # None /\ lock[s] = e
  <2>1. Release(lock, e, s) = [lock EXCEPT ![s] = None]
    BY <1>2 DEF Release
  <2> QED
    BY <1>1, <1>2, <2>1
<1>3. CASE ~(s # None /\ lock[s] = e)
  <2>1. Release(lock, e, s) = lock
    BY <1>3 DEF Release
  <2> QED
    BY <1>1, <1>3, <2>1, SaveAssumption
<1> QED
  BY <1>2, <1>3

-----------------------------------------------------------------------------
\* A job that begins.
LEMMA NewJob ==
  ASSUME NEW x, NEW y, NEW z, NEW j, j = [NoJob EXCEPT !.step = "lock", !.change = x, !.save = y, !.source = z]
  PROVE  j = [step |-> "lock", change |-> x, save |-> y, source |-> z, staged |-> Absent]
<1>1. PICK r \in Job : r = NoJob /\ r.staged = Absent
  BY Nones DEF NoJob
<1>2. j = [r EXCEPT !.step = "lock", !.change = x, !.save = y, !.source = z]
  BY <1>1
<1>3. j = [step |-> "lock", change |-> x, save |-> y, source |-> z, staged |-> r.staged]
  BY <1>2, Zenon DEF Job
<1> QED
  BY <1>1, <1>3

LEMMA SaveInit == Init => SaveInv
<1> SUFFICES ASSUME Init PROVE SaveInv
  OBVIOUS
<1>1. TypeOK
  BY Images, Nones DEF Init, TypeOK, App
<1>2. SaveWhole
  BY Images DEF Init, SaveWhole
<1>3. LocksExact
  BY SaveAssumption DEF Init, LocksExact, Uses, Dead, NoFiles, NoJob
<1>4. \A e \in Emulators : Sound(e)
  BY Images DEF Init, Sound, FilesSound, JobSound, StagedAbsent, Dead, NoFiles, NoJob
<1> QED
  BY <1>1, <1>2, <1>3, <1>4 DEF SaveInv

LEMMA StartStep == ASSUME SaveInv, NEW e \in Emulators, Start(e) PROVE SaveInv'
<1> DEFINE a == [app[e] EXCEPT !.alive = TRUE]
<1>1. a \in App /\ a.files = app[e].files /\ a.job = app[e].job /\ a.qemu = app[e].qemu
  BY OneApp DEF App
<1>2. app' = [app EXCEPT ![e] = a] /\ UNCHANGED <<save, lock, orphans>>
  BY DEF Start
<1> HIDE DEF a
<1>3. app'[e] = a
  BY <1>1, <1>2, Becomes
<1>4. (\A s \in Saves : Uses(e, s)' <=> Uses(e, s)) /\ Sound(e)'
  BY <1>1, <1>2, <1>3, OneApp DEF Uses, Sound, FilesSound, JobSound, StagedAbsent
<1> QED
  BY <1>1, <1>2, <1>4, Private

LEMMA ReopenStep == ASSUME SaveInv, NEW e \in Emulators, Reopen(e) PROVE SaveInv'
<1>1. PICK launched \in BOOLEAN : app' = [app EXCEPT ![e].qemu = launched]
  BY DEF Reopen
<1> DEFINE a == [app[e] EXCEPT !.qemu = launched]
<1>2. a \in App /\ a.files = app[e].files /\ a.job = app[e].job
  BY OneApp DEF App
<1>3. app' = [app EXCEPT ![e] = a] /\ UNCHANGED <<save, lock, orphans>> /\ app[e].files.made
  BY <1>1 DEF Reopen
<1> HIDE DEF a
<1>4. app'[e] = a
  BY <1>2, <1>3, Becomes
<1>5. (\A s \in Saves : Uses(e, s)' <=> Uses(e, s)) /\ Sound(e)'
  BY <1>2, <1>3, <1>4, OneApp DEF Uses, Sound, FilesSound, JobSound, StagedAbsent
<1> QED
  BY <1>2, <1>3, <1>5, Private

LEMMA OpenStep ==
  ASSUME SaveInv, NEW e \in Emulators, NEW b \in Bins, NEW s \in Saves \cup {None}, OpenFirmware(e, b, s)
  PROVE  SaveInv'
<1> DEFINE j == [NoJob EXCEPT !.step = "lock", !.save = s, !.source = Whole(b, 0)]
           a == [app[e] EXCEPT !.job = j]
<1>1. j \in Job /\ j.step = "lock" /\ ~j.change /\ j.source = Whole(b, 0) /\ j.save = s /\ j.staged = Absent
  <2>1. PICK r \in Job : r = NoJob /\ ~r.change /\ r.staged = Absent
    BY Nones DEF NoJob
  <2>2. j = [r EXCEPT !.step = "lock", !.save = s, !.source = Whole(b, 0)]
    BY <2>1
  <2> HIDE DEF j
  <2>3. j = [step |-> "lock", change |-> r.change, save |-> s, source |-> Whole(b, 0), staged |-> r.staged]
    BY <2>2, Zenon DEF Job
  <2> QED
    BY <2>1, <2>3, Images DEF Job, Steps
<1>2. app' = [app EXCEPT ![e].job = j]
  BY DEF OpenFirmware
<1> HIDE DEF j
<1>3. a \in App /\ a.files = app[e].files /\ a.qemu = app[e].qemu /\ a.job = j
  BY <1>1, OneApp DEF App
<1>4. app' = [app EXCEPT ![e] = a]
  BY <1>2, Zenon DEF SaveInv, TypeOK
<1>5. Idle(e) /\ UNCHANGED <<save, lock, orphans>> /\ (s # None => s # app[e].files.save)
  BY DEF OpenFirmware
<1> HIDE DEF a
<1> QED
  BY <1>1, <1>3, <1>4, <1>5, Images, JobEnters

LEMMA ChangeStep ==
  ASSUME SaveInv, NEW e \in Emulators, NEW s \in Saves \cup {None}, ChangePersistence(e, s)
  PROVE  SaveInv'
<1> DEFINE j == [NoJob EXCEPT !.step = "lock", !.change = TRUE, !.save = s, !.source = Flash(e)]
           a == [app[e] EXCEPT !.qemu = FALSE, !.job = j]
<1>1. Flash(e) \in Image \ {Torn, Absent}
  BY FlashWhole DEF ChangePersistence
<1>2. app' = [app EXCEPT ![e].qemu = FALSE, ![e].job = j]
  BY DEF ChangePersistence
<1>3. j = [step |-> "lock", change |-> TRUE, save |-> s, source |-> Flash(e), staged |-> Absent]
  <2>1. j = [NoJob EXCEPT !.step = "lock", !.change = TRUE, !.save = s, !.source = Flash(e)]
    OBVIOUS
  <2> HIDE DEF j
  <2> QED
    BY <2>1, NewJob
<1> HIDE DEF j
<1>4. j \in Job /\ j.step = "lock" /\ j.change /\ j.source = Flash(e) /\ j.save = s /\ j.staged = Absent
  BY <1>1, <1>3, Images DEF Job, Steps
<1>5. app' = [app EXCEPT ![e] = a]
  BY <1>2, Zenon DEF SaveInv, TypeOK
<1>6. a = [app[e] EXCEPT !.qemu = FALSE, !.job = j]
  OBVIOUS
<1> HIDE DEF a
<1>7. a = [alive |-> app[e].alive, files |-> app[e].files, qemu |-> FALSE, job |-> j]
  <2>1. app[e] \in App
    BY OneApp
  <2> QED
    BY <1>6, <2>1, Zenon DEF App
<1>8. a \in App /\ a.files = app[e].files /\ ~a.qemu /\ a.job = j
  BY <1>4, <1>7, OneApp DEF App
<1>9. Idle(e) /\ UNCHANGED <<save, lock, orphans>> /\ (s # None => s # app[e].files.save) /\ app[e].files.made
  BY DEF ChangePersistence
<1> QED
  BY <1>1, <1>4, <1>5, <1>8, <1>9, JobEnters

LEMMA LockStep == ASSUME SaveInv, NEW e \in Emulators, LockSave(e) PROVE SaveInv'
<1> DEFINE j == [app[e].job EXCEPT !.step = "locked"]
           a == [app[e] EXCEPT !.job = j]
           s == app[e].job.save
<1>1. s \in Saves /\ lock[s] = None /\ lock' = [lock EXCEPT ![s] = e] /\ app[e].job.step = "lock"
  BY OneApp DEF LockSave
<1>2. app' = [app EXCEPT ![e] = a] /\ UNCHANGED <<save, orphans>>
  BY DEF LockSave
<1>3. j \in Job /\ j.step = "locked" /\ j.save = s /\ j.staged = Absent /\ j.source = app[e].job.source /\ j.change = app[e].job.change
  BY <1>1, OneApp DEF Job, Steps, Sound, JobSound
<1> HIDE DEF j
<1>4. a \in App /\ a.files = app[e].files /\ a.qemu = app[e].qemu /\ a.job = j
  BY <1>3, OneApp DEF App
<1> HIDE DEF a
<1>5. app'[e] = a
  BY <1>2, <1>4, Becomes
<1>6. lock' \in [Saves -> Emulators \cup {None}] /\ orphans' \subseteq Saves
      /\ \A t \in Saves : /\ lock'[t] = IF t = s THEN e ELSE lock[t]
                          /\ lock[t] = e <=> app[e].files.save = t
  BY <1>1, <1>2 DEF SaveInv, TypeOK, LocksExact, Uses
<1>7. Sound(e)'
  BY SaveAssumption, <1>1, <1>2, <1>3, <1>4, <1>5, OneApp DEF Sound, FilesSound, JobSound, StagedAbsent
<1>8. \A t \in Saves : lock'[t] # lock[t] => {lock[t], lock'[t]} \subseteq {e, None}
  BY <1>1, <1>6
<1>9. \A t \in Saves : lock'[t] = e <=> (a.files.save = t \/ (a.job.save = t /\ a.job.step \notin {"none", "lock"}))
  BY <1>3, <1>4, <1>6
<1> HIDE DEF s
<1> QED
  BY <1>2, <1>4, <1>6, <1>7, <1>8, <1>9, LocksFollow

LEMMA UseSaveStep == ASSUME SaveInv, NEW e \in Emulators, UseSave(e) PROVE SaveInv'
<1> DEFINE j == [app[e].job EXCEPT !.step = "ready"]
           a == [app[e] EXCEPT !.job = j]
<1>1. app[e].job.step = "locked" /\ save[app[e].job.save] # Absent
  BY DEF UseSave
<1>2. app' = [app EXCEPT ![e] = a] /\ UNCHANGED <<save, lock, orphans>>
  BY DEF UseSave
<1>3. /\ j \in Job /\ j.step = "ready" /\ j.save = app[e].job.save /\ j.save # None /\ j.staged = Absent
      /\ j.source = app[e].job.source /\ j.change = app[e].job.change
  BY <1>1, OneApp DEF Job, Steps, Sound, JobSound
<1> HIDE DEF j
<1>4. a \in App /\ a.files = app[e].files /\ a.qemu = app[e].qemu /\ a.job = j
  BY <1>3, OneApp DEF App
<1> HIDE DEF a
<1> QED
  BY <1>1, <1>2, <1>3, <1>4, Images, JobSteps

LEMMA StageStep == ASSUME SaveInv, NEW e \in Emulators, StageSave(e) PROVE SaveInv'
<1> DEFINE j == [app[e].job EXCEPT !.step = "staging", !.staged = Torn]
           a == [app[e] EXCEPT !.job = j]
<1>1. app[e].job.step = "locked" /\ (app[e].job.change \/ save[app[e].job.save] = Absent)
  BY DEF StageSave
<1>2. app[e].job \in Job /\ app[e].job.save # None
  BY <1>1, OneApp DEF Sound, JobSound
<1>3. app' = [app EXCEPT ![e] = a] /\ UNCHANGED <<save, lock, orphans>>
  BY Zenon DEF StageSave, SaveInv, TypeOK
<1>4. j = [app[e].job EXCEPT !.step = "staging", !.staged = Torn]
  OBVIOUS
<1> HIDE DEF j
<1>5. j = [step |-> "staging", change |-> app[e].job.change, save |-> app[e].job.save, source |-> app[e].job.source, staged |-> Torn]
  BY <1>2, <1>4, Zenon DEF Job
<1>6. /\ j \in Job /\ j.step = "staging" /\ j.save = app[e].job.save
      /\ j.source = app[e].job.source /\ j.change = app[e].job.change
  BY <1>2, <1>5, Images DEF Job, Steps
<1>7. a \in App /\ a.files = app[e].files /\ a.qemu = app[e].qemu /\ a.job = j
  BY <1>6, OneApp DEF App
<1> HIDE DEF a
<1> QED
  BY <1>1, <1>2, <1>3, <1>6, <1>7, JobSteps

LEMMA WriteStagedStep == ASSUME SaveInv, NEW e \in Emulators, WriteStaged(e) PROVE SaveInv'
<1> DEFINE j == [app[e].job EXCEPT !.step = "staged", !.staged = app[e].job.source]
           a == [app[e] EXCEPT !.job = j]
<1>1. app[e].job.step = "staging"
  BY DEF WriteStaged
<1>2. /\ app[e].job \in Job /\ app[e].job.save # None /\ app[e].job.source \notin {Torn, Absent}
      /\ (app[e].job.change \/ save[app[e].job.save] = Absent)
  BY <1>1, OneApp DEF Sound, JobSound, StagedAbsent
<1>3. app' = [app EXCEPT ![e] = a] /\ UNCHANGED <<save, lock, orphans>>
  BY Zenon DEF WriteStaged, SaveInv, TypeOK
<1>4. j = [app[e].job EXCEPT !.step = "staged", !.staged = app[e].job.source]
  OBVIOUS
<1> HIDE DEF j
<1>5. j = [step |-> "staged", change |-> app[e].job.change, save |-> app[e].job.save,
           source |-> app[e].job.source, staged |-> app[e].job.source]
  BY <1>2, <1>4, Zenon DEF Job
<1>6. /\ j \in Job /\ j.step = "staged" /\ j.save = app[e].job.save /\ j.staged = app[e].job.source
      /\ j.source = app[e].job.source /\ j.change = app[e].job.change
  BY <1>2, <1>5 DEF Job, Steps
<1>7. a \in App /\ a.files = app[e].files /\ a.qemu = app[e].qemu /\ a.job = j
  BY <1>6, OneApp DEF App
<1> HIDE DEF a
<1> QED
  BY <1>1, <1>2, <1>3, <1>6, <1>7, JobSteps

LEMMA TemporaryStep == ASSUME SaveInv, NEW e \in Emulators, WriteTemporary(e) PROVE SaveInv'
<1> DEFINE j == [app[e].job EXCEPT !.step = "ready", !.staged = app[e].job.source]
           a == [app[e] EXCEPT !.job = j]
<1>1. app[e].job.step = "lock" /\ app[e].job.save = None
  BY DEF WriteTemporary
<1>2. app[e].job \in Job /\ app[e].job.source \notin {Torn, Absent}
  BY <1>1, OneApp DEF Sound, JobSound
<1>3. app' = [app EXCEPT ![e] = a] /\ UNCHANGED <<save, lock, orphans>>
  BY Zenon DEF WriteTemporary, SaveInv, TypeOK
<1>4. j = [app[e].job EXCEPT !.step = "ready", !.staged = app[e].job.source]
  OBVIOUS
<1> HIDE DEF j
<1>5. j = [step |-> "ready", change |-> app[e].job.change, save |-> app[e].job.save,
           source |-> app[e].job.source, staged |-> app[e].job.source]
  BY <1>2, <1>4, Zenon DEF Job
<1>6. /\ j \in Job /\ j.step = "ready" /\ j.save = app[e].job.save /\ j.staged = app[e].job.source
      /\ j.source = app[e].job.source /\ j.change = app[e].job.change
  BY <1>2, <1>5 DEF Job, Steps
<1>7. a \in App /\ a.files = app[e].files /\ a.qemu = app[e].qemu /\ a.job = j
  BY <1>6, OneApp DEF App
<1> HIDE DEF a
<1> QED
  BY <1>1, <1>2, <1>3, <1>6, <1>7, JobSteps

-----------------------------------------------------------------------------
LEMMA RenameStep == ASSUME SaveInv, NEW e \in Emulators, RenameStaged(e) PROVE SaveInv'
<1> DEFINE j == [app[e].job EXCEPT !.step = "ready", !.staged = Absent]
           a == [app[e] EXCEPT !.job = j]
           s == app[e].job.save
<1>1. app[e].job.step = "staged"
  BY DEF RenameStaged
<1>2. app[e].job \in Job /\ s \in Saves /\ s # None /\ app[e].job.staged \in Image \ {Torn, Absent}
  BY <1>1, OneApp, SaveAssumption DEF Sound, JobSound, Job
<1>3. app' = [app EXCEPT ![e] = a] /\ save' = [save EXCEPT ![s] = app[e].job.staged] /\ UNCHANGED <<lock, orphans>>
  BY Zenon DEF RenameStaged, SaveInv, TypeOK
<1>4. j = [app[e].job EXCEPT !.step = "ready", !.staged = Absent]
  OBVIOUS
<1> HIDE DEF j
<1>5. j = [step |-> "ready", change |-> app[e].job.change, save |-> s, source |-> app[e].job.source, staged |-> Absent]
  BY <1>2, <1>4, Zenon DEF Job
<1>6. /\ j \in Job /\ j.step = "ready" /\ j.save = s /\ j.staged = Absent
      /\ j.source = app[e].job.source /\ j.change = app[e].job.change
  BY <1>2, <1>5, Images DEF Job, Steps
<1>7. a \in App /\ a.files = app[e].files /\ a.qemu = app[e].qemu /\ a.job = j
  BY <1>6, OneApp DEF App
<1> HIDE DEF a
<1>8. app'[e] = a /\ app' \in [Emulators -> App] /\ \A d \in Emulators \ {e} : app'[d] = app[d]
  BY <1>3, <1>7, Becomes
<1> HIDE DEF s
<1>9. save' \in [Saves -> Image] /\ save'[s] = app[e].job.staged /\ \A t \in Saves \ {s} : save'[t] = save[t]
  BY <1>2, <1>3 DEF SaveInv, TypeOK
<1>10. lock[s] = e /\ \A t \in Saves : lock[t] = e <=> Uses(e, t)
  BY <1>1, <1>2 DEF SaveInv, LocksExact, Uses, s
<1>11. \A t \in Saves : Uses(e, t)' <=> Uses(e, t)
  BY <1>1, <1>2, <1>6, <1>7, <1>8 DEF Uses, s
<1>12. Sound(e)'
  BY <1>1, <1>2, <1>6, <1>7, <1>8, <1>9, OneApp, Images DEF Sound, FilesSound, JobSound, StagedAbsent, s
<1>13. \A t \in Saves : /\ save'[t] # Torn /\ (save[t] # Absent => save'[t] # Absent)
                        /\ save'[t] # save[t] => lock[t] = e
  BY <1>2, <1>9, <1>10 DEF SaveInv, SaveWhole
<1>14. lock' \in [Saves -> Emulators \cup {None}] /\ orphans' \subseteq Saves /\ lock' = lock
  BY <1>3 DEF SaveInv, TypeOK
<1> QED
  BY <1>8, <1>9, <1>10, <1>11, <1>12, <1>13, <1>14, Stepped

LEMMA FailStep == ASSUME SaveInv, NEW e \in Emulators, MakeFails(e) PROVE SaveInv'
<1>1. PICK launched \in BOOLEAN :
        app' = [app EXCEPT ![e].job = NoJob, ![e].qemu = IF app[e].job.change THEN launched ELSE @]
  BY DEF MakeFails
<1> DEFINE q == IF app[e].job.change THEN launched ELSE app[e].qemu
           a == [app[e] EXCEPT !.job = NoJob, !.qemu = q]
<1>2. app' = [app EXCEPT ![e] = a]
  BY <1>1, Zenon DEF SaveInv, TypeOK
<1>3. a = [app[e] EXCEPT !.job = NoJob, !.qemu = q]
  OBVIOUS
<1>4. q \in BOOLEAN /\ (q => app[e].files.made)
  BY OneApp DEF Sound, FilesSound, JobSound, Job
<1> HIDE DEF q, a
<1>5. a = [alive |-> app[e].alive, files |-> app[e].files, qemu |-> q, job |-> NoJob]
  <2>1. app[e] \in App
    BY OneApp
  <2> QED
    BY <1>3, <2>1, Zenon DEF App
<1>6. a \in App /\ a.files = app[e].files /\ a.qemu = q /\ a.job = NoJob
  BY <1>4, <1>5, OneApp, Nones DEF App
<1>7. app'[e] = a
  BY <1>2, <1>6, Becomes
<1>8. UNCHANGED <<save, orphans>> /\ app[e].job.step \notin {"none", "ready"}
      /\ lock' = IF app[e].job.step = "lock" THEN lock ELSE Release(lock, e, app[e].job.save)
  BY DEF MakeFails
<1>9. Sound(e)'
  BY <1>4, <1>6, <1>7, <1>8, OneApp DEF Sound, FilesSound, JobSound, StagedAbsent, NoJob
<1>10. orphans' \subseteq Saves /\ lock' \in [Saves -> Emulators \cup {None}]
       /\ \A t \in Saves : lock'[t] # lock[t] => {lock[t], lock'[t]} \subseteq {e, None}
  BY <1>8, OneApp, Released DEF SaveInv, TypeOK
<1>11. ASSUME NEW t \in Saves
       PROVE  lock'[t] = e <=> (a.files.save = t \/ (a.job.save = t /\ a.job.step \notin {"none", "lock"}))
  <2>1. (a.files.save = t \/ (a.job.save = t /\ a.job.step \notin {"none", "lock"})) <=> app[e].files.save = t
    BY <1>6 DEF NoJob
  <2>2. lock[t] = e <=> (app[e].files.save = t \/ (app[e].job.save = t /\ app[e].job.step # "lock"))
    BY <1>8 DEF SaveInv, LocksExact, Uses
  <2>3. lock'[t] = e <=> (lock[t] = e /\ (app[e].job.step = "lock" \/ t # app[e].job.save))
    BY <1>8, OneApp, Released
  <2>4. app[e].job.save = t => app[e].files.save # t
    BY <1>8, OneApp, SaveAssumption DEF Sound, JobSound
  <2> QED
    BY <2>1, <2>2, <2>3, <2>4
<1> QED
  BY <1>2, <1>6, <1>8, <1>9, <1>10, <1>11, LocksFollow

LEMMA UseStep == ASSUME SaveInv, NEW e \in Emulators, UseFiles(e) PROVE SaveInv'
<1> DEFINE f == [made |-> TRUE, save |-> app[e].job.save, own |-> app[e].job.staged]
<1>1. PICK launched \in BOOLEAN : app' = [app EXCEPT ![e].files = f, ![e].qemu = launched, ![e].job = NoJob]
  BY DEF UseFiles
<1> DEFINE a == [app[e] EXCEPT !.files = f, !.qemu = launched, !.job = NoJob]
<1>2. f \in Files /\ f.made /\ f.save = app[e].job.save /\ f.own = app[e].job.staged
  BY OneApp DEF Files, Job
<1> HIDE DEF f
<1>3. app' = [app EXCEPT ![e] = a]
  BY <1>1, Zenon DEF SaveInv, TypeOK
<1>4. a = [app[e] EXCEPT !.files = f, !.qemu = launched, !.job = NoJob]
  OBVIOUS
<1> HIDE DEF a
<1>5. a = [alive |-> app[e].alive, files |-> f, qemu |-> launched, job |-> NoJob]
  <2>1. app[e] \in App
    BY OneApp
  <2> QED
    BY <1>4, <2>1, Zenon DEF App
<1>6. a \in App /\ a.files = f /\ a.qemu = launched /\ a.job = NoJob
  BY <1>2, <1>5, OneApp, Nones DEF App
<1>7. app'[e] = a
  BY <1>3, <1>6, Becomes
<1>8. UNCHANGED <<save, orphans>> /\ app[e].job.step = "ready" /\ lock' = Release(lock, e, app[e].files.save)
  BY DEF UseFiles
<1>9. Sound(e)'
  BY <1>2, <1>6, <1>7, <1>8, OneApp DEF Sound, FilesSound, JobSound, StagedAbsent, NoJob
<1>10. orphans' \subseteq Saves /\ lock' \in [Saves -> Emulators \cup {None}]
       /\ \A t \in Saves : lock'[t] # lock[t] => {lock[t], lock'[t]} \subseteq {e, None}
  BY <1>8, OneApp, Released DEF SaveInv, TypeOK
<1>11. ASSUME NEW t \in Saves
       PROVE  lock'[t] = e <=> (a.files.save = t \/ (a.job.save = t /\ a.job.step \notin {"none", "lock"}))
  <2>1. (a.files.save = t \/ (a.job.save = t /\ a.job.step \notin {"none", "lock"})) <=> app[e].job.save = t
    BY <1>2, <1>6 DEF NoJob
  <2>2. lock[t] = e <=> (app[e].files.save = t \/ app[e].job.save = t)
    BY <1>8 DEF SaveInv, LocksExact, Uses
  <2>3. lock'[t] = e <=> (lock[t] = e /\ t # app[e].files.save)
    BY <1>8, OneApp, Released
  <2>4. app[e].job.save = t => app[e].files.save # t
    BY <1>8, OneApp, SaveAssumption DEF Sound, JobSound
  <2> QED
    BY <2>1, <2>2, <2>3, <2>4
<1> QED
  BY <1>3, <1>6, <1>8, <1>9, <1>10, <1>11, LocksFollow

LEMMA UnloadStep == ASSUME SaveInv, NEW e \in Emulators, Unload(e) PROVE SaveInv'
<1> DEFINE a == [app[e] EXCEPT !.files = NoFiles, !.qemu = FALSE]
<1>1. app' = [app EXCEPT ![e] = a]
  BY Zenon DEF Unload, SaveInv, TypeOK
<1>2. a = [app[e] EXCEPT !.files = NoFiles, !.qemu = FALSE]
  OBVIOUS
<1> HIDE DEF a
<1>3. a = [alive |-> app[e].alive, files |-> NoFiles, qemu |-> FALSE, job |-> app[e].job]
  <2>1. app[e] \in App
    BY OneApp
  <2> QED
    BY <1>2, <2>1, Zenon DEF App
<1>4. a \in App /\ a.files = NoFiles /\ ~a.qemu /\ a.job = app[e].job
  BY <1>3, OneApp, Nones DEF App
<1>5. app'[e] = a
  BY <1>1, <1>4, Becomes
<1>6. UNCHANGED <<save, orphans>> /\ app[e].job = NoJob /\ lock' = Release(lock, e, app[e].files.save)
  BY DEF Unload, Idle
<1>7. Sound(e)'
  BY <1>4, <1>5, <1>6, Images DEF Sound, FilesSound, JobSound, StagedAbsent, NoJob, NoFiles
<1>8. orphans' \subseteq Saves /\ lock' \in [Saves -> Emulators \cup {None}]
      /\ \A t \in Saves : lock'[t] # lock[t] => {lock[t], lock'[t]} \subseteq {e, None}
  BY <1>6, OneApp, Released DEF SaveInv, TypeOK
<1>9. ASSUME NEW t \in Saves
      PROVE  lock'[t] = e <=> (a.files.save = t \/ (a.job.save = t /\ a.job.step \notin {"none", "lock"}))
  <2>1. ~(a.files.save = t \/ (a.job.save = t /\ a.job.step \notin {"none", "lock"}))
    BY <1>4, <1>6, SaveAssumption DEF NoJob, NoFiles
  <2>2. lock[t] = e <=> app[e].files.save = t
    BY <1>6 DEF SaveInv, LocksExact, Uses, NoJob
  <2>3. lock'[t] = e <=> (lock[t] = e /\ t # app[e].files.save)
    BY <1>6, OneApp, Released
  <2> QED
    BY <2>1, <2>2, <2>3
<1> QED
  BY <1>1, <1>4, <1>6, <1>7, <1>8, <1>9, LocksFollow

LEMMA CrashStep == ASSUME SaveInv, NEW e \in Emulators, Crash(e) PROVE SaveInv'
<1>1. app' = [app EXCEPT ![e] = Dead] /\ UNCHANGED save /\ lock' = [s \in Saves |-> IF lock[s] = e THEN None ELSE lock[s]]
  BY DEF Crash
<1>2. Dead \in App /\ Dead.files = NoFiles /\ Dead.job = NoJob /\ ~Dead.qemu
  BY Nones DEF Dead
<1>3. app'[e] = Dead
  BY <1>1, <1>2, Becomes
<1>4. Sound(e)'
  BY <1>2, <1>3, Images DEF Sound, FilesSound, JobSound, StagedAbsent, NoJob, NoFiles
<1>5. orphans' \subseteq Saves
  <2>1. app[e].files.save \in Saves \cup {None} /\ orphans \subseteq Saves
    BY OneApp DEF SaveInv, TypeOK
  <2> QED
    BY <2>1 DEF Crash
<1>6. lock' \in [Saves -> Emulators \cup {None}] /\ \A t \in Saves : lock'[t] # e
      /\ (lock'[t] # lock[t] => {lock[t], lock'[t]} \subseteq {e, None})
  BY <1>1, SaveAssumption DEF SaveInv, TypeOK
<1>7. \A t \in Saves : ~(Dead.files.save = t \/ (Dead.job.save = t /\ Dead.job.step \notin {"none", "lock"}))
  BY <1>2, SaveAssumption DEF NoJob, NoFiles
<1> QED
  BY <1>1, <1>2, <1>4, <1>5, <1>6, <1>7, LocksFollow

-----------------------------------------------------------------------------
(* A guest writes to a save that is there.                                 *)
LEMMA SaveWritten ==
  ASSUME SaveInv, NEW s \in Saves, UNCHANGED <<app, lock, orphans>>,
         save[s] # Absent, save[s].writes < MaxWrites, save' = [save EXCEPT ![s] = Written(@)]
  PROVE  SaveInv'
<1>1. save[s] \in Image /\ save[s] # Torn
  BY DEF SaveInv, TypeOK, SaveWhole
<1>2. Written(save[s]) \in Image \ {Torn, Absent}
  BY <1>1, WrittenWhole
<1>3. save' \in [Saves -> Image] /\ save'[s] = Written(save[s]) /\ \A t \in Saves \ {s} : save'[t] = save[t]
  BY <1>2 DEF SaveInv, TypeOK
<1>4. TypeOK' /\ SaveWhole' /\ LocksExact'
  BY <1>2, <1>3 DEF SaveInv, TypeOK, SaveWhole, LocksExact, Uses
<1>5. ASSUME NEW e \in Emulators PROVE Sound(e)'
  <2>1. Sound(e) /\ app[e].files.save \in Saves \cup {None} /\ app[e].job.save \in Saves \cup {None}
    BY OneApp
  <2>2. \A t \in Saves : save'[t] = Absent <=> save[t] = Absent
    BY <1>2, <1>3
  <2>3. FilesSound(e)' /\ JobSound(e)'
    BY <2>1, <2>2 DEF Sound, FilesSound, JobSound
  <2>4. StagedAbsent(e)'
    BY <2>1, <2>2 DEF Sound, StagedAbsent, JobSound
  <2> QED
    BY <2>3, <2>4 DEF Sound
<1> QED
  BY <1>4, <1>5 DEF SaveInv

LEMMA GuestStep == ASSUME SaveInv, NEW e \in Emulators, GuestWrites(e) PROVE SaveInv'
<1>1. Flash(e) \in Image \ {Torn, Absent} /\ Flash(e).writes < MaxWrites
  BY OneApp, FlashWhole DEF GuestWrites, Sound, FilesSound
<1>2. CASE app[e].files.save = None
  <2> DEFINE f == [app[e].files EXCEPT !.own = Written(app[e].files.own)]
             a == [app[e] EXCEPT !.files = f]
  <2>1. Written(app[e].files.own) \in Image \ {Torn, Absent}
    BY <1>1, <1>2, WrittenWhole DEF Flash
  <2>2. f \in Files /\ f.made = app[e].files.made /\ f.save = None /\ f.own = Written(app[e].files.own)
    BY <1>2, <2>1, OneApp DEF Files
  <2>3. app' = [app EXCEPT ![e] = a] /\ UNCHANGED <<save, lock, orphans>>
    BY <1>2 DEF GuestWrites
  <2> HIDE DEF f
  <2>4. a \in App /\ a.files = f /\ a.qemu = app[e].qemu /\ a.job = app[e].job
    BY <2>2, OneApp DEF App
  <2> HIDE DEF a
  <2>5. app'[e] = a
    BY <2>3, <2>4, Becomes
  <2>6. (\A s \in Saves : Uses(e, s)' <=> Uses(e, s)) /\ Sound(e)'
    BY <1>2, <2>1, <2>2, <2>3, <2>4, <2>5, OneApp DEF Uses, Sound, FilesSound, JobSound, StagedAbsent
  <2> QED
    BY <2>3, <2>4, <2>6, Private
<1>3. CASE app[e].files.save # None
  <2>1. app[e].files.save \in Saves /\ Flash(e) = save[app[e].files.save]
    BY <1>3, OneApp DEF Flash
  <2>2. save' = [save EXCEPT ![app[e].files.save] = Written(@)] /\ UNCHANGED <<app, lock, orphans>>
    BY <1>3 DEF GuestWrites
  <2> QED
    BY <1>1, <2>1, <2>2, SaveWritten
<1> QED
  BY <1>2, <1>3

LEMMA OrphanStep == ASSUME SaveInv, NEW s \in Saves, OrphanWrites(s) \/ OrphanExits(s) PROVE SaveInv'
<1>1. CASE OrphanWrites(s)
  <2>1. save[s] # Absent
    BY <1>1 DEF OrphanWrites, Absent
  <2> QED
    BY <1>1, <2>1, SaveWritten DEF OrphanWrites
<1>2. CASE OrphanExits(s)
  BY <1>2 DEF OrphanExits, SaveInv, TypeOK, SaveWhole, LocksExact, Uses, Sound, FilesSound, JobSound, StagedAbsent
<1> QED
  BY <1>1, <1>2

LEMMA SaveStep == SaveInv /\ [Next]_vars => SaveInv'
<1> SUFFICES ASSUME SaveInv, [Next]_vars PROVE SaveInv'
  OBVIOUS
<1>1. ASSUME NEW e \in Emulators, Start(e) \/ Reopen(e) PROVE SaveInv'
  BY <1>1, StartStep, ReopenStep
<1>2. ASSUME NEW e \in Emulators, NEW b \in Bins, NEW s \in Saves \cup {None}, OpenFirmware(e, b, s) PROVE SaveInv'
  BY <1>2, OpenStep
<1>3. ASSUME NEW e \in Emulators, NEW s \in Saves \cup {None}, ChangePersistence(e, s) PROVE SaveInv'
  BY <1>3, ChangeStep
<1>4. ASSUME NEW e \in Emulators, LockSave(e) \/ UseSave(e) \/ StageSave(e) \/ WriteStaged(e) PROVE SaveInv'
  BY <1>4, LockStep, UseSaveStep, StageStep, WriteStagedStep
<1>5. ASSUME NEW e \in Emulators, RenameStaged(e) \/ WriteTemporary(e) \/ MakeFails(e) \/ UseFiles(e) PROVE SaveInv'
  BY <1>5, RenameStep, TemporaryStep, FailStep, UseStep
<1>6. ASSUME NEW e \in Emulators, Unload(e) \/ GuestWrites(e) \/ Crash(e) PROVE SaveInv'
  BY <1>6, UnloadStep, GuestStep, CrashStep
<1>7. ASSUME NEW s \in Saves, OrphanWrites(s) \/ OrphanExits(s) PROVE SaveInv'
  BY <1>7, OrphanStep
<1>8. CASE UNCHANGED vars
  BY <1>8 DEF vars, SaveInv, TypeOK, SaveWhole, LocksExact, Uses, Sound, FilesSound, JobSound, StagedAbsent
<1> QED
  BY <1>1, <1>2, <1>3, <1>4, <1>5, <1>6, <1>7, <1>8 DEF Next

(* A crash or an error between any two steps of RunFiles' constructor      *)
(* leaves each save whole or absent, and the lock of a save is held        *)
(* exactly by the application that uses it or is making it, for any number *)
(* of emulators.                                                           *)
THEOREM SavesCorrect == Spec => []SaveSafety
<1>1. SaveInv => SaveSafety
  BY DEF SaveInv, SaveSafety
<1> QED
  BY SaveInit, SaveStep, <1>1, PTL DEF Spec

-----------------------------------------------------------------------------
\* What a step may do to a save.
SaveChange ==
  \A s \in Saves : (save[s] # Absent /\ save'[s] # save[s]) =>
    \/ save'[s] = Written(save[s]) /\ (s \in orphans \/ \E e \in Emulators : Runs(e, s))
    \/ \E e \in Emulators : app[e].job.change /\ app[e].job.save = s /\ lock[s] = e

LEMMA SaveChanges == SaveInv /\ Next => SaveChange
<1> SUFFICES ASSUME SaveInv, Next PROVE SaveChange
  OBVIOUS
<1>1. UNCHANGED save => SaveChange
  BY DEF SaveChange
<1>2. ASSUME NEW e \in Emulators, RenameStaged(e) PROVE SaveChange
  <2>1. app[e].job.step = "staged" /\ save' = [save EXCEPT ![app[e].job.save] = app[e].job.staged]
    BY <1>2 DEF RenameStaged
  <2>2. app[e].job.save \in Saves /\ (app[e].job.change \/ save[app[e].job.save] = Absent)
    BY <2>1, OneApp DEF Sound, JobSound, StagedAbsent
  <2>3. lock[app[e].job.save] = e
    BY <2>1, <2>2 DEF SaveInv, LocksExact, Uses
  <2>4. \A s \in Saves : s # app[e].job.save => save'[s] = save[s]
    BY <2>1 DEF SaveInv, TypeOK
  <2> QED
    BY <2>2, <2>3, <2>4 DEF SaveChange
<1>3. ASSUME NEW e \in Emulators, GuestWrites(e) PROVE SaveChange
  <2>1. CASE app[e].files.save = None
    BY <1>1, <1>3, <2>1 DEF GuestWrites
  <2>2. CASE app[e].files.save # None
    <3>1. save' = [save EXCEPT ![app[e].files.save] = Written(@)] /\ Runs(e, app[e].files.save)
      BY <1>3, <2>2 DEF GuestWrites, Runs
    <3>2. \A s \in Saves : save'[s] = IF s = app[e].files.save THEN Written(save[s]) ELSE save[s]
      BY <3>1 DEF SaveInv, TypeOK
    <3> QED
      BY <3>1, <3>2 DEF SaveChange
  <2> QED
    BY <2>1, <2>2
<1>4. ASSUME NEW t \in Saves, OrphanWrites(t) PROVE SaveChange
  <2>1. t \in orphans /\ save' = [save EXCEPT ![t] = Written(@)]
    BY <1>4 DEF OrphanWrites
  <2>2. \A s \in Saves : save'[s] = IF s = t THEN Written(save[s]) ELSE save[s]
    BY <2>1 DEF SaveInv, TypeOK
  <2> QED
    BY <2>1, <2>2 DEF SaveChange
<1> QED
  BY <1>1, <1>2, <1>3, <1>4 DEF Next, Start, Reopen, OpenFirmware, ChangePersistence, LockSave, UseSave, StageSave,
     WriteStaged, WriteTemporary, MakeFails, UseFiles, Unload, OrphanExits, Crash

(* A save that exists changes by its guest's writes, or is replaced at the *)
(* user's own wish by the application that holds its lock; opening a BIN   *)
(* never reinitializes it.                                                 *)
THEOREM SavesKept == Spec => SaveKept
<1>1. SaveInv /\ [Next]_vars => [SaveChange]_vars
  BY SaveChanges
<1>2. SaveInv /\ [Next]_vars =>
        [\A s \in Saves : (save[s] # Absent /\ save'[s] # save[s]) =>
           \/ save'[s] = Written(save[s]) /\ (s \in orphans \/ \E e \in Emulators : Runs(e, s))
           \/ \E e \in Emulators : app[e].job.change /\ app[e].job.save = s /\ lock[s] = e]_vars
  BY <1>1 DEF SaveChange
<1> QED
  BY SaveInit, SaveStep, <1>2, PTL DEF Spec, SaveKept

-----------------------------------------------------------------------------
(* Without a QEMU that outlives its application.                           *)

\* A copy is made of a Flash that nobody writes.
Copies(e) == app[e].job.change => ~app[e].qemu /\ app[e].job.source = Flash(e)

Sealed == orphans = {} /\ \A e \in Emulators : Copies(e)

SealedInv == SaveInv /\ (~QemuSurvives => Sealed)

\* A step of one application changes only saves that are locked by it.
LEMMA Undisturbed ==
  ASSUME SaveInv, Sealed, NEW e \in Emulators, \A d \in Emulators \ {e} : app'[d] = app[d],
         \A s \in Saves : save'[s] # save[s] => Uses(e, s), UNCHANGED orphans, Copies(e)'
  PROVE  Sealed'
<1> SUFFICES ASSUME NEW d \in Emulators \ {e} PROVE Copies(d)'
  BY DEF Sealed
<1>1. app'[d] = app[d] /\ app[d].files.save \in Saves \cup {None} /\ Copies(d)
  BY OneApp DEF Sealed
<1>2. ASSUME app[d].files.save # None PROVE save'[app[d].files.save] = save[app[d].files.save]
  <2>1. app[d].files.save \in Saves /\ Uses(d, app[d].files.save)
    BY <1>1, <1>2 DEF Uses
  <2> QED
    BY <2>1, LockedByOne
<1> QED
  BY <1>1, <1>2 DEF Copies, Flash

\* The job of an application whose files stay as they are.
LEMMA CopyKept ==
  ASSUME SaveInv, Sealed, NEW e \in Emulators, \A d \in Emulators \ {e} : app'[d] = app[d],
         UNCHANGED orphans, \A s \in Saves : save'[s] # save[s] => Uses(e, s),
         app'[e].job.change =>
           /\ app[e].job.change /\ app'[e].job.source = app[e].job.source
           /\ app'[e].files = app[e].files /\ app'[e].qemu = app[e].qemu
           /\ app[e].files.save # None => save'[app[e].files.save] = save[app[e].files.save]
  PROVE  Sealed'
<1>1. Copies(e)
  BY DEF Sealed
<1>2. Copies(e)'
  BY <1>1 DEF Copies, Flash
<1> QED
  BY <1>2, Undisturbed

\* A job's step, its staged file or the life of its application.
LEMMA CopyGoesOn ==
  ASSUME SaveInv, Sealed, NEW e \in Emulators, UNCHANGED <<save, orphans>>,
         Start(e) \/ LockSave(e) \/ UseSave(e) \/ StageSave(e) \/ WriteStaged(e) \/ WriteTemporary(e)
  PROVE  Sealed'
<1>1. \A d \in Emulators \ {e} : app'[d] = app[d]
  BY DEF Start, LockSave, UseSave, StageSave, WriteStaged, WriteTemporary, SaveInv, TypeOK
<1>2. /\ app'[e].job.change = app[e].job.change /\ app'[e].job.source = app[e].job.source
      /\ app'[e].files = app[e].files /\ app'[e].qemu = app[e].qemu
  BY OneApp DEF Start, LockSave, UseSave, StageSave, WriteStaged, WriteTemporary, SaveInv, TypeOK, App, Job
<1> QED
  BY <1>1, <1>2, CopyKept

\* A step after which there is no copy under way.
LEMMA NoCopy ==
  ASSUME SaveInv, Sealed, NEW e \in Emulators, UNCHANGED <<save, orphans>>,
         \A d \in Emulators \ {e} : app'[d] = app[d], ~app'[e].job.change
  PROVE  Sealed'
  BY CopyKept

LEMMA JobEnds ==
  ASSUME ~QemuSurvives, SaveInv, Sealed, NEW e \in Emulators,
         Reopen(e) \/ MakeFails(e) \/ UseFiles(e) \/ Unload(e) \/ Crash(e)
  PROVE  Sealed'
<1>1. ASSUME NEW a \in App, app' = [app EXCEPT ![e] = a], a.job = NoJob, UNCHANGED <<save, orphans>>
      PROVE  Sealed'
  <2>1. app'[e] = a /\ \A d \in Emulators \ {e} : app'[d] = app[d]
    BY <1>1, Becomes
  <2>2. ~NoJob.change
    BY DEF NoJob
  <2>3. ~app'[e].job.change
    BY <1>1, <2>1, <2>2
  <2> QED
    BY <1>1, <2>1, <2>3, NoCopy
<1>2. app[e] \in App
  BY OneApp
<1>3. CASE Reopen(e)
  <2>1. PICK q \in BOOLEAN : app' = [app EXCEPT ![e].qemu = q]
    BY <1>3 DEF Reopen
  <2> DEFINE a == [app[e] EXCEPT !.qemu = q]
  <2>2. a \in App /\ a.job = app[e].job /\ app' = [app EXCEPT ![e] = a]
    BY <1>2, <2>1 DEF App
  <2> HIDE DEF a
  <2> QED
    BY <1>1, <1>3, <2>2 DEF Reopen, Idle
<1>4. CASE MakeFails(e)
  <2>1. PICK launched \in BOOLEAN :
          app' = [app EXCEPT ![e].job = NoJob, ![e].qemu = IF app[e].job.change THEN launched ELSE @]
    BY <1>4 DEF MakeFails
  <2> DEFINE q == IF app[e].job.change THEN launched ELSE app[e].qemu
             a == [app[e] EXCEPT !.job = NoJob, !.qemu = q]
  <2>2. app' = [app EXCEPT ![e] = a] /\ a = [app[e] EXCEPT !.job = NoJob, !.qemu = q]
    BY <2>1, Zenon DEF SaveInv, TypeOK
  <2>3. q \in BOOLEAN
    BY OneApp
  <2> HIDE DEF q, a
  <2>4. a = [alive |-> app[e].alive, files |-> app[e].files, qemu |-> q, job |-> NoJob]
    BY <1>2, <2>2, Zenon DEF App
  <2>5. a \in App /\ a.job = NoJob
    BY <2>3, <2>4, OneApp, Nones DEF App
  <2> QED
    BY <1>1, <1>4, <2>2, <2>5 DEF MakeFails
<1>5. CASE UseFiles(e)
  <2> DEFINE f == [made |-> TRUE, save |-> app[e].job.save, own |-> app[e].job.staged]
  <2>1. PICK q \in BOOLEAN : app' = [app EXCEPT ![e].files = f, ![e].qemu = q, ![e].job = NoJob]
    BY <1>5 DEF UseFiles
  <2> DEFINE a == [app[e] EXCEPT !.files = f, !.qemu = q, !.job = NoJob]
  <2>2. f \in Files
    BY OneApp DEF Files, Job
  <2> HIDE DEF f
  <2>3. app' = [app EXCEPT ![e] = a] /\ a = [app[e] EXCEPT !.files = f, !.qemu = q, !.job = NoJob]
    BY <2>1, Zenon DEF SaveInv, TypeOK
  <2> HIDE DEF a
  <2>4. a = [alive |-> app[e].alive, files |-> f, qemu |-> q, job |-> NoJob]
    BY <1>2, <2>3, Zenon DEF App
  <2>5. a \in App /\ a.job = NoJob
    BY <2>2, <2>4, OneApp, Nones DEF App
  <2> QED
    BY <1>1, <1>5, <2>3, <2>5 DEF UseFiles
<1>6. CASE Unload(e)
  <2> DEFINE a == [app[e] EXCEPT !.files = NoFiles, !.qemu = FALSE]
  <2>1. app' = [app EXCEPT ![e] = a] /\ a = [app[e] EXCEPT !.files = NoFiles, !.qemu = FALSE]
    BY <1>6, Zenon DEF Unload, SaveInv, TypeOK
  <2> HIDE DEF a
  <2>2. a = [alive |-> app[e].alive, files |-> NoFiles, qemu |-> FALSE, job |-> app[e].job]
    BY <1>2, <2>1, Zenon DEF App
  <2>3. a \in App /\ a.job = app[e].job
    BY <2>2, OneApp, Nones DEF App
  <2> QED
    BY <1>1, <1>6, <2>1, <2>3 DEF Unload, Idle
<1>7. CASE Crash(e)
  <2>1. Dead \in App /\ Dead.job = NoJob
    BY Nones DEF Dead
  <2> QED
    BY <1>1, <1>7, <2>1 DEF Crash
<1> QED
  BY <1>3, <1>4, <1>5, <1>6, <1>7

LEMMA JobBegins ==
  ASSUME SaveInv, Sealed, NEW e \in Emulators, NEW b \in Bins, NEW s \in Saves \cup {None}, OpenFirmware(e, b, s)
  PROVE  Sealed'
<1> DEFINE j == [NoJob EXCEPT !.step = "lock", !.save = s, !.source = Whole(b, 0)]
<1>1. app' = [app EXCEPT ![e].job = j] /\ UNCHANGED <<save, orphans>>
  BY DEF OpenFirmware
<1>2. ~j.change
  BY Nones DEF NoJob
<1> HIDE DEF j
<1>3. (\A d \in Emulators \ {e} : app'[d] = app[d]) /\ app'[e].job = j
  BY <1>1, OneApp DEF SaveInv, TypeOK, App
<1> QED
  BY <1>1, <1>2, <1>3, NoCopy

LEMMA CopyBegins ==
  ASSUME SaveInv, Sealed, NEW e \in Emulators, NEW s \in Saves \cup {None}, ChangePersistence(e, s)
  PROVE  Sealed'
<1> DEFINE j == [NoJob EXCEPT !.step = "lock", !.change = TRUE, !.save = s, !.source = Flash(e)]
<1>1. app' = [app EXCEPT ![e].qemu = FALSE, ![e].job = j] /\ UNCHANGED <<save, orphans>>
  BY DEF ChangePersistence
<1>2. j = [step |-> "lock", change |-> TRUE, save |-> s, source |-> Flash(e), staged |-> Absent]
  <2>1. j = [NoJob EXCEPT !.step = "lock", !.change = TRUE, !.save = s, !.source = Flash(e)]
    OBVIOUS
  <2> HIDE DEF j
  <2> QED
    BY <2>1, NewJob
<1>3. j.source = Flash(e)
  BY <1>2
<1> HIDE DEF j
<1>4. (\A d \in Emulators \ {e} : app'[d] = app[d]) /\ app'[e].files = app[e].files /\ app'[e].qemu = FALSE /\ app'[e].job = j
  BY <1>1, OneApp DEF SaveInv, TypeOK, App
<1>5. Copies(e)'
  BY <1>1, <1>3, <1>4 DEF Copies, Flash
<1> QED
  BY <1>1, <1>4, <1>5, Undisturbed

LEMMA SealedStep == ~QemuSurvives /\ SaveInv /\ Sealed /\ [Next]_vars => Sealed'
<1> SUFFICES ASSUME ~QemuSurvives, SaveInv, Sealed, [Next]_vars PROVE Sealed'
  OBVIOUS
<1>1. ASSUME NEW e \in Emulators,
             Start(e) \/ LockSave(e) \/ UseSave(e) \/ StageSave(e) \/ WriteStaged(e) \/ WriteTemporary(e)
      PROVE  Sealed'
  <2>1. UNCHANGED <<save, orphans>>
    BY <1>1 DEF Start, LockSave, UseSave, StageSave, WriteStaged, WriteTemporary
  <2> QED
    BY <1>1, <2>1, CopyGoesOn
<1>2. ASSUME NEW e \in Emulators,
             Reopen(e) \/ MakeFails(e) \/ UseFiles(e) \/ Unload(e) \/ Crash(e)
             \/ \E b \in Bins, s \in Saves \cup {None} : OpenFirmware(e, b, s)
      PROVE  Sealed'
  BY <1>2, JobEnds, JobBegins
<1>3. ASSUME NEW e \in Emulators, NEW s \in Saves \cup {None}, ChangePersistence(e, s) PROVE Sealed'
  BY <1>3, CopyBegins
<1>4. ASSUME NEW e \in Emulators, RenameStaged(e) PROVE Sealed'
  <2> DEFINE s == app[e].job.save
  <2>1. app[e].job.step = "staged" /\ save' = [save EXCEPT ![s] = app[e].job.staged] /\ UNCHANGED orphans
    BY <1>4 DEF RenameStaged
  <2>2. s \in Saves /\ s # app[e].files.save /\ Uses(e, s)
    BY <2>1, OneApp DEF Sound, JobSound, Uses
  <2>3. \A t \in Saves : t # s => save'[t] = save[t]
    BY <2>1 DEF SaveInv, TypeOK
  <2>4. \A d \in Emulators \ {e} : app'[d] = app[d]
    BY <1>4 DEF RenameStaged, SaveInv, TypeOK
  <2>5. /\ app'[e].job.change = app[e].job.change /\ app'[e].job.source = app[e].job.source
        /\ app'[e].files = app[e].files /\ app'[e].qemu = app[e].qemu
    BY <1>4, OneApp DEF RenameStaged, SaveInv, TypeOK, App, Job
  <2>6. app[e].files.save # None => save'[app[e].files.save] = save[app[e].files.save]
    BY <2>2, <2>3, OneApp
  <2>7. \A t \in Saves : save'[t] # save[t] => Uses(e, t)
    BY <2>2, <2>3
  <2> HIDE DEF s
  <2> QED
    BY <2>1, <2>4, <2>5, <2>6, <2>7, CopyKept
<1>5. ASSUME NEW e \in Emulators, GuestWrites(e) PROVE Sealed'
  <2>1. app[e].qemu /\ ~app[e].job.change /\ UNCHANGED orphans
    BY <1>5, OneApp DEF GuestWrites, Sealed, Copies
  <2>2. \A d \in Emulators \ {e} : app'[d] = app[d]
    BY <1>5 DEF GuestWrites, SaveInv, TypeOK
  <2>3. app'[e].job = app[e].job
    BY <1>5, OneApp DEF GuestWrites, SaveInv, TypeOK, App
  <2>4. \A t \in Saves : save'[t] # save[t] => Uses(e, t)
    BY <1>5, OneApp DEF GuestWrites, SaveInv, TypeOK, Uses
  <2> QED
    BY <2>1, <2>2, <2>3, <2>4, CopyKept
<1>6. ASSUME NEW s \in Saves, OrphanWrites(s) \/ OrphanExits(s) PROVE Sealed'
  BY <1>6 DEF OrphanWrites, OrphanExits, Sealed
<1>7. CASE UNCHANGED vars
  BY <1>7 DEF vars, Sealed, Copies, Flash
<1> QED
  BY <1>1, <1>2, <1>3, <1>4, <1>5, <1>6, <1>7 DEF Next

LEMMA SealedInit == Init => SealedInv
<1> SUFFICES ASSUME Init PROVE Sealed
  BY SaveInit DEF SealedInv
<1> QED
  BY DEF Init, Sealed, Copies, Dead, NoJob

\* The lock of a save has one holder.
LEMMA OneWriter == ASSUME SaveInv, orphans = {} PROVE SingleWriter
<1> DEFINE Writers(s) == {e \in Emulators : Runs(e, s)}
<1>1. ASSUME NEW s \in Saves PROVE Cardinality(Writers(s)) \in {0, 1}
  <2>1. ASSUME NEW x \in Writers(s) PROVE Writers(s) = {x}
    BY LockedByOne DEF Runs, Uses
  <2>2. Writers(s) = {} \/ \E x : Writers(s) = {x}
    BY <2>1
  <2> QED
    BY <2>2, FS_EmptySet, FS_Singleton
<1> QED
  BY <1>1 DEF SingleWriter

(* When QEMU dies with its application, a save is written by one QEMU at a *)
(* time, and the Flash that a change of persistence copies is what the     *)
(* guest last wrote: for any number of emulators and saves.                *)
THEOREM SealedCorrect == Spec => []SealedSafety
<1>1. SealedInv /\ [Next]_vars => SealedInv'
  BY SaveStep, SealedStep DEF SealedInv
<1>2. SealedInv => SealedSafety
  <2> SUFFICES ASSUME SealedInv, ~QemuSurvives PROVE SingleWriter /\ CopyIsCurrent
    BY DEF SealedSafety
  <2> QED
    BY OneWriter DEF SealedInv, Sealed, Copies, CopyIsCurrent
<1> QED
  BY SealedInit, <1>1, <1>2, PTL DEF Spec
-----------------------------------------------------------------------------
(* The session.  A handler is an operator from one state record to the     *)
(* next, so what it keeps is stated of a record.                           *)

Applications ==
  [files : 0..MaxSessions, opened : 0..MaxSessions, persist : BOOLEAN, audio : BOOLEAN,
   running : BOOLEAN, phase : {"loop", "saving", "done"}, recorder : {"idle", "active"},
   withAudio : BOOLEAN, stopping : BOOLEAN, starting : BOOLEAN, session : 0..MaxSessions]
Processes ==
  [state : {"none", "running", "exited"}, files : 0..MaxSessions, voice : BOOLEAN,
   commands : Seq(BOOLEAN), messages : Seq(Emulator!Message)]
Histories == [started : 0..MaxRecordings, concluded : 0..MaxRecordings, audio : SUBSET (0..MaxRecordings), unsent : BOOLEAN]
SessionStates == [a : Applications, q : Processes, w : {"none", "writing", "saved", "failed"}, h : Histories]

(* What the handlers keep, whoever calls them.                             *)
PacketsTimed(s) ==
  /\ Len(s.q.messages) <= MaxMessages
  /\ \A i \in 1..Len(s.q.messages) : s.q.messages[i].time <= s.h.started
Owned(s) ==
  /\ s.q.state # "none" => s.q.files = s.a.files /\ s.a.files # 0
  /\ s.q.state = "running" => s.a.running
  /\ s.a.recorder = "active" => s.a.session = s.a.opened /\ s.w = "none"
  /\ s.a.stopping \/ s.a.starting => s.a.recorder = "active"
Counted(s) ==
  /\ s.h.started = s.h.concluded + (IF s.a.recorder = "active" THEN 1 ELSE 0) + (IF s.w # "none" THEN 1 ELSE 0)
  /\ s.h.audio \subseteq {s.h.started}
SessionSound(s) == s \in SessionStates /\ PacketsTimed(s) /\ Owned(s) /\ Counted(s)

(* The last command, or the voice once all are carried out, is to stop,    *)
(* unless a stop could not be sent.                                        *)
Silenced(q) == IF q.commands = <<>> THEN ~q.voice ELSE ~Emulator!Last(q.commands)
CaptureInv(s) ==
  s.q.state = "running" /\ ~s.h.unsent /\ (s.a.recorder = "idle" \/ s.a.stopping \/ ~s.a.audio) => Silenced(s.q)

SessionInv == SessionSound(Emulator!Now) /\ CaptureInv(Emulator!Now)

-----------------------------------------------------------------------------
LEMMA SessionBounds == MaxSessions \in Nat /\ MaxRecordings \in Nat /\ MaxMessages \in Nat /\ MaxMessages > 0
  BY FrontendAssumption DEF Emulator!SessionAssumption

(* What is read from the socket changes what waits there and the audio.    *)
Drained(t, s) ==
  /\ t.a = s.a /\ t.w = s.w
  /\ t.q.state = s.q.state /\ t.q.files = s.q.files /\ t.q.voice = s.q.voice /\ t.q.commands = s.q.commands
  /\ t.h.started = s.h.started /\ t.h.concluded = s.h.concluded /\ (t.h.unsent <=> s.h.unsent)

(* What is left is what came last.                                         *)
LEMMA LeftOver ==
  ASSUME NEW ms \in Seq(Emulator!Message), NEW left \in Nat, left <= Len(ms)
  PROVE  LET taken == Len(ms) - left
             rest == SubSeq(ms, taken + 1, Len(ms))
         IN  /\ rest \in Seq(Emulator!Message) /\ Len(rest) <= Len(ms)
             /\ \A i \in 1..Len(rest) : \E j \in 1..Len(ms) : rest[i] = ms[j]
             /\ \A m \in Emulator!Range(SubSeq(ms, 1, taken)) : \E j \in 1..Len(ms) : m = ms[j]
<1> DEFINE n == Len(ms)
           taken == n - left
           rest == SubSeq(ms, taken + 1, n)
           first == SubSeq(ms, 1, taken)
<1>1. n \in Nat /\ taken \in 0..n /\ \A i \in 1..n : ms[i] \in Emulator!Message
  OBVIOUS
<1>2. /\ rest \in Seq(Emulator!Message) /\ Len(rest) = (IF taken + 1 <= n THEN n - (taken + 1) + 1 ELSE 0)
      /\ \A i \in 1..(n - (taken + 1) + 1) : rest[i] = ms[(taken + 1) + i - 1]
  <2>1. \A i \in (taken + 1)..n : ms[i] \in Emulator!Message
    BY <1>1
  <2>2. taken + 1 \in Int /\ n \in Int
    BY <1>1
  <2> HIDE DEF taken, n
  <2> QED BY ONLY <2>1, <2>2, SubSeqProperties
<1>3. /\ first \in Seq(Emulator!Message) /\ Len(first) = (IF 1 <= taken THEN taken - 1 + 1 ELSE 0)
      /\ \A i \in 1..(taken - 1 + 1) : first[i] = ms[1 + i - 1]
  <2>1. \A i \in 1..taken : ms[i] \in Emulator!Message
    BY <1>1
  <2>2. 1 \in Int /\ taken \in Int
    BY <1>1
  <2> HIDE DEF taken, n
  <2> QED BY ONLY <2>1, <2>2, SubSeqProperties
<1> HIDE DEF rest, first
<1>4. Len(rest) = n - taken /\ Len(rest) <= n
  BY <1>1, <1>2
<1>5. ASSUME NEW i \in 1..Len(rest) PROVE \E j \in 1..n : rest[i] = ms[j]
  <2>1. taken + i \in 1..n /\ i \in 1..(n - (taken + 1) + 1) /\ (taken + 1) + i - 1 = taken + i
    BY <1>1, <1>4
  <2>2. rest[i] = ms[taken + i]
    BY <1>2, <2>1
  <2> QED BY <2>1, <2>2
<1>6. ASSUME NEW m \in Emulator!Range(first) PROVE \E j \in 1..n : m = ms[j]
  <2>1. PICK i \in DOMAIN first : m = first[i]
    BY DEF Emulator!Range
  <2>2. i \in 1..Len(first)
    BY <1>3, <2>1
  <2>3. i \in 1..n /\ i \in 1..(taken - 1 + 1) /\ 1 + i - 1 = i
    BY <1>1, <1>3, <2>2
  <2> QED BY <1>3, <2>1, <2>3
<1> QED BY <1>2, <1>4, <1>5, <1>6 DEF rest, first

LEMMA DrainSound ==
  ASSUME NEW s, NEW left \in Nat, SessionSound(s)
  PROVE  LET t == Emulator!drainUntil(s, left)
         IN  SessionSound(t) /\ Drained(t, s) /\ (CaptureInv(s) => CaptureInv(t))
<1>0. /\ s \in SessionStates /\ s.h \in Histories /\ s.q \in Processes /\ s.h.audio \subseteq {s.h.started}
      /\ s.h.started \in 0..MaxRecordings /\ s.q.messages \in Seq(Emulator!Message) /\ PacketsTimed(s)
  BY DEF SessionSound, Counted, SessionStates, Histories, Processes
<1> DEFINE ms == s.q.messages
           taken == Len(ms) - left
           rest == SubSeq(ms, taken + 1, Len(ms))
           packets == {m \in Emulator!Range(SubSeq(ms, 1, taken)) : m.kind = "Pcm"}
           added == UNION {Emulator!appendAudio(s, m.time) : m \in packets}
           heard == s.h.audio \cup added
           h == [s.h EXCEPT !.audio = heard]
           q == [s.q EXCEPT !.messages = rest]
           t == Emulator!drainUntil(s, left)
<1>1. CASE taken < 0
  <2>1. t = s
    BY <1>1 DEF Emulator!drainUntil
  <2> QED BY <2>1 DEF Drained
<1>2. CASE ~(taken < 0)
  <2>1. left <= Len(ms)
    BY <1>0, <1>2
  <2>2. /\ rest \in Seq(Emulator!Message) /\ Len(rest) <= Len(ms)
        /\ \A i \in 1..Len(rest) : \E j \in 1..Len(ms) : rest[i] = ms[j]
        /\ \A m \in Emulator!Range(SubSeq(ms, 1, taken)) : \E j \in 1..Len(ms) : m = ms[j]
    BY <1>0, <2>1, LeftOver
  <2>3. ASSUME NEW m \in packets PROVE Emulator!appendAudio(s, m.time) \subseteq {s.h.started}
    <3>1. PICK i \in 1..Len(ms) : m = ms[i]
      BY <2>2
    <3>2. m.time <= s.h.started /\ m.time \in 0..MaxRecordings
      <4>1. ms[i] \in Emulator!Message
        BY <1>0
      <4> QED BY <1>0, <3>1, <4>1 DEF PacketsTimed, Emulator!Message
    <3>3. m.time >= s.h.started => m.time = s.h.started
      BY <1>0, <3>2
    <3> QED BY <1>0, <3>3 DEF Emulator!appendAudio
  <2>4. added \subseteq {s.h.started}
    BY <2>3
  <2>5. t = [s EXCEPT !.h = h, !.q = q]
    BY <1>0, <1>2 DEF Emulator!drainUntil, SessionStates, Histories, Processes
  <2> HIDE DEF t, added
  <2>6. heard \subseteq {s.h.started} /\ heard \in SUBSET (0..MaxRecordings)
    BY <1>0, <2>4
  <2> HIDE DEF heard, rest
  <2>7. h \in Histories /\ h.started = s.h.started /\ h.concluded = s.h.concluded /\ h.audio = heard
        /\ h.unsent = s.h.unsent
    BY <1>0, <2>6 DEF Histories
  <2>8. q \in Processes /\ q.state = s.q.state /\ q.files = s.q.files /\ q.voice = s.q.voice
        /\ q.commands = s.q.commands /\ q.messages = rest
    BY <1>0, <2>2 DEF Processes
  <2> HIDE DEF h, q
  <2>9. t \in SessionStates /\ t.a = s.a /\ t.q = q /\ t.w = s.w /\ t.h = h
    BY <1>0, <2>5, <2>7, <2>8 DEF SessionStates
  <2>10. Drained(t, s)
    BY <2>7, <2>8, <2>9 DEF Drained
  <2>11. PacketsTimed(t)
    <3>1. Len(rest) <= MaxMessages
      <4>1. Len(rest) \in Nat /\ Len(ms) \in Nat /\ Len(ms) <= MaxMessages
        BY <1>0, <2>2 DEF PacketsTimed
      <4> HIDE DEF ms
      <4> QED BY <2>2, <4>1, SessionBounds
    <3>2. ASSUME NEW i \in 1..Len(rest) PROVE rest[i].time <= s.h.started
      BY <1>0, <2>2, <3>2 DEF PacketsTimed
    <3> QED BY <2>7, <2>8, <2>9, <3>1, <3>2 DEF PacketsTimed
  <2>12. Owned(t) /\ Counted(t)
    BY <2>6, <2>7, <2>8, <2>9 DEF SessionSound, Owned, Counted
  <2>13. CaptureInv(s) => CaptureInv(t)
    BY <2>10 DEF Drained, CaptureInv, Silenced
  <2>14. SessionSound(t)
    BY <2>9, <2>11, <2>12 DEF SessionSound
  <2> QED BY <2>10, <2>13, <2>14 DEF t
<1> QED BY <1>1, <1>2

LEMMA DrainAll ==
  ASSUME NEW s, SessionSound(s)
  PROVE  LET t == Emulator!drain(s)
         IN  SessionSound(t) /\ Drained(t, s) /\ (CaptureInv(s) => CaptureInv(t))
  BY DrainSound DEF Emulator!drain

(* A command, which the child carries out after those before it.           *)
LEMMA CommandSound ==
  ASSUME NEW s, NEW enabled \in BOOLEAN, SessionSound(s)
  PROVE  /\ SessionSound(Emulator!Command(s, enabled)) /\ Emulator!Command(s, enabled).a = s.a
         /\ Emulator!Command(s, enabled).q.state = s.q.state
         /\ ~enabled /\ s.q.state = "running" => Silenced(Emulator!Command(s, enabled).q)
<1> DEFINE q == [s.q EXCEPT !.commands = Append(@, enabled)]
           h == [s.h EXCEPT !.unsent = FALSE]
<1>0. s \in SessionStates /\ s.q \in Processes /\ s.h \in Histories
  BY DEF SessionSound, SessionStates
<1>1. CASE s.q.state # "running"
  <2>1. Emulator!Command(s, enabled) = s
    BY <1>1 DEF Emulator!Command
  <2> QED BY <1>1, <2>1
<1>2. CASE s.q.state = "running"
  <2>1. Emulator!Command(s, enabled) = [s EXCEPT !.q = q, !.h = h]
    BY <1>0, <1>2 DEF Emulator!Command, SessionStates, Processes, Histories
  <2>2. q \in Processes /\ q.commands = Append(s.q.commands, enabled) /\ q.messages = s.q.messages
        /\ q.state = s.q.state /\ q.files = s.q.files
    <3>1. Append(s.q.commands, enabled) \in Seq(BOOLEAN)
      BY <1>0 DEF Processes
    <3> QED BY <1>0, <3>1 DEF Processes
  <2>3. h \in Histories /\ h.started = s.h.started /\ h.concluded = s.h.concluded /\ h.audio = s.h.audio
    BY <1>0 DEF Histories
  <2> HIDE DEF q, h
  <2>4. /\ Emulator!Command(s, enabled) \in SessionStates /\ Emulator!Command(s, enabled).a = s.a
           /\ Emulator!Command(s, enabled).q = q
        /\ Emulator!Command(s, enabled).w = s.w /\ Emulator!Command(s, enabled).h = h
    BY <1>0, <2>1, <2>2, <2>3 DEF SessionStates
  <2>5. SessionSound(Emulator!Command(s, enabled))
    BY <2>2, <2>3, <2>4 DEF SessionSound, PacketsTimed, Owned, Counted
  <2>6. ~enabled => Silenced(q)
    <3>1. s.q.commands \in Seq(BOOLEAN)
      BY <1>0 DEF Processes
    <3>2. q.commands # <<>> /\ Emulator!Last(q.commands) = enabled
      BY <2>2, <3>1 DEF Emulator!Last
    <3> QED BY <3>2 DEF Silenced
  <2> QED BY <2>2, <2>4, <2>5, <2>6
<1> QED BY <1>1, <1>2

(* A stop that is not sent is remembered.                                  *)
Unheard(s, asks) == [s EXCEPT !.h.unsent = @ \/ asks]

LEMMA UnsentSound ==
  ASSUME NEW s, NEW asks, SessionSound(s)
  PROVE  LET t == Unheard(s, asks)
         IN  SessionSound(t) /\ t.a = s.a /\ t.q = s.q /\ (t.h.unsent <=> s.h.unsent \/ asks)
<1> DEFINE unsent == s.h.unsent \/ asks
           h == [s.h EXCEPT !.unsent = unsent]
           t == Unheard(s, asks)
<1>0. s \in SessionStates /\ s.h \in Histories
  BY DEF SessionSound, SessionStates
<1>1. t = [s EXCEPT !.h = h]
  BY <1>0 DEF Unheard, SessionStates, Histories
<1>2. unsent \in BOOLEAN
  OBVIOUS
<1> HIDE DEF unsent
<1>3. h \in Histories /\ h.started = s.h.started /\ h.concluded = s.h.concluded /\ h.audio = s.h.audio
      /\ h.unsent = unsent
  BY <1>0, <1>2 DEF Histories
<1> HIDE DEF h, t
<1>4. t \in SessionStates /\ t.a = s.a /\ t.q = s.q /\ t.w = s.w /\ t.h = h
  BY <1>0, <1>1, <1>3 DEF SessionStates
<1>5. SessionSound(t)
  BY <1>3, <1>4 DEF SessionSound, PacketsTimed, Owned, Counted
<1>6. t.h.unsent <=> s.h.unsent \/ asks
  BY <1>3, <1>4 DEF unsent
<1> QED BY <1>4, <1>5, <1>6 DEF t

LEMMA FinishSound ==
  ASSUME NEW s, SessionSound(s), s.a.recorder = "active", ~s.a.starting
  PROVE  /\ SessionSound(Emulator!finish(s)) /\ Emulator!finish(s).q = s.q
         /\ (Emulator!finish(s).h.unsent <=> s.h.unsent)
         /\ Emulator!finish(s).a = [s.a EXCEPT !.recorder = "idle", !.stopping = FALSE, !.withAudio = FALSE]
<1>0. s \in SessionStates /\ s.a \in Applications /\ s.h \in Histories
  BY DEF SessionSound, SessionStates
<1> DEFINE a == [s.a EXCEPT !.recorder = "idle", !.stopping = FALSE, !.withAudio = FALSE]
           h == [s.h EXCEPT !.audio = {}]
<1>1. Emulator!finish(s) = [s EXCEPT !.a = a, !.w = "writing", !.h = h]
  BY <1>0 DEF Emulator!finish, SessionStates, Applications, Histories
<1>2. a \in Applications /\ h \in Histories
  BY <1>0 DEF Applications, Histories
<1>3. /\ a.files = s.a.files /\ a.running = s.a.running /\ a.recorder = "idle" /\ a.stopping = FALSE
         /\ a.starting = s.a.starting
      /\ h.started = s.h.started /\ h.concluded = s.h.concluded /\ h.audio = {} /\ h.unsent = s.h.unsent
  BY <1>0 DEF Applications, Histories
<1>4. a = [s.a EXCEPT !.recorder = "idle", !.stopping = FALSE, !.withAudio = FALSE]
  OBVIOUS
<1> HIDE DEF a, h
<1>5. Emulator!finish(s) \in SessionStates /\ Emulator!finish(s).a = a /\ Emulator!finish(s).q = s.q
      /\ Emulator!finish(s).h = h /\ Emulator!finish(s).w = "writing"
  BY <1>0, <1>1, <1>2 DEF SessionStates
<1>6. PacketsTimed(Emulator!finish(s)) /\ Owned(Emulator!finish(s))
  BY <1>3, <1>5 DEF SessionSound, PacketsTimed, Owned
<1>7. Counted(Emulator!finish(s))
  <2>1. s.w = "none"
    BY DEF SessionSound, Owned
  <2>2. s.h.started = s.h.concluded + 1
    BY <1>0, <2>1 DEF SessionSound, Counted, Histories
  <2> QED BY <1>0, <1>3, <1>5, <2>2 DEF Counted, Histories
<1> QED BY <1>3, <1>4, <1>5, <1>6, <1>7 DEF SessionSound

(* Marking a recording as one that waits for QEMU to stop.                 *)
LEMMA MarkSound ==
  ASSUME NEW s, SessionSound(s), s.a.recorder = "active"
  PROVE  LET t == [s EXCEPT !.a.stopping = TRUE]
         IN  SessionSound(t) /\ t.q = s.q /\ t.h = s.h /\ t.a = [s.a EXCEPT !.stopping = TRUE]
<1> DEFINE t == [s EXCEPT !.a.stopping = TRUE]
           a == [s.a EXCEPT !.stopping = TRUE]
<1>0. s \in SessionStates /\ s.a \in Applications
  BY DEF SessionSound, SessionStates
<1>1. a \in Applications /\ a.files = s.a.files /\ a.running = s.a.running /\ a.recorder = "active"
      /\ a.starting = s.a.starting
      /\ a.session = s.a.session /\ a.opened = s.a.opened
  BY <1>0 DEF Applications
<1>2. t = [s EXCEPT !.a = a]
  BY <1>0 DEF SessionStates, Applications
<1> HIDE DEF a
<1>3. t \in SessionStates /\ t.a = a /\ t.q = s.q /\ t.w = s.w /\ t.h = s.h
  BY <1>0, <1>1, <1>2 DEF SessionStates
<1>4. SessionSound(t)
  BY <1>1, <1>3 DEF SessionSound, PacketsTimed, Owned, Counted
<1> QED BY <1>3, <1>4 DEF a

(* stopRecording: the recording is over, or waits for QEMU, which has been *)
(* told.  Other fields of the application stay as they are.                *)
LeftAlone(r, s) ==
  /\ r.a.files = s.a.files /\ r.a.opened = s.a.opened /\ r.a.running = s.a.running /\ r.a.audio = s.a.audio
  /\ r.a.persist = s.a.persist /\ r.a.phase = s.a.phase /\ r.a.starting = s.a.starting
  /\ r.q.state = s.q.state

LEMMA StopSound ==
  ASSUME NEW s, NEW ending \in BOOLEAN, NEW stop \in Emulator!Stops, SessionSound(s), ~s.a.starting
  PROVE  LET r == Emulator!stopRecording(s, ending, stop)
         IN  /\ SessionSound(r) /\ LeftAlone(r, s)
             /\ CaptureInv(s) => CaptureInv(r)
             /\ ending => r.a.recorder = "idle"
<1> DEFINE asks == ~s.a.stopping /\ s.a.running /\ s.a.audio
           heard == asks /\ stop.told /\ s.q.state = "running"
           asked == IF heard THEN Emulator!Command(Emulator!drain(s), FALSE) ELSE [s EXCEPT !.h.unsent = @ \/ asks]
           waits == ~ending /\ s.a.running /\ s.a.audio /\ (asks => heard)
           marked == [asked EXCEPT !.a.stopping = TRUE]
           read == Emulator!drainUntil(asked, stop.left)
           r == Emulator!stopRecording(s, ending, stop)
<1>0. s \in SessionStates /\ s.a \in Applications /\ stop.left \in Nat
  <2>1. stop.left \in {0} \cup 0..MaxMessages
    BY DEF Emulator!Stops
  <2>2. s \in SessionStates /\ s.a \in Applications
    BY DEF SessionSound, SessionStates
  <2> QED BY <2>1, <2>2, SessionBounds
<1>1. CASE s.a.recorder # "active"
  <2>1. r = s /\ s.a.recorder = "idle"
    BY <1>0, <1>1 DEF Emulator!stopRecording, Applications
  <2> QED BY <2>1 DEF LeftAlone
<1>2. CASE s.a.recorder = "active"
  <2>1. r = IF waits THEN marked ELSE Emulator!finish(read)
    BY <1>2 DEF Emulator!stopRecording
  <2>2. SessionSound(asked) /\ asked.a = s.a /\ asked.q.state = s.q.state
        /\ (CaptureInv(s) /\ s.q.state = "running" => asked.h.unsent \/ Silenced(asked.q))
    <3>1. CASE heard
      <4>1. SessionSound(Emulator!drain(s)) /\ Emulator!drain(s).a = s.a /\ Emulator!drain(s).q.state = s.q.state
        BY DrainAll DEF Drained
      <4>2. asked = Emulator!Command(Emulator!drain(s), FALSE)
        BY <3>1
      <4> QED BY <3>1, <4>1, <4>2, CommandSound
    <3>2. CASE ~heard
      <4>1. asked = Unheard(s, asks)
        BY <3>2 DEF Unheard
      <4>2. ~asks /\ s.q.state = "running" => s.a.stopping \/ ~s.a.audio
        BY DEF SessionSound, Owned
      <4> HIDE DEF asks, asked
      <4>3. SessionSound(asked) /\ asked.a = s.a /\ asked.q = s.q /\ (asked.h.unsent <=> s.h.unsent \/ asks)
        <5>1. /\ SessionSound(Unheard(s, asks)) /\ Unheard(s, asks).a = s.a /\ Unheard(s, asks).q = s.q
              /\ Unheard(s, asks).h.unsent <=> s.h.unsent \/ asks
          BY ONLY SessionSound(s), UnsentSound
        <5> QED BY ONLY <4>1, <5>1
      <4>4. CaptureInv(s) /\ s.q.state = "running" => asked.h.unsent \/ Silenced(asked.q)
        BY <4>2, <4>3 DEF CaptureInv
      <4> QED BY <4>3, <4>4
    <3> QED BY <3>1, <3>2
  <2> HIDE DEF asked
  <2>3. asked.a.recorder = "active" /\ ~asked.a.starting
    BY <1>2, <2>2
  <2>4. CASE waits
    <3>1. r = marked /\ ~ending
      BY <2>1, <2>4
    <3>2. SessionSound(marked) /\ marked.q = asked.q /\ marked.h = asked.h /\ marked.a = [s.a EXCEPT !.stopping = TRUE]
      BY <2>2, <2>3, MarkSound
    <3> HIDE DEF marked
    <3>3. CaptureInv(s) => CaptureInv(r)
      BY <2>2, <3>1, <3>2 DEF CaptureInv
    <3>4. LeftAlone(r, s)
      BY <1>0, <2>2, <3>1, <3>2 DEF LeftAlone, Applications
    <3> QED BY <3>1, <3>2, <3>3, <3>4
  <2>5. CASE ~waits
    <3>1. r = Emulator!finish(read)
      BY <2>1, <2>5
    <3>2. SessionSound(read) /\ Drained(read, asked)
      BY <1>0, <2>2, DrainSound
    <3> HIDE DEF read
    <3>3. read.a.recorder = "active" /\ ~read.a.starting
      BY <2>3, <3>2 DEF Drained
    <3>4. /\ SessionSound(r) /\ r.q = read.q /\ (r.h.unsent <=> read.h.unsent)
          /\ r.a = [read.a EXCEPT !.recorder = "idle", !.stopping = FALSE, !.withAudio = FALSE]
      BY <3>1, <3>2, <3>3, FinishSound
    <3>5. CaptureInv(s) => CaptureInv(r)
      BY <2>2, <3>2, <3>4 DEF CaptureInv, Silenced, Drained
    <3>6. LeftAlone(r, s) /\ r.a.recorder = "idle"
      BY <1>0, <2>2, <3>2, <3>4 DEF LeftAlone, Drained, Applications
    <3> QED BY <3>4, <3>5, <3>6
  <2> QED BY <2>4, <2>5
<1> QED BY <1>0, <1>1, <1>2 DEF Applications

LEMMA StopQemuSound ==
  ASSUME NEW s, SessionSound(s)
  PROVE  LET t == Emulator!stopQemu(s)
         IN  SessionSound(t) /\ CaptureInv(t) /\ t.q = Emulator!NoQemu /\ t.a = [s.a EXCEPT !.running = FALSE]
           /\ t.w = s.w
<1> DEFINE t == Emulator!stopQemu(s)
           a == [s.a EXCEPT !.running = FALSE]
           h == [s.h EXCEPT !.unsent = FALSE]
<1>0. s \in SessionStates /\ s.a \in Applications /\ s.h \in Histories
  BY DEF SessionSound, SessionStates
<1>1. Emulator!NoQemu \in Processes /\ Emulator!NoQemu.messages = <<>> /\ Emulator!NoQemu.state = "none"
  <2>1. <<>> \in Seq(Emulator!Message) /\ <<>> \in Seq(BOOLEAN)
    OBVIOUS
  <2>2. 0 \in 0..MaxSessions
    BY SessionBounds
  <2> QED BY <2>1, <2>2 DEF Emulator!NoQemu, Processes
<1>2. t = [s EXCEPT !.a = a, !.q = Emulator!NoQemu, !.h = h]
  BY <1>0 DEF Emulator!stopQemu, SessionStates, Applications, Histories
<1>3. /\ a \in Applications /\ a.recorder = s.a.recorder /\ a.stopping = s.a.stopping /\ a.starting = s.a.starting
      /\ a.session = s.a.session /\ a.opened = s.a.opened
      /\ h \in Histories /\ h.started = s.h.started /\ h.concluded = s.h.concluded /\ h.audio = s.h.audio
  BY <1>0 DEF Applications, Histories
<1>4. a = [s.a EXCEPT !.running = FALSE]
  OBVIOUS
<1> HIDE DEF a, h
<1>5. t \in SessionStates /\ t.a = a /\ t.q = Emulator!NoQemu /\ t.w = s.w /\ t.h = h
  BY <1>0, <1>1, <1>2, <1>3 DEF SessionStates
<1> HIDE DEF t
<1>6. PacketsTimed(t)
  BY <1>1, <1>5, SessionBounds DEF PacketsTimed
<1>7. Owned(t) /\ Counted(t)
  BY <1>1, <1>3, <1>5 DEF SessionSound, Owned, Counted
<1>8. CaptureInv(t)
  BY <1>1, <1>5 DEF CaptureInv
<1> QED BY <1>4, <1>5, <1>6, <1>7, <1>8 DEF SessionSound, t

LEMMA ToldSound == Emulator!ToldStop \in Emulator!Stops
  BY DEF Emulator!ToldStop, Emulator!Stops

(* The recording and the child are over; the files may change now.         *)
LEMMA EndedSound ==
  ASSUME NEW s, SessionSound(s), ~s.a.starting
  PROVE  LET e == Emulator!endSession(s)
         IN  /\ SessionSound(e) /\ e.q = Emulator!NoQemu /\ e.a.recorder = "idle"
             /\ e.a.files = s.a.files /\ e.a.opened = s.a.opened /\ ~e.a.starting /\ ~e.a.running
<1> DEFINE r == Emulator!stopRecording(s, TRUE, Emulator!ToldStop)
<1>1. SessionSound(r) /\ LeftAlone(r, s) /\ r.a.recorder = "idle"
  BY ToldSound, StopSound
<1> HIDE DEF r
<1>2. LET t == Emulator!stopQemu(r) IN SessionSound(t) /\ t.q = Emulator!NoQemu
      /\ t.a = [r.a EXCEPT !.running = FALSE]
  BY <1>1, StopQemuSound
<1>3. r.a \in Applications
  BY <1>1 DEF SessionSound, SessionStates
<1> QED BY <1>1, <1>2, <1>3 DEF Emulator!endSession, r, LeftAlone, Applications

(* The application's own fields.                                           *)
LEMMA AppSound ==
  ASSUME NEW s, SessionSound(s), NEW a \in Applications,
         a.recorder = s.a.recorder, a.stopping = s.a.stopping, a.starting => a.recorder = "active",
         a.opened = s.a.opened, a.session = s.a.session,
         s.q.state # "none" => a.files = s.a.files, s.q.state = "running" => a.running
  PROVE  LET t == [s EXCEPT !.a = a]
         IN  /\ SessionSound(t) /\ t.a = a /\ t.q = s.q /\ t.w = s.w /\ t.h = s.h
             /\ CaptureInv(s) /\ a.audio = s.a.audio => CaptureInv(t)
             /\ s.q.state # "running" => CaptureInv(t)
<1> DEFINE t == [s EXCEPT !.a = a]
<1>1. t \in SessionStates /\ t.a = a /\ t.q = s.q /\ t.w = s.w /\ t.h = s.h
  BY DEF SessionSound, SessionStates
<1> HIDE DEF t
<1>2. PacketsTimed(t)
  BY <1>1 DEF SessionSound, PacketsTimed
<1>3. Owned(t) /\ Counted(t)
  BY <1>1 DEF SessionSound, Owned, Counted
<1>4. (CaptureInv(s) /\ a.audio = s.a.audio => CaptureInv(t)) /\ (s.q.state # "running" => CaptureInv(t))
  BY <1>1 DEF CaptureInv
<1> QED BY <1>1, <1>2, <1>3, <1>4 DEF SessionSound, t

LEMMA RestartSound ==
  ASSUME NEW s, NEW launched \in BOOLEAN, SessionSound(s), ~s.a.starting, s.a.opened < MaxSessions,
         s.a.files = 0 => CaptureInv(s)
  PROVE  SessionSound(Emulator!restart(s, launched)) /\ CaptureInv(Emulator!restart(s, launched))
<1> DEFINE stopped == Emulator!endSession(s)
           r == Emulator!restart(s, launched)
           q == [Emulator!NoQemu EXCEPT !.state = "running", !.files = s.a.files]
           a == [stopped.a EXCEPT !.running = TRUE, !.opened = @ + 1]
<1>1. CASE s.a.files = 0
  BY <1>1 DEF Emulator!restart
<1>2. CASE s.a.files # 0 /\ ~launched
  <2>1. r = stopped
    BY <1>2 DEF Emulator!restart
  <2>2. stopped.q.state = "none"
    BY EndedSound DEF Emulator!NoQemu
  <2> QED BY <2>1, <2>2, EndedSound DEF CaptureInv
<1>3. CASE s.a.files # 0 /\ launched
  <2>1. r = [stopped EXCEPT !.a.running = TRUE, !.a.opened = @ + 1, !.q = q]
    BY <1>3 DEF Emulator!restart
  <2>2. /\ SessionSound(stopped) /\ stopped.a.recorder = "idle" /\ stopped.a.files = s.a.files
           /\ stopped.a.opened = s.a.opened
        /\ ~stopped.a.starting
    BY EndedSound
  <2> HIDE DEF stopped
  <2>3. stopped \in SessionStates /\ stopped.a \in Applications /\ s.a.files \in 0..MaxSessions
        /\ stopped.a.opened + 1 \in 0..MaxSessions
    <3>1. stopped \in SessionStates /\ stopped.a \in Applications /\ s.a.files \in 0..MaxSessions
          /\ s.a.opened \in 0..MaxSessions
      BY <2>2 DEF SessionSound, SessionStates, Applications
    <3> QED BY <2>2, <3>1, SessionBounds
  <2>4. /\ a \in Applications /\ a.recorder = "idle" /\ a.running = TRUE /\ a.files = s.a.files
        /\ a.stopping = stopped.a.stopping /\ a.starting = stopped.a.starting
    BY <2>2, <2>3 DEF Applications
  <2>5. q \in Processes /\ q.messages = <<>> /\ q.commands = <<>> /\ q.voice = FALSE /\ q.files = s.a.files
    <3>1. <<>> \in Seq(Emulator!Message) /\ <<>> \in Seq(BOOLEAN)
      OBVIOUS
    <3> QED BY <2>3, <3>1 DEF Emulator!NoQemu, Processes
  <2>6. r = [stopped EXCEPT !.a = a, !.q = q]
    BY <2>1, <2>3 DEF SessionStates, Applications
  <2> HIDE DEF a, q
  <2>7. r \in SessionStates /\ r.a = a /\ r.q = q /\ r.w = stopped.w /\ r.h = stopped.h
    BY <2>3, <2>4, <2>5, <2>6 DEF SessionStates
  <2> HIDE DEF r
  <2>8. PacketsTimed(r)
    BY <2>5, <2>7, SessionBounds DEF PacketsTimed
  <2>9. Owned(r) /\ Counted(r)
    BY <1>3, <2>2, <2>4, <2>5, <2>7 DEF SessionSound, Owned, Counted
  <2>10. CaptureInv(r)
    BY <2>5, <2>7 DEF CaptureInv, Silenced
  <2> QED BY <2>7, <2>8, <2>9, <2>10 DEF SessionSound, r
<1> QED BY <1>1, <1>2, <1>3

LEMMA BecomesSound == ASSUME NEW s, SessionSound(s), CaptureInv(s), Emulator!Becomes(s) PROVE SessionInv'
<1>1. Emulator!Now' = s
  BY DEF Emulator!Becomes, Emulator!Now, SessionSound, SessionStates
<1> QED BY <1>1 DEF SessionInv, SessionSound, PacketsTimed, Owned, Counted, CaptureInv, Silenced

LEMMA NowFields ==
  ASSUME SessionInv
  PROVE  /\ SessionSound(Emulator!Now) /\ CaptureInv(Emulator!Now) /\ Emulator!Now.a = program
            /\ Emulator!Now.q = process /\ Emulator!Now.w = worker /\ Emulator!Now.h = history
         /\ program \in Applications /\ process \in Processes /\ history \in Histories
            /\ worker \in {"none", "writing", "saved", "failed"}
  BY DEF SessionInv, SessionSound, SessionStates, Emulator!Now

LEMMA ToggleStep ==
  ASSUME SessionInv, NEW stop \in Emulator!Stops,
         Emulator!ToggleStops(stop) \/ (\E b \in BOOLEAN : Emulator!ToggleStarts(b, stop))
  PROVE  SessionInv'
<1>0. SessionSound(Emulator!Now) /\ CaptureInv(Emulator!Now) /\ Emulator!Now.a = program /\ Emulator!Now.q = process
      /\ Emulator!Now.w = worker /\ Emulator!Now.h = history
      /\ program \in Applications /\ history \in Histories
  BY NowFields
<1>1. CASE Emulator!ToggleStops(stop)
  <2>1. Emulator!Becomes(Emulator!stopRecording(Emulator!Now, FALSE, stop)) /\ ~program.starting
    BY <1>1 DEF Emulator!ToggleStops, Emulator!Looping
  <2>2. SessionSound(Emulator!stopRecording(Emulator!Now, FALSE, stop))
        /\ CaptureInv(Emulator!stopRecording(Emulator!Now, FALSE, stop))
    BY <1>0, <2>1, StopSound
  <2> QED BY <2>1, <2>2, BecomesSound
<1>2. ASSUME NEW b \in BOOLEAN, Emulator!ToggleStarts(b, stop) PROVE SessionInv'
  <2> DEFINE started == [Emulator!Now EXCEPT !.a.recorder = "active", !.a.withAudio = program.audio, !.a.session = program.opened,
                                    !.h.started = @ + 1, !.h.audio = {}]
             a == [program EXCEPT !.recorder = "active", !.withAudio = program.audio, !.session = program.opened]
             h == [history EXCEPT !.started = @ + 1, !.audio = {}]
             sent == Emulator!Command(Emulator!drain(started), TRUE)
             commanded == [sent EXCEPT !.a.starting = TRUE]
  <2>1. ~program.starting /\ program.recorder = "idle" /\ program.running /\ worker = "none"
        /\ history.started < MaxRecordings
    BY <1>2 DEF Emulator!ToggleStarts, Emulator!Looping
  <2>2. \/ Emulator!Becomes(Emulator!stopRecording(started, TRUE, stop))
        \/ Emulator!Becomes(commanded) /\ program.audio
        \/ Emulator!Becomes(started) /\ ~program.audio
    BY <1>2 DEF Emulator!ToggleStarts
  <2>3. started = [Emulator!Now EXCEPT !.a = a, !.h = h]
    BY <1>0 DEF Emulator!Now, Applications, Histories
  <2>4. /\ a \in Applications /\ a.recorder = "active" /\ a.session = a.opened /\ a.stopping = program.stopping
           /\ a.starting = program.starting
        /\ a.files = program.files /\ a.running = program.running /\ a.audio = program.audio
    BY <1>0 DEF Applications
  <2>5. h \in Histories /\ h.started = history.started + 1 /\ h.concluded = history.concluded /\ h.audio = {}
        /\ h.unsent = history.unsent
    <3>1. history.started + 1 \in 0..MaxRecordings
      BY <1>0, <2>1, SessionBounds DEF Histories
    <3> QED BY <1>0, <3>1 DEF Histories
  <2> HIDE DEF a, h
  <2>6. started \in SessionStates /\ started.a = a /\ started.q = process /\ started.w = worker /\ started.h = h
    BY <1>0, <2>3, <2>4, <2>5, NowFields DEF SessionStates, Emulator!Now
  <2> HIDE DEF started
  <2>7. PacketsTimed(started)
    <3>1. history.started \in Nat /\ h.started = history.started + 1 /\ process.messages \in Seq(Emulator!Message)
      BY <1>0, <2>5, NowFields DEF Histories, Processes
    <3>2. ASSUME NEW i \in 1..Len(process.messages) PROVE process.messages[i].time <= h.started
      <4>1. process.messages[i].time <= history.started
        BY <1>0 DEF SessionSound, PacketsTimed
      <4>2. process.messages[i] \in Emulator!Message
        BY <3>1
      <4>3. process.messages[i].time \in Nat
        BY <4>2, SessionBounds DEF Emulator!Message
      <4> QED BY <3>1, <4>1, <4>3
    <3> QED BY <1>0, <2>6, <3>2 DEF SessionSound, PacketsTimed
  <2>8. Owned(started)
    BY <1>0, <2>1, <2>4, <2>6 DEF SessionSound, Owned
  <2>9. Counted(started)
    <3>1. history.started = history.concluded
      BY <1>0, <2>1 DEF SessionSound, Counted, Histories
    <3> QED BY <1>0, <2>1, <2>4, <2>5, <2>6, <3>1 DEF Counted, Histories
  <2>10. SessionSound(started)
    BY <2>6, <2>7, <2>8, <2>9 DEF SessionSound
  <2>11. CaptureInv(started)
    BY <1>0, <2>1, <2>4, <2>5, <2>6, <2>8 DEF CaptureInv, SessionSound, Owned
  <2>12. CASE Emulator!Becomes(Emulator!stopRecording(started, TRUE, stop))
    <3>1. SessionSound(Emulator!stopRecording(started, TRUE, stop)) /\ CaptureInv(Emulator!stopRecording(started, TRUE, stop))
      BY <2>1, <2>4, <2>6, <2>10, <2>11, StopSound
    <3> QED BY <2>12, <3>1, BecomesSound
  <2>13. CASE Emulator!Becomes(commanded) /\ program.audio
    <3>1. SessionSound(Emulator!drain(started)) /\ Emulator!drain(started).a = a
      BY <2>6, <2>10, DrainAll DEF Drained
    <3>2. SessionSound(sent) /\ sent.a = a
      BY <3>1, CommandSound
    <3> HIDE DEF sent
    <3>3. sent \in SessionStates
      BY <3>2 DEF SessionSound
    <3> DEFINE b2 == [a EXCEPT !.starting = TRUE]
    <3>4. commanded = [sent EXCEPT !.a = b2]
      BY <2>4, <3>2, <3>3 DEF SessionStates, Applications
    <3>5. /\ b2 \in Applications /\ b2.recorder = a.recorder /\ b2.stopping = a.stopping /\ b2.opened = a.opened
             /\ b2.session = a.session
          /\ b2.files = a.files /\ b2.running = a.running /\ b2.audio = a.audio
      BY <2>4 DEF Applications
    <3> HIDE DEF b2
    <3>6. sent.q.state = "running" => a.running
      BY <3>2 DEF SessionSound, Owned
    <3>7. SessionSound(commanded) /\ commanded.a = b2
      <4>1. SessionSound(sent) /\ sent.a = a
        BY <3>2
      <4>2. /\ b2 \in Applications /\ b2.recorder = sent.a.recorder /\ b2.stopping = sent.a.stopping
            /\ (b2.starting => b2.recorder = "active") /\ b2.opened = sent.a.opened /\ b2.session = sent.a.session
            /\ (sent.q.state # "none" => b2.files = sent.a.files) /\ (sent.q.state = "running" => b2.running)
        BY <2>4, <3>5, <3>6, <4>1
      <4>3. SessionSound([sent EXCEPT !.a = b2]) /\ [sent EXCEPT !.a = b2].a = b2
        BY <4>1, <4>2, AppSound
      <4> QED BY <3>4, <4>3
    <3>8. CaptureInv(commanded)
      <4>1. ~program.stopping
        BY <1>0, <2>1 DEF SessionSound, Owned
      <4> QED BY <2>4, <2>13, <3>5, <3>7, <4>1 DEF CaptureInv
    <3> QED BY <2>13, <3>7, <3>8, BecomesSound
  <2>14. CASE Emulator!Becomes(started) /\ ~program.audio
    BY <2>10, <2>11, <2>14, BecomesSound
  <2> QED BY <2>2, <2>12, <2>13, <2>14
<1> QED BY <1>1, <1>2

(* The start is over, one way or another.                                  *)
LEMMA StartingEnds ==
  ASSUME NEW s, SessionSound(s), CaptureInv(s)
  PROVE  LET t == [s EXCEPT !.a.starting = FALSE] IN SessionSound(t) /\ CaptureInv(t) /\ ~t.a.starting
<1> DEFINE a == [s.a EXCEPT !.starting = FALSE]
           t == [s EXCEPT !.a.starting = FALSE]
<1>0. s \in SessionStates /\ s.a \in Applications
  BY DEF SessionSound, SessionStates
<1>1. /\ a \in Applications /\ a.recorder = s.a.recorder /\ a.stopping = s.a.stopping /\ a.opened = s.a.opened
         /\ a.session = s.a.session
      /\ a.files = s.a.files /\ a.running = s.a.running /\ a.audio = s.a.audio /\ a.starting = FALSE
  BY <1>0 DEF Applications
<1>2. t = [s EXCEPT !.a = a]
  BY <1>0 DEF SessionStates, Applications
<1> HIDE DEF a
<1>3. s.q.state = "running" => s.a.running
  BY DEF SessionSound, Owned
<1>4. a.starting => a.recorder = "active"
  BY <1>1
<1>5. LET u == [s EXCEPT !.a = a] IN SessionSound(u) /\ u.a = a /\ CaptureInv(u)
  BY <1>1, <1>3, <1>4, AppSound
<1> QED BY <1>1, <1>2, <1>5

LEMMA StartingStep ==
  ASSUME SessionInv, NEW stop \in Emulator!Stops, Emulator!StartAnswered(stop) \/ Emulator!StartTimesOut(stop)
  PROVE  SessionInv'
<1>0. SessionSound(Emulator!Now) /\ CaptureInv(Emulator!Now)
  BY NowFields
<1>1. SessionSound(Emulator!drain(Emulator!Now)) /\ CaptureInv(Emulator!drain(Emulator!Now))
  BY <1>0, DrainAll
<1> DEFINE s == [Emulator!drain(Emulator!Now) EXCEPT !.a.starting = FALSE]
           t == [Emulator!Now EXCEPT !.a.starting = FALSE]
<1>2. SessionSound(s) /\ CaptureInv(s) /\ ~s.a.starting /\ SessionSound(t) /\ CaptureInv(t) /\ ~t.a.starting
  BY <1>0, <1>1, StartingEnds
<1>3. \/ Emulator!Becomes(s) \/ Emulator!Becomes(Emulator!stopRecording(s, TRUE, stop))
         \/ Emulator!Becomes(Emulator!drain(Emulator!Now)) \/ Emulator!Becomes(Emulator!stopRecording(t, TRUE, stop))
  BY DEF Emulator!StartAnswered, Emulator!StartTimesOut
<1> HIDE DEF s, t
<1>4. /\ SessionSound(Emulator!stopRecording(s, TRUE, stop)) /\ CaptureInv(Emulator!stopRecording(s, TRUE, stop))
      /\ SessionSound(Emulator!stopRecording(t, TRUE, stop)) /\ CaptureInv(Emulator!stopRecording(t, TRUE, stop))
  BY <1>2, StopSound
<1> QED BY <1>1, <1>2, <1>3, <1>4, BecomesSound

LEMMA PollStep ==
  ASSUME SessionInv,
         \/ \E b \in BOOLEAN : Emulator!PollStopping(b)
         \/ \E left \in 0..MaxMessages : Emulator!PollFails(left)
         \/ Emulator!PollFinished
         \/ \E b \in BOOLEAN, stop \in Emulator!Stops : Emulator!AppendFrame(b, stop)
  PROVE  SessionInv'
<1>0. SessionSound(Emulator!Now) /\ CaptureInv(Emulator!Now) /\ Emulator!Now.a = program /\ Emulator!Now.q = process
      /\ Emulator!Now.w = worker /\ Emulator!Now.h = history
      /\ program \in Applications /\ history \in Histories
  BY NowFields
<1>1. SessionSound(Emulator!drain(Emulator!Now)) /\ CaptureInv(Emulator!drain(Emulator!Now))
      /\ Emulator!drain(Emulator!Now).a = program
  BY <1>0, DrainAll DEF Drained
<1>2. ASSUME NEW b \in BOOLEAN, Emulator!PollStopping(b) PROVE SessionInv'
  <2>1. program.stopping /\ ~program.starting
        /\ (Emulator!Becomes(Emulator!finish(Emulator!drain(Emulator!Now))) \/ Emulator!Becomes(Emulator!drain(Emulator!Now)))
    BY <1>2 DEF Emulator!PollStopping
  <2>2. program.recorder = "active"
    BY <1>0, <2>1 DEF SessionSound, Owned
  <2>3. /\ SessionSound(Emulator!finish(Emulator!drain(Emulator!Now)))
           /\ Emulator!finish(Emulator!drain(Emulator!Now)).q = Emulator!drain(Emulator!Now).q
           /\ (Emulator!finish(Emulator!drain(Emulator!Now)).h.unsent <=> Emulator!drain(Emulator!Now).h.unsent)
        /\ Emulator!finish(Emulator!drain(Emulator!Now)).a = [Emulator!drain(Emulator!Now).a EXCEPT !.recorder = "idle", !.stopping = FALSE, !.withAudio = FALSE]
    BY <1>1, <2>1, <2>2, FinishSound
  <2>4. Emulator!finish(Emulator!drain(Emulator!Now)).a.audio = program.audio
    BY <1>0, <1>1, <2>3 DEF Applications
  <2>5. CaptureInv(Emulator!finish(Emulator!drain(Emulator!Now)))
    BY <1>1, <2>1, <2>3 DEF CaptureInv
  <2> QED BY <1>1, <2>1, <2>3, <2>5, BecomesSound
<1>3. CASE Emulator!PollFinished
  <2> DEFINE h == [history EXCEPT !.concluded = @ + 1]
             s == [Emulator!Now EXCEPT !.w = "none", !.h.concluded = @ + 1]
  <2>1. worker \in {"saved", "failed"} /\ ~program.starting
        /\ (Emulator!Becomes(s) \/ Emulator!Becomes(Emulator!stopRecording(s, TRUE, Emulator!ToldStop)))
    BY <1>3 DEF Emulator!PollFinished
  <2>2. program.recorder # "active" /\ history.started = history.concluded + 1
    BY <1>0, <2>1 DEF SessionSound, Owned, Counted, Histories
  <2>3. s = [Emulator!Now EXCEPT !.w = "none", !.h = h]
    BY <1>0 DEF Emulator!Now, Histories
  <2>4. h \in Histories /\ h.concluded = history.started /\ h.started = history.started /\ h.audio = history.audio
        /\ h.unsent = history.unsent
    BY <1>0, <2>2, SessionBounds DEF Histories
  <2> HIDE DEF h
  <2>5. s \in SessionStates /\ s.a = program /\ s.q = process /\ s.w = "none" /\ s.h = h
    BY <2>3, <2>4, NowFields DEF SessionStates, Emulator!Now
  <2> HIDE DEF s
  <2>6. PacketsTimed(s) /\ Owned(s) /\ Counted(s)
    BY <1>0, <2>2, <2>4, <2>5 DEF SessionSound, PacketsTimed, Owned, Counted, Histories
  <2>7. SessionSound(s) /\ CaptureInv(s)
    BY <1>0, <2>4, <2>5, <2>6 DEF SessionSound, CaptureInv
  <2>8. SessionSound(Emulator!stopRecording(s, TRUE, Emulator!ToldStop)) /\ CaptureInv(Emulator!stopRecording(s, TRUE, Emulator!ToldStop))
    BY <2>1, <2>5, <2>7, StopSound, ToldSound
  <2> QED BY <2>1, <2>7, <2>8, BecomesSound
<1>4. ASSUME NEW b \in BOOLEAN, NEW stop \in Emulator!Stops, Emulator!AppendFrame(b, stop) PROVE SessionInv'
  <2>1. ~program.starting
        /\ (\/ Emulator!Becomes(Emulator!drain(Emulator!Now))
            \/ Emulator!Becomes(Emulator!stopRecording(Emulator!Now, TRUE, stop)))
    BY <1>4 DEF Emulator!AppendFrame, Emulator!Looping
  <2>2. SessionSound(Emulator!stopRecording(Emulator!Now, TRUE, stop))
        /\ CaptureInv(Emulator!stopRecording(Emulator!Now, TRUE, stop))
    BY <1>0, <2>1, StopSound
  <2> QED BY <1>1, <2>1, <2>2, BecomesSound
<1>5. ASSUME NEW left \in 0..MaxMessages, Emulator!PollFails(left) PROVE SessionInv'
  <2> DEFINE stop == [told |-> FALSE, left |-> left]
  <2>1. stop \in Emulator!Stops
    BY DEF Emulator!Stops
  <2>2. ~program.starting /\ Emulator!Becomes(Emulator!stopRecording(Emulator!Now, TRUE, stop))
    BY <1>5 DEF Emulator!PollFails
  <2> HIDE DEF stop
  <2>3. SessionSound(Emulator!stopRecording(Emulator!Now, TRUE, stop))
        /\ CaptureInv(Emulator!stopRecording(Emulator!Now, TRUE, stop))
    BY <1>0, <2>1, <2>2, StopSound
  <2> QED BY <2>2, <2>3, BecomesSound
<1> QED BY <1>2, <1>3, <1>4, <1>5

(* Opening, restarting and the settings that need it.                      *)
LEMMA LaunchStep ==
  ASSUME SessionInv,
         \/ \E r, b \in BOOLEAN : Emulator!OpenFirmware(r, b)
         \/ \E b \in BOOLEAN : Emulator!Restart(b)
         \/ \E p, b \in BOOLEAN : Emulator!ChangePersistence(p, b)
         \/ \E b \in BOOLEAN : Emulator!ChangeSound(b)
  PROVE  SessionInv'
<1>0. SessionSound(Emulator!Now) /\ CaptureInv(Emulator!Now) /\ Emulator!Now.a = program /\ Emulator!Now.q = process
      /\ Emulator!Now.w = worker /\ Emulator!Now.h = history
      /\ program \in Applications /\ Emulator!Now \in SessionStates
  BY NowFields DEF SessionSound
<1>1. ~program.starting /\ program.opened < MaxSessions
  BY DEF Emulator!OpenFirmware, Emulator!Restart, Emulator!ChangePersistence, Emulator!ChangeSound, Emulator!Looping,
         Emulator!CanLaunch
<1> DEFINE ended == Emulator!endSession(Emulator!Now)
<1>2. /\ SessionSound(ended) /\ ended.q = Emulator!NoQemu /\ ended.a.recorder = "idle"
      /\ ended.a.files = program.files /\ ended.a.opened = program.opened /\ ~ended.a.starting /\ ~ended.a.running
  BY <1>0, <1>1, EndedSound
<1>3. ended \in SessionStates /\ ended.a \in Applications /\ ended.q.state = "none" /\ CaptureInv(ended)
  BY <1>2 DEF SessionSound, SessionStates, Emulator!NoQemu, CaptureInv
<1>4. /\ program.files \in 0..MaxSessions /\ program.persist \in BOOLEAN
      /\ program.files < MaxSessions => program.files + 1 \in 0..MaxSessions
  <2>1. program.files \in 0..MaxSessions /\ program.persist \in BOOLEAN
    BY <1>0 DEF Applications
  <2> QED BY <2>1, SessionBounds
<1>5. ASSUME NEW r \in BOOLEAN, NEW b \in BOOLEAN, Emulator!OpenFirmware(r, b) PROVE SessionInv'
  <2> DEFINE a == [ended.a EXCEPT !.files = @ + 1]
             s == [ended EXCEPT !.a.files = @ + 1]
  <2>1. (Emulator!Becomes(Emulator!restart(ended, b)) \/ Emulator!Becomes(Emulator!restart(s, b)))
        /\ program.files < MaxSessions
    BY <1>5 DEF Emulator!OpenFirmware
  <2> HIDE DEF ended
  <2>2. s = [ended EXCEPT !.a = a]
    BY <1>3 DEF SessionStates, Applications
  <2>3. /\ a \in Applications /\ a.recorder = ended.a.recorder /\ a.stopping = ended.a.stopping
           /\ a.opened = ended.a.opened
        /\ a.session = ended.a.session /\ a.starting = ended.a.starting
    BY <1>2, <1>3, <1>4, <2>1 DEF Applications
  <2> HIDE DEF a
  <2>4. a.starting => a.recorder = "active"
    BY <1>2, <2>3
  <2>5. LET t == [ended EXCEPT !.a = a] IN SessionSound(t) /\ t.a = a /\ CaptureInv(t)
    BY <1>2, <1>3, <2>3, <2>4, AppSound
  <2>6. SessionSound(s) /\ CaptureInv(s) /\ ~s.a.starting /\ s.a.opened < MaxSessions
    BY <1>1, <1>2, <2>2, <2>3, <2>5
  <2> HIDE DEF s
  <2>7. SessionSound(Emulator!restart(s, b)) /\ CaptureInv(Emulator!restart(s, b))
        /\ SessionSound(Emulator!restart(ended, b)) /\ CaptureInv(Emulator!restart(ended, b))
    BY <1>1, <1>2, <1>3, <2>6, RestartSound
  <2> QED BY <2>1, <2>7, BecomesSound
<1>6. ASSUME NEW b \in BOOLEAN, Emulator!Restart(b) PROVE SessionInv'
  <2>1. Emulator!Becomes(Emulator!restart(Emulator!Now, b))
    BY <1>6 DEF Emulator!Restart
  <2>2. SessionSound(Emulator!restart(Emulator!Now, b)) /\ CaptureInv(Emulator!restart(Emulator!Now, b))
    BY <1>0, <1>1, RestartSound
  <2> QED BY <2>1, <2>2, BecomesSound
<1>7. ASSUME NEW p \in BOOLEAN, NEW b \in BOOLEAN, Emulator!ChangePersistence(p, b) PROVE SessionInv'
  <2> DEFINE a == [ended.a EXCEPT !.files = @ + 1, !.persist = ~@]
             s == [ended EXCEPT !.a.files = @ + 1, !.a.persist = ~@]
             a0 == [program EXCEPT !.persist = ~@]
             t == [Emulator!Now EXCEPT !.a.persist = ~@]
  <2>1. (Emulator!Becomes(Emulator!restart(ended, b)) \/ Emulator!Becomes(Emulator!restart(s, b)) \/ Emulator!Becomes(t)) /\ program.files < MaxSessions
    BY <1>7 DEF Emulator!ChangePersistence
  <2> HIDE DEF ended
  <2>2. s = [ended EXCEPT !.a = a] /\ t = [Emulator!Now EXCEPT !.a = a0]
    BY <1>0, <1>3 DEF SessionStates, Applications
  <2>3. /\ a \in Applications /\ a.recorder = ended.a.recorder /\ a.stopping = ended.a.stopping
           /\ a.opened = ended.a.opened
        /\ a.session = ended.a.session /\ a.starting = ended.a.starting
    BY <1>2, <1>3, <1>4, <2>1 DEF Applications
  <2>4. /\ a0 \in Applications /\ a0.recorder = program.recorder /\ a0.stopping = program.stopping
           /\ a0.opened = program.opened
        /\ a0.session = program.session /\ a0.starting = program.starting /\ a0.files = program.files
           /\ a0.running = program.running
        /\ a0.audio = program.audio
    BY <1>0, <1>4 DEF Applications
  <2> HIDE DEF a, a0
  <2>5. LET u == [ended EXCEPT !.a = a] IN SessionSound(u) /\ u.a = a /\ CaptureInv(u)
    <3>1. a.starting => a.recorder = "active"
      BY <1>2, <2>3
    <3> QED BY <1>2, <1>3, <2>3, <3>1, AppSound
  <2>6. SessionSound(s) /\ CaptureInv(s) /\ ~s.a.starting /\ s.a.opened < MaxSessions
    BY <1>1, <1>2, <2>2, <2>3, <2>5
  <2>7. SessionSound(t) /\ CaptureInv(t)
    <3>1. (process.state = "running" => a0.running) /\ (a0.starting => a0.recorder = "active")
      BY <1>0, <1>1, <2>4 DEF SessionSound, Owned
    <3>2. LET u == [Emulator!Now EXCEPT !.a = a0] IN SessionSound(u) /\ CaptureInv(u)
      BY <1>0, <2>4, <3>1, AppSound
    <3> QED BY <2>2, <3>2
  <2> HIDE DEF s, t
  <2>8. SessionSound(Emulator!restart(s, b)) /\ CaptureInv(Emulator!restart(s, b))
        /\ SessionSound(Emulator!restart(ended, b)) /\ CaptureInv(Emulator!restart(ended, b))
    BY <1>1, <1>2, <1>3, <2>6, RestartSound
  <2> QED BY <2>1, <2>7, <2>8, BecomesSound
<1>8. ASSUME NEW b \in BOOLEAN, Emulator!ChangeSound(b) PROVE SessionInv'
  <2> DEFINE a == [program EXCEPT !.audio = ~@]
             t == [Emulator!Now EXCEPT !.a.audio = ~@]
  <2>1. Emulator!Becomes(Emulator!restart(t, b))
    BY <1>8 DEF Emulator!ChangeSound
  <2>2. t = [Emulator!Now EXCEPT !.a = a]
    BY <1>0 DEF SessionStates, Applications
  <2>3. /\ a \in Applications /\ a.recorder = program.recorder /\ a.stopping = program.stopping
           /\ a.opened = program.opened
        /\ a.session = program.session /\ a.starting = program.starting /\ a.files = program.files
           /\ a.running = program.running
    BY <1>0 DEF Applications
  <2> HIDE DEF a
  <2>4. (process.state = "running" => a.running) /\ (a.starting => a.recorder = "active")
    BY <1>0, <1>1, <2>3 DEF SessionSound, Owned
  <2>5. LET u == [Emulator!Now EXCEPT !.a = a] IN SessionSound(u) /\ u.a = a /\ u.q = process
    BY <1>0, <2>3, <2>4, AppSound
  <2>6. SessionSound(t) /\ t.a = a /\ t.q = process
    BY <2>2, <2>5
  <2> HIDE DEF t
  <2>7. t.a.files = 0 => CaptureInv(t)
    BY <1>0, <2>3, <2>6 DEF SessionSound, Owned, CaptureInv
  <2>8. SessionSound(Emulator!restart(t, b)) /\ CaptureInv(Emulator!restart(t, b))
    BY <1>1, <2>3, <2>6, <2>7, RestartSound
  <2> QED BY <2>1, <2>8, BecomesSound
<1> QED BY <1>5, <1>6, <1>7, <1>8

(* Ends: the firmware's, QEMU's, the program's.                            *)
LEMMA EndStep ==
  ASSUME SessionInv, NEW stop \in Emulator!Stops,
         Emulator!Unload \/ Emulator!ExitNoticed \/ Emulator!Quit(stop) \/ Emulator!SavingNoticesExit \/ Emulator!Leave
  PROVE  SessionInv'
<1>0. SessionSound(Emulator!Now) /\ CaptureInv(Emulator!Now) /\ Emulator!Now.a = program /\ Emulator!Now.q = process
      /\ Emulator!Now.w = worker /\ Emulator!Now.h = history
      /\ program \in Applications /\ Emulator!Now \in SessionStates
  BY NowFields DEF SessionSound
<1>1. CASE Emulator!Unload
  <2> DEFINE ended == Emulator!endSession(Emulator!Now)
             a == [ended.a EXCEPT !.files = 0]
             s == [ended EXCEPT !.a.files = 0]
  <2>1. Emulator!Becomes(s) /\ ~program.starting
    BY <1>1 DEF Emulator!Unload, Emulator!Looping
  <2>2. SessionSound(ended) /\ ended.q = Emulator!NoQemu /\ ended.a.recorder = "idle" /\ ~ended.a.starting
    BY <1>0, <2>1, EndedSound
  <2> HIDE DEF ended
  <2>3. ended \in SessionStates /\ ended.a \in Applications /\ ended.q.state = "none"
    BY <2>2 DEF SessionSound, SessionStates, Emulator!NoQemu
  <2>4. s = [ended EXCEPT !.a = a]
    BY <2>3 DEF SessionStates, Applications
  <2>5. /\ a \in Applications /\ a.recorder = ended.a.recorder /\ a.stopping = ended.a.stopping
           /\ a.opened = ended.a.opened
        /\ a.session = ended.a.session /\ a.starting = ended.a.starting
    BY <2>3, SessionBounds DEF Applications
  <2> HIDE DEF a
  <2>6. a.starting => a.recorder = "active"
    BY <2>2, <2>5
  <2>7. LET t == [ended EXCEPT !.a = a] IN SessionSound(t) /\ CaptureInv(t)
    BY <2>2, <2>3, <2>5, <2>6, AppSound
  <2>8. SessionSound(s) /\ CaptureInv(s)
    BY <2>4, <2>7
  <2> QED BY <2>1, <2>8, BecomesSound
<1>2. CASE Emulator!ExitNoticed \/ Emulator!SavingNoticesExit
  <2> DEFINE a == [program EXCEPT !.running = FALSE]
             s == [Emulator!Now EXCEPT !.a.running = FALSE]
  <2>1. /\ process.state = "exited"
        /\ Emulator!Becomes(s) \/ (~program.starting /\ Emulator!Becomes(Emulator!endSession(s)))
    BY <1>2 DEF Emulator!ExitNoticed, Emulator!SavingNoticesExit, Emulator!Looping
  <2>2. s = [Emulator!Now EXCEPT !.a = a]
    BY <1>0 DEF SessionStates, Applications
  <2>3. /\ a \in Applications /\ a.recorder = program.recorder /\ a.stopping = program.stopping
           /\ a.opened = program.opened
        /\ a.session = program.session /\ a.starting = program.starting /\ a.files = program.files
    BY <1>0 DEF Applications
  <2> HIDE DEF a
  <2>4. a.starting => a.recorder = "active"
    BY <1>0, <2>3 DEF SessionSound, Owned
  <2>5. LET u == [Emulator!Now EXCEPT !.a = a] IN SessionSound(u) /\ u.a = a /\ CaptureInv(u)
    BY <1>0, <2>1, <2>3, <2>4, AppSound
  <2>6. SessionSound(s) /\ s.a = a /\ CaptureInv(s)
    BY <2>2, <2>5
  <2> HIDE DEF s
  <2>7. CASE Emulator!Becomes(s)
    BY <2>6, <2>7, BecomesSound
  <2>8. CASE ~program.starting /\ Emulator!Becomes(Emulator!endSession(s))
    <3>1. SessionSound(Emulator!endSession(s)) /\ Emulator!endSession(s).q = Emulator!NoQemu
      BY <2>3, <2>6, <2>8, EndedSound
    <3>2. CaptureInv(Emulator!endSession(s))
      BY <3>1 DEF CaptureInv, Emulator!NoQemu
    <3> QED BY <2>8, <3>1, <3>2, BecomesSound
  <2> QED BY <2>1, <2>7, <2>8
<1>3. CASE Emulator!Quit(stop) \/ Emulator!Leave
  <2> DEFINE r == IF Emulator!Quit(stop) THEN Emulator!stopRecording(Emulator!Now, FALSE, stop) ELSE Emulator!stopQemu(Emulator!Now)
  <2>1. PICK phase \in {"saving", "done"} : Emulator!Becomes([r EXCEPT !.a.phase = phase])
    BY <1>3 DEF Emulator!Quit, Emulator!Leave
  <2>2. SessionSound(r) /\ CaptureInv(r)
    <3>1. Emulator!Quit(stop) => SessionSound(Emulator!stopRecording(Emulator!Now, FALSE, stop))
          /\ CaptureInv(Emulator!stopRecording(Emulator!Now, FALSE, stop))
      BY <1>0, StopSound DEF Emulator!Quit, Emulator!Looping
    <3>2. SessionSound(Emulator!stopQemu(Emulator!Now)) /\ CaptureInv(Emulator!stopQemu(Emulator!Now))
      BY <1>0, StopQemuSound
    <3> QED BY <3>1, <3>2
  <2> HIDE DEF r
  <2> DEFINE a == [r.a EXCEPT !.phase = phase]
             s == [r EXCEPT !.a.phase = phase]
  <2>3. r \in SessionStates /\ r.a \in Applications
    BY <2>2 DEF SessionSound, SessionStates
  <2>4. s = [r EXCEPT !.a = a]
    BY <2>3 DEF SessionStates, Applications
  <2>5. /\ a \in Applications /\ a.recorder = r.a.recorder /\ a.stopping = r.a.stopping /\ a.opened = r.a.opened
        /\ a.session = r.a.session /\ a.starting = r.a.starting /\ a.files = r.a.files /\ a.running = r.a.running
        /\ a.audio = r.a.audio
    BY <2>3 DEF Applications
  <2> HIDE DEF a
  <2>6. (r.q.state = "running" => a.running) /\ (a.starting => a.recorder = "active")
    BY <2>2, <2>5 DEF SessionSound, Owned
  <2>7. LET u == [r EXCEPT !.a = a] IN SessionSound(u) /\ CaptureInv(u)
    BY <2>2, <2>5, <2>6, AppSound
  <2>8. SessionSound(s) /\ CaptureInv(s)
    BY <2>4, <2>7
  <2> HIDE DEF s
  <2>9. Emulator!Becomes(s)
    BY <2>1 DEF s
  <2> QED BY <2>8, <2>9, BecomesSound
<1> QED BY <1>1, <1>2, <1>3

LEMMA WorkerStep == ASSUME SessionInv, NEW o \in {"saved", "failed"}, Emulator!WorkerFinishes(o) PROVE SessionInv'
<1> DEFINE s == [Emulator!Now EXCEPT !.w = o]
<1>0. SessionSound(Emulator!Now) /\ CaptureInv(Emulator!Now) /\ Emulator!Now.a = program /\ Emulator!Now.q = process
      /\ Emulator!Now.w = worker /\ Emulator!Now.h = history /\ Emulator!Now \in SessionStates
  BY NowFields DEF SessionSound
<1>1. Emulator!Becomes(s) /\ worker = "writing"
  BY DEF Emulator!WorkerFinishes, Emulator!Becomes, Emulator!Now
<1>2. s \in SessionStates /\ s.a = program /\ s.q = process /\ s.w = o /\ s.h = history
  BY <1>0 DEF SessionStates
<1> HIDE DEF s
<1>3. PacketsTimed(s) /\ Owned(s) /\ Counted(s) /\ CaptureInv(s)
  BY <1>0, <1>1, <1>2 DEF SessionSound, PacketsTimed, Owned, Counted, CaptureInv
<1>4. SessionSound(s)
  BY <1>2, <1>3 DEF SessionSound
<1> QED BY <1>1, <1>3, <1>4, BecomesSound

(* What a step of QEMU must keep of its own state.                         *)
LEMMA QemuSound ==
  ASSUME SessionInv, NEW q \in Processes, process' = q, UNCHANGED <<program, worker, history>>,
         Len(q.messages) <= MaxMessages, \A i \in 1..Len(q.messages) : q.messages[i].time <= history.started,
         q.files = process.files, process.state # "none", q.state = process.state \/ q.state = "exited",
         q.state = "running" => (Silenced(process) => Silenced(q))
  PROVE  SessionInv'
<1> DEFINE s == [Emulator!Now EXCEPT !.q = q]
<1>0. SessionSound(Emulator!Now) /\ CaptureInv(Emulator!Now) /\ Emulator!Now.a = program /\ Emulator!Now.q = process
      /\ Emulator!Now.w = worker /\ Emulator!Now.h = history /\ Emulator!Now \in SessionStates
  BY NowFields DEF SessionSound
<1>1. Emulator!Becomes(s)
  BY DEF Emulator!Becomes, Emulator!Now
<1>2. s \in SessionStates /\ s.a = program /\ s.q = q /\ s.w = worker /\ s.h = history
  BY <1>0 DEF SessionStates
<1> HIDE DEF s
<1>3. PacketsTimed(s)
  BY <1>2 DEF PacketsTimed
<1>4. Owned(s) /\ Counted(s) /\ CaptureInv(s)
  BY <1>0, <1>2 DEF SessionSound, Owned, Counted, CaptureInv
<1> QED BY <1>1, <1>2, <1>3, <1>4, BecomesSound DEF SessionSound

LEMMA SendKept ==
  ASSUME SessionInv, NEW q \in Processes, q.messages = process.messages, NEW kind \in Emulator!Statuses \cup {"Pcm"}
  PROVE  LET r == Emulator!Send(q, kind)
         IN  /\ r \in Processes /\ r.state = q.state /\ r.files = q.files /\ r.voice = q.voice
           /\ r.commands = q.commands
             /\ Len(r.messages) <= MaxMessages /\ \A i \in 1..Len(r.messages) : r.messages[i].time <= history.started
<1>0. SessionSound(Emulator!Now) /\ Emulator!Now.q = process /\ Emulator!Now.h = history /\ history \in Histories
      /\ process \in Processes
  BY NowFields
<1> DEFINE m == [kind |-> kind, time |-> history.started]
           r == Emulator!Send(q, kind)
<1>1. history.started \in 0..MaxRecordings /\ m \in Emulator!Message /\ m.time = history.started
  BY <1>0 DEF Histories, Emulator!Message
<1> HIDE DEF m
<1>2. q.messages \in Seq(Emulator!Message) /\ Len(q.messages) <= MaxMessages
      /\ \A i \in 1..Len(q.messages) : q.messages[i].time <= history.started
  BY <1>0 DEF SessionSound, PacketsTimed, Processes
<1>3. CASE ~(Len(q.messages) < MaxMessages)
  <2>1. r = q
    BY <1>3 DEF Emulator!Send
  <2> QED BY <1>2, <2>1
<1>4. CASE Len(q.messages) < MaxMessages
  <2> DEFINE ms == Append(q.messages, m)
  <2>1. r = [q EXCEPT !.messages = ms]
    BY <1>4 DEF Emulator!Send, m
  <2>2. ms \in Seq(Emulator!Message) /\ Len(ms) = Len(q.messages) + 1 /\ ms[Len(q.messages) + 1] = m
        /\ \A i \in 1..Len(q.messages) : ms[i] = q.messages[i]
    BY <1>1, <1>2
  <2>3. Len(q.messages) \in Nat
    BY <1>2
  <2> HIDE DEF ms
  <2>4. Len(ms) <= MaxMessages
    BY <1>4, <2>2, <2>3, SessionBounds
  <2>5. ASSUME NEW i \in 1..Len(ms) PROVE ms[i].time <= history.started
    <3>1. i = Len(q.messages) + 1 \/ i \in 1..Len(q.messages)
      BY <2>2, <2>3
    <3>2. history.started <= history.started
      BY <1>1
    <3> QED BY <1>1, <1>2, <2>2, <3>1, <3>2
  <2>6. /\ r \in Processes /\ r.state = q.state /\ r.files = q.files /\ r.voice = q.voice /\ r.commands = q.commands
        /\ r.messages = ms
    BY <2>1, <2>2 DEF Processes
  <2> QED BY <2>4, <2>5, <2>6
<1> QED BY <1>3, <1>4

LEMMA TailLast ==
  ASSUME NEW e \in Seq(BOOLEAN), e # <<>>
  PROVE  /\ Head(e) \in BOOLEAN /\ Tail(e) \in Seq(BOOLEAN)
         /\ Tail(e) = <<>> => Emulator!Last(e) = Head(e)
         /\ Tail(e) # <<>> => Emulator!Last(Tail(e)) = Emulator!Last(e)
<1>1. /\ Head(e) \in BOOLEAN /\ Tail(e) \in Seq(BOOLEAN) /\ Len(Tail(e)) = Len(e) - 1
      /\ \A i \in 1..Len(Tail(e)) : Tail(e)[i] = e[i + 1]
  BY HeadTailProperties
<1>2. Len(e) \in Nat /\ Len(e) # 0
  BY EmptySeq
<1>3. ASSUME Tail(e) = <<>> PROVE Emulator!Last(e) = Head(e)
  <2>1. Len(e) = 1
    <3>1. Len(Tail(e)) = 0
      BY ONLY <1>3, EmptySeq
    <3>2. Len(Tail(e)) = Len(e) - 1
      BY <1>1
    <3> QED BY ONLY <1>2, <3>1, <3>2
  <2>2. Head(e) = e[1]
    OBVIOUS
  <2> QED BY <2>1, <2>2 DEF Emulator!Last
<1>4. ASSUME Tail(e) # <<>> PROVE Emulator!Last(Tail(e)) = Emulator!Last(e)
  <2>1. Len(Tail(e)) \in Nat /\ Len(Tail(e)) # 0
    <3>1. Tail(e) \in Seq(BOOLEAN)
      BY <1>1
    <3> QED BY ONLY <1>4, <3>1, EmptySeq
  <2>2. Tail(e)[Len(Tail(e))] = e[Len(Tail(e)) + 1]
    BY <1>1, <2>1
  <2>3. Len(Tail(e)) + 1 = Len(e)
    BY <1>1, <1>2
  <2> QED BY <2>2, <2>3 DEF Emulator!Last
<1> QED BY <1>1, <1>3, <1>4

LEMMA CaptureStep ==
  ASSUME SessionInv, (\E b \in BOOLEAN : Emulator!captureCommand(b)) \/ Emulator!capturePcm \/ Emulator!QemuExits
  PROVE  SessionInv'
<1>0. SessionSound(Emulator!Now) /\ Emulator!Now.q = process /\ Emulator!Now.h = history /\ process \in Processes
  BY NowFields
<1>1. ASSUME NEW b \in BOOLEAN, Emulator!captureCommand(b) PROVE SessionInv'
  <2> DEFINE enabled == Head(process.commands)
             q == [process EXCEPT !.commands = Tail(@), !.voice = enabled /\ b]
             kind == IF ~enabled THEN "Stopped" ELSE IF b THEN "Started" ELSE "Failed"
             r == Emulator!Send(q, kind)
  <2>1. process.state = "running" /\ process.commands # <<>> /\ process' = r /\ UNCHANGED <<program, worker, history>>
    BY <1>1 DEF Emulator!captureCommand
  <2>2. process.commands \in Seq(BOOLEAN)
    BY <1>0 DEF Processes
  <2>3. enabled \in BOOLEAN /\ Tail(process.commands) \in Seq(BOOLEAN)
    BY <2>1, <2>2, TailLast
  <2>4. (enabled /\ b) \in BOOLEAN
    OBVIOUS
  <2>5. /\ q \in Processes /\ q.messages = process.messages /\ q.state = "running" /\ q.files = process.files
        /\ q.commands = Tail(process.commands) /\ q.voice = (enabled /\ b)
    BY <1>0, <2>1, <2>3, <2>4 DEF Processes
  <2>6. Silenced(process) => Silenced(q)
    <3>1. CASE Tail(process.commands) = <<>>
      <4>1. Emulator!Last(process.commands) = enabled
        BY <2>1, <2>2, <3>1, TailLast
      <4> QED BY <2>1, <2>5, <3>1, <4>1 DEF Silenced
    <3>2. CASE Tail(process.commands) # <<>>
      <4>1. Emulator!Last(Tail(process.commands)) = Emulator!Last(process.commands)
        BY <2>1, <2>2, <3>2, TailLast
      <4> QED BY <2>1, <2>5, <3>2, <4>1 DEF Silenced
    <3> QED BY <3>1, <3>2
  <2>7. kind \in Emulator!Statuses \cup {"Pcm"}
    BY DEF Emulator!Statuses
  <2> HIDE DEF q, kind
  <2>8. /\ r \in Processes /\ r.state = q.state /\ r.files = q.files /\ r.voice = q.voice /\ r.commands = q.commands
        /\ Len(r.messages) <= MaxMessages /\ \A i \in 1..Len(r.messages) : r.messages[i].time <= history.started
    BY <2>5, <2>7, SendKept
  <2> HIDE DEF r
  <2>9. Silenced(process) => Silenced(r)
    BY <2>6, <2>8 DEF Silenced
  <2> QED BY <2>1, <2>5, <2>8, <2>9, QemuSound
<1>2. CASE Emulator!capturePcm
  <2> DEFINE r == Emulator!Send(process, "Pcm")
  <2>1. process.state = "running" /\ process' = r /\ UNCHANGED <<program, worker, history>>
    BY <1>2 DEF Emulator!capturePcm
  <2>2. /\ r \in Processes /\ r.state = process.state /\ r.files = process.files /\ r.voice = process.voice
           /\ r.commands = process.commands
        /\ Len(r.messages) <= MaxMessages /\ \A i \in 1..Len(r.messages) : r.messages[i].time <= history.started
    BY <1>0, SendKept
  <2> HIDE DEF r
  <2>3. Silenced(process) => Silenced(r)
    BY <2>2 DEF Silenced
  <2> QED BY <2>1, <2>2, <2>3, QemuSound
<1>3. CASE Emulator!QemuExits
  <2> DEFINE r == [process EXCEPT !.state = "exited", !.voice = FALSE, !.commands = <<>>]
  <2>1. process.state = "running" /\ process' = r /\ UNCHANGED <<program, worker, history>>
    BY <1>3 DEF Emulator!QemuExits
  <2>2. <<>> \in Seq(BOOLEAN)
    OBVIOUS
  <2>3. r \in Processes /\ r.state = "exited" /\ r.files = process.files /\ r.messages = process.messages
    BY <1>0, <2>2 DEF Processes
  <2>4. /\ Len(r.messages) <= MaxMessages
        /\ \A i \in 1..Len(r.messages) : r.messages[i].time <= history.started
    BY <1>0, <2>3 DEF SessionSound, PacketsTimed
  <2> HIDE DEF r
  <2> QED BY <2>1, <2>3, <2>4, QemuSound
<1> QED BY <1>1, <1>2, <1>3

LEMMA InitSession == Emulator!Init => SessionInv
<1> SUFFICES ASSUME Emulator!Init PROVE SessionInv
  OBVIOUS
<1>1. program \in Applications /\ history \in Histories /\ worker = "none" /\ process = Emulator!NoQemu
  BY SessionBounds DEF Emulator!Init, Applications, Histories
<1>2. Emulator!NoQemu \in Processes /\ Emulator!NoQemu.messages = <<>> /\ Emulator!NoQemu.state = "none"
  <2>1. <<>> \in Seq(Emulator!Message) /\ <<>> \in Seq(BOOLEAN)
    OBVIOUS
  <2>2. 0 \in 0..MaxSessions
    BY SessionBounds
  <2> QED BY <2>1, <2>2 DEF Emulator!NoQemu, Processes
<1>3. Emulator!Now \in SessionStates /\ Emulator!Now.a = program /\ Emulator!Now.q = process /\ Emulator!Now.w = worker
      /\ Emulator!Now.h = history
  BY <1>1, <1>2 DEF Emulator!Now, SessionStates
<1>4. program.recorder = "idle" /\ ~program.stopping /\ ~program.starting
      /\ history.started = 0 /\ history.concluded = 0 /\ history.audio = {}
  BY DEF Emulator!Init
<1>5. PacketsTimed(Emulator!Now)
  BY <1>1, <1>2, <1>3, SessionBounds DEF PacketsTimed
<1>6. Owned(Emulator!Now) /\ Counted(Emulator!Now) /\ CaptureInv(Emulator!Now)
  BY <1>1, <1>2, <1>3, <1>4 DEF Owned, Counted, CaptureInv
<1> QED BY <1>3, <1>5, <1>6 DEF SessionInv, SessionSound

LEMMA StepSession == SessionInv /\ [Emulator!Next]_(Emulator!vars) => SessionInv'
<1> SUFFICES ASSUME SessionInv, [Emulator!Next]_(Emulator!vars) PROVE SessionInv'
  OBVIOUS
<1>1. CASE UNCHANGED Emulator!vars
  BY <1>1 DEF Emulator!vars, Emulator!Now, SessionInv, SessionSound, PacketsTimed, Owned, Counted, CaptureInv, Silenced
<1>2. CASE Emulator!Next
  BY <1>2, ToggleStep, StartingStep, PollStep, LaunchStep, EndStep, ToldSound, WorkerStep, CaptureStep DEF Emulator!Next
<1> QED BY <1>1, <1>2

LEMMA SessionSafe == SessionInv => SessionSafety
<1> SUFFICES ASSUME SessionInv PROVE SessionSafety
  OBVIOUS
<1>0. /\ SessionSound(Emulator!Now) /\ CaptureInv(Emulator!Now) /\ Emulator!Now.a = program /\ Emulator!Now.q = process
         /\ Emulator!Now.w = worker /\ Emulator!Now.h = history
      /\ program \in Applications /\ process \in Processes /\ history \in Histories
         /\ worker \in {"none", "writing", "saved", "failed"}
  BY NowFields
<1>1. Emulator!TypeOK
  BY <1>0 DEF Emulator!TypeOK, SessionSound, PacketsTimed, Applications, Processes, Histories
<1>2. Emulator!FilesOutliveQemu /\ Emulator!RecorderExclusive
  BY <1>0 DEF SessionSound, Owned, Emulator!FilesOutliveQemu, Emulator!RecorderExclusive
<1>3. Emulator!RecordingOwnSession /\ Emulator!NoRecordingLost
  BY <1>0 DEF SessionSound, Owned, Counted, Emulator!RecordingOwnSession, Emulator!NoRecordingLost
<1>4. Emulator!CaptureStops
  BY <1>0 DEF CaptureInv, Silenced, Emulator!CaptureStops
<1> QED BY <1>1, <1>2, <1>3, <1>4 DEF SessionSafety, Emulator!SessionSafety

(* For any number of starts, recordings and messages, and wherever a       *)
(* handler fails: QEMU runs on files that exist, a recording belongs to    *)
(* one QEMU and is saved or reported once, and QEMU does not capture for a *)
(* recording that is over, unless the stop could not be sent to it         *)
(* (Application::restart, stopRecording).                                  *)
THEOREM SessionCorrect == Emulator!Spec => []SessionSafety
BY InitSession, StepSession, SessionSafe, PTL DEF Emulator!Spec

-----------------------------------------------------------------------------
(* The shared state file.                                                  *)

Halves == {Mailbox!Blank} \cup (Nat \X Nat)
Pixels == [first : Halves, second : Halves]
Sampled == [x : Points, y : Points, down : [Controls -> BOOLEAN]]
Exchanged == [x : Points, y : Points, down : [Controls -> BOOLEAN], pixels : Pixels, updates : Nat]

MailboxTypes ==
  /\ sample \in Sampled /\ board \in Sampled /\ shared \in Exchanged
  /\ snapshot \in [pixels : Pixels, updates : Nat] /\ screen \in [pixels : Pixels, updates : Nat]
  /\ session \in Nat /\ updates \in Nat /\ frameAge \in 0..FramePeriod /\ ticked \in BOOLEAN
  /\ owed \in [Controls -> Nat \cup {Mailbox!Seen}]
  /\ host # "frame" => frameAge = 0

(* The file's point is torn only while the frontend writes it, the board's *)
(* only while the tick reads it.                                           *)
PointInv ==
  /\ sample.x = sample.y
  /\ host = "y" => shared.x = sample.x
  /\ host # "y" => shared.x = shared.y
  /\ machine \notin {"y", "dead"} => board.x = board.y
  /\ machine = "y" => board.x = shared.x

(* A copy in progress is of one picture, which stays as it is.             *)
PictureInv ==
  Mailbox!Alive =>
    /\ screen.pixels = Mailbox!Picture(screen.updates)
    /\ host = "second" => snapshot.pixels.first = Mailbox!Half(shared.updates)
    /\ host = "updates" => snapshot.pixels = Mailbox!Picture(shared.updates)
    /\ host \notin {"second", "updates"} => snapshot.pixels = Mailbox!Picture(snapshot.updates)
    /\ machine = "second" => shared.pixels.first = Mailbox!Half(updates)
    /\ machine = "updates" => shared.pixels = Mailbox!Picture(updates)
    /\ machine \notin {"second", "updates"} => shared.pixels = Mailbox!Picture(shared.updates)

(* A press that the board has not seen is younger than the frame, and will *)
(* outlast it; or it is on its way, and will be read by the next tick.     *)
Pressed(c) == host = "frame" /\ owed[c] <= frameAge /\ until[c] + owed[c] >= MinimumPress
Carried(c) ==
  /\ owed[c] <= FramePeriod + frameAge /\ frameAge <= 1
  /\ host \in {"lock", "x", "y", "down"} => sample.down[c]
  /\ host \notin {"lock", "x", "y", "down"} => shared.down[c]
  /\ frameAge = 1 => /\ machine = "tick" => ~ticked
                     /\ machine \notin {"tick", "down"} => board.down[c]

TapInv == Mailbox!Alive => \A c \in Controls : owed[c] # Mailbox!Seen => Pressed(c) \/ Carried(c)

MailboxInv == Mailbox!TypeOK /\ MailboxTypes /\ PointInv /\ PictureInv /\ TapInv

-----------------------------------------------------------------------------
LEMMA MailboxTimes ==
  /\ FrameInterval \in Nat /\ FramePeriod \in Nat /\ MinimumPress \in Nat
  /\ 2 <= FrameInterval /\ FrameInterval <= FramePeriod /\ FramePeriod < MinimumPress
  /\ Touch \in Controls /\ Points \subseteq Nat /\ 0 \in Points
  BY FrontendAssumption DEF Mailbox!MailboxAssumption

LEMMA PictureTypes == ASSUME session \in Nat, NEW n \in Nat PROVE Mailbox!Half(n) \in Halves
                      /\ Mailbox!Picture(n) \in Pixels
<1>1. <<session, n>> \in Halves
  BY DEF Halves
<1>2. Mailbox!Blank \in Halves
  BY DEF Halves
<1>3. CASE n = 0
  BY <1>2, <1>3 DEF Mailbox!Half, Mailbox!Picture, Pixels
<1>4. CASE n # 0
  <2>1. Mailbox!Half(n) = <<session, n>>
    BY <1>4 DEF Mailbox!Half
  <2> QED BY <1>1, <2>1 DEF Mailbox!Picture, Pixels
<1> QED BY <1>3, <1>4

LEMMA FirstPicture == Mailbox!Picture(0) \in Pixels
                      /\ Mailbox!Picture(0) = [first |-> Mailbox!Blank, second |-> Mailbox!Blank]
<1>1. Mailbox!Half(0) = Mailbox!Blank
  BY DEF Mailbox!Half
<1>2. Mailbox!Blank \in Halves
  BY DEF Halves
<1> QED BY <1>1, <1>2 DEF Mailbox!Picture, Pixels

LEMMA InitMailbox == Mailbox!Init => MailboxInv
<1> SUFFICES ASSUME Mailbox!Init PROVE MailboxInv
  OBVIOUS
<1>1. Mailbox!Nobody \in [Controls -> BOOLEAN] /\ [c \in Controls |-> 0] \in [Controls -> 0..MinimumPress]
  BY MailboxTimes DEF Mailbox!Nobody
<1>2. Mailbox!TypeOK
  BY <1>1, MailboxTimes DEF Mailbox!Init, Mailbox!TypeOK
<1>3. sample \in Sampled /\ board \in Sampled
  BY <1>1, MailboxTimes DEF Mailbox!Init, Sampled
<1>4. shared \in Exchanged /\ snapshot \in [pixels : Pixels, updates : Nat]
  BY <1>1, MailboxTimes, FirstPicture DEF Mailbox!Init, Exchanged
<1>5. owed \in [Controls -> Nat \cup {Mailbox!Seen}]
  BY DEF Mailbox!Init
<1>6. session \in Nat /\ updates \in Nat /\ ticked \in BOOLEAN
  BY DEF Mailbox!Init
<1>11. frameAge = FramePeriod
  BY DEF Mailbox!Init
<1>12. frameAge \in 0..FramePeriod
  BY <1>11, MailboxTimes
<1>7. MailboxTypes
  BY <1>3, <1>4, <1>5, <1>6, <1>12 DEF Mailbox!Init, MailboxTypes
<1>8. PointInv
  BY DEF Mailbox!Init, PointInv
<1>9. PictureInv
  BY DEF Mailbox!Init, PictureInv
<1>10. TapInv
  BY DEF Mailbox!Init, TapInv
<1> QED BY <1>2, <1>7, <1>8, <1>9, <1>10 DEF MailboxInv

(* One step is one of these.                                               *)
LEMMA MailboxCases ==
  ASSUME [Mailbox!Next]_(Mailbox!vars)
  PROVE  \/ Mailbox!Handle \/ Mailbox!Sample \/ Mailbox!AppLocks \/ Mailbox!AppWrites \/ Mailbox!AppReads
            \/ Mailbox!AppUnlocks
         \/ Mailbox!TickLocks \/ Mailbox!TickReads \/ Mailbox!TickWrites \/ Mailbox!TickUnlocks \/ Mailbox!TickDelivers
         \/ Mailbox!GuestDraws \/ Mailbox!QemuDies \/ Mailbox!Restart \/ Mailbox!Elapse \/ UNCHANGED Mailbox!vars
  BY DEF Mailbox!Next, Mailbox!Press, Mailbox!Release, Mailbox!Drag, Mailbox!DragOut, Mailbox!FocusLost

(* What the frontend's event handlers leave alone.                         *)
LEMMA HandleTypes ==
  ASSUME Mailbox!TypeOK, MailboxTypes, Mailbox!Handle,
         held' \in [Controls -> BOOLEAN], until' \in [Controls -> 0..MinimumPress], dragging' \in BOOLEAN, at' \in Points,
         owed' \in [Controls -> Nat \cup {Mailbox!Seen}]
  PROVE  Mailbox!TypeOK' /\ MailboxTypes'
<1>1. Mailbox!TypeOK'
  BY DEF Mailbox!TypeOK, Mailbox!Handle
<1>2. MailboxTypes'
  BY DEF MailboxTypes, Mailbox!Handle
<1> QED BY <1>1, <1>2

LEMMA HandlesTypes ==
  ASSUME Mailbox!TypeOK, MailboxTypes, NEW c \in Controls, NEW p \in Points,
         Mailbox!Press(c, p) \/ Mailbox!Release(c) \/ Mailbox!Drag(p) \/ Mailbox!DragOut(p) \/ Mailbox!FocusLost
  PROVE  Mailbox!TypeOK' /\ MailboxTypes'
<1> USE MailboxTimes
<1>1. /\ held \in [Controls -> BOOLEAN] /\ until \in [Controls -> 0..MinimumPress] /\ dragging \in BOOLEAN
         /\ at \in Points
      /\ owed \in [Controls -> Nat \cup {Mailbox!Seen}]
  BY DEF Mailbox!TypeOK, MailboxTypes
<1>2. Mailbox!Handle
  BY DEF Mailbox!Press, Mailbox!Release, Mailbox!Drag, Mailbox!DragOut, Mailbox!FocusLost
<1>3. Mailbox!Nobody \in [Controls -> BOOLEAN] /\ [d \in Controls |-> 0] \in [Controls -> 0..MinimumPress]
      /\ [d \in Controls |-> Mailbox!Seen] \in [Controls -> Nat \cup {Mailbox!Seen}]
  BY DEF Mailbox!Nobody
<1>4. CASE Mailbox!Press(c, p)
  <2>1. held' \in [Controls -> BOOLEAN] /\ until' \in [Controls -> 0..MinimumPress]
    BY <1>1, <1>4 DEF Mailbox!Press
  <2>2. dragging' \in BOOLEAN /\ at' \in Points
    BY <1>1, <1>4 DEF Mailbox!Press
  <2>3. owed' \in [Controls -> Nat \cup {Mailbox!Seen}]
    BY <1>1, <1>4 DEF Mailbox!Press, Mailbox!Owe
  <2> QED BY <1>2, <2>1, <2>2, <2>3, HandleTypes
<1>5. CASE Mailbox!Release(c)
  <2>1. held' \in [Controls -> BOOLEAN] /\ until' \in [Controls -> 0..MinimumPress]
        /\ dragging' \in BOOLEAN /\ at' \in Points /\ owed' \in [Controls -> Nat \cup {Mailbox!Seen}]
    BY <1>1, <1>5 DEF Mailbox!Release
  <2> QED BY <1>2, <2>1, HandleTypes
<1>6. CASE Mailbox!Drag(p)
  <2>1. held' \in [Controls -> BOOLEAN] /\ until' \in [Controls -> 0..MinimumPress]
        /\ dragging' \in BOOLEAN /\ at' \in Points /\ owed' \in [Controls -> Nat \cup {Mailbox!Seen}]
    BY <1>1, <1>6 DEF Mailbox!Drag
  <2> QED BY <1>2, <2>1, HandleTypes
<1>7. CASE Mailbox!DragOut(p)
  <2>1. held' \in [Controls -> BOOLEAN] /\ until' \in [Controls -> 0..MinimumPress]
        /\ dragging' \in BOOLEAN /\ at' \in Points /\ owed' \in [Controls -> Nat \cup {Mailbox!Seen}]
    BY <1>1, <1>7 DEF Mailbox!DragOut
  <2> QED BY <1>2, <2>1, HandleTypes
<1>8. CASE Mailbox!FocusLost
  <2>1. held' \in [Controls -> BOOLEAN] /\ until' \in [Controls -> 0..MinimumPress]
        /\ dragging' \in BOOLEAN /\ at' \in Points /\ owed' \in [Controls -> Nat \cup {Mailbox!Seen}]
    BY <1>1, <1>3, <1>8 DEF Mailbox!FocusLost
  <2> QED BY <1>2, <2>1, HandleTypes
<1> QED BY <1>4, <1>5, <1>6, <1>7, <1>8

(* The frontend's frame.                                                   *)
AppStep == Mailbox!Sample \/ Mailbox!AppLocks \/ Mailbox!AppWrites \/ Mailbox!AppReads \/ Mailbox!AppUnlocks
TickStep == Mailbox!TickLocks \/ Mailbox!TickReads \/ Mailbox!TickWrites \/ Mailbox!TickUnlocks \/ Mailbox!TickDelivers

LEMMA AppTypes == ASSUME Mailbox!TypeOK, MailboxTypes, AppStep PROVE Mailbox!TypeOK' /\ MailboxTypes'
<1> USE MailboxTimes
<1>1. CASE Mailbox!Sample
  <2>1. sample' \in Sampled
    <3>1. [c \in Controls |-> Mailbox!Down(c)] \in [Controls -> BOOLEAN]
      BY DEF Mailbox!TypeOK, Mailbox!Down
    <3> QED BY <1>1, <3>1 DEF Mailbox!Sample, Sampled, Mailbox!TypeOK
  <2>2. Mailbox!TypeOK'
    BY <1>1 DEF Mailbox!TypeOK, Mailbox!Sample, Mailbox!input
  <2> QED BY <1>1, <2>1, <2>2 DEF MailboxTypes, Mailbox!Sample, Mailbox!input
<1>2. CASE Mailbox!AppLocks
  <2>1. Mailbox!TypeOK'
    BY <1>2 DEF Mailbox!TypeOK, Mailbox!AppLocks, Mailbox!input
  <2> QED BY <1>2, <2>1 DEF MailboxTypes, Mailbox!AppLocks, Mailbox!input
<1>3. CASE Mailbox!AppWrites
  <2>1. shared' \in Exchanged
    BY <1>3 DEF MailboxTypes, Mailbox!AppWrites, Exchanged, Sampled
  <2>2. Mailbox!TypeOK'
    BY <1>3 DEF Mailbox!TypeOK, Mailbox!AppWrites, Mailbox!input
  <2> QED BY <1>3, <2>1, <2>2 DEF MailboxTypes, Mailbox!AppWrites, Mailbox!input
<1>4. CASE Mailbox!AppReads
  <2>1. snapshot' \in [pixels : Pixels, updates : Nat]
    BY <1>4 DEF MailboxTypes, Mailbox!AppReads, Exchanged, Pixels
  <2>2. Mailbox!TypeOK'
    BY <1>4 DEF Mailbox!TypeOK, Mailbox!AppReads, Mailbox!input
  <2> QED BY <1>4, <2>1, <2>2 DEF MailboxTypes, Mailbox!AppReads, Mailbox!input
<1>5. CASE Mailbox!AppUnlocks
  <2>1. Mailbox!TypeOK'
    BY <1>5 DEF Mailbox!TypeOK, Mailbox!AppUnlocks, Mailbox!input
  <2> QED BY <1>5, <2>1 DEF MailboxTypes, Mailbox!AppUnlocks, Mailbox!input
<1> QED BY <1>1, <1>2, <1>3, <1>4, <1>5 DEF AppStep

(* The board's tick, the guest and the end of QEMU.                        *)
LEMMA TickTypes == ASSUME Mailbox!TypeOK, MailboxTypes, TickStep PROVE Mailbox!TypeOK' /\ MailboxTypes'
<1> USE MailboxTimes
<1>1. CASE Mailbox!TickLocks
  <2>1. Mailbox!TypeOK'
    BY <1>1 DEF Mailbox!TypeOK, Mailbox!TickLocks, Mailbox!input
  <2> QED BY <1>1, <2>1 DEF MailboxTypes, Mailbox!TickLocks, Mailbox!input
<1>2. CASE Mailbox!TickReads
  <2>1. board' \in Sampled
    BY <1>2 DEF MailboxTypes, Mailbox!TickReads, Exchanged, Sampled
  <2>2. Mailbox!TypeOK'
    BY <1>2 DEF Mailbox!TypeOK, Mailbox!TickReads, Mailbox!input
  <2> QED BY <1>2, <2>1, <2>2 DEF MailboxTypes, Mailbox!TickReads, Mailbox!input
<1>3. CASE Mailbox!TickWrites
  <2>1. Mailbox!Half(updates) \in Halves
    BY PictureTypes DEF MailboxTypes
  <2>2. shared' \in Exchanged
    BY <1>3, <2>1 DEF MailboxTypes, Mailbox!TickWrites, Exchanged, Pixels
  <2>3. Mailbox!TypeOK'
    BY <1>3 DEF Mailbox!TypeOK, Mailbox!TickWrites, Mailbox!input
  <2> QED BY <1>3, <2>2, <2>3 DEF MailboxTypes, Mailbox!TickWrites, Mailbox!input
<1>4. CASE Mailbox!TickUnlocks
  <2>1. Mailbox!TypeOK'
    BY <1>4 DEF Mailbox!TypeOK, Mailbox!TickUnlocks, Mailbox!input
  <2> QED BY <1>4, <2>1 DEF MailboxTypes, Mailbox!TickUnlocks, Mailbox!input
<1>5. CASE Mailbox!TickDelivers
  <2>1. owed' \in [Controls -> Nat \cup {Mailbox!Seen}]
    BY <1>5 DEF MailboxTypes, Mailbox!TickDelivers
  <2>2. Mailbox!TypeOK'
    BY <1>5 DEF Mailbox!TypeOK, Mailbox!TickDelivers, Mailbox!input
  <2> QED BY <1>5, <2>1, <2>2 DEF MailboxTypes, Mailbox!TickDelivers, Mailbox!input
<1> QED BY <1>1, <1>2, <1>3, <1>4, <1>5 DEF TickStep

LEMMA RestTypes == ASSUME Mailbox!TypeOK, MailboxTypes, Mailbox!GuestDraws \/ Mailbox!QemuDies \/ Mailbox!Restart
                   \/ Mailbox!Elapse PROVE Mailbox!TypeOK' /\ MailboxTypes'
<1> USE MailboxTimes
<1>0. Mailbox!Nobody \in [Controls -> BOOLEAN] /\ [d \in Controls |-> 0] \in [Controls -> 0..MinimumPress]
      /\ [d \in Controls |-> Mailbox!Seen] \in [Controls -> Nat \cup {Mailbox!Seen}]
  BY DEF Mailbox!Nobody
<1>1. CASE Mailbox!GuestDraws
  <2>1. Mailbox!TypeOK'
    BY <1>1 DEF Mailbox!TypeOK, Mailbox!GuestDraws, Mailbox!input
  <2> QED BY <1>1, <2>1 DEF MailboxTypes, Mailbox!GuestDraws, Mailbox!input
<1>2. CASE Mailbox!QemuDies
  <2>1. Mailbox!TypeOK'
    BY <1>2 DEF Mailbox!TypeOK, Mailbox!QemuDies, Mailbox!Alive, Mailbox!input
  <2> QED BY <1>2, <2>1 DEF MailboxTypes, Mailbox!QemuDies, Mailbox!input
<1>3. CASE Mailbox!Restart
  <2>2. shared' \in Exchanged /\ board' \in Sampled
    BY <1>0, <1>3, FirstPicture DEF Mailbox!Restart, Exchanged, Sampled
  <2>3. snapshot' \in [pixels : Pixels, updates : Nat] /\ screen' \in [pixels : Pixels, updates : Nat]
    BY <1>3, FirstPicture DEF Mailbox!Restart, Mailbox!Fresh
  <2>4. Mailbox!TypeOK'
    BY <1>0, <1>3 DEF Mailbox!TypeOK, Mailbox!Restart, Mailbox!Alive
  <2>5. owed' \in [Controls -> Nat \cup {Mailbox!Seen}]
    BY <1>0, <1>3 DEF Mailbox!Restart
  <2>6. UNCHANGED <<host, sample, frameAge, ticked>> /\ session' \in Nat /\ updates' \in Nat
    BY <1>3 DEF Mailbox!Restart, MailboxTypes
  <2> QED BY <2>2, <2>3, <2>4, <2>5, <2>6 DEF MailboxTypes
<1>4. CASE Mailbox!Elapse
  <2>1. until' \in [Controls -> 0..MinimumPress]
    BY <1>4 DEF Mailbox!Elapse, Mailbox!TypeOK
  <2>2. Mailbox!TypeOK'
    BY <1>4, <2>1 DEF Mailbox!TypeOK, Mailbox!Elapse
  <2>3. owed' \in [Controls -> Nat \cup {Mailbox!Seen}]
    BY <1>4 DEF Mailbox!Elapse, MailboxTypes, Mailbox!Seen
  <2>4. frameAge \in 0..FramePeriod /\ frameAge < FramePeriod /\ frameAge' = frameAge + 1 /\ ticked' \in BOOLEAN
        /\ host' = "frame"
    BY <1>4 DEF Mailbox!Elapse, MailboxTypes
  <2>5. frameAge' \in 0..FramePeriod
    BY <2>4
  <2> QED BY <1>4, <2>2, <2>3, <2>4, <2>5 DEF MailboxTypes, Mailbox!Elapse
<1> QED BY <1>1, <1>2, <1>3, <1>4

(* Points.                                                                 *)
LEMMA PointStep == ASSUME MailboxInv, [Mailbox!Next]_(Mailbox!vars) PROVE PointInv'
<1> USE DEF PointInv, MailboxInv
<1>1. Mailbox!TypeOK /\ MailboxTypes
  OBVIOUS
<1>2. sample = [sample EXCEPT !.x = sample.x] /\ DOMAIN shared = {"x", "y", "down", "pixels", "updates"}
  BY <1>1 DEF MailboxTypes, Sampled, Exchanged
<1>3. CASE Mailbox!Handle
  BY <1>3 DEF Mailbox!Handle
<1>4. CASE Mailbox!Sample
  BY <1>4 DEF Mailbox!Sample, Mailbox!input
<1>5. CASE Mailbox!AppLocks
  BY <1>5 DEF Mailbox!AppLocks, Mailbox!input
<1>6. CASE Mailbox!AppWrites
  BY <1>1, <1>6 DEF Mailbox!AppWrites, Mailbox!input, MailboxTypes, Exchanged, Mailbox!TypeOK
<1>7. CASE Mailbox!AppReads
  BY <1>7 DEF Mailbox!AppReads, Mailbox!input
<1>8. CASE Mailbox!AppUnlocks
  BY <1>8 DEF Mailbox!AppUnlocks, Mailbox!input
<1>9. CASE Mailbox!TickLocks
  BY <1>9 DEF Mailbox!TickLocks, Mailbox!input
<1>10. CASE Mailbox!TickReads
  BY <1>1, <1>10 DEF Mailbox!TickReads, Mailbox!input, MailboxTypes, Sampled, Exchanged, Mailbox!TypeOK
<1>11. CASE Mailbox!TickWrites
  BY <1>1, <1>11 DEF Mailbox!TickWrites, Mailbox!input, MailboxTypes, Exchanged
<1>12. CASE Mailbox!TickUnlocks \/ Mailbox!TickDelivers
  BY <1>12 DEF Mailbox!TickUnlocks, Mailbox!TickDelivers, Mailbox!input
<1>13. CASE Mailbox!GuestDraws \/ Mailbox!QemuDies
  BY <1>13 DEF Mailbox!GuestDraws, Mailbox!QemuDies, Mailbox!input
<1>14. CASE Mailbox!Restart
  BY <1>14 DEF Mailbox!Restart
<1>15. CASE Mailbox!Elapse
  BY <1>15 DEF Mailbox!Elapse
<1>16. CASE UNCHANGED Mailbox!vars
  BY <1>16 DEF Mailbox!vars
<1> QED BY <1>3, <1>4, <1>5, <1>6, <1>7, <1>8, <1>9, <1>10, <1>11, <1>12, <1>13, <1>14, <1>15, <1>16, MailboxCases

(* Pictures.                                                               *)
LEMMA HalfStep == ASSUME UNCHANGED session, NEW n PROVE Mailbox!Half(n)' = Mailbox!Half(n)
                  /\ Mailbox!Picture(n)' = Mailbox!Picture(n)
  BY DEF Mailbox!Half, Mailbox!Picture, Mailbox!Blank

LEMMA PictureStep == ASSUME MailboxInv, [Mailbox!Next]_(Mailbox!vars) PROVE PictureInv'
<1> USE DEF PictureInv, MailboxInv, Mailbox!Alive
<1>1. Mailbox!TypeOK /\ MailboxTypes
  OBVIOUS
<1> DEFINE Same == UNCHANGED <<host, snapshot, screen, shared, machine, session, updates>>
<1>2. ASSUME Same PROVE PictureInv'
  BY <1>2 DEF Mailbox!Half, Mailbox!Picture
<1>3. CASE Mailbox!Handle
  BY <1>2, <1>3 DEF Mailbox!Handle
<1>4. CASE Mailbox!Sample \/ Mailbox!AppLocks
  BY <1>4 DEF Mailbox!Sample, Mailbox!AppLocks, Mailbox!input, Mailbox!Half, Mailbox!Picture
<1>6. CASE Mailbox!AppWrites
  BY <1>1, <1>6 DEF Mailbox!AppWrites, Mailbox!input, MailboxTypes, Exchanged, Mailbox!Half, Mailbox!Picture
<1>7. CASE Mailbox!AppReads
  BY <1>1, <1>7 DEF Mailbox!AppReads, Mailbox!input, MailboxTypes, Exchanged, Mailbox!Half, Mailbox!Picture, Pixels,
         Mailbox!TypeOK
<1>8. CASE Mailbox!AppUnlocks
  BY <1>8 DEF Mailbox!AppUnlocks, Mailbox!input, Mailbox!Half, Mailbox!Picture
<1>9. CASE Mailbox!TickLocks
  BY <1>9 DEF Mailbox!TickLocks, Mailbox!input, Mailbox!Half, Mailbox!Picture
<1>10. CASE Mailbox!TickReads
  BY <1>10 DEF Mailbox!TickReads, Mailbox!input, Mailbox!Half, Mailbox!Picture
<1>11. CASE Mailbox!TickWrites
  BY <1>1, <1>11 DEF Mailbox!TickWrites, Mailbox!input, MailboxTypes, Exchanged, Mailbox!Half, Mailbox!Picture, Pixels,
         Mailbox!TypeOK
<1>12. CASE Mailbox!TickUnlocks \/ Mailbox!TickDelivers
  BY <1>12 DEF Mailbox!TickUnlocks, Mailbox!TickDelivers, Mailbox!input, Mailbox!Half, Mailbox!Picture
<1>13. CASE Mailbox!GuestDraws
  BY <1>13 DEF Mailbox!GuestDraws, Mailbox!input, Mailbox!Half, Mailbox!Picture
<1>17. CASE Mailbox!QemuDies
  BY <1>17 DEF Mailbox!QemuDies
<1>14. CASE Mailbox!Restart
  BY <1>14 DEF Mailbox!Restart, Mailbox!Half, Mailbox!Picture, Mailbox!Fresh
<1>15. CASE Mailbox!Elapse
  BY <1>2, <1>15 DEF Mailbox!Elapse
<1>16. CASE UNCHANGED Mailbox!vars
  BY <1>2, <1>16 DEF Mailbox!vars
<1> QED BY <1>3, <1>4, <1>6, <1>7, <1>8, <1>9, <1>10, <1>11, <1>12, <1>13, <1>14, <1>15, <1>16, <1>17, MailboxCases

(* Taps.                                                                   *)
Tapped(c) == owed[c] # Mailbox!Seen => Pressed(c) \/ Carried(c)

LEMMA TapNumbers ==
  ASSUME Mailbox!TypeOK, MailboxTypes, NEW c \in Controls
  PROVE  /\ owed[c] \in Nat \cup {Mailbox!Seen} /\ until[c] \in 0..MinimumPress /\ frameAge \in 0..FramePeriod
         /\ Mailbox!Seen = -1 /\ frameAge \in Nat /\ until[c] \in Nat
         /\ FrameInterval \in Nat /\ FramePeriod \in Nat /\ MinimumPress \in Nat
         /\ 2 <= FrameInterval /\ FrameInterval <= FramePeriod /\ FramePeriod < MinimumPress
<1>1. owed[c] \in Nat \cup {Mailbox!Seen} /\ until[c] \in 0..MinimumPress /\ frameAge \in 0..FramePeriod
      /\ Mailbox!Seen = -1
  BY DEF Mailbox!TypeOK, MailboxTypes, Mailbox!Seen
<1>2. frameAge \in Nat /\ until[c] \in Nat
  BY <1>1, MailboxTimes
<1> QED BY <1>1, <1>2, MailboxTimes

(* An event: a new press, or the end of one, or nothing new.               *)
LEMMA TapHandled ==
  ASSUME MailboxInv, MailboxTypes', Mailbox!Alive, NEW d \in Controls, Tapped(d), Mailbox!Handle,
         \/ owed'[d] = 0 /\ until'[d] = MinimumPress
         \/ owed'[d] = Mailbox!Seen
         \/ owed'[d] = owed[d] /\ until'[d] \in Nat /\ until'[d] >= until[d]
  PROVE  Tapped(d)'
<1>0. Mailbox!TypeOK /\ MailboxTypes
  BY DEF MailboxInv
<1>1. UNCHANGED <<host, frameAge, sample, shared, machine, ticked, board>> /\ host = "frame"
  BY DEF Mailbox!Handle
<1>2. /\ owed[d] \in Nat \cup {Mailbox!Seen} /\ until[d] \in Nat /\ frameAge \in Nat /\ MinimumPress \in Nat
         /\ Mailbox!Seen = -1
  BY <1>0, TapNumbers
<1>3. CASE owed'[d] = 0 /\ until'[d] = MinimumPress
  <2>1. owed'[d] <= frameAge' /\ until'[d] + owed'[d] >= MinimumPress /\ host' = "frame"
    BY <1>1, <1>2, <1>3
  <2> QED BY <2>1 DEF Tapped, Pressed
<1>4. CASE owed'[d] = Mailbox!Seen
  BY <1>4 DEF Tapped, Mailbox!Seen
<1>5. CASE owed'[d] = owed[d] /\ until'[d] \in Nat /\ until'[d] >= until[d]
  <2>1. CASE owed[d] = Mailbox!Seen
    BY <1>5, <2>1 DEF Tapped, Mailbox!Seen
  <2>2. CASE owed[d] # Mailbox!Seen /\ Carried(d)
    BY <1>1, <1>5, <2>2 DEF Tapped, Carried
  <2>3. CASE owed[d] # Mailbox!Seen /\ Pressed(d)
    <3>1. owed[d] <= frameAge /\ until[d] + owed[d] >= MinimumPress
      BY <2>3 DEF Pressed
    <3>2. owed'[d] <= frameAge' /\ until'[d] + owed'[d] >= MinimumPress
      BY <1>1, <1>2, <1>5, <2>3, <3>1
    <3> QED BY <1>1, <3>2 DEF Tapped, Pressed
  <2> QED BY <2>1, <2>2, <2>3 DEF Tapped
<1> QED BY <1>3, <1>4, <1>5

LEMMA TapHandles ==
  ASSUME MailboxInv, MailboxTypes', Mailbox!Alive, NEW d \in Controls, Tapped(d), NEW c \in Controls, NEW p \in Points,
         Mailbox!Press(c, p) \/ Mailbox!Release(c) \/ Mailbox!Drag(p) \/ Mailbox!DragOut(p) \/ Mailbox!FocusLost
  PROVE  Tapped(d)'
<1>0. Mailbox!TypeOK /\ MailboxTypes
  BY DEF MailboxInv
<1>1. /\ owed \in [Controls -> Nat \cup {Mailbox!Seen}] /\ until \in [Controls -> 0..MinimumPress]
      /\ until[d] \in 0..MinimumPress /\ MinimumPress \in Nat /\ until[d] \in Nat /\ until[d] <= MinimumPress
  <2>1. until[d] \in 0..MinimumPress /\ MinimumPress \in Nat
    BY <1>0, TapNumbers
  <2> QED BY <1>0, <2>1 DEF Mailbox!TypeOK, MailboxTypes
<1>2. Mailbox!Handle
  BY DEF Mailbox!Press, Mailbox!Release, Mailbox!Drag, Mailbox!DragOut, Mailbox!FocusLost
<1>3. CASE Mailbox!Press(c, p)
  <2>1. owed'[d] = owed[d] \/ (c = d /\ owed'[d] = 0)
    BY <1>1, <1>3 DEF Mailbox!Press, Mailbox!Owe
  <2>2. until'[d] = IF c = d THEN MinimumPress ELSE until[d]
    BY <1>1, <1>3 DEF Mailbox!Press
  <2>3. until'[d] \in Nat /\ until'[d] >= until[d]
    BY <1>1, <2>2
  <2> QED BY <1>2, <2>1, <2>2, <2>3, TapHandled
<1>4. CASE Mailbox!Release(c) \/ Mailbox!Drag(p)
  <2>1. owed'[d] = owed[d] /\ until'[d] = until[d]
    BY <1>4 DEF Mailbox!Release, Mailbox!Drag
  <2>2. until'[d] \in Nat /\ until'[d] >= until[d]
    BY <1>1, <2>1
  <2> QED BY <1>2, <2>1, <2>2, TapHandled
<1>5. CASE Mailbox!DragOut(p)
  <2>1. \/ owed'[d] = Mailbox!Seen
        \/ owed'[d] = owed[d] /\ until'[d] = until[d]
    BY <1>1, <1>5 DEF Mailbox!DragOut
  <2>2. until'[d] = until[d] => until'[d] \in Nat /\ until'[d] >= until[d]
    BY <1>1
  <2> QED BY <1>2, <2>1, <2>2, TapHandled
<1>6. CASE Mailbox!FocusLost
  <2>1. owed'[d] = Mailbox!Seen
    BY <1>6 DEF Mailbox!FocusLost
  <2> QED BY <1>2, <2>1, TapHandled
<1> QED BY <1>3, <1>4, <1>5, <1>6

(* A frame samples every press that is not yet seen: it lasts until then.  *)
LEMMA TapSampled == ASSUME MailboxInv, NEW d \in Controls, Tapped(d), Mailbox!Sample PROVE Tapped(d)'
<1>0. Mailbox!TypeOK /\ MailboxTypes
  BY DEF MailboxInv
<1>1. /\ owed[d] \in Nat \cup {Mailbox!Seen} /\ until[d] \in Nat /\ frameAge \in Nat /\ MinimumPress \in Nat
         /\ Mailbox!Seen = -1
      /\ FramePeriod \in Nat /\ frameAge <= FramePeriod /\ FramePeriod < MinimumPress /\ 2 <= FrameInterval
         /\ FrameInterval \in Nat
  BY <1>0, TapNumbers
<1>2. /\ frameAge >= FrameInterval /\ host' = "lock" /\ frameAge' = 0 /\ UNCHANGED owed
      /\ sample'.down = [c \in Controls |-> Mailbox!Down(c)]
  BY DEF Mailbox!Sample
<1>3. owed[d] # Mailbox!Seen => Pressed(d)
  <2>1. ~(frameAge <= 1)
    BY <1>1, <1>2
  <2> QED BY <2>1 DEF Tapped, Carried
<1>4. owed[d] # Mailbox!Seen => owed[d] \in Nat /\ owed[d] <= FramePeriod /\ until[d] > 0
  <2>1. Pressed(d) => owed[d] <= frameAge /\ until[d] + owed[d] >= MinimumPress
    BY DEF Pressed
  <2> QED BY <1>1, <1>3, <2>1
<1>5. owed[d] # Mailbox!Seen => sample'.down[d]
  BY <1>2, <1>4 DEF Mailbox!Down
<1>6. owed[d] # Mailbox!Seen => owed'[d] <= FramePeriod + frameAge' /\ frameAge' <= 1 /\ frameAge' # 1
  BY <1>1, <1>2, <1>4
<1> QED BY <1>2, <1>5, <1>6 DEF Tapped, Carried

(* The rest of the frame takes it to the file.                             *)
LEMMA TapWritten ==
  ASSUME MailboxInv, NEW d \in Controls, Tapped(d), Mailbox!AppLocks \/ Mailbox!AppWrites \/ Mailbox!AppReads
    \/ Mailbox!AppUnlocks
  PROVE  Tapped(d)'
<1>1. host # "frame" /\ frameAge = 0 /\ UNCHANGED <<owed, sample, frameAge, machine, board, ticked>>
  BY DEF Mailbox!AppLocks, Mailbox!AppWrites, Mailbox!AppReads, Mailbox!AppUnlocks, MailboxInv, MailboxTypes,
         Mailbox!input
<1>2. owed[d] # Mailbox!Seen => Carried(d)
  BY <1>1 DEF Tapped, Pressed
<1>3. \/ host \in {"lock", "x", "y"} /\ host' \in {"x", "y", "down"}
      \/ host = "down" /\ host' = "pixels" /\ shared'.down = sample.down
      \/ /\ host \in {"pixels", "second", "updates", "unlock"}
         /\ host' \in {"second", "updates", "unlock", "frame"} /\ shared'.down = shared.down
  BY DEF Mailbox!AppLocks, Mailbox!AppWrites, Mailbox!AppReads, Mailbox!AppUnlocks, MailboxInv, MailboxTypes, Exchanged
<1>4. owed[d] # Mailbox!Seen => /\ host' \in {"lock", "x", "y", "down"} => sample'.down[d]
                                /\ host' \notin {"lock", "x", "y", "down"} => shared'.down[d]
  BY <1>1, <1>2, <1>3 DEF Carried
<1>5. frameAge' # 1
  BY <1>1
<1> QED BY <1>1, <1>2, <1>4, <1>5 DEF Tapped, Carried

(* The next tick takes the lock, as no frame follows at once, and reads it. *)
LEMMA TapTicked ==
  ASSUME MailboxInv, NEW d \in Controls, Tapped(d), TickStep
  PROVE  Tapped(d)'
<1>0. Mailbox!TypeOK /\ MailboxTypes
  BY DEF MailboxInv
<1>1. UNCHANGED <<until, host, sample, frameAge>>
  BY DEF TickStep, Mailbox!TickLocks, Mailbox!TickReads, Mailbox!TickWrites, Mailbox!TickUnlocks, Mailbox!TickDelivers,
         Mailbox!input
<1>2. shared'.down = shared.down
  BY <1>0 DEF TickStep, Mailbox!TickLocks, Mailbox!TickReads, Mailbox!TickWrites, Mailbox!TickUnlocks,
         Mailbox!TickDelivers, MailboxTypes, Exchanged
<1>3. owed'[d] = owed[d] \/ owed'[d] = Mailbox!Seen
  BY <1>0 DEF TickStep, Mailbox!TickLocks, Mailbox!TickReads, Mailbox!TickWrites, Mailbox!TickUnlocks,
         Mailbox!TickDelivers, MailboxTypes
<1>4. CASE owed'[d] = Mailbox!Seen
  BY <1>4 DEF Tapped, Mailbox!Seen
<1>5. CASE owed'[d] = owed[d] /\ owed[d] # Mailbox!Seen /\ Pressed(d)
  <2>1. Pressed(d)'
    BY <1>1, <1>5 DEF Pressed
  <2> QED BY <2>1 DEF Tapped
<1>6. CASE owed'[d] = owed[d] /\ owed[d] # Mailbox!Seen /\ Carried(d)
  <2>1. /\ owed'[d] <= FramePeriod + frameAge' /\ frameAge' <= 1
        /\ host' \in {"lock", "x", "y", "down"} => sample'.down[d]
        /\ host' \notin {"lock", "x", "y", "down"} => shared'.down[d]
    BY <1>1, <1>2, <1>6 DEF Carried
  <2>2. frameAge' = 1 => host = "frame" /\ frameAge = 1 /\ shared.down[d] /\ (machine = "tick" => ~ticked)
                         /\ (machine \notin {"tick", "down"} => board.down[d])
    BY <1>0, <1>1, <1>6 DEF Carried, MailboxTypes
  <2>3. frameAge' = 1 => (machine' = "tick" => ~ticked') /\ (machine' \notin {"tick", "down"} => board'.down[d])
    <3> SUFFICES ASSUME frameAge' = 1 PROVE (machine' = "tick" => ~ticked')
        /\ (machine' \notin {"tick", "down"} => board'.down[d])
      OBVIOUS
    <3>1. CASE Mailbox!TickLocks
      <4>1. machine = "tick" /\ mutex = "free"
        BY <1>0, <2>2, <3>1 DEF Mailbox!TickLocks, Mailbox!TypeOK
      <4> QED BY <3>1, <4>1 DEF Mailbox!TickLocks
    <3>2. CASE Mailbox!TickReads
      BY <1>0, <2>2, <3>2 DEF Mailbox!TickReads, MailboxTypes, Sampled
    <3>3. CASE Mailbox!TickWrites
      BY <2>2, <3>3 DEF Mailbox!TickWrites
    <3>4. CASE Mailbox!TickUnlocks
      BY <2>2, <3>4 DEF Mailbox!TickUnlocks
    <3>5. CASE Mailbox!TickDelivers
      <4>1. owed'[d] = Mailbox!Seen
        BY <1>0, <2>2, <3>5 DEF Mailbox!TickDelivers
      <4> QED BY <1>6, <4>1
    <3> QED BY <3>1, <3>2, <3>3, <3>4, <3>5 DEF TickStep
  <2>4. Carried(d)'
    BY <2>1, <2>3 DEF Carried
  <2> QED BY <2>4 DEF Tapped
<1> QED BY <1>3, <1>4, <1>5, <1>6 DEF Tapped

LEMMA TapElapses == ASSUME MailboxInv, Mailbox!Alive, NEW d \in Controls, Tapped(d), Mailbox!Elapse PROVE Tapped(d)'
<1>0. Mailbox!TypeOK /\ MailboxTypes
  BY DEF MailboxInv
<1>1. /\ owed[d] \in Nat \cup {Mailbox!Seen} /\ until[d] \in Nat /\ frameAge \in Nat /\ MinimumPress \in Nat
         /\ Mailbox!Seen = -1
      /\ FramePeriod \in Nat /\ frameAge <= FramePeriod /\ FramePeriod < MinimumPress
  BY <1>0, TapNumbers
<1>2. /\ host = "frame" /\ host' = "frame" /\ machine = "tick" /\ ticked /\ machine' = "tick" /\ ~ticked'
      /\ frameAge < FramePeriod /\ frameAge' = frameAge + 1 /\ UNCHANGED <<shared, sample, board>>
  BY DEF Mailbox!Elapse, Mailbox!Alive
<1>3. until'[d] = (IF until[d] > 0 THEN until[d] - 1 ELSE 0)
      /\ owed'[d] = (IF owed[d] # Mailbox!Seen THEN owed[d] + 1 ELSE owed[d])
  BY DEF Mailbox!Elapse
<1>4. CASE owed[d] = Mailbox!Seen
  BY <1>3, <1>4 DEF Tapped, Mailbox!Seen
<1>5. CASE owed[d] # Mailbox!Seen /\ Pressed(d)
  <2>1. owed[d] \in Nat /\ owed[d] <= frameAge /\ until[d] + owed[d] >= MinimumPress
    BY <1>1, <1>5 DEF Pressed
  <2>2. until[d] > 0
    BY <1>1, <1>2, <2>1
  <2>3. owed'[d] <= frameAge' /\ until'[d] + owed'[d] >= MinimumPress
    BY <1>1, <1>2, <1>3, <1>5, <2>1, <2>2
  <2> QED BY <1>2, <2>3 DEF Tapped, Pressed
<1>6. CASE owed[d] # Mailbox!Seen /\ Carried(d)
  <2>1. owed[d] \in Nat /\ owed[d] <= FramePeriod + frameAge /\ frameAge <= 1 /\ frameAge # 1 /\ shared.down[d]
    BY <1>1, <1>2, <1>6 DEF Carried
  <2>2. owed'[d] <= FramePeriod + frameAge' /\ frameAge' <= 1
    BY <1>1, <1>2, <1>3, <1>6, <2>1
  <2> QED BY <1>2, <2>1, <2>2 DEF Tapped, Carried
<1> QED BY <1>4, <1>5, <1>6 DEF Tapped

LEMMA TapStep == ASSUME MailboxInv, MailboxTypes', [Mailbox!Next]_(Mailbox!vars) PROVE TapInv'
<1> SUFFICES ASSUME Mailbox!Alive', NEW d \in Controls PROVE Tapped(d)'
  BY DEF TapInv, Tapped
<1>0. Mailbox!TypeOK /\ MailboxTypes
  BY DEF MailboxInv
<1>1. Mailbox!Alive => Tapped(d)
  BY DEF MailboxInv, TapInv, Tapped
<1>2. Mailbox!Alive \/ Mailbox!Restart
  BY DEF Mailbox!Next, Mailbox!Press, Mailbox!Release, Mailbox!Drag, Mailbox!DragOut, Mailbox!FocusLost,
         Mailbox!Handle, Mailbox!Sample, Mailbox!AppLocks, Mailbox!AppWrites, Mailbox!AppReads, Mailbox!AppUnlocks,
         Mailbox!TickLocks, Mailbox!TickReads, Mailbox!TickWrites, Mailbox!TickUnlocks, Mailbox!TickDelivers,
         Mailbox!GuestDraws, Mailbox!QemuDies, Mailbox!Elapse, Mailbox!Alive, Mailbox!vars
<1>3. CASE Mailbox!Restart
  BY <1>3 DEF Mailbox!Restart, Tapped, Mailbox!Seen
<1>4. ASSUME Mailbox!Alive PROVE Tapped(d)'
  <2>1. Tapped(d)
    BY <1>1, <1>4
  <2>2. ASSUME NEW c \in Controls, NEW p \in Points, Mailbox!Press(c, p) \/ Mailbox!Release(c) \/ Mailbox!Drag(p)
        \/ Mailbox!DragOut(p) \/ Mailbox!FocusLost
        PROVE  Tapped(d)'
    BY <1>4, <2>1, <2>2, TapHandles
  <2>3. CASE Mailbox!Sample
    BY <2>1, <2>3, TapSampled
  <2>4. CASE Mailbox!AppLocks \/ Mailbox!AppWrites \/ Mailbox!AppReads \/ Mailbox!AppUnlocks
    BY <2>1, <2>4, TapWritten
  <2>5. CASE TickStep
    BY <2>1, <2>5, TapTicked
  <2>6. CASE Mailbox!GuestDraws
    <3>1. UNCHANGED <<owed, until, host, sample, shared, machine, board, frameAge, ticked>>
      BY <2>6 DEF Mailbox!GuestDraws, Mailbox!input
    <3> QED BY <2>1, <3>1 DEF Tapped, Pressed, Carried
  <2>7. CASE Mailbox!QemuDies
    BY <2>7 DEF Mailbox!QemuDies, Mailbox!Alive
  <2>8. CASE Mailbox!Elapse
    BY <1>4, <2>1, <2>8, TapElapses
  <2>9. CASE UNCHANGED Mailbox!vars
    <3>1. UNCHANGED <<owed, until, host, sample, shared, machine, board, frameAge, ticked>>
      BY <2>9 DEF Mailbox!vars
    <3> QED BY <2>1, <3>1 DEF Tapped, Pressed, Carried
  <2>10. Touch \in Controls /\ 0 \in Points
    BY MailboxTimes
  <2> QED BY <1>3, <2>2, <2>3, <2>4, <2>5, <2>6, <2>7, <2>8, <2>9, <2>10 DEF Mailbox!Next, TickStep
<1> QED BY <1>2, <1>3, <1>4

LEMMA TypesStep == ASSUME MailboxInv, [Mailbox!Next]_(Mailbox!vars) PROVE Mailbox!TypeOK' /\ MailboxTypes'
<1>1. Mailbox!TypeOK /\ MailboxTypes
  BY DEF MailboxInv
<1>2. ASSUME NEW c \in Controls, NEW p \in Points, Mailbox!Press(c, p) \/ Mailbox!Release(c) \/ Mailbox!Drag(p)
      \/ Mailbox!DragOut(p) \/ Mailbox!FocusLost
      PROVE  Mailbox!TypeOK' /\ MailboxTypes'
  BY <1>1, <1>2, HandlesTypes
<1>3. CASE AppStep
  BY <1>1, <1>3, AppTypes
<1>4. CASE TickStep
  BY <1>1, <1>4, TickTypes
<1>5. CASE Mailbox!GuestDraws \/ Mailbox!QemuDies \/ Mailbox!Restart \/ Mailbox!Elapse
  BY <1>1, <1>5, RestTypes
<1>6. CASE UNCHANGED Mailbox!vars
  BY <1>1, <1>6 DEF Mailbox!vars, Mailbox!TypeOK, MailboxTypes
<1>7. Touch \in Controls /\ 0 \in Points
  BY MailboxTimes
<1> QED BY <1>2, <1>3, <1>4, <1>5, <1>6, <1>7 DEF Mailbox!Next, AppStep, TickStep

LEMMA StepMailbox == MailboxInv /\ [Mailbox!Next]_(Mailbox!vars) => MailboxInv'
<1> SUFFICES ASSUME MailboxInv, [Mailbox!Next]_(Mailbox!vars) PROVE MailboxInv'
  OBVIOUS
<1>1. Mailbox!TypeOK' /\ MailboxTypes'
  BY TypesStep
<1>2. PointInv' /\ PictureInv' /\ TapInv'
  BY <1>1, PointStep, PictureStep, TapStep
<1> QED BY <1>1, <1>2 DEF MailboxInv

LEMMA MailboxSafe == MailboxInv => MailboxSafety
<1> SUFFICES ASSUME MailboxInv PROVE MailboxSafety
  OBVIOUS
<1>1. Mailbox!TypeOK /\ MailboxTypes
  BY DEF MailboxInv
<1>2. Mailbox!PointWhole
  BY DEF MailboxInv, PointInv, Mailbox!PointWhole
<1>3. Mailbox!PictureWhole
  BY DEF MailboxInv, PictureInv, Mailbox!PictureWhole
<1>4. ASSUME Mailbox!Alive, NEW c \in Controls PROVE owed[c] <= FramePeriod + 2
  <2>1. /\ owed[c] \in Nat \cup {Mailbox!Seen} /\ frameAge \in Nat /\ Mailbox!Seen = -1 /\ FramePeriod \in Nat
           /\ frameAge <= FramePeriod
    BY <1>1, TapNumbers
  <2>2. owed[c] = Mailbox!Seen \/ owed[c] <= frameAge \/ (owed[c] <= FramePeriod + frameAge /\ frameAge <= 1)
    BY <1>4 DEF MailboxInv, TapInv, Pressed, Carried
  <2> QED BY <2>1, <2>2
<1> QED BY <1>1, <1>2, <1>3, <1>4 DEF MailboxSafety, Mailbox!MailboxSafety, Mailbox!TapReaches

(* For any controls, points and times that the assumption allows: a point  *)
(* and a picture are handed over whole, and a press is read by the board   *)
(* within a frame and two ticks, however the lock is contended             *)
(* (exchangeShared, boardTick).                                            *)
THEOREM MailboxCorrect == Mailbox!Spec => []MailboxSafety
BY InitMailbox, StepMailbox, MailboxSafe, PTL DEF Mailbox!Spec

-----------------------------------------------------------------------------
(* The ATT client.                                                         *)

Pdus == [op : {"read", "write", "prepare", "execute", "cancel", "mtu", "answered", "value"},
         id : Nat, offset : Nat, length : Nat, size : Nat]
Replies == [op : {"answer", "garbled", "error", "insecure", "mtu", "value"}, of : Pdus, size : Nat]
Requests == [id : RequestIds, value : Nat, long : BOOLEAN, prepareError : BOOLEAN, packet : Pdus]
Servers == [mtu : Nat, prepared : Seq(Pdus), asked : BOOLEAN]

AttTypes ==
  /\ connected \in BOOLEAN /\ busy \in BOOLEAN /\ securing \in BOOLEAN /\ encrypted \in BOOLEAN /\ exchanged \in BOOLEAN
  /\ requests \in Seq(Requests) /\ toGuest \in Seq(Pdus) /\ toPeer \in Seq(Replies) /\ server \in Servers /\ stored \in Seq(Pdus)
  /\ made \in [RequestIds -> {-1, 0} \cup ValueSizes] /\ done \in [RequestIds -> {"no", "ok", "error", "refused", "closed"}]

\* What the two MTUs come to, once both sides have heard of the exchange.
Settled(local) == Att!Min(local, GuestMtu)

\* Who raises its MTU when it reads a PDU: the guest by the answer to its own
\* exchange, the client by the answer to one of its own.
Raises(m) == m.op = "answer" /\ m.of.op = "mtu"

\* A PDU is too long for its receiver only behind one that raises the receiver's MTU.
FitsGuest(s, limit) == \A i \in DOMAIN s : s[i].size <= limit \/ \E j \in 1..i - 1 : s[j].op = "answered"
FitsPeer(s, limit) == \A i \in DOMAIN s : s[i].size <= limit \/ \E j \in 1..i - 1 : Raises(s[j])

Mtus(g, m, local, ex) ==
  /\ local \in {DefaultMtu, MaxMtu} /\ m = (IF ex THEN Settled(local) ELSE DefaultMtu)
  /\ DefaultMtu <= g /\ g <= Settled(local)
Towards(s, g, m, local, ex) ==
  /\ \A i \in DOMAIN s : s[i].size <= Settled(local) /\ (s[i].op = "answered" => ex /\ s[i].length = local)
  /\ FitsGuest(s, g) /\ (m <= g \/ \E j \in DOMAIN s : s[j].op = "answered")
Back(s, g, m, local) ==
  /\ \A i \in DOMAIN s : s[i].size <= Settled(local) /\ (s[i].op = "mtu" => s[i].of.length = GuestMtu)
                           /\ (Raises(s[i]) => local = MaxMtu /\ g = Settled(local))
  /\ FitsPeer(s, m) /\ (g <= m \/ \E j \in DOMAIN s : Raises(s[j]))
Sized(q, m, local) == \A k \in DOMAIN q : q[k].packet.size <= m /\ (q[k].packet.op = "mtu" => local = MaxMtu)

MtuInv ==
  /\ Mtus(server.mtu, mtu, localMtu, exchanged) /\ Towards(toGuest, server.mtu, mtu, localMtu, exchanged)
  /\ Back(toPeer, server.mtu, mtu, localMtu) /\ Sized(requests, mtu, localMtu)

\* What a request asks for, and how far it is.
Shaped(r) ==
  /\ r.packet.id = r.id
  /\ ~r.long => r.packet.op \in {"read", "write", "mtu"} /\ ~r.prepareError
                /\ (r.packet.op = "write" => r.packet.offset = 0 /\ r.packet.length = r.value)
  /\ r.long => \/ r.packet.op = "prepare" /\ ~r.prepareError /\ r.packet.offset + r.packet.length <= r.value
               \/ r.packet.op = "execute" /\ ~r.prepareError
               \/ r.packet.op = "cancel" /\ r.prepareError
Unsent(r) == r.long => r.packet.op = "prepare" /\ r.packet.offset = 0

Queue(q, m) ==
  /\ Len(q) <= MaxPendingRequests
  /\ \A k \in DOMAIN q : Shaped(q[k]) /\ m[q[k].id] = q[k].value /\ (k > 1 => Unsent(q[k]))
  /\ \A j, k \in DOMAIN q : q[j].id = q[k].id => j = k
Owed(q, m, d) ==
  \A i \in RequestIds : (m[i] = -1 => d[i] = "no") /\ (m[i] # -1 => (d[i] = "no" <=> \E k \in DOMAIN q : q[k].id = i))
QueueInv == Queue(requests, made) /\ Owed(requests, made, done)

\* Fragments of one value, from its beginning and without a gap.
OfOne(s, id) == \A i \in DOMAIN s : s[i].id = id
Joined(s) == \A i \in DOMAIN s : s[i].offset = (IF i = 1 THEN 0 ELSE s[i - 1].offset + s[i - 1].length)
End(s) == IF s = <<>> THEN 0 ELSE s[Len(s)].offset + s[Len(s)].length
Covers(s, id, n) == OfOne(s, id) /\ Joined(s) /\ End(s) = n

\* What the guest has prepared before it sees the packet of "r", and after it has replied.
Before(r, s) ==
  /\ ~r.long => s = <<>>
  /\ r.packet.op = "prepare" => Covers(s, r.id, r.packet.offset)
  /\ r.packet.op = "execute" => Covers(s, r.id, r.value)
  /\ r.packet.op = "cancel" => OfOne(s, r.id)
After(r, op, s) ==
  /\ op = "insecure" => Before(r, s)
  /\ op # "insecure" /\ r.packet.op = "prepare" => Covers(s, r.id, r.packet.offset + IF op = "error" THEN 0 ELSE r.packet.length)
  /\ op # "insecure" /\ r.packet.op # "prepare" => s = <<>> /\ op # "garbled"

\* Where the transaction is: with the guest, in one place, or on its way back.
Answers == {"answer", "garbled", "error", "insecure"}
AskedOf(s, p) == p.op # "answered" /\ \E i \in DOMAIN s : s[i] = p /\ \A j \in DOMAIN s : j # i => s[j].op = "answered"
NoneAsked(s) == \A j \in DOMAIN s : s[j].op = "answered"
ToldOf(s, m) == m.op \in Answers /\ \E i \in DOMAIN s : s[i] = m /\ \A j \in DOMAIN s : j # i => s[j].op \notin Answers
NoneTold(s) == \A j \in DOMAIN s : s[j].op \notin Answers

AtGuest(r, tg, tp, s) == AskedOf(tg, r.packet) /\ NoneTold(tp) /\ Before(r, s)
AtPeer(r, tg, tp, s, enc) ==
  /\ NoneAsked(tg)
  /\ \E i \in DOMAIN tp : ToldOf(tp, tp[i]) /\ tp[i].of = r.packet /\ After(r, tp[i].op, s) /\ (tp[i].op = "insecure" => ~enc)
Waiting(q, sec, s) == IF q = <<>> THEN s = <<>> ELSE sec /\ Before(q[1], s)

Transaction(q, b, sec, enc, tg, tp, s) ==
  /\ b => q # <<>> /\ ~sec /\ (AtGuest(q[1], tg, tp, s) \/ AtPeer(q[1], tg, tp, s, enc))
  /\ ~b => NoneAsked(tg) /\ NoneTold(tp) /\ Waiting(q, sec, s)
TransactionInv == Transaction(requests, busy, securing, encrypted, toGuest, toPeer, server.prepared)

WholeValue(s, m) == s # <<>> => s[1].id \in RequestIds /\ Covers(s, s[1].id, m[s[1].id])
StoredInv == WholeValue(stored, made)

AttInv == AttTypes /\ MtuInv /\ QueueInv /\ TransactionInv /\ StoredInv

LEMMA AttFacts ==
  /\ RequestIds \subseteq Nat /\ ValueSizes \subseteq Nat \ {0} /\ DefaultMtu \in Nat /\ DefaultMtu > 5 /\ MaxMtu \in Nat /\ GuestMtu \in Nat
  /\ DefaultMtu <= MaxMtu /\ DefaultMtu <= GuestMtu /\ MaxPendingRequests \in Nat \ {0}
  /\ \A local \in {DefaultMtu, MaxMtu} : Settled(local) \in Nat /\ DefaultMtu <= Settled(local) /\ Settled(local) <= GuestMtu
                                           /\ Settled(local) <= local /\ local \in Nat /\ Settled(local) <= Settled(MaxMtu)
  BY FrontendAssumption DEF Att!AttAssumption, Settled, Att!Min

LEMMA TailIs ==
  ASSUME NEW S, NEW s \in Seq(S), s # <<>>
  PROVE  /\ Len(s) \in Nat /\ Len(s) >= 1 /\ DOMAIN s = 1..Len(s) /\ 1 \in DOMAIN s /\ s[1] \in S /\ Head(s) = s[1]
         /\ Tail(s) \in Seq(S) /\ Len(Tail(s)) = Len(s) - 1 /\ DOMAIN Tail(s) = 1..Len(s) - 1
         /\ \A i \in 1..Len(s) - 1 : Tail(s)[i] = s[i + 1]
  OBVIOUS

LEMMA AppendIs ==
  ASSUME NEW S, NEW s \in Seq(S), NEW e \in S
  PROVE  /\ Len(s) \in Nat /\ DOMAIN s = 1..Len(s)
         /\ Append(s, e) \in Seq(S) /\ Len(Append(s, e)) = Len(s) + 1 /\ DOMAIN Append(s, e) = 1..Len(s) + 1
         /\ \A i \in 1..Len(s) : Append(s, e)[i] = s[i]
         /\ Append(s, e)[Len(s) + 1] = e
  OBVIOUS

-----------------------------------------------------------------------------
(* Where a transaction is, as PDUs are sent and read.                      *)

LEMMA AskedAppend ==
  ASSUME NEW s \in Seq(Pdus), NEW e \in Pdus
  PROVE  /\ e.op = "answered" => /\ NoneAsked(s) => NoneAsked(Append(s, e))
                                 /\ \A p : AskedOf(s, p) => AskedOf(Append(s, e), p)
         /\ e.op # "answered" /\ NoneAsked(s) => AskedOf(Append(s, e), e)
<1>1. /\ Len(s) \in Nat /\ DOMAIN s = 1..Len(s) /\ DOMAIN Append(s, e) = 1..Len(s) + 1
      /\ \A i \in 1..Len(s) : Append(s, e)[i] = s[i]
      /\ Append(s, e)[Len(s) + 1] = e
  BY AppendIs
<1>2. \A i \in 1..Len(s) + 1 : i \in 1..Len(s) \/ i = Len(s) + 1
  BY <1>1
<1>3. ASSUME e.op = "answered", NEW p, AskedOf(s, p) PROVE AskedOf(Append(s, e), p)
  <2>1. PICK i \in DOMAIN s : s[i] = p /\ \A j \in DOMAIN s : j # i => s[j].op = "answered"
    BY <1>3 DEF AskedOf
  <2>2. i \in DOMAIN Append(s, e) /\ Append(s, e)[i] = p
    BY <1>1, <2>1
  <2>3. \A j \in DOMAIN Append(s, e) : j # i => Append(s, e)[j].op = "answered"
    BY <1>1, <1>2, <1>3, <2>1
  <2> QED
    BY <1>3, <2>2, <2>3 DEF AskedOf
<1>4. ASSUME e.op = "answered", NoneAsked(s) PROVE NoneAsked(Append(s, e))
  BY <1>1, <1>2, <1>4 DEF NoneAsked
<1>5. ASSUME e.op # "answered", NoneAsked(s) PROVE AskedOf(Append(s, e), e)
  <2>1. Len(s) + 1 \in DOMAIN Append(s, e)
    BY <1>1
  <2>2. \A j \in DOMAIN Append(s, e) : j # Len(s) + 1 => Append(s, e)[j].op = "answered"
    BY <1>1, <1>2, <1>5 DEF NoneAsked
  <2> QED
    BY <1>1, <1>5, <2>1, <2>2 DEF AskedOf
<1> QED
  BY <1>3, <1>4, <1>5

LEMMA AskedTail ==
  ASSUME NEW s \in Seq(Pdus), s # <<>>
  PROVE  /\ NoneAsked(s) => s[1].op = "answered" /\ NoneAsked(Tail(s))
         /\ s[1].op = "answered" => \A p : AskedOf(s, p) => AskedOf(Tail(s), p)
         /\ s[1].op # "answered" => \A p : AskedOf(s, p) => s[1] = p /\ NoneAsked(Tail(s))
<1>1. /\ Len(s) \in Nat /\ Len(s) >= 1 /\ DOMAIN s = 1..Len(s) /\ 1 \in DOMAIN s /\ DOMAIN Tail(s) = 1..Len(s) - 1
      /\ \A i \in 1..Len(s) - 1 : Tail(s)[i] = s[i + 1]
  BY TailIs
<1>2. \A j \in 1..Len(s) - 1 : j + 1 \in DOMAIN s /\ j + 1 # 1
  BY <1>1
<1>3. ASSUME NoneAsked(s) PROVE s[1].op = "answered" /\ NoneAsked(Tail(s))
  BY <1>1, <1>2, <1>3 DEF NoneAsked
<1>4. ASSUME s[1].op = "answered", NEW p, AskedOf(s, p) PROVE AskedOf(Tail(s), p)
  <2>1. PICK i \in DOMAIN s : s[i] = p /\ \A j \in DOMAIN s : j # i => s[j].op = "answered"
    BY <1>4 DEF AskedOf
  <2>2. p.op # "answered" /\ i # 1
    BY <1>4, <2>1 DEF AskedOf
  <2>3. i - 1 \in DOMAIN Tail(s) /\ Tail(s)[i - 1] = p
    BY <1>1, <2>1, <2>2
  <2>4. \A j \in DOMAIN Tail(s) : j # i - 1 => j + 1 # i
    BY <1>1, <2>1
  <2>5. \A j \in DOMAIN Tail(s) : j # i - 1 => Tail(s)[j].op = "answered"
    BY <1>1, <1>2, <2>1, <2>4
  <2> QED
    BY <2>2, <2>3, <2>5 DEF AskedOf
<1>5. ASSUME s[1].op # "answered", NEW p, AskedOf(s, p) PROVE s[1] = p /\ NoneAsked(Tail(s))
  <2>1. PICK i \in DOMAIN s : s[i] = p /\ \A j \in DOMAIN s : j # i => s[j].op = "answered"
    BY <1>5 DEF AskedOf
  <2>2. i = 1
    BY <1>1, <1>5, <2>1
  <2> QED
    BY <1>1, <1>2, <2>1, <2>2 DEF NoneAsked
<1> QED
  BY <1>3, <1>4, <1>5

LEMMA ToldAppend ==
  ASSUME NEW s \in Seq(Replies), NEW e \in Replies
  PROVE  /\ e.op \notin Answers => /\ NoneTold(s) => NoneTold(Append(s, e))
                                   /\ \A m : ToldOf(s, m) => ToldOf(Append(s, e), m)
         /\ e.op \in Answers /\ NoneTold(s) => ToldOf(Append(s, e), e)
<1>1. /\ Len(s) \in Nat /\ DOMAIN s = 1..Len(s) /\ DOMAIN Append(s, e) = 1..Len(s) + 1
      /\ \A i \in 1..Len(s) : Append(s, e)[i] = s[i]
      /\ Append(s, e)[Len(s) + 1] = e
  BY AppendIs
<1>2. \A i \in 1..Len(s) + 1 : i \in 1..Len(s) \/ i = Len(s) + 1
  BY <1>1
<1>3. ASSUME e.op \notin Answers, NEW m, ToldOf(s, m) PROVE ToldOf(Append(s, e), m)
  <2>1. PICK i \in DOMAIN s : s[i] = m /\ \A j \in DOMAIN s : j # i => s[j].op \notin Answers
    BY <1>3 DEF ToldOf
  <2>2. i \in DOMAIN Append(s, e) /\ Append(s, e)[i] = m
    BY <1>1, <2>1
  <2>3. \A j \in DOMAIN Append(s, e) : j # i => Append(s, e)[j].op \notin Answers
    BY <1>1, <1>2, <1>3, <2>1
  <2> QED
    BY <1>3, <2>2, <2>3 DEF ToldOf
<1>4. ASSUME e.op \notin Answers, NoneTold(s) PROVE NoneTold(Append(s, e))
  BY <1>1, <1>2, <1>4 DEF NoneTold
<1>5. ASSUME e.op \in Answers, NoneTold(s) PROVE ToldOf(Append(s, e), e)
  <2>1. Len(s) + 1 \in DOMAIN Append(s, e)
    BY <1>1
  <2>2. \A j \in DOMAIN Append(s, e) : j # Len(s) + 1 => Append(s, e)[j].op \notin Answers
    BY <1>1, <1>2, <1>5 DEF NoneTold
  <2> QED
    BY <1>1, <1>5, <2>1, <2>2 DEF ToldOf
<1> QED
  BY <1>3, <1>4, <1>5

LEMMA ToldTail ==
  ASSUME NEW s \in Seq(Replies), s # <<>>
  PROVE  /\ NoneTold(s) => s[1].op \notin Answers /\ NoneTold(Tail(s))
         /\ s[1].op \notin Answers => \A m : ToldOf(s, m) => ToldOf(Tail(s), m)
         /\ s[1].op \in Answers => \A m : ToldOf(s, m) => s[1] = m /\ NoneTold(Tail(s))
<1>1. /\ Len(s) \in Nat /\ Len(s) >= 1 /\ DOMAIN s = 1..Len(s) /\ 1 \in DOMAIN s /\ DOMAIN Tail(s) = 1..Len(s) - 1
      /\ \A i \in 1..Len(s) - 1 : Tail(s)[i] = s[i + 1]
  BY TailIs
<1>2. \A j \in 1..Len(s) - 1 : j + 1 \in DOMAIN s /\ j + 1 # 1
  BY <1>1
<1>3. ASSUME NoneTold(s) PROVE s[1].op \notin Answers /\ NoneTold(Tail(s))
  BY <1>1, <1>2, <1>3 DEF NoneTold
<1>4. ASSUME s[1].op \notin Answers, NEW m, ToldOf(s, m) PROVE ToldOf(Tail(s), m)
  <2>1. PICK i \in DOMAIN s : s[i] = m /\ \A j \in DOMAIN s : j # i => s[j].op \notin Answers
    BY <1>4 DEF ToldOf
  <2>2. m.op \in Answers /\ i # 1
    BY <1>4, <2>1 DEF ToldOf
  <2>3. i - 1 \in DOMAIN Tail(s) /\ Tail(s)[i - 1] = m
    BY <1>1, <2>1, <2>2
  <2>4. \A j \in DOMAIN Tail(s) : j # i - 1 => j + 1 # i
    BY <1>1, <2>1
  <2>5. \A j \in DOMAIN Tail(s) : j # i - 1 => Tail(s)[j].op \notin Answers
    BY <1>1, <1>2, <2>1, <2>4
  <2> QED
    BY <2>2, <2>3, <2>5 DEF ToldOf
<1>5. ASSUME s[1].op \in Answers, NEW m, ToldOf(s, m) PROVE s[1] = m /\ NoneTold(Tail(s))
  <2>1. PICK i \in DOMAIN s : s[i] = m /\ \A j \in DOMAIN s : j # i => s[j].op \notin Answers
    BY <1>5 DEF ToldOf
  <2>2. i = 1
    BY <1>1, <1>5, <2>1
  <2> QED
    BY <1>1, <1>2, <2>1, <2>2 DEF NoneTold
<1> QED
  BY <1>3, <1>4, <1>5

-----------------------------------------------------------------------------
(* PDUs and MTUs.                                                          *)

LEMMA TowardsAppend ==
  ASSUME NEW s \in Seq(Pdus), NEW e \in Pdus, NEW g \in Nat, NEW m \in Nat, NEW local \in {DefaultMtu, MaxMtu}, NEW ex,
         g <= Settled(local), m <= Settled(local), Towards(s, g, m, local, ex)
  PROVE  /\ e.size <= m /\ e.op # "answered" => Towards(Append(s, e), g, m, local, ex)
         /\ e.size <= g /\ e.op = "answered" /\ e.length = local => \A n \in Nat : Towards(Append(s, e), g, n, local, TRUE)
<1>1. /\ Len(s) \in Nat /\ DOMAIN s = 1..Len(s) /\ DOMAIN Append(s, e) = 1..Len(s) + 1
      /\ \A i \in 1..Len(s) : Append(s, e)[i] = s[i]
      /\ Append(s, e)[Len(s) + 1] = e
  BY AppendIs
<1>2. \A i \in 1..Len(s) + 1 : i \in 1..Len(s) \/ i = Len(s) + 1
  BY <1>1
<1>3. Settled(local) \in Nat /\ e.size \in Nat
  BY AttFacts DEF Pdus
<1>4. \A i \in 1..Len(s) : \A j \in 1..i - 1 : j \in 1..Len(s) /\ j \in 1..Len(s) + 1
  BY <1>1
<1>5. \A j \in 1..Len(s) : j \in 1..(Len(s) + 1) - 1 /\ j \in 1..Len(s) + 1
  BY <1>1
<1>6. \A i \in 1..Len(s) : Append(s, e)[i].size <= g \/ \E j \in 1..i - 1 : Append(s, e)[j].op = "answered"
  BY <1>1, <1>4 DEF Towards, FitsGuest
<1>7. ASSUME e.size <= m, e.op # "answered" PROVE Towards(Append(s, e), g, m, local, ex)
  <2>1. \A i \in 1..Len(s) + 1 : Append(s, e)[i].size <= Settled(local)
                                  /\ (Append(s, e)[i].op = "answered" => ex /\ Append(s, e)[i].length = local)
    BY <1>1, <1>2, <1>3, <1>7 DEF Towards
  <2>2. m <= g \/ \E j \in 1..Len(s) : Append(s, e)[j].op = "answered"
    BY <1>1 DEF Towards
  <2>3. e.size <= g \/ \E j \in 1..Len(s) : Append(s, e)[j].op = "answered"
    BY <1>3, <1>7, <2>2
  <2>4. FitsGuest(Append(s, e), g)
    BY <1>1, <1>2, <1>5, <1>6, <2>3 DEF FitsGuest
  <2> QED
    BY <1>1, <1>5, <2>1, <2>2, <2>4 DEF Towards
<1>8. ASSUME e.size <= g, e.op = "answered", e.length = local, NEW n \in Nat PROVE Towards(Append(s, e), g, n, local, TRUE)
  <2>1. \A i \in 1..Len(s) + 1 : Append(s, e)[i].size <= Settled(local)
                                  /\ (Append(s, e)[i].op = "answered" => Append(s, e)[i].length = local)
    BY <1>1, <1>2, <1>3, <1>8 DEF Towards
  <2>2. FitsGuest(Append(s, e), g)
    BY <1>1, <1>2, <1>6, <1>8 DEF FitsGuest
  <2>3. Len(s) + 1 \in 1..Len(s) + 1
    BY <1>1
  <2> QED
    BY <1>1, <1>8, <2>1, <2>2, <2>3 DEF Towards
<1> QED
  BY <1>7, <1>8

LEMMA TowardsTail ==
  ASSUME NEW s \in Seq(Pdus), s # <<>>, NEW g \in Nat, NEW m \in Nat, NEW local \in {DefaultMtu, MaxMtu}, NEW ex,
         g <= Settled(local), m <= Settled(local), Towards(s, g, m, local, ex)
  PROVE  /\ s[1].size <= g
         /\ s[1].op = "answered" => ex /\ s[1].length = local
         /\ s[1].op # "answered" => Towards(Tail(s), g, m, local, ex)
         /\ Towards(Tail(s), Settled(local), m, local, ex)
<1>1. /\ Len(s) \in Nat /\ Len(s) >= 1 /\ DOMAIN s = 1..Len(s) /\ 1 \in DOMAIN s /\ DOMAIN Tail(s) = 1..Len(s) - 1
      /\ \A i \in 1..Len(s) - 1 : Tail(s)[i] = s[i + 1]
  BY TailIs
<1>2. \A j \in 1..Len(s) - 1 : j + 1 \in DOMAIN s
  BY <1>1
<1>3. Settled(local) \in Nat
  BY AttFacts
<1>4. ~ \E j \in 1..1 - 1 : TRUE
  OBVIOUS
<1>5. s[1].size <= g
  BY <1>1, <1>4 DEF Towards, FitsGuest
<1>6. \A i \in DOMAIN Tail(s) : Tail(s)[i].size <= Settled(local) /\ (Tail(s)[i].op = "answered" => ex /\ Tail(s)[i].length = local)
  BY <1>1, <1>2 DEF Towards
<1>7. ASSUME s[1].op # "answered" PROVE Towards(Tail(s), g, m, local, ex)
  <2>1. \A i \in 1..Len(s) - 1 : \A j \in 1..(i + 1) - 1 : j = 1 \/ (j - 1 \in 1..i - 1 /\ j - 1 \in 1..Len(s) - 1 /\ (j - 1) + 1 = j)
    BY <1>1
  <2>2. ASSUME NEW i \in 1..Len(s) - 1 PROVE Tail(s)[i].size <= g \/ \E j \in 1..i - 1 : Tail(s)[j].op = "answered"
    <3>1. s[i + 1].size <= g \/ \E j \in 1..(i + 1) - 1 : s[j].op = "answered"
      BY <1>2, <1>1 DEF Towards, FitsGuest
    <3>2. CASE s[i + 1].size <= g
      BY <1>1, <3>2
    <3>3. ASSUME NEW j \in 1..(i + 1) - 1, s[j].op = "answered" PROVE \E k \in 1..i - 1 : Tail(s)[k].op = "answered"
      <4>1. j - 1 \in 1..i - 1 /\ j - 1 \in 1..Len(s) - 1 /\ (j - 1) + 1 = j
        BY <1>7, <2>1, <3>3
      <4> QED
        BY <1>1, <3>3, <4>1
    <3> QED
      BY <3>1, <3>2, <3>3
  <2>3. m <= g \/ \E j \in DOMAIN Tail(s) : Tail(s)[j].op = "answered"
    <3>1. \A j \in 1..Len(s) : j = 1 \/ (j - 1 \in 1..Len(s) - 1 /\ (j - 1) + 1 = j)
      BY <1>1
    <3>2. m <= g \/ \E j \in DOMAIN s : s[j].op = "answered"
      BY DEF Towards
    <3>3. ASSUME NEW j \in DOMAIN s, s[j].op = "answered" PROVE \E k \in DOMAIN Tail(s) : Tail(s)[k].op = "answered"
      <4>1. j - 1 \in DOMAIN Tail(s) /\ (j - 1) + 1 = j
        BY <1>1, <1>7, <3>1, <3>3
      <4> QED
        BY <1>1, <3>3, <4>1
    <3> QED
      BY <3>2, <3>3
  <2> QED
    BY <1>1, <1>6, <2>2, <2>3 DEF Towards, FitsGuest
<1>8. Towards(Tail(s), Settled(local), m, local, ex)
  BY <1>6 DEF Towards, FitsGuest
<1>9. s[1].op = "answered" => ex /\ s[1].length = local
  BY <1>1 DEF Towards
<1> QED
  BY <1>5, <1>7, <1>8, <1>9

LEMMA TowardsRaised ==
  ASSUME NEW s, NEW m, NEW local, NEW ex, Towards(s, Settled(local), m, local, ex), NEW n, n <= Settled(local)
  PROVE  Towards(s, Settled(local), n, local, TRUE)
BY DEF Towards, FitsGuest

LEMMA BackAppend ==
  ASSUME NEW s \in Seq(Replies), NEW e \in Replies, NEW g \in Nat, NEW m \in Nat, NEW local \in {DefaultMtu, MaxMtu},
         g <= Settled(local), m <= Settled(local), Back(s, g, m, local), e.op = "mtu" => e.of.length = GuestMtu
  PROVE  /\ e.size <= g /\ ~Raises(e) => Back(Append(s, e), g, m, local)
         /\ e.size <= m /\ Raises(e) /\ local = MaxMtu => Back(Append(s, e), Settled(local), m, local)
<1>1. /\ Len(s) \in Nat /\ DOMAIN s = 1..Len(s) /\ DOMAIN Append(s, e) = 1..Len(s) + 1
      /\ \A i \in 1..Len(s) : Append(s, e)[i] = s[i]
      /\ Append(s, e)[Len(s) + 1] = e
  BY AppendIs
<1>2. \A i \in 1..Len(s) + 1 : i \in 1..Len(s) \/ i = Len(s) + 1
  BY <1>1
<1>3. Settled(local) \in Nat /\ e.size \in Nat
  BY AttFacts DEF Replies
<1>4. \A i \in 1..Len(s) : \A j \in 1..i - 1 : j \in 1..Len(s) /\ j \in 1..Len(s) + 1
  BY <1>1
<1>5. \A j \in 1..Len(s) : j \in 1..(Len(s) + 1) - 1 /\ j \in 1..Len(s) + 1
  BY <1>1
<1>6. \A i \in 1..Len(s) : Append(s, e)[i].size <= m \/ \E j \in 1..i - 1 : Raises(Append(s, e)[j])
  BY <1>1, <1>4 DEF Back, FitsPeer
<1>7. ASSUME e.size <= g, ~Raises(e) PROVE Back(Append(s, e), g, m, local)
  <2>1. \A i \in 1..Len(s) + 1 : Append(s, e)[i].size <= Settled(local)
                                  /\ (Append(s, e)[i].op = "mtu" => Append(s, e)[i].of.length = GuestMtu)
                                  /\ (Raises(Append(s, e)[i]) => local = MaxMtu /\ g = Settled(local))
    BY <1>1, <1>2, <1>3, <1>7 DEF Back
  <2>2. g <= m \/ \E j \in 1..Len(s) : Raises(Append(s, e)[j])
    BY <1>1 DEF Back
  <2>3. e.size <= m \/ \E j \in 1..Len(s) : Raises(Append(s, e)[j])
    BY <1>3, <1>7, <2>2
  <2>4. FitsPeer(Append(s, e), m)
    BY <1>1, <1>2, <1>5, <1>6, <2>3 DEF FitsPeer
  <2> QED
    BY <1>1, <1>5, <2>1, <2>2, <2>4 DEF Back
<1>8. ASSUME e.size <= m, Raises(e), local = MaxMtu PROVE Back(Append(s, e), Settled(local), m, local)
  <2>1. \A i \in 1..Len(s) + 1 : Append(s, e)[i].size <= Settled(local)
                                  /\ (Append(s, e)[i].op = "mtu" => Append(s, e)[i].of.length = GuestMtu)
    BY <1>1, <1>2, <1>3, <1>8 DEF Back
  <2>2. FitsPeer(Append(s, e), m)
    BY <1>1, <1>2, <1>6, <1>8 DEF FitsPeer
  <2>3. Len(s) + 1 \in 1..Len(s) + 1
    BY <1>1
  <2> QED
    BY <1>1, <1>8, <2>1, <2>2, <2>3 DEF Back
<1> QED
  BY <1>7, <1>8

LEMMA BackTail ==
  ASSUME NEW s \in Seq(Replies), s # <<>>, NEW g \in Nat, NEW m \in Nat, NEW local \in {DefaultMtu, MaxMtu},
         g <= Settled(local), m <= Settled(local), Back(s, g, m, local)
  PROVE  /\ s[1].size <= m
         /\ s[1].op = "mtu" => s[1].of.length = GuestMtu
         /\ Raises(s[1]) => local = MaxMtu /\ g = Settled(local)
         /\ ~Raises(s[1]) => Back(Tail(s), g, m, local)
         /\ Back(Tail(s), g, Settled(local), local)
<1>1. /\ Len(s) \in Nat /\ Len(s) >= 1 /\ DOMAIN s = 1..Len(s) /\ 1 \in DOMAIN s /\ DOMAIN Tail(s) = 1..Len(s) - 1
      /\ \A i \in 1..Len(s) - 1 : Tail(s)[i] = s[i + 1]
  BY TailIs
<1>2. \A j \in 1..Len(s) - 1 : j + 1 \in DOMAIN s
  BY <1>1
<1>3. Settled(local) \in Nat
  BY AttFacts
<1>4. ~ \E j \in 1..1 - 1 : TRUE
  OBVIOUS
<1>5. s[1].size <= m
  BY <1>1, <1>4 DEF Back, FitsPeer
<1>6. \A i \in DOMAIN Tail(s) : /\ Tail(s)[i].size <= Settled(local) /\ (Tail(s)[i].op = "mtu" => Tail(s)[i].of.length = GuestMtu)
                                 /\ (Raises(Tail(s)[i]) => local = MaxMtu /\ g = Settled(local))
  BY <1>1, <1>2 DEF Back
<1>7. ASSUME ~Raises(s[1]) PROVE Back(Tail(s), g, m, local)
  <2>1. \A i \in 1..Len(s) - 1 : \A j \in 1..(i + 1) - 1 : j = 1 \/ (j - 1 \in 1..i - 1 /\ j - 1 \in 1..Len(s) - 1 /\ (j - 1) + 1 = j)
    BY <1>1
  <2>2. ASSUME NEW i \in 1..Len(s) - 1 PROVE Tail(s)[i].size <= m \/ \E j \in 1..i - 1 : Raises(Tail(s)[j])
    <3>1. s[i + 1].size <= m \/ \E j \in 1..(i + 1) - 1 : Raises(s[j])
      BY <1>2, <1>1 DEF Back, FitsPeer
    <3>2. CASE s[i + 1].size <= m
      BY <1>1, <3>2
    <3>3. ASSUME NEW j \in 1..(i + 1) - 1, Raises(s[j]) PROVE \E k \in 1..i - 1 : Raises(Tail(s)[k])
      <4>1. j - 1 \in 1..i - 1 /\ j - 1 \in 1..Len(s) - 1 /\ (j - 1) + 1 = j
        BY <1>7, <2>1, <3>3
      <4> QED
        BY <1>1, <3>3, <4>1
    <3> QED
      BY <3>1, <3>2, <3>3
  <2>3. g <= m \/ \E j \in DOMAIN Tail(s) : Raises(Tail(s)[j])
    <3>1. \A j \in 1..Len(s) : j = 1 \/ (j - 1 \in 1..Len(s) - 1 /\ (j - 1) + 1 = j)
      BY <1>1
    <3>2. g <= m \/ \E j \in DOMAIN s : Raises(s[j])
      BY DEF Back
    <3>3. ASSUME NEW j \in DOMAIN s, Raises(s[j]) PROVE \E k \in DOMAIN Tail(s) : Raises(Tail(s)[k])
      <4>1. j - 1 \in DOMAIN Tail(s) /\ (j - 1) + 1 = j
        BY <1>1, <1>7, <3>1, <3>3
      <4> QED
        BY <1>1, <3>3, <4>1
    <3> QED
      BY <3>2, <3>3
  <2> QED
    BY <1>1, <1>6, <2>2, <2>3 DEF Back, FitsPeer
<1>8. Back(Tail(s), g, Settled(local), local)
  BY <1>6 DEF Back, FitsPeer
<1>9. (s[1].op = "mtu" => s[1].of.length = GuestMtu) /\ (Raises(s[1]) => local = MaxMtu /\ g = Settled(local))
  BY <1>1 DEF Back
<1> QED
  BY <1>5, <1>7, <1>8, <1>9

LEMMA BackSettled ==
  ASSUME NEW s, NEW g, NEW local, Back(s, g, Settled(local), local), Settled(local) \in Nat
  PROVE  Back(s, Settled(local), Settled(local), local)
BY DEF Back, FitsPeer

-----------------------------------------------------------------------------
(* The client's queue.                                                     *)

LEMMA AttNow ==
  ASSUME AttInv
  PROVE  /\ server \in Servers /\ server.mtu \in Nat /\ server.prepared \in Seq(Pdus) /\ mtu \in Nat /\ localMtu \in {DefaultMtu, MaxMtu}
         /\ Settled(localMtu) \in Nat /\ Settled(localMtu) <= Settled(MaxMtu) /\ server.mtu <= Settled(localMtu) /\ mtu <= Settled(localMtu)
         /\ DefaultMtu <= mtu /\ DefaultMtu <= server.mtu /\ DefaultMtu \in Nat /\ DefaultMtu > 5
  BY AttFacts DEF AttInv, AttTypes, Servers, MtuInv, Mtus

LEMMA Sent ==
  ASSUME toGuest \in Seq(Pdus), NEW q \in Seq(Requests), NEW s, NEW tp, NEW sec \in BOOLEAN, NEW enc,
         NEW g \in Nat, NEW m \in Nat, NEW local \in {DefaultMtu, MaxMtu}, NEW ex, g <= Settled(local), m <= Settled(local),
         Att!SendNext(q, FALSE, sec), NoneAsked(toGuest), NoneTold(tp), IF q = <<>> THEN s = <<>> ELSE Before(q[1], s),
         \A k \in DOMAIN q : Shaped(q[k]), Sized(q, m, local), Towards(toGuest, g, m, local, ex)
  PROVE  /\ requests' = q /\ busy' \in BOOLEAN /\ toGuest' \in Seq(Pdus)
         /\ Transaction(q, busy', sec, enc, toGuest', tp, s) /\ Towards(toGuest', g, m, local, ex)
<1>1. CASE sec \/ q = <<>>
  <2>1. requests' = q /\ busy' = FALSE /\ toGuest' = toGuest
    BY <1>1 DEF Att!SendNext
  <2>2. Waiting(q, sec, s)
    BY <1>1 DEF Waiting
  <2> QED
    BY <2>1, <2>2 DEF Transaction
<1>2. CASE ~sec /\ q # <<>>
  <2>1. requests' = q /\ busy' = TRUE /\ toGuest' = Append(toGuest, Head(q).packet)
    BY <1>2 DEF Att!SendNext
  <2>2. 1 \in DOMAIN q /\ q[1] \in Requests /\ Head(q) = q[1]
    BY <1>2, TailIs
  <2>3. q[1].packet \in Pdus /\ q[1].long \in BOOLEAN
    BY <2>2 DEF Requests
  <2>4. q[1].packet.op # "answered" /\ q[1].packet.size <= m
    BY <2>2, <2>3 DEF Shaped, Sized
  <2>5. toGuest' \in Seq(Pdus)
    BY <2>1, <2>2, <2>3, AppendIs
  <2>6. AskedOf(toGuest', q[1].packet)
    BY <2>1, <2>2, <2>3, <2>4, AskedAppend
  <2>7. Towards(toGuest', g, m, local, ex)
    BY <2>1, <2>2, <2>3, <2>4, TowardsAppend
  <2>8. AtGuest(q[1], toGuest', tp, s)
    BY <1>2, <2>6 DEF AtGuest
  <2> QED
    BY <1>2, <2>1, <2>5, <2>7, <2>8 DEF Transaction
<1> QED
  BY <1>1, <1>2

LEMMA Asked ==
  ASSUME AttInv, toGuest # <<>>, Head(toGuest).op # "answered"
  PROVE  /\ busy /\ ~securing /\ requests # <<>> /\ requests[1] \in Requests /\ 1 \in DOMAIN requests
         /\ Head(toGuest) \in Pdus /\ Head(toGuest) = toGuest[1] /\ toGuest[1] = requests[1].packet
         /\ Shaped(requests[1]) /\ made[requests[1].id] = requests[1].value /\ requests[1].packet.size <= mtu
         /\ (requests[1].packet.op = "mtu" => localMtu = MaxMtu)
         /\ Before(requests[1], server.prepared) /\ NoneAsked(Tail(toGuest)) /\ NoneTold(toPeer)
<1>1. requests \in Seq(Requests) /\ toGuest \in Seq(Pdus) /\ busy \in BOOLEAN
  BY DEF AttInv, AttTypes
<1>2. Head(toGuest) = toGuest[1] /\ toGuest[1] \in Pdus /\ 1 \in DOMAIN toGuest
  BY <1>1, TailIs
<1>3. ~NoneAsked(toGuest)
  BY <1>2 DEF NoneAsked
<1>4. busy /\ ~securing /\ requests # <<>> /\ AtGuest(requests[1], toGuest, toPeer, server.prepared)
  BY <1>1, <1>3 DEF AttInv, TransactionInv, Transaction, AtPeer
<1>5. toGuest[1] = requests[1].packet /\ NoneAsked(Tail(toGuest))
  BY <1>1, <1>2, <1>4, AskedTail DEF AtGuest
<1>6. requests[1] \in Requests /\ 1 \in DOMAIN requests
  BY <1>1, <1>4, TailIs
<1>7. Shaped(requests[1]) /\ made[requests[1].id] = requests[1].value
  BY <1>6 DEF AttInv, QueueInv, Queue
<1>8. requests[1].packet.size <= mtu /\ (requests[1].packet.op = "mtu" => localMtu = MaxMtu)
  BY <1>6 DEF AttInv, MtuInv, Sized
<1> QED
  BY <1>2, <1>4, <1>5, <1>6, <1>7, <1>8 DEF AtGuest

LEMMA Told ==
  ASSUME AttInv, toPeer # <<>>, Head(toPeer).op \in Answers
  PROVE  /\ busy /\ ~securing /\ requests # <<>> /\ requests[1] \in Requests /\ 1 \in DOMAIN requests
         /\ Head(toPeer) \in Replies /\ Head(toPeer) = toPeer[1] /\ toPeer[1].of = requests[1].packet
         /\ Shaped(requests[1]) /\ made[requests[1].id] = requests[1].value
         /\ After(requests[1], toPeer[1].op, server.prepared) /\ NoneAsked(toGuest) /\ NoneTold(Tail(toPeer))
<1>1. requests \in Seq(Requests) /\ toPeer \in Seq(Replies) /\ busy \in BOOLEAN
  BY DEF AttInv, AttTypes
<1>2. Head(toPeer) = toPeer[1] /\ toPeer[1] \in Replies /\ 1 \in DOMAIN toPeer
  BY <1>1, TailIs
<1>3. ~NoneTold(toPeer)
  BY <1>2 DEF NoneTold
<1>4. busy /\ ~securing /\ requests # <<>> /\ AtPeer(requests[1], toGuest, toPeer, server.prepared, encrypted)
  BY <1>1, <1>3 DEF AttInv, TransactionInv, Transaction, AtGuest
<1>5. PICK i \in DOMAIN toPeer : ToldOf(toPeer, toPeer[i]) /\ toPeer[i].of = requests[1].packet /\ After(requests[1], toPeer[i].op, server.prepared)
  BY <1>4 DEF AtPeer
<1>6. toPeer[1] = toPeer[i] /\ NoneTold(Tail(toPeer))
  BY <1>1, <1>2, <1>5, ToldTail
<1>7. requests[1] \in Requests /\ 1 \in DOMAIN requests
  BY <1>1, <1>4, TailIs
<1>8. Shaped(requests[1]) /\ made[requests[1].id] = requests[1].value
  BY <1>7 DEF AttInv, QueueInv, Queue
<1> QED
  BY <1>2, <1>4, <1>5, <1>6, <1>7, <1>8 DEF AtPeer

LEMMA NoSecurity ==
  ASSUME AttInv, toPeer # <<>>, Head(toPeer).op = "insecure"
  PROVE  ~encrypted
<1>1. requests \in Seq(Requests) /\ toPeer \in Seq(Replies) /\ busy \in BOOLEAN /\ Head(toPeer).op \in Answers
  BY DEF AttInv, AttTypes, Answers
<1>2. Head(toPeer) = toPeer[1] /\ 1 \in DOMAIN toPeer
  BY <1>1, TailIs
<1>3. ~NoneTold(toPeer)
  BY <1>1, <1>2 DEF NoneTold
<1>4. AtPeer(requests[1], toGuest, toPeer, server.prepared, encrypted)
  BY <1>1, <1>3 DEF AttInv, TransactionInv, Transaction, AtGuest
<1>5. PICK i \in DOMAIN toPeer : ToldOf(toPeer, toPeer[i]) /\ (toPeer[i].op = "insecure" => ~encrypted)
  BY <1>4 DEF AtPeer
<1>6. toPeer[1] = toPeer[i]
  BY <1>1, <1>2, <1>5, ToldTail
<1> QED
  BY <1>2, <1>5, <1>6

-----------------------------------------------------------------------------
(* The guest's server.                                                     *)

LEMMA CoversAppend ==
  ASSUME NEW s \in Seq(Pdus), NEW p \in Pdus, NEW id, p.id = id, Covers(s, id, p.offset)
  PROVE  Covers(Append(s, p), id, p.offset + p.length)
<1>1. /\ Len(s) \in Nat /\ DOMAIN s = 1..Len(s) /\ DOMAIN Append(s, p) = 1..Len(s) + 1 /\ Len(Append(s, p)) = Len(s) + 1
      /\ \A i \in 1..Len(s) : Append(s, p)[i] = s[i]
      /\ Append(s, p)[Len(s) + 1] = p /\ Append(s, p) # <<>>
  BY AppendIs
<1>2. \A i \in 1..Len(s) + 1 : i \in 1..Len(s) \/ i = Len(s) + 1
  BY <1>1
<1>3. OfOne(Append(s, p), id)
  BY <1>1, <1>2 DEF Covers, OfOne
<1>4. p.offset = IF Len(s) + 1 = 1 THEN 0 ELSE s[Len(s)].offset + s[Len(s)].length
  BY <1>1 DEF Covers, End
<1>5. \A i \in 1..Len(s) : i # 1 => i - 1 \in 1..Len(s)
  BY <1>1
<1>6. (Len(s) + 1) - 1 = Len(s) /\ (Len(s) + 1 # 1 => Len(s) \in 1..Len(s))
  BY <1>1
<1>7. \A i \in 1..Len(s) : Append(s, p)[i].offset = IF i = 1 THEN 0 ELSE Append(s, p)[i - 1].offset + Append(s, p)[i - 1].length
  BY <1>1, <1>5 DEF Covers, Joined
<1>8. Append(s, p)[Len(s) + 1].offset
      = IF Len(s) + 1 = 1 THEN 0 ELSE Append(s, p)[(Len(s) + 1) - 1].offset + Append(s, p)[(Len(s) + 1) - 1].length
  BY <1>1, <1>4, <1>6
<1>9. Joined(Append(s, p))
  BY <1>1, <1>2, <1>7, <1>8 DEF Joined
<1> QED
  BY <1>1, <1>3, <1>9 DEF Covers, End

LEMMA CoversNone == ASSUME NEW id PROVE Covers(<<>>, id, 0)
BY DEF Covers, OfOne, Joined, End

LEMMA CoversOne == ASSUME NEW p \in Pdus, p.offset = 0 PROVE <<p>> \in Seq(Pdus) /\ Covers(<<p>>, p.id, p.length)
<1>1. <<p>> \in Seq(Pdus) /\ <<p>> = Append(<<>>, p) /\ <<>> \in Seq(Pdus)
  OBVIOUS
<1>2. Covers(<<>>, p.id, p.offset)
  BY CoversNone
<1>3. Covers(<<p>>, p.id, p.offset + p.length)
  BY <1>1, <1>2, CoversAppend
<1> QED
  BY <1>1, <1>3 DEF Pdus

LEMMA Served ==
  ASSUME AttInv, NEW g \in Servers, NEW reply \in Replies, NEW value \in Seq(Pdus), Att!Serve(g, reply, value),
         Head(toGuest).op # "answered", reply.op \in Answers, reply.of = Head(toGuest),
         After(requests[1], reply.op, g.prepared), reply.op = "insecure" => ~encrypted, WholeValue(value, made),
         \/ g.mtu = server.mtu /\ ~Raises(reply) /\ reply.size <= server.mtu
         \/ g.mtu = Settled(localMtu) /\ Raises(reply) /\ reply.size <= DefaultMtu /\ localMtu = MaxMtu
  PROVE  AttInv'
<1>1. /\ toGuest # <<>> /\ toGuest' = Tail(toGuest) /\ server' = g /\ toPeer' = Append(toPeer, reply) /\ stored' = value
      /\ UNCHANGED <<connected, requests, busy, securing, encrypted, mtu, localMtu, exchanged, made, done>>
  BY DEF Att!Serve, Att!GuestReceives, Att!link
<1>2. /\ busy /\ ~securing /\ requests # <<>> /\ toGuest[1] = requests[1].packet /\ Head(toGuest) = toGuest[1]
      /\ NoneAsked(Tail(toGuest)) /\ NoneTold(toPeer)
  BY <1>1, Asked
<1>3. toGuest \in Seq(Pdus) /\ toPeer \in Seq(Replies)
  BY DEF AttInv, AttTypes
<1>4. Tail(toGuest) \in Seq(Pdus) /\ Append(toPeer, reply) \in Seq(Replies)
  BY <1>1, <1>3, TailIs, AppendIs
<1>5. AttTypes'
  BY <1>1, <1>4 DEF AttInv, AttTypes
<1>6. QueueInv'
  BY <1>1 DEF AttInv, QueueInv, Queue, Owed
<1>7. StoredInv'
  BY <1>1 DEF StoredInv
<1>8. TransactionInv'
  <2>1. ToldOf(toPeer', reply)
    BY <1>1, <1>2, <1>3, ToldAppend
  <2>2. PICK i \in DOMAIN toPeer' : toPeer'[i] = reply
    BY <2>1 DEF ToldOf
  <2>3. AtPeer(requests[1], toGuest', toPeer', g.prepared, encrypted)
    BY <1>1, <1>2, <2>1, <2>2 DEF AtPeer
  <2> QED
    BY <1>1, <1>2, <2>3 DEF TransactionInv, Transaction
<1>9. MtuInv'
  <2>1. Towards(toGuest, server.mtu, mtu, localMtu, exchanged) /\ Back(toPeer, server.mtu, mtu, localMtu)
        /\ Mtus(server.mtu, mtu, localMtu, exchanged) /\ Sized(requests, mtu, localMtu)
    BY DEF AttInv, MtuInv
  <2>2. reply.op # "mtu" /\ reply.size \in Nat
    BY DEF Answers, Replies
  <2>3. Sized(requests', mtu', localMtu')
    BY <1>1, <2>1 DEF Sized
  <2>4. CASE g.mtu = server.mtu /\ ~Raises(reply) /\ reply.size <= server.mtu
    <3>1. Towards(Tail(toGuest), server.mtu, mtu, localMtu, exchanged)
      BY <1>1, <1>2, <1>3, <2>1, AttNow, TowardsTail
    <3>2. Back(Append(toPeer, reply), server.mtu, mtu, localMtu)
      BY <1>3, <2>1, <2>2, <2>4, AttNow, BackAppend
    <3> QED
      BY <1>1, <2>1, <2>3, <2>4, <3>1, <3>2 DEF MtuInv
  <2>5. CASE g.mtu = Settled(localMtu) /\ Raises(reply) /\ reply.size <= DefaultMtu /\ localMtu = MaxMtu
    <3>1. Towards(Tail(toGuest), Settled(localMtu), mtu, localMtu, exchanged)
      BY <1>1, <1>2, <1>3, <2>1, AttNow, TowardsTail
    <3>2. reply.size <= mtu
      BY <2>2, <2>5, AttNow
    <3>3. Back(Append(toPeer, reply), Settled(localMtu), mtu, localMtu)
      BY <1>3, <2>1, <2>2, <2>5, <3>2, AttNow, BackAppend
    <3>4. DefaultMtu <= Settled(localMtu) /\ Settled(localMtu) <= Settled(localMtu)
      BY AttNow
    <3>5. Mtus(Settled(localMtu), mtu, localMtu, exchanged)
      BY <2>1, <3>4 DEF Mtus
    <3> QED
      BY <1>1, <2>3, <2>5, <3>1, <3>3, <3>5 DEF MtuInv
  <2> QED
    BY <2>4, <2>5
<1> QED
  BY <1>5, <1>6, <1>7, <1>8, <1>9 DEF AttInv

LEMMA ReplyIs ==
  ASSUME NEW op \in {"answer", "garbled", "error", "insecure", "mtu", "value"}, NEW p \in Pdus, NEW n \in Nat
  PROVE  Att!Reply(op, p, n) \in Replies /\ Att!Reply(op, p, n).op = op /\ Att!Reply(op, p, n).of = p /\ Att!Reply(op, p, n).size = n
  BY DEF Att!Reply, Replies

LEMMA ServesStep == ASSUME AttInv, Att!GuestServes PROVE AttInv'
<1> DEFINE p == Head(toGuest)  r == requests[1]
<1>1. toGuest # <<>> /\ p.op # "answered"
  BY DEF Att!GuestServes, Att!GuestReceives
<1>2. /\ r \in Requests /\ p \in Pdus /\ p = r.packet /\ p = toGuest[1] /\ Shaped(r) /\ made[r.id] = r.value
      /\ Before(r, server.prepared) /\ (p.op = "mtu" => localMtu = MaxMtu)
  BY <1>1, Asked
<1>3. r.id \in RequestIds /\ r.value \in Nat /\ r.long \in BOOLEAN /\ r.packet.id = r.id /\ p.size \in Nat
  BY <1>2 DEF Requests, Shaped, Pdus
<1>4. p.size <= server.mtu
  <2>1. toGuest \in Seq(Pdus) /\ Towards(toGuest, server.mtu, mtu, localMtu, exchanged)
    BY DEF AttInv, AttTypes, MtuInv
  <2> QED
    BY <1>1, <1>2, <2>1, AttNow, TowardsTail
<1>5. stored \in Seq(Pdus) /\ WholeValue(stored, made)
  BY DEF AttInv, AttTypes, StoredInv
<1>6. \A n \in Nat : /\ Att!Reply("answer", p, n) \in Replies /\ Att!Reply("answer", p, n).op = "answer"
                      /\ Att!Reply("answer", p, n).of = p /\ Att!Reply("answer", p, n).size = n
  <2>1. "answer" \in {"answer", "garbled", "error", "insecure", "mtu", "value"}
    OBVIOUS
  <2>2. p \in Pdus
    BY <1>2
  <2> HIDE DEF p
  <2> SUFFICES ASSUME NEW n \in Nat
               PROVE  /\ Att!Reply("answer", p, n) \in Replies /\ Att!Reply("answer", p, n).op = "answer"
                      /\ Att!Reply("answer", p, n).of = p /\ Att!Reply("answer", p, n).size = n
    OBVIOUS
  <2> QED
    BY ONLY <2>1, <2>2, n \in Nat, ReplyIs
<1>7. "answer" \in Answers /\ 1 \in Nat /\ 3 \in Nat /\ server.mtu \in Nat /\ 1 <= server.mtu /\ 3 <= DefaultMtu
  BY AttNow DEF Answers
<1>8. p.op \in {"read", "write", "mtu"} => ~r.long /\ server.prepared = <<>>
  BY <1>2, <1>3 DEF Shaped, Before
<1>9. server \in Servers /\ server.prepared \in Seq(Pdus) /\ <<>> \in Seq(Pdus)
  BY AttNow
<1> HIDE DEF p, r
<1>10. ASSUME p.op = "read", Att!Serve(server, Att!Reply("answer", p, server.mtu), stored) PROVE AttInv'
  <2>1. After(r, "answer", server.prepared)
    BY <1>2, <1>8, <1>10 DEF After
  <2>2. ~Raises(Att!Reply("answer", p, server.mtu)) /\ server.mtu <= server.mtu
    BY <1>6, <1>7, <1>10 DEF Raises
  <2> QED
    BY <1>1, <1>5, <1>6, <1>7, <1>9, <1>10, <2>1, <2>2, Served DEF p, r
<1>11. ASSUME p.op = "write", Att!Serve(server, Att!Reply("answer", p, 1), <<p>>) PROVE AttInv'
  <2>1. After(r, "answer", server.prepared)
    BY <1>2, <1>8, <1>11 DEF After
  <2>2. ~Raises(Att!Reply("answer", p, 1))
    BY <1>6, <1>7, <1>11 DEF Raises
  <2>3. p.offset = 0 /\ p.length = r.value
    BY <1>2, <1>8, <1>11 DEF Shaped
  <2>4. <<p>> \in Seq(Pdus) /\ Covers(<<p>>, p.id, p.length)
    BY <1>2, <2>3, CoversOne
  <2>5. WholeValue(<<p>>, made)
    BY <1>2, <1>3, <2>3, <2>4 DEF WholeValue
  <2> QED
    BY <1>1, <1>6, <1>7, <1>9, <1>11, <2>1, <2>2, <2>4, <2>5, Served DEF p, r
<1>12. ASSUME p.op = "prepare", Att!Serve([server EXCEPT !.prepared = Append(@, p)], Att!Reply("answer", p, p.size), stored) PROVE AttInv'
  <2> DEFINE g == [server EXCEPT !.prepared = Append(@, p)]
  <2>1. Append(server.prepared, p) \in Seq(Pdus)
    BY <1>2, <1>9
  <2>2. g \in Servers /\ g.prepared = Append(server.prepared, p) /\ g.mtu = server.mtu
    BY <1>9, <2>1 DEF Servers
  <2>3. Covers(Append(server.prepared, p), r.id, p.offset + p.length)
    BY <1>2, <1>3, <1>9, <1>12, CoversAppend DEF Before
  <2>4. After(r, "answer", Append(server.prepared, p))
    BY <1>2, <1>12, <2>3 DEF After
  <2>5. ~Raises(Att!Reply("answer", p, p.size))
    BY <1>3, <1>6, <1>7, <1>12 DEF Raises
  <2> HIDE DEF g
  <2>6. Att!Serve(g, Att!Reply("answer", p, p.size), stored)
    BY <1>12 DEF g
  <2> QED
    BY <1>1, <1>3, <1>4, <1>5, <1>6, <1>7, <1>12, <2>2, <2>4, <2>5, <2>6, Served DEF p, r
<1>13. ASSUME p.op = "execute", Att!Serve([server EXCEPT !.prepared = <<>>], Att!Reply("answer", p, 1), server.prepared) PROVE AttInv'
  <2> DEFINE g == [server EXCEPT !.prepared = <<>>]
  <2>1. g \in Servers /\ g.prepared = <<>> /\ g.mtu = server.mtu
    BY <1>9 DEF Servers
  <2>2. After(r, "answer", <<>>)
    BY <1>2, <1>13 DEF After
  <2>3. ~Raises(Att!Reply("answer", p, 1))
    BY <1>6, <1>7, <1>13 DEF Raises
  <2>4. Covers(server.prepared, r.id, r.value)
    BY <1>2, <1>13 DEF Before
  <2>5. WholeValue(server.prepared, made)
    <3>1. server.prepared # <<>> => 1 \in DOMAIN server.prepared
      BY <1>9, TailIs
    <3>2. server.prepared # <<>> => server.prepared[1].id = r.id
      BY <2>4, <3>1 DEF Covers, OfOne
    <3> QED
      BY <1>2, <1>3, <2>4, <3>2 DEF WholeValue
  <2> HIDE DEF g
  <2>6. Att!Serve(g, Att!Reply("answer", p, 1), server.prepared)
    BY <1>13 DEF g
  <2> QED
    BY <1>1, <1>6, <1>7, <1>9, <1>13, <2>1, <2>2, <2>3, <2>5, <2>6, Served DEF p, r
<1>14. ASSUME p.op = "cancel", Att!Serve([server EXCEPT !.prepared = <<>>], Att!Reply("answer", p, 1), stored) PROVE AttInv'
  <2> DEFINE g == [server EXCEPT !.prepared = <<>>]
  <2>1. g \in Servers /\ g.prepared = <<>> /\ g.mtu = server.mtu
    BY <1>9 DEF Servers
  <2>2. After(r, "answer", <<>>)
    BY <1>2, <1>14 DEF After
  <2>3. ~Raises(Att!Reply("answer", p, 1))
    BY <1>6, <1>7, <1>14 DEF Raises
  <2> HIDE DEF g
  <2>4. Att!Serve(g, Att!Reply("answer", p, 1), stored)
    BY <1>14 DEF g
  <2> QED
    BY <1>1, <1>5, <1>6, <1>7, <1>14, <2>1, <2>2, <2>3, <2>4, Served DEF p, r
<1>15. ASSUME p.op = "mtu", Att!Serve([server EXCEPT !.mtu = Att!Min(GuestMtu, MaxMtu)], Att!Reply("answer", p, 3), stored) PROVE AttInv'
  <2> DEFINE g == [server EXCEPT !.mtu = Att!Min(GuestMtu, MaxMtu)]
  <2>1. localMtu = MaxMtu /\ Att!Min(GuestMtu, MaxMtu) = Settled(localMtu)
    BY <1>2, <1>15, AttFacts DEF Settled, Att!Min
  <2>2. Settled(localMtu) \in Nat
    BY AttNow
  <2>3. g \in Servers /\ g.prepared = server.prepared /\ g.mtu = Settled(localMtu)
    BY <1>9, <2>1, <2>2 DEF Servers
  <2>4. After(r, "answer", server.prepared)
    BY <1>2, <1>8, <1>15 DEF After
  <2>5. Raises(Att!Reply("answer", p, 3))
    BY <1>6, <1>7, <1>15 DEF Raises
  <2> HIDE DEF g
  <2>6. Att!Serve(g, Att!Reply("answer", p, 3), stored)
    BY <1>15 DEF g
  <2> QED
    BY <1>1, <1>5, <1>6, <1>7, <1>15, <2>1, <2>3, <2>4, <2>5, <2>6, Served DEF p, r
<1> QED
  BY <1>10, <1>11, <1>12, <1>13, <1>14, <1>15 DEF Att!GuestServes, p

LEMMA InFront ==
  ASSUME AttInv, toGuest # <<>>, Head(toGuest).op # "answered", NEW p, p = Head(toGuest), NEW r, r = requests[1]
  PROVE  /\ p \in Pdus /\ p = r.packet /\ p.size \in Nat /\ p.size <= server.mtu
         /\ r.id \in RequestIds /\ r.long \in BOOLEAN /\ r.packet.id = r.id /\ Shaped(r) /\ Before(r, server.prepared)
         /\ stored \in Seq(Pdus) /\ WholeValue(stored, made) /\ 5 \in Nat /\ 5 <= server.mtu
<1>1. /\ r \in Requests /\ p \in Pdus /\ p = r.packet /\ p = toGuest[1] /\ Shaped(r) /\ Before(r, server.prepared)
  BY Asked
<1>2. r.id \in RequestIds /\ r.long \in BOOLEAN /\ r.packet.id = r.id /\ p.size \in Nat
  BY <1>1 DEF Requests, Shaped, Pdus
<1>3. toGuest \in Seq(Pdus) /\ Towards(toGuest, server.mtu, mtu, localMtu, exchanged)
  BY DEF AttInv, AttTypes, MtuInv
<1>4. p.size <= server.mtu
  BY <1>1, <1>3, AttNow, TowardsTail
<1>5. stored \in Seq(Pdus) /\ WholeValue(stored, made)
  BY DEF AttInv, AttTypes, StoredInv
<1>6. 5 \in Nat /\ 5 <= server.mtu
  BY AttNow
<1> QED
  BY <1>1, <1>2, <1>4, <1>5, <1>6

LEMMA GarblesStep == ASSUME AttInv, Att!GuestGarbles PROVE AttInv'
<1> DEFINE p == Head(toGuest)  r == requests[1]  e == Att!Reply("garbled", p, p.size)
           g == [server EXCEPT !.prepared = Append(@, p)]
<1>1. toGuest # <<>> /\ p.op = "prepare" /\ p.op # "answered" /\ Att!Serve(g, e, stored)
  BY DEF Att!GuestGarbles, Att!GuestReceives
<1>2. /\ p \in Pdus /\ p = r.packet /\ p.size \in Nat /\ p.size <= server.mtu /\ r.packet.id = r.id /\ Before(r, server.prepared)
      /\ stored \in Seq(Pdus) /\ WholeValue(stored, made)
  BY <1>1, InFront
<1>3. e \in Replies /\ e.op = "garbled" /\ e.of = p /\ e.size = p.size
  BY <1>2, ReplyIs
<1>4. server \in Servers /\ server.prepared \in Seq(Pdus)
  BY AttNow
<1>5. Append(server.prepared, p) \in Seq(Pdus)
  BY <1>2, <1>4
<1>6. g \in Servers /\ g.prepared = Append(server.prepared, p) /\ g.mtu = server.mtu
  BY <1>4, <1>5 DEF Servers
<1> HIDE DEF e, g
<1>7. Covers(Append(server.prepared, p), r.id, p.offset + p.length)
  BY <1>1, <1>2, <1>4, CoversAppend DEF Before
<1>8. After(r, "garbled", Append(server.prepared, p))
  BY <1>1, <1>2, <1>7 DEF After
<1>9. "garbled" \in Answers /\ ~Raises(e) /\ e.op # "insecure"
  BY <1>3 DEF Answers, Raises
<1> QED
  BY <1>1, <1>2, <1>3, <1>6, <1>8, <1>9, Served

LEMMA RefusesStep == ASSUME AttInv, Att!GuestRefuses PROVE AttInv'
<1> DEFINE p == Head(toGuest)  r == requests[1]  e == Att!Reply("error", p, 5)
           g == IF p.op = "execute" THEN [server EXCEPT !.prepared = <<>>] ELSE server
<1>1. toGuest # <<>> /\ p.op # "cancel" /\ p.op # "answered" /\ Att!Serve(g, e, stored)
  BY DEF Att!GuestRefuses, Att!GuestReceives
<1>2. /\ p \in Pdus /\ p = r.packet /\ r.long \in BOOLEAN /\ Shaped(r) /\ Before(r, server.prepared)
      /\ stored \in Seq(Pdus) /\ WholeValue(stored, made) /\ 5 \in Nat /\ 5 <= server.mtu
  BY <1>1, InFront
<1>3. e \in Replies /\ e.op = "error" /\ e.of = p /\ e.size = 5
  BY <1>2, ReplyIs
<1>4. server \in Servers /\ server.prepared \in Seq(Pdus) /\ <<>> \in Seq(Pdus)
  BY AttNow
<1>5. g \in Servers /\ g.mtu = server.mtu /\ g.prepared = IF p.op = "execute" THEN <<>> ELSE server.prepared
  <2> DEFINE s == [server EXCEPT !.prepared = <<>>]
  <2>1. s \in Servers /\ s.prepared = <<>> /\ s.mtu = server.mtu
    BY <1>4 DEF Servers
  <2>2. g = IF p.op = "execute" THEN s ELSE server
    OBVIOUS
  <2> HIDE DEF s, g
  <2> QED
    BY <1>4, <2>1, <2>2
<1> HIDE DEF e, g
<1>6. After(r, "error", g.prepared)
  <2>1. CASE p.op = "execute"
    BY <1>2, <1>5, <2>1 DEF After
  <2>2. CASE p.op = "prepare"
    <3>1. Covers(server.prepared, r.id, p.offset) /\ p.offset \in Nat /\ p.offset + 0 = p.offset
      BY <1>2, <2>2 DEF Before, Pdus
    <3>2. g.prepared = server.prepared
      BY <1>5, <2>2
    <3>3. Covers(g.prepared, r.id, r.packet.offset + IF "error" = "error" THEN 0 ELSE r.packet.length)
      BY <1>2, <3>1, <3>2
    <3> QED
      BY <1>2, <2>2, <3>3 DEF After
  <2>3. CASE p.op # "execute" /\ p.op # "prepare"
    <3>1. server.prepared = <<>> /\ g.prepared = <<>>
      BY <1>1, <1>2, <1>5, <2>3 DEF Shaped, Before
    <3> QED
      BY <1>2, <2>3, <3>1 DEF After
  <2> QED
    BY <2>1, <2>2, <2>3
<1>7. "error" \in Answers /\ ~Raises(e) /\ e.op # "insecure"
  BY <1>3 DEF Answers, Raises
<1> QED
  BY <1>1, <1>2, <1>3, <1>5, <1>6, <1>7, Served

LEMMA DemandsStep == ASSUME AttInv, Att!GuestDemandsSecurity PROVE AttInv'
<1> DEFINE p == Head(toGuest)  r == requests[1]  e == Att!Reply("insecure", p, 5)
<1>1. toGuest # <<>> /\ p.op # "answered" /\ ~encrypted /\ Att!Serve(server, e, stored)
  BY DEF Att!GuestDemandsSecurity, Att!GuestReceives
<1>2. /\ p \in Pdus /\ p = r.packet /\ Before(r, server.prepared)
      /\ stored \in Seq(Pdus) /\ WholeValue(stored, made) /\ 5 \in Nat /\ 5 <= server.mtu
  BY <1>1, InFront
<1>3. e \in Replies /\ e.op = "insecure" /\ e.of = p /\ e.size = 5
  BY <1>2, ReplyIs
<1>4. server \in Servers
  BY AttNow
<1> HIDE DEF e
<1>5. After(r, "insecure", server.prepared)
  BY <1>2 DEF After
<1>6. "insecure" \in Answers /\ ~Raises(e)
  BY <1>3 DEF Answers, Raises
<1> QED
  BY <1>1, <1>2, <1>3, <1>4, <1>5, <1>6, Served

LEMMA AnsweredStep == ASSUME AttInv, Att!GuestAnswered PROVE AttInv'
<1> DEFINE p == Head(toGuest)  n == Settled(localMtu)
<1>1. /\ toGuest # <<>> /\ toGuest' = Tail(toGuest) /\ p.op = "answered" /\ server' = [server EXCEPT !.mtu = Att!Min(GuestMtu, p.length)]
      /\ UNCHANGED <<connected, requests, busy, securing, encrypted, mtu, localMtu, exchanged, toPeer, stored, made, done>>
  BY DEF Att!GuestAnswered, Att!GuestReceives, Att!link
<1>2. toGuest \in Seq(Pdus) /\ Towards(toGuest, server.mtu, mtu, localMtu, exchanged) /\ Back(toPeer, server.mtu, mtu, localMtu)
      /\ Mtus(server.mtu, mtu, localMtu, exchanged) /\ Sized(requests, mtu, localMtu)
  BY DEF AttInv, AttTypes, MtuInv
<1>3. p = toGuest[1] /\ p \in Pdus /\ Tail(toGuest) \in Seq(Pdus)
  BY <1>1, <1>2, TailIs
<1>4. exchanged /\ p.length = localMtu /\ Towards(Tail(toGuest), n, mtu, localMtu, exchanged)
  BY <1>1, <1>2, <1>3, AttNow, TowardsTail
<1>5. Att!Min(GuestMtu, p.length) = n /\ n \in Nat /\ DefaultMtu <= n /\ n <= n
  BY <1>4, AttNow, AttFacts DEF Settled, Att!Min
<1> HIDE DEF p, n
<1>6. server' \in Servers /\ server'.mtu = n /\ server'.prepared = server.prepared
  BY <1>1, <1>5, AttNow DEF Servers
<1>7. mtu = n
  BY <1>2, <1>4 DEF Mtus, n
<1>8. Back(toPeer, n, n, localMtu)
  <2>1. Back(toPeer, server.mtu, Settled(localMtu), localMtu)
    BY <1>2, <1>7 DEF n
  <2> QED
    BY <1>5, <2>1, BackSettled DEF n
<1>9. Mtus(n, mtu, localMtu, exchanged)
  BY <1>2, <1>5 DEF Mtus, n
<1>10. MtuInv'
  BY <1>1, <1>2, <1>4, <1>6, <1>7, <1>8, <1>9 DEF MtuInv, Sized
<1>11. TransactionInv'
  <2>1. NoneAsked(toGuest) => NoneAsked(Tail(toGuest))
    BY <1>1, <1>2, AskedTail
  <2>2. \A r : AtGuest(r, toGuest, toPeer, server.prepared) => AtGuest(r, Tail(toGuest), toPeer, server.prepared)
    BY <1>1, <1>2, <1>3, AskedTail DEF AtGuest, p
  <2> QED
    BY <1>1, <1>6, <2>1, <2>2 DEF AttInv, TransactionInv, Transaction, AtPeer
<1>12. QueueInv' /\ StoredInv'
  BY <1>1 DEF AttInv, QueueInv, Queue, Owed, StoredInv
<1>13. AttTypes'
  BY <1>1, <1>3, <1>6 DEF AttInv, AttTypes
<1> QED
  BY <1>10, <1>11, <1>12, <1>13 DEF AttInv

LEMMA BeyondAnswers ==
  ASSUME AttInv, NEW e \in Replies, e.op \notin Answers, toPeer' = Append(toPeer, e), server' \in Servers, server'.mtu = server.mtu,
         server'.prepared = server.prepared, e.op = "mtu" => e.of.length = GuestMtu, e.size <= server.mtu,
         UNCHANGED <<connected, requests, busy, securing, encrypted, mtu, localMtu, exchanged, toGuest, stored, made, done>>
  PROVE  AttInv'
<1>1. toPeer \in Seq(Replies) /\ Towards(toGuest, server.mtu, mtu, localMtu, exchanged) /\ Back(toPeer, server.mtu, mtu, localMtu)
      /\ Mtus(server.mtu, mtu, localMtu, exchanged) /\ Sized(requests, mtu, localMtu)
  BY DEF AttInv, AttTypes, MtuInv
<1>2. ~Raises(e)
  BY DEF Raises, Answers
<1>3. Back(Append(toPeer, e), server.mtu, mtu, localMtu)
  BY <1>1, <1>2, AttNow, BackAppend
<1>4. MtuInv'
  BY <1>1, <1>3 DEF MtuInv, Sized
<1>5. Append(toPeer, e) \in Seq(Replies)
  BY <1>1, AppendIs
<1>6. AttTypes'
  BY <1>5 DEF AttInv, AttTypes
<1>7. QueueInv' /\ StoredInv'
  BY DEF AttInv, QueueInv, Queue, Owed, StoredInv
<1>8. TransactionInv'
  <2>1. NoneTold(toPeer) => NoneTold(toPeer')
    BY <1>1, ToldAppend
  <2>2. ASSUME NEW r, AtPeer(r, toGuest, toPeer, server.prepared, encrypted)
        PROVE  AtPeer(r, toGuest, toPeer', server.prepared, encrypted)
    <3>1. PICK i \in DOMAIN toPeer : /\ ToldOf(toPeer, toPeer[i]) /\ toPeer[i].of = r.packet
                                     /\ After(r, toPeer[i].op, server.prepared) /\ (toPeer[i].op = "insecure" => ~encrypted)
      BY <2>2 DEF AtPeer
    <3>2. ToldOf(toPeer', toPeer[i])
      BY <1>1, <3>1, ToldAppend
    <3>3. PICK j \in DOMAIN toPeer' : toPeer'[j] = toPeer[i]
      BY <3>2 DEF ToldOf
    <3> QED
      BY <2>2, <3>1, <3>2, <3>3 DEF AtPeer
  <2>3. \A r : AtGuest(r, toGuest, toPeer, server.prepared) => AtGuest(r, toGuest, toPeer', server.prepared)
    BY <2>1 DEF AtGuest
  <2> QED
    BY <2>1, <2>2, <2>3 DEF AttInv, TransactionInv, Transaction
<1> QED
  BY <1>4, <1>6, <1>7, <1>8 DEF AttInv

LEMMA GuestExchangesStep == ASSUME AttInv, Att!GuestExchangesMtu PROVE AttInv'
<1> DEFINE e == Att!Reply("mtu", Att!Pdu("mtu", 0, 0, GuestMtu, 3), 3)
<1>1. /\ server' = [server EXCEPT !.asked = TRUE] /\ toPeer' = Append(toPeer, e)
      /\ UNCHANGED <<connected, requests, busy, securing, encrypted, mtu, localMtu, exchanged, toGuest, stored, made, done>>
  BY DEF Att!GuestExchangesMtu, Att!link
<1>2. Att!Pdu("mtu", 0, 0, GuestMtu, 3) \in Pdus /\ Att!Pdu("mtu", 0, 0, GuestMtu, 3).length = GuestMtu
  BY AttFacts DEF Att!Pdu, Pdus
<1>3. e \in Replies /\ e.op = "mtu" /\ e.of = Att!Pdu("mtu", 0, 0, GuestMtu, 3) /\ e.size = 3
  BY <1>2, ReplyIs
<1> HIDE DEF e
<1>4. server' \in Servers /\ server'.mtu = server.mtu /\ server'.prepared = server.prepared
  BY <1>1, AttNow DEF Servers
<1>5. e.size <= server.mtu
  BY <1>3, AttNow
<1>6. e.op \notin Answers
  BY <1>3 DEF Answers
<1> QED
  BY <1>1, <1>2, <1>3, <1>4, <1>5, <1>6, BeyondAnswers

LEMMA NotifiesStep == ASSUME AttInv, Att!GuestNotifies PROVE AttInv'
<1> DEFINE p == Att!Pdu("value", 0, 0, 0, server.mtu)  e == Att!Reply("value", p, server.mtu)
<1>1. /\ server' = server /\ toPeer' = Append(toPeer, e)
      /\ UNCHANGED <<connected, requests, busy, securing, encrypted, mtu, localMtu, exchanged, toGuest, stored, made, done>>
  BY DEF Att!GuestNotifies, Att!link
<1>2. p \in Pdus /\ server \in Servers /\ server.mtu \in Nat /\ server.mtu <= server.mtu
  BY AttNow DEF Att!Pdu, Pdus
<1> HIDE DEF p
<1>3. e \in Replies /\ e.op = "value" /\ e.size = server.mtu
  BY <1>2, ReplyIs
<1> HIDE DEF e
<1>4. e.op \notin Answers
  BY <1>3 DEF Answers
<1> QED
  BY <1>1, <1>2, <1>3, <1>4, BeyondAnswers

-----------------------------------------------------------------------------
(* Requests.                                                               *)

Results == {"ok", "error", "refused", "closed"}

LEMMA QueueAppend ==
  ASSUME NEW q \in Seq(Requests), NEW r \in Requests, NEW m \in [RequestIds -> {-1, 0} \cup ValueSizes], NEW d, Queue(q, m), Owed(q, m, d),
         m[r.id] = -1, Shaped(r), Unsent(r), Len(q) < MaxPendingRequests
  PROVE  LET n == [m EXCEPT ![r.id] = r.value] IN Queue(Append(q, r), n) /\ Owed(Append(q, r), n, d)
<1> DEFINE n == [m EXCEPT ![r.id] = r.value]
<1>1. /\ Len(q) \in Nat /\ DOMAIN q = 1..Len(q) /\ DOMAIN Append(q, r) = 1..Len(q) + 1 /\ Len(Append(q, r)) = Len(q) + 1
      /\ \A i \in 1..Len(q) : Append(q, r)[i] = q[i]
      /\ Append(q, r)[Len(q) + 1] = r
  BY AppendIs
<1>2. \A i \in 1..Len(q) + 1 : i \in 1..Len(q) \/ i = Len(q) + 1
  BY <1>1
<1>3. r.id \in RequestIds /\ r.value \in Nat /\ r.value # -1 /\ n[r.id] = r.value /\ \A i \in RequestIds : i # r.id => n[i] = m[i]
  BY DEF Requests
<1>4. \A k \in 1..Len(q) : q[k].id \in RequestIds /\ q[k].value # -1 /\ q[k].id # r.id
  <2>1. \A k \in 1..Len(q) : q[k] \in Requests
    BY <1>1
  <2>2. \A k \in 1..Len(q) : q[k].id \in RequestIds /\ q[k].value \in Nat
    BY <2>1 DEF Requests
  <2> QED
    BY <1>1, <2>2 DEF Queue
<1>5. \A k \in 1..Len(q) + 1 : LET x == Append(q, r)[k] IN Shaped(x) /\ n[x.id] = x.value /\ (k > 1 => Unsent(x))
  BY <1>1, <1>2, <1>3, <1>4 DEF Queue
<1>6. \A j, k \in 1..Len(q) + 1 : Append(q, r)[j].id = Append(q, r)[k].id => j = k
  BY <1>1, <1>2, <1>4 DEF Queue
<1>7. Len(q) + 1 <= MaxPendingRequests
  BY <1>1, AttFacts
<1>8. Queue(Append(q, r), n)
  BY <1>1, <1>5, <1>6, <1>7 DEF Queue
<1>9. \A i \in RequestIds : i # r.id => ((\E k \in DOMAIN Append(q, r) : Append(q, r)[k].id = i) <=> \E k \in DOMAIN q : q[k].id = i)
  <2>1. \A k \in 1..Len(q) : k \in 1..Len(q) + 1
    BY <1>1
  <2> QED
    BY <1>1, <1>2, <2>1
<1>10. (\E k \in DOMAIN Append(q, r) : Append(q, r)[k].id = r.id) /\ d[r.id] = "no"
  <2>1. Len(q) + 1 \in 1..Len(q) + 1
    BY <1>1
  <2> QED
    BY <1>1, <1>3, <2>1 DEF Owed
<1> HIDE DEF n
<1>11. Owed(Append(q, r), n, d)
  <2>1. ASSUME NEW i \in RequestIds, i # r.id
        PROVE  (n[i] = -1 => d[i] = "no") /\ (n[i] # -1 => (d[i] = "no" <=> \E k \in DOMAIN Append(q, r) : Append(q, r)[k].id = i))
    BY <1>3, <1>9, <2>1 DEF Owed
  <2> QED
    BY <1>3, <1>10, <2>1 DEF Owed
<1> QED
  BY <1>8, <1>11 DEF n

LEMMA QueueRefused ==
  ASSUME NEW q \in Seq(Requests), NEW m \in [RequestIds -> {-1, 0} \cup ValueSizes], NEW d, DOMAIN d = RequestIds, Queue(q, m), Owed(q, m, d),
         NEW id \in RequestIds, m[id] = -1, NEW value \in Nat, NEW result \in Results
  PROVE  LET n == [m EXCEPT ![id] = value] IN Queue(q, n) /\ Owed(q, n, [d EXCEPT ![id] = result])
<1> DEFINE n == [m EXCEPT ![id] = value]  c == [d EXCEPT ![id] = result]
<1>1. n[id] = value /\ value # -1 /\ (\A i \in RequestIds : i # id => n[i] = m[i] /\ c[i] = d[i])
  OBVIOUS
<1>2. c[id] # "no"
  BY DEF Results
<1>3. \A k \in DOMAIN q : q[k].id \in RequestIds /\ q[k].id # id
  <2>1. \A k \in DOMAIN q : q[k] \in Requests
    OBVIOUS
  <2>2. \A k \in DOMAIN q : q[k].id \in RequestIds /\ q[k].value \in Nat
    BY <2>1 DEF Requests
  <2> QED
    BY <2>2 DEF Queue
<1> HIDE DEF n, c
<1>4. Queue(q, n)
  BY <1>1, <1>3 DEF Queue
<1>5. Owed(q, n, c)
  BY <1>1, <1>2, <1>3 DEF Owed
<1> QED
  BY <1>4, <1>5 DEF n, c

LEMMA QueueTail ==
  ASSUME NEW q \in Seq(Requests), q # <<>>, NEW m, NEW d, DOMAIN d = RequestIds, Queue(q, m), Owed(q, m, d), NEW result \in Results
  PROVE  /\ Queue(Tail(q), m) /\ Owed(Tail(q), m, [d EXCEPT ![q[1].id] = result])
         /\ Tail(q) # <<>> => Shaped(Tail(q)[1]) /\ Unsent(Tail(q)[1])
<1> DEFINE c == [d EXCEPT ![q[1].id] = result]
<1>1. /\ Len(q) \in Nat /\ Len(q) >= 1 /\ DOMAIN q = 1..Len(q) /\ 1 \in DOMAIN q /\ DOMAIN Tail(q) = 1..Len(q) - 1
      /\ Len(Tail(q)) = Len(q) - 1 /\ Tail(q) \in Seq(Requests) /\ q[1] \in Requests
      /\ \A i \in 1..Len(q) - 1 : Tail(q)[i] = q[i + 1]
  BY TailIs
<1>2. \A j \in 1..Len(q) - 1 : j + 1 \in DOMAIN q /\ j + 1 # 1 /\ j + 1 > 1
  BY <1>1
<1>3. \A j, k \in 1..Len(q) - 1 : j + 1 = k + 1 => j = k
  BY <1>1
<1>4. q[1].id \in RequestIds
  BY <1>1 DEF Requests
<1>5. c[q[1].id] # "no" /\ \A i \in RequestIds : i # q[1].id => c[i] = d[i]
  BY <1>4 DEF Results
<1>6. \A k \in DOMAIN Tail(q) : Shaped(Tail(q)[k]) /\ m[Tail(q)[k].id] = Tail(q)[k].value /\ Unsent(Tail(q)[k])
  BY <1>1, <1>2 DEF Queue
<1>7. \A j, k \in DOMAIN Tail(q) : Tail(q)[j].id = Tail(q)[k].id => j = k
  BY <1>1, <1>2, <1>3 DEF Queue
<1>8. Len(Tail(q)) <= MaxPendingRequests
  BY <1>1, AttFacts DEF Queue
<1>9. Queue(Tail(q), m)
  BY <1>6, <1>7, <1>8 DEF Queue
<1>10. \A i \in RequestIds : i # q[1].id => ((\E k \in DOMAIN Tail(q) : Tail(q)[k].id = i) <=> \E k \in DOMAIN q : q[k].id = i)
  <2>1. \A k \in 1..Len(q) : k = 1 \/ (k - 1 \in 1..Len(q) - 1 /\ (k - 1) + 1 = k)
    BY <1>1
  <2>2. ASSUME NEW i \in RequestIds, i # q[1].id, NEW k \in DOMAIN q, q[k].id = i PROVE \E j \in DOMAIN Tail(q) : Tail(q)[j].id = i
    <3>1. k - 1 \in DOMAIN Tail(q) /\ (k - 1) + 1 = k
      BY <1>1, <2>1, <2>2
    <3> QED
      BY <1>1, <2>2, <3>1
  <2>3. \A i \in RequestIds : (\E k \in DOMAIN Tail(q) : Tail(q)[k].id = i) => \E k \in DOMAIN q : q[k].id = i
    BY <1>1, <1>2
  <2> QED
    BY <2>2, <2>3
<1>11. ~ \E k \in DOMAIN Tail(q) : Tail(q)[k].id = q[1].id
  BY <1>1, <1>2 DEF Queue
<1>12. m[q[1].id] = q[1].value /\ q[1].value # -1
  BY <1>1 DEF Queue, Requests
<1> HIDE DEF c
<1>13. Owed(Tail(q), m, c)
  BY <1>4, <1>5, <1>10, <1>11, <1>12 DEF Owed
<1>14. Tail(q) # <<>> => 1 \in DOMAIN Tail(q)
  BY <1>1, TailIs
<1> QED
  BY <1>6, <1>9, <1>13, <1>14 DEF c

LEMMA QueueFront ==
  ASSUME NEW q \in Seq(Requests), q # <<>>, NEW m, NEW d, Queue(q, m), Owed(q, m, d), NEW x \in Requests, x.id = q[1].id, x.value = q[1].value,
         Shaped(x), NEW e, e = [q EXCEPT ![1] = x]
  PROVE  /\ e \in Seq(Requests) /\ e # <<>> /\ DOMAIN e = DOMAIN q /\ (\A k \in DOMAIN q : k # 1 => e[k] = q[k]) /\ e[1] = x
         /\ Queue(e, m) /\ Owed(e, m, d)
<1>1. Len(q) \in Nat /\ Len(q) >= 1 /\ DOMAIN q = 1..Len(q) /\ 1 \in DOMAIN q /\ q[1] \in Requests
  BY TailIs
<1>2. DOMAIN e = DOMAIN q /\ e[1] = x /\ \A k \in DOMAIN q : k # 1 => e[k] = q[k]
  BY <1>1
<1>3. e \in Seq(Requests) /\ Len(e) = Len(q) /\ e # <<>>
  BY <1>1
<1>4. \A k \in DOMAIN q : e[k].id = q[k].id /\ e[k].value = q[k].value
  BY <1>2
<1>5. Owed(e, m, d)
  BY <1>2, <1>4 DEF Owed
<1>6. Queue(e, m)
  <2>1. \A k \in DOMAIN e : Shaped(e[k]) /\ m[e[k].id] = e[k].value /\ (k > 1 => Unsent(e[k]))
    BY <1>1, <1>2, <1>4 DEF Queue
  <2>2. \A j, k \in DOMAIN e : e[j].id = e[k].id => j = k
    BY <1>2, <1>4 DEF Queue
  <2> QED
    BY <1>3, <2>1, <2>2 DEF Queue
<1> QED
  BY <1>2, <1>3, <1>5, <1>6

LEMMA UnsentBefore == ASSUME NEW r \in Requests, Shaped(r), Unsent(r) PROVE Before(r, <<>>)
<1>1. r.long \in BOOLEAN /\ r.packet.op # "execute" /\ (r.packet.op = "prepare" => r.packet.offset = 0)
  BY DEF Requests, Shaped, Unsent
<1> QED
  BY <1>1, CoversNone DEF Before, OfOne

LEMMA MadeIs ==
  ASSUME AttTypes, NEW id \in RequestIds, NEW value, Att!Make(id, value)
  PROVE  made[id] = -1 /\ made' = [made EXCEPT ![id] = value]
BY AttFacts DEF Att!Make, Att!Unmade

LEMMA StoredKept ==
  ASSUME StoredInv, AttTypes, NEW id \in RequestIds, NEW value, made[id] = -1, made' = [made EXCEPT ![id] = value], stored' = stored
  PROVE  StoredInv'
<1>1. CASE stored = <<>>
  BY <1>1 DEF StoredInv, WholeValue
<1>2. CASE stored # <<>>
  <2>1. stored \in Seq(Pdus) /\ stored[1].id \in RequestIds /\ Covers(stored, stored[1].id, made[stored[1].id])
    BY <1>2 DEF AttTypes, StoredInv, WholeValue
  <2>2. Len(stored) \in DOMAIN stored
    BY <1>2, <2>1
  <2>3. stored[Len(stored)] \in Pdus
    BY <2>1, <2>2
  <2>4. End(stored) \in Nat /\ End(stored) = made[stored[1].id]
    BY <1>2, <2>1, <2>3 DEF End, Pdus, Covers
  <2>5. stored[1].id # id
    BY <2>4
  <2>6. made'[stored[1].id] = made[stored[1].id]
    BY <2>1, <2>5 DEF AttTypes
  <2> QED
    BY <2>1, <2>6 DEF StoredInv, WholeValue
<1> QED
  BY <1>1, <1>2

LEMMA Enqueued ==
  ASSUME AttInv, NEW r \in Requests, r.value \in {0} \cup ValueSizes, made[r.id] = -1, made' = [made EXCEPT ![r.id] = r.value],
         Att!Enqueue(r), Shaped(r), Unsent(r), r.packet.size <= mtu, r.packet.op = "mtu" => localMtu' = MaxMtu,
         localMtu' \in {DefaultMtu, MaxMtu}, Mtus(server.mtu, mtu, localMtu', exchanged), Towards(toGuest, server.mtu, mtu, localMtu', exchanged),
         Back(toPeer, server.mtu, mtu, localMtu'), Sized(requests, mtu, localMtu'),
         UNCHANGED <<connected, securing, encrypted, mtu, exchanged, toPeer, server, stored>>
  PROVE  AttInv'
<1> DEFINE local == localMtu'  q == Append(requests, r)
<1>1. /\ requests \in Seq(Requests) /\ toGuest \in Seq(Pdus) /\ busy \in BOOLEAN /\ securing \in BOOLEAN
      /\ made \in [RequestIds -> {-1, 0} \cup ValueSizes] /\ done \in [RequestIds -> {"no", "ok", "error", "refused", "closed"}]
      /\ Queue(requests, made) /\ Owed(requests, made, done)
  BY DEF AttInv, AttTypes, QueueInv
<1>2. r.id \in RequestIds /\ r.value \in Nat /\ Len(requests) \in Nat
  BY <1>1 DEF Requests
<1>3. made' \in [RequestIds -> {-1, 0} \cup ValueSizes]
  BY <1>1, <1>2
<1>4. StoredInv'
  BY <1>2, StoredKept DEF AttInv
<1>5. server.mtu \in Nat /\ mtu \in Nat /\ Settled(local) \in Nat /\ server.mtu <= Settled(local) /\ mtu <= Settled(local)
  BY AttNow, AttFacts DEF Mtus
<1>6. CASE Len(requests) >= MaxPendingRequests
  <2>1. done' = [done EXCEPT ![r.id] = "refused"] /\ UNCHANGED <<requests, busy, toGuest>>
    BY <1>6 DEF Att!Enqueue
  <2>2. "refused" \in Results
    BY DEF Results
  <2>3. QueueInv'
    BY <1>1, <1>2, <2>1, <2>2, QueueRefused DEF QueueInv
  <2>4. done' \in [RequestIds -> {"no", "ok", "error", "refused", "closed"}]
    BY <1>1, <2>1
  <2>5. AttTypes'
    BY <1>3, <2>1, <2>4 DEF AttInv, AttTypes
  <2>6. TransactionInv' /\ MtuInv'
    BY <2>1 DEF AttInv, TransactionInv, MtuInv
  <2> QED
    BY <1>4, <2>3, <2>5, <2>6 DEF AttInv
<1>7. CASE ~(Len(requests) >= MaxPendingRequests)
  <2>1. done' = done /\ Att!SendNext(q, busy, securing)
    BY <1>7 DEF Att!Enqueue
  <2>2. Len(requests) < MaxPendingRequests
    BY <1>2, <1>7, AttFacts
  <2>3. Queue(q, made') /\ Owed(q, made', done)
    BY <1>1, <2>2, QueueAppend
  <2>4. /\ q \in Seq(Requests) /\ q # <<>> /\ DOMAIN q = 1..Len(requests) + 1 /\ DOMAIN requests = 1..Len(requests)
        /\ (requests # <<>> => q[1] = requests[1]) /\ (requests = <<>> => q[1] = r)
        /\ \A k \in DOMAIN q : (k \in DOMAIN requests /\ q[k] = requests[k]) \/ q[k] = r
    BY <1>1
  <2>5. Sized(q, mtu, local)
    BY <2>4 DEF Sized
  <2>6. \A k \in DOMAIN q : Shaped(q[k])
    BY <2>3 DEF Queue
  <2> HIDE DEF q, local
  <2>7. requests' = q /\ busy' \in BOOLEAN /\ toGuest' \in Seq(Pdus) /\ Towards(toGuest', server.mtu, mtu, local, exchanged)
        /\ Transaction(q, busy', securing, encrypted, toGuest', toPeer, server.prepared)
    <3>1. CASE busy
      <4>1. requests' = q /\ busy' = TRUE /\ toGuest' = toGuest
        BY <1>1, <2>1, <3>1 DEF Att!SendNext
      <4>2. Transaction(q, TRUE, securing, encrypted, toGuest, toPeer, server.prepared)
        BY <2>4, <3>1 DEF AttInv, TransactionInv, Transaction
      <4> QED
        BY <1>1, <4>1, <4>2, <3>1 DEF local
    <3>2. CASE ~busy
      <4>1. NoneAsked(toGuest) /\ NoneTold(toPeer) /\ Waiting(requests, securing, server.prepared)
        BY <3>2 DEF AttInv, TransactionInv, Transaction
      <4>2. Before(q[1], server.prepared)
        BY <2>4, <4>1, UnsentBefore DEF Waiting
      <4>3. Att!SendNext(q, FALSE, securing)
        BY <1>1, <2>1, <3>2
      <4>4. local \in {DefaultMtu, MaxMtu} /\ Towards(toGuest, server.mtu, mtu, local, exchanged)
        BY DEF local
      <4>5. IF q = <<>> THEN server.prepared = <<>> ELSE Before(q[1], server.prepared)
        BY <2>4, <4>2
      <4> QED
        <5>1. /\ toGuest \in Seq(Pdus) /\ q \in Seq(Requests) /\ securing \in BOOLEAN /\ server.mtu \in Nat /\ mtu \in Nat
              /\ server.mtu <= Settled(local) /\ mtu <= Settled(local)
          BY <1>1, <1>5, <2>4
        <5> QED
          BY ONLY <5>1, <2>5, <2>6, <4>1, <4>3, <4>4, <4>5, Sent
    <3> QED
      BY <3>1, <3>2
  <2>8. AttTypes'
    BY <1>3, <2>1, <2>4, <2>7 DEF AttInv, AttTypes
  <2>9. QueueInv'
    BY <2>1, <2>3, <2>7 DEF QueueInv
  <2>10. TransactionInv'
    BY <2>7 DEF TransactionInv
  <2>11. MtuInv'
    BY <2>5, <2>7 DEF MtuInv, local
  <2> QED
    BY <1>4, <2>8, <2>9, <2>10, <2>11 DEF AttInv
<1> QED
  BY <1>6, <1>7

LEMMA NewRequests ==
  ASSUME AttInv, NEW id \in RequestIds, NEW kind \in {"read", "write", "mtu"}, NEW value \in Nat, kind # "write" => value = 0
  PROVE  LET r == Att!NewRequest(kind, id, value)
         IN /\ r \in Requests /\ r.id = id /\ r.value = value /\ Shaped(r) /\ Unsent(r) /\ r.packet.size <= mtu
            /\ (r.packet.op = "mtu" => kind = "mtu")
<1> DEFINE p == Att!Pdu(kind, id, 0, value, 3 + value)  length == Att!Min(mtu - 5, value)
           f == Att!Pdu("prepare", id, 0, length, 5 + length)
           long == kind = "write" /\ value > mtu - 3
           whole == [id |-> id, value |-> value, long |-> long, prepareError |-> FALSE, packet |-> p]
           parts == [whole EXCEPT !.packet = f]
<1>1. mtu \in Nat /\ mtu > 5 /\ id \in Nat
  BY AttNow, AttFacts
<1>2. length \in Nat /\ length <= value /\ 5 + length <= mtu /\ 5 + length \in Nat /\ 0 + length <= value /\ value - 0 = value
  BY <1>1 DEF Att!Min
<1>3. p \in Pdus /\ p.op = kind /\ p.id = id /\ p.offset = 0 /\ p.length = value /\ p.size = 3 + value
  BY <1>1 DEF Att!Pdu, Pdus
<1> HIDE DEF length
<1>4. f \in Pdus /\ f.op = "prepare" /\ f.id = id /\ f.offset = 0 /\ f.length = length /\ f.size = 5 + length
  BY <1>1, <1>2 DEF Att!Pdu, Pdus
<1>5. Att!NewRequest(kind, id, value) = IF long THEN parts ELSE whole
  <2>1. ASSUME NEW r, r = whole PROVE Att!prepareWrite(r, mtu, 0) = f
    <3>1. r.id = id /\ r.value = value
      BY <2>1
    <3> QED
      BY <1>2, <3>1 DEF Att!prepareWrite, length
  <2>2. Att!NewRequest(kind, id, value) = IF whole.long THEN [whole EXCEPT !.packet = Att!prepareWrite(whole, mtu, 0)] ELSE whole
    BY DEF Att!NewRequest
  <2>3. whole.long = long
    OBVIOUS
  <2> HIDE DEF whole
  <2> QED
    BY <2>1, <2>2, <2>3
<1> HIDE DEF p, f
<1>6. whole \in Requests /\ whole.id = id /\ whole.value = value /\ whole.long = long /\ whole.prepareError = FALSE /\ whole.packet = p
  BY <1>3 DEF Requests
<1> HIDE DEF whole
<1>7. CASE long
  <2>1. parts \in Requests /\ parts.id = id /\ parts.value = value /\ parts.long = TRUE /\ parts.prepareError = FALSE /\ parts.packet = f
    BY <1>4, <1>6, <1>7 DEF Requests
  <2> HIDE DEF parts
  <2>2. Shaped(parts) /\ Unsent(parts) /\ parts.packet.size <= mtu /\ parts.packet.op # "mtu"
    BY <1>2, <1>4, <2>1 DEF Shaped, Unsent
  <2> QED
    BY <1>5, <1>7, <2>1, <2>2
<1>8. CASE ~long
  <2>1. p.size <= mtu
    BY <1>1, <1>3, <1>8
  <2>2. Shaped(whole) /\ Unsent(whole) /\ whole.packet.size <= mtu /\ (whole.packet.op = "mtu" => kind = "mtu")
    BY <1>3, <1>6, <1>8, <2>1 DEF Shaped, Unsent
  <2> QED
    BY <1>5, <1>6, <1>8, <2>2
<1> QED
  BY <1>7, <1>8

LEMMA ReadStep == ASSUME AttInv, NEW id \in RequestIds, Att!Read(id) PROVE AttInv'
<1>1. made[id] = -1 /\ made' = [made EXCEPT ![id] = 0]
  BY MadeIs DEF Att!Read, AttInv
<1>2. /\ Att!Enqueue(Att!NewRequest("read", id, 0))
      /\ UNCHANGED <<connected, securing, encrypted, mtu, localMtu, exchanged, toPeer, server, stored>>
  BY DEF Att!Read
<1> DEFINE r == Att!NewRequest("read", id, 0)
<1>3. r \in Requests /\ r.id = id /\ r.value = 0 /\ Shaped(r) /\ Unsent(r) /\ r.packet.size <= mtu /\ r.packet.op # "mtu"
  BY NewRequests
<1>4. /\ localMtu \in {DefaultMtu, MaxMtu} /\ Mtus(server.mtu, mtu, localMtu, exchanged) /\ Back(toPeer, server.mtu, mtu, localMtu)
      /\ Towards(toGuest, server.mtu, mtu, localMtu, exchanged) /\ Sized(requests, mtu, localMtu)
  BY DEF AttInv, MtuInv, Mtus
<1> HIDE DEF r
<1>5. Att!Enqueue(r)
  BY <1>2 DEF r
<1> QED
  BY <1>1, <1>2, <1>3, <1>4, <1>5, Enqueued

LEMMA WriteStep == ASSUME AttInv, NEW id \in RequestIds, NEW size \in ValueSizes, Att!Write(id, size) PROVE AttInv'
<1>1. made[id] = -1 /\ made' = [made EXCEPT ![id] = size]
  BY MadeIs DEF Att!Write, AttInv
<1>2. /\ Att!Enqueue(Att!NewRequest("write", id, size))
      /\ UNCHANGED <<connected, securing, encrypted, mtu, localMtu, exchanged, toPeer, server, stored>>
  BY DEF Att!Write
<1> DEFINE r == Att!NewRequest("write", id, size)
<1>3. size \in Nat
  BY AttFacts
<1>4. r \in Requests /\ r.id = id /\ r.value = size /\ Shaped(r) /\ Unsent(r) /\ r.packet.size <= mtu /\ r.packet.op # "mtu"
  BY <1>3, NewRequests
<1>5. /\ localMtu \in {DefaultMtu, MaxMtu} /\ Mtus(server.mtu, mtu, localMtu, exchanged) /\ Back(toPeer, server.mtu, mtu, localMtu)
      /\ Towards(toGuest, server.mtu, mtu, localMtu, exchanged) /\ Sized(requests, mtu, localMtu)
  BY DEF AttInv, MtuInv, Mtus
<1> HIDE DEF r
<1>6. Att!Enqueue(r)
  BY <1>2 DEF r
<1> QED
  BY <1>1, <1>2, <1>4, <1>5, <1>6, Enqueued

LEMMA ExchangeStep == ASSUME AttInv, NEW id \in RequestIds, Att!ExchangeMtu(id) PROVE AttInv'
<1>1. made[id] = -1 /\ made' = [made EXCEPT ![id] = 0]
  BY MadeIs DEF Att!ExchangeMtu, AttInv
<1>2. localMtu = DefaultMtu /\ UNCHANGED <<connected, securing, encrypted, mtu, exchanged, toPeer, server, stored>>
  BY DEF Att!ExchangeMtu
<1>3. /\ requests \in Seq(Requests) /\ exchanged \in BOOLEAN
      /\ made \in [RequestIds -> {-1, 0} \cup ValueSizes] /\ done \in [RequestIds -> {"no", "ok", "error", "refused", "closed"}]
      /\ Queue(requests, made) /\ Owed(requests, made, done)
  BY DEF AttInv, AttTypes, QueueInv
<1>4. CASE exchanged
  <2>1. done' = [done EXCEPT ![id] = "ok"] /\ UNCHANGED <<requests, busy, toGuest, localMtu>>
    BY <1>4 DEF Att!ExchangeMtu
  <2>2. "ok" \in Results /\ 0 \in Nat
    BY DEF Results
  <2>3. QueueInv'
    BY <1>1, <1>3, <2>1, <2>2, QueueRefused DEF QueueInv
  <2>4. done' \in [RequestIds -> {"no", "ok", "error", "refused", "closed"}] /\ made' \in [RequestIds -> {-1, 0} \cup ValueSizes]
    BY <1>1, <1>3, <2>1
  <2>5. AttTypes'
    BY <1>2, <2>1, <2>4 DEF AttInv, AttTypes
  <2>6. TransactionInv' /\ MtuInv'
    BY <1>2, <2>1 DEF AttInv, TransactionInv, MtuInv
  <2>7. StoredInv'
    BY <1>1, <1>2, StoredKept DEF AttInv
  <2> QED
    BY <2>3, <2>5, <2>6, <2>7 DEF AttInv
<1>5. CASE ~exchanged
  <2> DEFINE r == Att!NewRequest("mtu", id, 0)
  <2>1. localMtu' = MaxMtu /\ Att!Enqueue(r)
    BY <1>5 DEF Att!ExchangeMtu
  <2>2. r \in Requests /\ r.id = id /\ r.value = 0 /\ Shaped(r) /\ Unsent(r) /\ r.packet.size <= mtu
    BY NewRequests
  <2> HIDE DEF r
  <2>3. /\ Mtus(server.mtu, mtu, DefaultMtu, FALSE) /\ Back(toPeer, server.mtu, mtu, DefaultMtu)
        /\ Towards(toGuest, server.mtu, mtu, DefaultMtu, FALSE) /\ Sized(requests, mtu, DefaultMtu)
    BY <1>2, <1>3, <1>5 DEF AttInv, MtuInv
  <2>4. /\ server.mtu \in Nat /\ Settled(DefaultMtu) \in Nat /\ Settled(MaxMtu) \in Nat /\ Settled(DefaultMtu) <= Settled(MaxMtu)
        /\ server.mtu <= Settled(DefaultMtu) /\ server.mtu <= Settled(MaxMtu)
    BY <1>2, AttNow, AttFacts
  <2>5. Mtus(server.mtu, mtu, MaxMtu, FALSE)
    BY <2>3, <2>4 DEF Mtus
  <2>6. \A i \in DOMAIN toGuest : toGuest[i].size \in Nat
    <3>1. \A i \in DOMAIN toGuest : toGuest[i] \in Pdus
      BY DEF AttInv, AttTypes
    <3> QED
      BY <3>1 DEF Pdus
  <2>7. Towards(toGuest, server.mtu, mtu, MaxMtu, FALSE)
    BY <2>3, <2>4, <2>6 DEF Towards
  <2>8. \A i \in DOMAIN toPeer : toPeer[i].size \in Nat
    <3>1. \A i \in DOMAIN toPeer : toPeer[i] \in Replies
      BY DEF AttInv, AttTypes
    <3> QED
      BY <3>1 DEF Replies
  <2>9. \A i \in DOMAIN toPeer : Raises(toPeer[i]) => DefaultMtu = MaxMtu
    BY <2>3 DEF Back
  <2>10. Back(toPeer, server.mtu, mtu, MaxMtu)
    BY <2>3, <2>4, <2>8, <2>9 DEF Back
  <2>11. Sized(requests, mtu, MaxMtu)
    BY <2>3 DEF Sized
  <2>12. exchanged = FALSE
    BY <1>3, <1>5
  <2> QED
    BY <1>1, <1>2, <2>1, <2>2, <2>5, <2>7, <2>10, <2>11, <2>12, Enqueued
<1> QED
  BY <1>4, <1>5

-----------------------------------------------------------------------------
(* What the client reads.                                                  *)

LEMMA ReadOther ==
  ASSUME toPeer \in Seq(Replies), toPeer # <<>>, toPeer[1].op \notin Answers
  PROVE  /\ NoneTold(toPeer) => NoneTold(Tail(toPeer))
         /\ \A r, tg, s, enc : AtPeer(r, tg, toPeer, s, enc) => AtPeer(r, tg, Tail(toPeer), s, enc)
<1>1. NoneTold(toPeer) => NoneTold(Tail(toPeer))
  BY ToldTail
<1>2. ASSUME NEW r, NEW tg, NEW s, NEW enc, AtPeer(r, tg, toPeer, s, enc) PROVE AtPeer(r, tg, Tail(toPeer), s, enc)
  <2>1. PICK i \in DOMAIN toPeer : /\ ToldOf(toPeer, toPeer[i]) /\ toPeer[i].of = r.packet
                                   /\ After(r, toPeer[i].op, s) /\ (toPeer[i].op = "insecure" => ~enc)
    BY <1>2 DEF AtPeer
  <2>2. ToldOf(Tail(toPeer), toPeer[i])
    BY <2>1, ToldTail
  <2>3. PICK j \in DOMAIN Tail(toPeer) : Tail(toPeer)[j] = toPeer[i]
    BY <2>2 DEF ToldOf
  <2> QED
    BY <1>2, <2>1, <2>2, <2>3 DEF AtPeer
<1> QED
  BY <1>1, <1>2

LEMMA Received ==
  ASSUME AttInv, Att!Receive
  PROVE  /\ toPeer # <<>> /\ toPeer' = Tail(toPeer) /\ Tail(toPeer) \in Seq(Replies) /\ UNCHANGED <<connected, server, stored, made>>
         /\ Head(toPeer) = toPeer[1] /\ toPeer[1] \in Replies /\ toPeer \in Seq(Replies) /\ toGuest \in Seq(Pdus)
         /\ requests \in Seq(Requests)
         /\ Mtus(server.mtu, mtu, localMtu, exchanged) /\ Sized(requests, mtu, localMtu)
         /\ Towards(toGuest, server.mtu, mtu, localMtu, exchanged)
         /\ (toPeer[1].op = "mtu" => toPeer[1].of.length = GuestMtu)
         /\ (Raises(toPeer[1]) => localMtu = MaxMtu /\ server.mtu = Settled(localMtu))
         /\ (~Raises(toPeer[1]) => Back(Tail(toPeer), server.mtu, mtu, localMtu))
         /\ Back(Tail(toPeer), server.mtu, Settled(localMtu), localMtu)
<1>1. toPeer # <<>> /\ toPeer' = Tail(toPeer) /\ UNCHANGED <<connected, server, stored, made>>
  BY DEF Att!Receive
<1>2. /\ toPeer \in Seq(Replies) /\ Back(toPeer, server.mtu, mtu, localMtu) /\ toGuest \in Seq(Pdus) /\ requests \in Seq(Requests)
      /\ Mtus(server.mtu, mtu, localMtu, exchanged) /\ Sized(requests, mtu, localMtu)
      /\ Towards(toGuest, server.mtu, mtu, localMtu, exchanged)
  BY DEF AttInv, AttTypes, MtuInv
<1>3. Tail(toPeer) \in Seq(Replies) /\ Head(toPeer) = toPeer[1] /\ toPeer[1] \in Replies
  BY <1>1, <1>2, TailIs
<1>4. /\ (toPeer[1].op = "mtu" => toPeer[1].of.length = GuestMtu)
      /\ (Raises(toPeer[1]) => localMtu = MaxMtu /\ server.mtu = Settled(localMtu))
      /\ (~Raises(toPeer[1]) => Back(Tail(toPeer), server.mtu, mtu, localMtu))
      /\ Back(Tail(toPeer), server.mtu, Settled(localMtu), localMtu)
  BY <1>1, <1>2, AttNow, BackTail
<1> QED
  BY <1>1, <1>2, <1>3, <1>4

LEMMA ValueStep == ASSUME AttInv, Att!ReceiveValue PROVE AttInv'
<1>1. /\ Att!Receive /\ Head(toPeer).op = "value"
      /\ UNCHANGED <<requests, busy, securing, encrypted, mtu, localMtu, exchanged, toGuest, done>>
  BY DEF Att!ReceiveValue, Att!Packet, Att!link
<1>2. ~Raises(toPeer[1]) /\ toPeer[1].op \notin Answers
  BY <1>1, Received DEF Raises, Answers
<1>3. MtuInv'
  BY <1>1, <1>2, Received DEF MtuInv, Sized
<1>4. AttTypes'
  BY <1>1, Received DEF AttInv, AttTypes
<1>5. QueueInv' /\ StoredInv'
  BY <1>1, Received DEF AttInv, QueueInv, Queue, Owed, StoredInv
<1>6. TransactionInv'
  <2>1. TransactionInv /\ server' = server /\ toPeer' = Tail(toPeer) /\ toPeer \in Seq(Replies) /\ toPeer # <<>>
    BY <1>1, Received DEF AttInv
  <2>2. \A r : AtGuest(r, toGuest, toPeer, server.prepared) => AtGuest(r, toGuest, Tail(toPeer), server.prepared)
    BY <1>2, <2>1, ReadOther DEF AtGuest
  <2> QED
    BY <1>1, <1>2, <2>1, <2>2, ReadOther DEF TransactionInv, Transaction
<1> QED
  BY <1>3, <1>4, <1>5, <1>6 DEF AttInv

LEMMA HeardMtuStep == ASSUME AttInv, Att!ReceiveMtu PROVE AttInv'
<1> DEFINE e == Att!Pdu("answered", 0, 0, localMtu, 3)  n == Settled(localMtu)
<1>1. /\ Att!Receive /\ Head(toPeer).op = "mtu" /\ toGuest' = Append(toGuest, e)
      /\ mtu' = Att!Min(localMtu, Head(toPeer).of.length) /\ exchanged' = TRUE
      /\ UNCHANGED <<requests, busy, securing, encrypted, localMtu, done>>
  BY DEF Att!ReceiveMtu, Att!Packet
<1>2. ~Raises(toPeer[1]) /\ toPeer[1].op \notin Answers /\ Head(toPeer).of.length = GuestMtu
  BY <1>1, Received DEF Raises, Answers
<1>3. mtu' = n
  BY <1>1, <1>2 DEF Settled
<1>4. e \in Pdus /\ e.op = "answered" /\ e.length = localMtu /\ e.size = 3
  BY AttNow, AttFacts DEF Att!Pdu, Pdus
<1>5. /\ server \in Servers /\ server.mtu \in Nat /\ mtu \in Nat /\ localMtu \in {DefaultMtu, MaxMtu} /\ n \in Nat
      /\ server.mtu <= n /\ mtu <= n /\ 3 <= server.mtu /\ DefaultMtu <= server.mtu
  BY AttNow
<1> HIDE DEF e
<1>6. toGuest' \in Seq(Pdus)
  BY <1>1, <1>4, Received
<1>7. MtuInv'
  <2>1. Towards(Append(toGuest, e), server.mtu, n, localMtu, TRUE)
    BY <1>1, <1>4, <1>5, Received, TowardsAppend
  <2>2. Sized(requests, n, localMtu)
    <3>1. \A k \in DOMAIN requests : requests[k].packet.size \in Nat
      <4>1. \A k \in DOMAIN requests : requests[k] \in Requests
        BY <1>1, Received
      <4> QED
        BY <4>1 DEF Requests, Pdus
    <3>2. Sized(requests, mtu, localMtu)
      BY <1>1, Received
    <3> QED
      BY <1>5, <3>1, <3>2 DEF Sized
  <2>3. Mtus(server.mtu, n, localMtu, TRUE)
    BY <1>5 DEF Mtus
  <2>4. Back(Tail(toPeer), server.mtu, n, localMtu) /\ server' = server /\ toPeer' = Tail(toPeer)
    BY <1>1, Received
  <2> QED
    BY <1>1, <1>3, <2>1, <2>2, <2>3, <2>4 DEF MtuInv, Sized
<1>8. AttTypes'
  BY <1>1, <1>6, Received DEF AttInv, AttTypes
<1>9. QueueInv' /\ StoredInv'
  BY <1>1, Received DEF AttInv, QueueInv, Queue, Owed, StoredInv
<1>10. TransactionInv'
  <2>1. TransactionInv /\ server' = server /\ toPeer' = Tail(toPeer) /\ toPeer \in Seq(Replies) /\ toPeer # <<>> /\ toGuest \in Seq(Pdus)
    BY <1>1, Received DEF AttInv
  <2>2. /\ NoneAsked(toGuest) => NoneAsked(toGuest')
        /\ \A p : AskedOf(toGuest, p) => AskedOf(toGuest', p)
    BY <1>1, <1>4, <2>1, AskedAppend
  <2>3. \A r : AtGuest(r, toGuest, toPeer, server.prepared) => AtGuest(r, toGuest', Tail(toPeer), server.prepared)
    BY <1>2, <2>1, <2>2, ReadOther DEF AtGuest
  <2>4. \A r, s, enc : AtPeer(r, toGuest, toPeer, s, enc) => AtPeer(r, toGuest', toPeer, s, enc)
    BY <2>2 DEF AtPeer
  <2> QED
    BY <1>1, <1>2, <2>1, <2>2, <2>3, <2>4, ReadOther DEF TransactionInv, Transaction
<1> QED
  BY <1>7, <1>8, <1>9, <1>10 DEF AttInv

LEMMA InsecureStep == ASSUME AttInv, Att!ReceiveInsecure PROVE AttInv'
<1>1. /\ Att!Receive /\ Head(toPeer).op = "insecure" /\ securing' = TRUE /\ busy' = FALSE
      /\ UNCHANGED <<requests, encrypted, mtu, localMtu, exchanged, toGuest, done>>
  BY DEF Att!ReceiveInsecure, Att!Packet
<1>2. ~Raises(toPeer[1]) /\ toPeer[1].op \in Answers /\ toPeer[1].op = "insecure"
  BY <1>1, Received DEF Raises, Answers
<1>3. requests # <<>> /\ After(requests[1], "insecure", server.prepared) /\ NoneAsked(toGuest) /\ NoneTold(Tail(toPeer))
  BY <1>1, <1>2, Received, Told
<1>4. Waiting(requests, TRUE, server.prepared)
  BY <1>3 DEF Waiting, After
<1>5. TransactionInv'
  BY <1>1, <1>3, <1>4, Received DEF TransactionInv, Transaction
<1>6. MtuInv'
  BY <1>1, <1>2, Received DEF MtuInv, Sized
<1>7. AttTypes'
  BY <1>1, Received DEF AttInv, AttTypes
<1>8. QueueInv' /\ StoredInv'
  BY <1>1, Received DEF AttInv, QueueInv, Queue, Owed, StoredInv
<1> QED
  BY <1>5, <1>6, <1>7, <1>8 DEF AttInv

LEMMA NextFragment ==
  ASSUME AttInv, NEW r \in Requests, Shaped(r), r.packet.op = "prepare", NEW s, NEW op \in {"answer", "garbled", "error"}, After(r, op, s)
  PROVE  LET p == r.packet
             offset == p.offset + p.length
             next == IF op # "answer" THEN Att!Cancel(r) ELSE IF offset < r.value THEN Att!prepareWrite(r, mtu, offset) ELSE Att!Execute(r)
             e == [r EXCEPT !.packet = next, !.prepareError = (op # "answer")]
         IN next \in Pdus /\ next.size <= mtu /\ next.op # "mtu" /\ Shaped(e) /\ Before(e, s)
<1> DEFINE p == r.packet  offset == p.offset + p.length  left == r.value - offset  length == Att!Min(mtu - 5, left)
           next == IF op # "answer" THEN Att!Cancel(r) ELSE IF offset < r.value THEN Att!prepareWrite(r, mtu, offset) ELSE Att!Execute(r)
           e == [r EXCEPT !.packet = next, !.prepareError = (op # "answer")]
<1>1. /\ r.long /\ p \in Pdus /\ r.id \in RequestIds /\ r.id \in Nat /\ r.value \in Nat /\ p.offset \in Nat /\ p.length \in Nat /\ p.id = r.id
      /\ offset \in Nat /\ offset <= r.value /\ mtu \in Nat /\ mtu > 5 /\ 2 <= mtu
  <2>1. p \in Pdus /\ r.id \in RequestIds /\ r.value \in Nat /\ r.long \in BOOLEAN
    BY DEF Requests
  <2>2. p.offset \in Nat /\ p.length \in Nat
    BY <2>1 DEF Pdus
  <2>3. r.id \in Nat
    BY <2>1, AttFacts
  <2>4. r.long /\ p.id = r.id /\ p.offset + p.length <= r.value
    BY <2>1 DEF Shaped
  <2>5. mtu \in Nat /\ DefaultMtu <= mtu /\ DefaultMtu \in Nat /\ DefaultMtu > 5
    BY AttNow
  <2> QED
    BY <2>1, <2>2, <2>3, <2>4, <2>5
<1>2. Covers(s, r.id, p.offset + IF op = "error" THEN 0 ELSE p.length)
  BY DEF After
<1>3. op = "answer" => Covers(s, r.id, offset)
  BY <1>2
<1>4. OfOne(s, r.id)
  BY <1>2 DEF Covers
<1> HIDE DEF p, offset
<1>5. DOMAIN r = {"id", "value", "long", "prepareError", "packet"}
  BY DEF Requests
<1>6. ASSUME NEW x PROVE LET y == [r EXCEPT !.packet = x, !.prepareError = (op # "answer")]
                         IN y.packet = x /\ (y.prepareError <=> op # "answer") /\ y.id = r.id /\ y.value = r.value /\ y.long = r.long
  BY <1>5
<1>7. CASE op # "answer"
  <2>1. next = [op |-> "cancel", id |-> r.id, offset |-> 0, length |-> 0, size |-> 2]
    BY <1>7 DEF Att!Cancel, Att!Pdu
  <2>2. next \in Pdus /\ next.op = "cancel" /\ next.id = r.id /\ next.size = 2
    BY <1>1, <2>1 DEF Pdus
  <2> HIDE DEF next
  <2>3. e.packet = next /\ e.prepareError /\ e.id = r.id /\ e.long = r.long
    BY <1>6, <1>7
  <2> HIDE DEF e
  <2>4. Shaped(e) /\ Before(e, s)
    BY <1>1, <1>4, <2>2, <2>3 DEF Shaped, Before
  <2> QED
    BY <1>1, <2>2, <2>4 DEF e, next, offset, p
<1>8. CASE op = "answer" /\ offset < r.value
  <2>1. next = [op |-> "prepare", id |-> r.id, offset |-> offset, length |-> length, size |-> 5 + length]
    BY <1>8 DEF Att!prepareWrite, Att!Pdu
  <2>2. length \in Nat /\ 5 + length <= mtu /\ offset + length <= r.value /\ 5 + length \in Nat
    BY <1>1, <1>8 DEF Att!Min
  <2> HIDE DEF length
  <2>3. next \in Pdus /\ next.op = "prepare" /\ next.id = r.id /\ next.size = 5 + length /\ next.offset = offset /\ next.length = length
    BY <1>1, <2>1, <2>2 DEF Pdus
  <2> HIDE DEF next
  <2>4. e.packet = next /\ ~e.prepareError /\ e.id = r.id /\ e.long = r.long /\ e.value = r.value
    BY <1>6, <1>8
  <2> HIDE DEF e
  <2>5. Shaped(e) /\ Before(e, s)
    BY <1>1, <1>3, <1>8, <2>2, <2>3, <2>4 DEF Shaped, Before
  <2> QED
    BY <1>1, <2>2, <2>3, <2>5 DEF e, next, offset, p
<1>9. CASE op = "answer" /\ ~(offset < r.value)
  <2>1. next = [op |-> "execute", id |-> r.id, offset |-> 0, length |-> 0, size |-> 2]
    BY <1>9 DEF Att!Execute, Att!Pdu
  <2>2. next \in Pdus /\ next.op = "execute" /\ next.id = r.id /\ next.size = 2
    BY <1>1, <2>1 DEF Pdus
  <2>3. offset = r.value
    BY <1>1, <1>9
  <2> HIDE DEF next
  <2>4. e.packet = next /\ ~e.prepareError /\ e.id = r.id /\ e.long = r.long /\ e.value = r.value
    BY <1>6, <1>9
  <2> HIDE DEF e
  <2>5. Shaped(e) /\ Before(e, s)
    BY <1>1, <1>3, <1>9, <2>2, <2>3, <2>4 DEF Shaped, Before
  <2> QED
    BY <1>1, <2>2, <2>5 DEF e, next, offset, p
<1> QED
  BY <1>7, <1>8, <1>9

LEMMA PreparedStep == ASSUME AttInv, Att!ReceivePrepared PROVE AttInv'
<1> DEFINE r == requests[1]  op == toPeer[1].op  failed == op # "answer"  offset == r.packet.offset + r.packet.length
           next == IF failed THEN Att!Cancel(r) ELSE IF offset < r.value THEN Att!prepareWrite(r, mtu, offset) ELSE Att!Execute(r)
           q == [requests EXCEPT ![1].packet = next, ![1].prepareError = failed]
<1>1. /\ Att!Receive /\ Head(toPeer).op \in {"answer", "garbled", "error"} /\ Head(requests).packet.op = "prepare"
      /\ Att!Continue(Head(toPeer).op # "answer") /\ UNCHANGED <<securing, encrypted, mtu, localMtu, exchanged, done>>
  BY DEF Att!ReceivePrepared, Att!Packet, Att!Front
<1>2. /\ toPeer # <<>> /\ Head(toPeer) = toPeer[1] /\ toPeer' = Tail(toPeer) /\ Tail(toPeer) \in Seq(Replies)
      /\ requests \in Seq(Requests) /\ toGuest \in Seq(Pdus) /\ UNCHANGED <<connected, server, stored, made>>
  BY <1>1, Received
<1>3. /\ ~securing /\ requests # <<>> /\ r \in Requests /\ toPeer[1].of = r.packet /\ Shaped(r)
      /\ After(r, op, server.prepared) /\ NoneAsked(toGuest) /\ NoneTold(Tail(toPeer))
  BY <1>1, <1>2, Told DEF Answers
<1>4. Head(requests) = r /\ op \in {"answer", "garbled", "error"} /\ r.packet.op = "prepare" /\ 1 \in DOMAIN requests
  BY <1>1, <1>2, <1>3, TailIs
<1>5. Att!SendNext(q, FALSE, securing)
  BY <1>1, <1>2, <1>4 DEF Att!Continue, Att!Front
<1> DEFINE e == [r EXCEPT !.packet = next, !.prepareError = failed]
<1>6. next \in Pdus /\ next.size <= mtu /\ next.op # "mtu" /\ Shaped(e) /\ Before(e, server.prepared)
  BY <1>3, <1>4, NextFragment
<1>7. Queue(requests, made) /\ Owed(requests, made, done)
  BY DEF AttInv, QueueInv
<1>8. failed \in BOOLEAN
  OBVIOUS
<1> HIDE DEF next, failed
<1>9. /\ q \in Seq(Requests) /\ q # <<>> /\ DOMAIN q = DOMAIN requests /\ (\A k \in DOMAIN requests : k # 1 => q[k] = requests[k]) /\ q[1] = e
      /\ Queue(q, made) /\ Owed(q, made, done)
  <2>1. requests \in Seq(Requests) /\ requests # <<>> /\ next \in Pdus /\ failed \in BOOLEAN /\ Shaped(e) /\ r \in Requests /\ 1 \in DOMAIN requests
    BY <1>2, <1>3, <1>4, <1>6, <1>8
  <2>2. e \in Requests /\ e.id = requests[1].id /\ e.value = requests[1].value
    BY <2>1 DEF Requests
  <2>3. q = [requests EXCEPT ![1] = e]
    BY <2>1
  <2> HIDE DEF q, e, r
  <2> QED
    BY ONLY <2>1, <2>2, <2>3, <1>7, QueueFront
<1>10. Queue(q, made) /\ Owed(q, made, done)
  BY <1>9
<1>11. e.packet = next
  BY <1>3 DEF Requests
<1> HIDE DEF q, e
<1>12. Sized(q, mtu, localMtu)
  <2>1. Sized(requests, mtu, localMtu)
    BY <1>1, Received
  <2> QED
    BY <1>6, <1>9, <1>11, <2>1 DEF Sized
<1>13. Back(Tail(toPeer), server.mtu, mtu, localMtu) /\ Mtus(server.mtu, mtu, localMtu, exchanged)
       /\ Towards(toGuest, server.mtu, mtu, localMtu, exchanged)
  <2>1. ~Raises(toPeer[1])
    BY <1>3, <1>4 DEF Raises
  <2> QED
    BY <1>1, <2>1, Received
<1>14. /\ requests' = q /\ busy' \in BOOLEAN /\ toGuest' \in Seq(Pdus) /\ Towards(toGuest', server.mtu, mtu, localMtu, exchanged)
       /\ Transaction(q, busy', securing, encrypted, toGuest', Tail(toPeer), server.prepared)
  <2>1. \A k \in DOMAIN q : Shaped(q[k])
    BY <1>10 DEF Queue
  <2>2. IF q = <<>> THEN server.prepared = <<>> ELSE Before(q[1], server.prepared)
    BY <1>6, <1>9
  <2>3. /\ securing \in BOOLEAN /\ server.mtu \in Nat /\ mtu \in Nat /\ localMtu \in {DefaultMtu, MaxMtu}
        /\ server.mtu <= Settled(localMtu) /\ mtu <= Settled(localMtu)
    BY AttNow DEF AttInv, AttTypes
  <2>4. ASSUME NEW tp, NoneTold(tp)
        PROVE  /\ requests' = q /\ busy' \in BOOLEAN /\ toGuest' \in Seq(Pdus) /\ Towards(toGuest', server.mtu, mtu, localMtu, exchanged)
               /\ Transaction(q, busy', securing, encrypted, toGuest', tp, server.prepared)
    <3>1. toGuest \in Seq(Pdus) /\ q \in Seq(Requests) /\ NoneAsked(toGuest) /\ Towards(toGuest, server.mtu, mtu, localMtu, exchanged)
      BY <1>2, <1>3, <1>9, <1>13
    <3> QED
      BY ONLY <3>1, <1>5, <1>12, <2>1, <2>2, <2>3, <2>4, Sent
  <2> QED
    BY <1>3, <2>4
<1>15. AttTypes'
  BY <1>1, <1>2, <1>9, <1>14 DEF AttInv, AttTypes
<1>16. MtuInv'
  BY <1>1, <1>2, <1>12, <1>13, <1>14 DEF MtuInv
<1>17. QueueInv' /\ StoredInv'
  BY <1>1, <1>2, <1>10, <1>14 DEF AttInv, QueueInv, StoredInv
<1>18. TransactionInv'
  BY <1>1, <1>2, <1>14 DEF TransactionInv
<1> QED
  BY <1>15, <1>16, <1>17, <1>18 DEF AttInv

LEMMA AnswerStep == ASSUME AttInv, Att!ReceiveAnswer PROVE AttInv'
<1> DEFINE r == requests[1]  op == toPeer[1].op  q == Tail(requests)  n == Settled(localMtu)
           result == IF op = "answer" /\ ~r.prepareError THEN "ok" ELSE "error"
<1>1. /\ Att!Receive /\ Head(toPeer).op \in {"answer", "error"} /\ Head(requests).packet.op # "prepare"
      /\ IF Head(requests).packet.op = "mtu" /\ Head(toPeer).op = "answer"
           THEN mtu' = Att!Min(IF exchanged THEN mtu ELSE MaxMtu, GuestMtu) /\ exchanged' = TRUE
           ELSE UNCHANGED <<mtu, exchanged>>
      /\ Att!Complete(IF Head(toPeer).op = "answer" /\ ~Head(requests).prepareError THEN "ok" ELSE "error")
      /\ UNCHANGED <<securing, encrypted, localMtu>>
  BY DEF Att!ReceiveAnswer, Att!Packet, Att!Front
<1>2. /\ toPeer # <<>> /\ Head(toPeer) = toPeer[1] /\ toPeer' = Tail(toPeer) /\ Tail(toPeer) \in Seq(Replies)
      /\ requests \in Seq(Requests) /\ toGuest \in Seq(Pdus) /\ UNCHANGED <<connected, server, stored, made>>
  BY <1>1, Received
<1>3. /\ ~securing /\ requests # <<>> /\ r \in Requests /\ toPeer[1].of = r.packet /\ Shaped(r)
      /\ After(r, op, server.prepared) /\ NoneAsked(toGuest) /\ NoneTold(Tail(toPeer))
  BY <1>1, <1>2, Told DEF Answers
<1>4. Head(requests) = r /\ op \in {"answer", "error"} /\ r.packet.op # "prepare"
  BY <1>1, <1>2, <1>3, TailIs
<1>5. result \in Results /\ result \in {"no", "ok", "error", "refused", "closed"}
  BY DEF Results
<1>6. done' = [done EXCEPT ![r.id] = result] /\ Att!SendNext(q, FALSE, securing)
  BY <1>1, <1>2, <1>4 DEF Att!Complete, Att!Front
<1> HIDE DEF result
<1>7. server.prepared = <<>>
  BY <1>3, <1>4 DEF After
<1>8. /\ Queue(requests, made) /\ Owed(requests, made, done) /\ done \in [RequestIds -> {"no", "ok", "error", "refused", "closed"}]
      /\ securing \in BOOLEAN /\ exchanged \in BOOLEAN
  BY DEF AttInv, QueueInv, AttTypes
<1>9. done' \in [RequestIds -> {"no", "ok", "error", "refused", "closed"}]
  BY <1>5, <1>6, <1>8
<1>10. /\ Queue(q, made) /\ Owed(q, made, done') /\ (q # <<>> => Shaped(q[1]) /\ Unsent(q[1]))
  BY <1>2, <1>3, <1>5, <1>6, <1>8, QueueTail
<1>11. /\ q \in Seq(Requests) /\ DOMAIN q = 1..Len(requests) - 1 /\ (q # <<>> => q[1] \in Requests)
       /\ \A k \in DOMAIN q : k + 1 \in DOMAIN requests /\ q[k] = requests[k + 1] /\ requests[k + 1] \in Requests
  <2>1. /\ Len(requests) \in Nat /\ q \in Seq(Requests) /\ DOMAIN q = 1..Len(requests) - 1 /\ DOMAIN requests = 1..Len(requests)
        /\ \A i \in 1..Len(requests) - 1 : q[i] = requests[i + 1]
    BY <1>2, <1>3, TailIs
  <2>2. q # <<>> => q[1] \in Requests
    BY <2>1, TailIs
  <2>3. \A k \in 1..Len(requests) - 1 : k + 1 \in 1..Len(requests)
    BY <2>1
  <2> QED
    BY <1>2, <2>1, <2>2, <2>3
<1>12. /\ server.mtu \in Nat /\ mtu \in Nat /\ localMtu \in {DefaultMtu, MaxMtu} /\ n \in Nat /\ DefaultMtu \in Nat
       /\ server.mtu <= n /\ mtu <= n /\ DefaultMtu <= server.mtu
  BY AttNow
<1>13. /\ Mtus(server.mtu, mtu, localMtu, exchanged) /\ Sized(requests, mtu, localMtu)
       /\ Towards(toGuest, server.mtu, mtu, localMtu, exchanged)
       /\ (Raises(toPeer[1]) => localMtu = MaxMtu /\ server.mtu = n)
       /\ (~Raises(toPeer[1]) => Back(Tail(toPeer), server.mtu, mtu, localMtu)) /\ Back(Tail(toPeer), server.mtu, n, localMtu)
  BY <1>1, Received
<1>14. Raises(toPeer[1]) <=> r.packet.op = "mtu" /\ op = "answer"
  BY <1>3 DEF Raises
<1>15. /\ mtu' \in Nat /\ mtu' <= n /\ mtu <= mtu' /\ exchanged' \in BOOLEAN
       /\ Mtus(server.mtu, mtu', localMtu, exchanged') /\ Towards(toGuest, server.mtu, mtu', localMtu, exchanged')
       /\ Back(Tail(toPeer), server.mtu, mtu', localMtu)
  <2>1. CASE Raises(toPeer[1])
    <3>1. localMtu = MaxMtu /\ server.mtu = n
      BY <1>13, <2>1
    <3>2. mtu' = Att!Min(IF exchanged THEN mtu ELSE MaxMtu, GuestMtu) /\ exchanged' = TRUE
      BY <1>1, <1>2, <1>4, <1>14, <2>1
    <3>3. n <= GuestMtu /\ GuestMtu \in Nat /\ MaxMtu \in Nat /\ n = Att!Min(MaxMtu, GuestMtu)
      BY <3>1, AttFacts DEF Settled
    <3>4. exchanged => mtu = n
      BY <1>13 DEF Mtus
    <3> HIDE DEF n
    <3>5. mtu' = n
      BY <1>12, <3>2, <3>3, <3>4 DEF Att!Min
    <3>6. n <= n
      BY <1>12
    <3>7. Towards(toGuest, n, n, localMtu, TRUE)
      BY <1>13, <3>1, <3>6, TowardsRaised DEF n
    <3>8. Mtus(n, n, localMtu, TRUE)
      BY <1>12, <3>1, <3>6 DEF Mtus, n
    <3> QED
      BY <1>12, <1>13, <3>1, <3>2, <3>5, <3>6, <3>7, <3>8
  <2>2. CASE ~Raises(toPeer[1])
    <3>1. mtu' = mtu /\ exchanged' = exchanged
      BY <1>1, <1>2, <1>4, <1>14, <2>2
    <3> QED
      BY <1>8, <1>12, <1>13, <2>2, <3>1
  <2> QED
    BY <2>1, <2>2
<1>16. Sized(q, mtu', localMtu)
  <2>1. \A k \in DOMAIN q : requests[k + 1].packet.size \in Nat
    BY <1>11 DEF Requests, Pdus
  <2>2. \A k \in DOMAIN q : requests[k + 1].packet.size <= mtu /\ (requests[k + 1].packet.op = "mtu" => localMtu = MaxMtu)
    BY <1>11, <1>13 DEF Sized
  <2> QED
    BY <1>11, <1>12, <1>15, <2>1, <2>2 DEF Sized
<1> HIDE DEF q, n
<1>17. /\ requests' = q /\ busy' \in BOOLEAN /\ toGuest' \in Seq(Pdus) /\ Towards(toGuest', server.mtu, mtu', localMtu, exchanged')
       /\ Transaction(q, busy', securing, encrypted, toGuest', Tail(toPeer), server.prepared)
  <2>1. \A k \in DOMAIN q : Shaped(q[k])
    BY <1>10 DEF Queue
  <2>2. IF q = <<>> THEN server.prepared = <<>> ELSE Before(q[1], server.prepared)
    BY <1>7, <1>10, <1>11, UnsentBefore
  <2>3. server.mtu <= Settled(localMtu) /\ mtu' <= Settled(localMtu)
    BY <1>12, <1>15 DEF n
  <2>4. ASSUME NEW tp, NoneTold(tp)
        PROVE  /\ requests' = q /\ busy' \in BOOLEAN /\ toGuest' \in Seq(Pdus) /\ Towards(toGuest', server.mtu, mtu', localMtu, exchanged')
               /\ Transaction(q, busy', securing, encrypted, toGuest', tp, server.prepared)
    <3>1. /\ toGuest \in Seq(Pdus) /\ q \in Seq(Requests) /\ NoneAsked(toGuest) /\ Towards(toGuest, server.mtu, mtu', localMtu, exchanged')
          /\ securing \in BOOLEAN /\ server.mtu \in Nat /\ mtu' \in Nat /\ localMtu \in {DefaultMtu, MaxMtu} /\ Att!SendNext(q, FALSE, securing)
      BY <1>2, <1>3, <1>6, <1>8, <1>11, <1>12, <1>15
    <3> QED
      BY ONLY <3>1, <1>16, <2>1, <2>2, <2>3, <2>4, Sent
  <2> QED
    BY <1>3, <2>4
<1>18. AttTypes'
  BY <1>1, <1>2, <1>9, <1>11, <1>15, <1>17 DEF AttInv, AttTypes
<1>19. MtuInv'
  BY <1>1, <1>2, <1>15, <1>16, <1>17 DEF MtuInv
<1>20. QueueInv' /\ StoredInv'
  BY <1>1, <1>2, <1>10, <1>17 DEF AttInv, QueueInv, StoredInv
<1>21. TransactionInv'
  BY <1>1, <1>2, <1>17 DEF TransactionInv
<1> QED
  BY <1>18, <1>19, <1>20, <1>21 DEF AttInv

LEMMA ReadyStep == ASSUME AttInv, Att!SecurityReady PROVE AttInv'
<1>1. /\ securing /\ securing' = FALSE /\ encrypted' = TRUE /\ Att!SendNext(requests, busy, FALSE)
      /\ UNCHANGED <<connected, mtu, localMtu, exchanged, toPeer, server, stored, made, done>>
  BY DEF Att!SecurityReady
<1>2. /\ requests \in Seq(Requests) /\ toGuest \in Seq(Pdus) /\ busy \in BOOLEAN /\ Queue(requests, made)
      /\ Sized(requests, mtu, localMtu) /\ Towards(toGuest, server.mtu, mtu, localMtu, exchanged)
  BY DEF AttInv, AttTypes, QueueInv, MtuInv
<1>3. ~busy /\ NoneAsked(toGuest) /\ NoneTold(toPeer) /\ Waiting(requests, securing, server.prepared)
  BY <1>1 DEF AttInv, TransactionInv, Transaction
<1>4. IF requests = <<>> THEN server.prepared = <<>> ELSE Before(requests[1], server.prepared)
  BY <1>3 DEF Waiting
<1>5. \A k \in DOMAIN requests : Shaped(requests[k])
  BY <1>2 DEF Queue
<1>6. Att!SendNext(requests, FALSE, FALSE) /\ FALSE \in BOOLEAN
  BY <1>1, <1>2, <1>3
<1>7. /\ server.mtu \in Nat /\ mtu \in Nat /\ localMtu \in {DefaultMtu, MaxMtu}
      /\ server.mtu <= Settled(localMtu) /\ mtu <= Settled(localMtu)
  BY AttNow
<1>8. /\ requests' = requests /\ busy' \in BOOLEAN /\ toGuest' \in Seq(Pdus) /\ Towards(toGuest', server.mtu, mtu, localMtu, exchanged)
      /\ Transaction(requests, busy', FALSE, TRUE, toGuest', toPeer, server.prepared)
  BY ONLY <1>2, <1>3, <1>4, <1>5, <1>6, <1>7, Sent
<1>9. AttTypes'
  BY <1>1, <1>8 DEF AttInv, AttTypes
<1>10. MtuInv'
  BY <1>1, <1>2, <1>8 DEF AttInv, MtuInv
<1>11. QueueInv' /\ StoredInv'
  BY <1>1, <1>8 DEF AttInv, QueueInv, StoredInv
<1>12. TransactionInv'
  BY <1>1, <1>8 DEF TransactionInv
<1> QED
  BY <1>9, <1>10, <1>11, <1>12 DEF AttInv

-----------------------------------------------------------------------------
(* The end of a link, and the whole.                                       *)

LEMMA NothingHeld ==
  ASSUME requests' = <<>>, busy' = FALSE, toGuest' = <<>>, toPeer' = <<>>, server' = Att!NoGuest,
         mtu' = DefaultMtu, localMtu' = DefaultMtu, exchanged' = FALSE
  PROVE  MtuInv' /\ TransactionInv' /\ server' \in Servers
<1>1. server'.mtu = DefaultMtu /\ server'.prepared = <<>> /\ server' \in Servers
  BY AttFacts DEF Att!NoGuest, Servers
<1>2. DefaultMtu \in Nat /\ DefaultMtu <= DefaultMtu /\ DefaultMtu <= Settled(DefaultMtu) /\ DefaultMtu \in {DefaultMtu, MaxMtu}
  BY AttFacts
<1>3. DOMAIN <<>> = {}
  OBVIOUS
<1>4. Mtus(DefaultMtu, DefaultMtu, DefaultMtu, FALSE)
  BY <1>2 DEF Mtus
<1>5. Towards(<<>>, DefaultMtu, DefaultMtu, DefaultMtu, FALSE) /\ Back(<<>>, DefaultMtu, DefaultMtu, DefaultMtu)
  BY <1>2, <1>3 DEF Towards, Back, FitsGuest, FitsPeer
<1>6. Sized(<<>>, DefaultMtu, DefaultMtu)
  BY <1>3 DEF Sized
<1>7. MtuInv'
  BY <1>1, <1>4, <1>5, <1>6 DEF MtuInv
<1>8. NoneAsked(<<>>) /\ NoneTold(<<>>) /\ \A sec : Waiting(<<>>, sec, <<>>)
  BY <1>3 DEF NoneAsked, NoneTold, Waiting
<1>9. TransactionInv'
  BY <1>1, <1>8 DEF TransactionInv, Transaction
<1> QED
  BY <1>1, <1>7, <1>9

LEMMA ClearStep == ASSUME AttInv, Att!ClearLink PROVE AttInv'
<1>1. /\ connected' = FALSE /\ requests' = <<>> /\ busy' = FALSE /\ securing' = FALSE /\ encrypted' = FALSE
      /\ mtu' = DefaultMtu /\ localMtu' = DefaultMtu /\ exchanged' = FALSE
      /\ toGuest' = <<>> /\ toPeer' = <<>> /\ server' = Att!NoGuest /\ UNCHANGED <<stored, made>>
      /\ done' = [i \in RequestIds |-> IF \E k \in DOMAIN requests : requests[k].id = i THEN "closed" ELSE done[i]]
  BY DEF Att!ClearLink
<1>2. MtuInv' /\ TransactionInv' /\ server' \in Servers
  BY <1>1, NothingHeld
<1>3. done \in [RequestIds -> {"no", "ok", "error", "refused", "closed"}] /\ Owed(requests, made, done) /\ Queue(requests, made)
      /\ requests \in Seq(Requests)
  BY DEF AttInv, AttTypes, QueueInv
<1>4. done' \in [RequestIds -> {"no", "ok", "error", "refused", "closed"}]
  BY <1>1, <1>3
<1>5. <<>> \in Seq(Requests) /\ <<>> \in Seq(Pdus) /\ <<>> \in Seq(Replies) /\ DOMAIN <<>> = {} /\ Len(<<>>) = 0
  OBVIOUS
<1>6. AttTypes'
  BY <1>1, <1>2, <1>4, <1>5 DEF AttInv, AttTypes
<1>7. Queue(<<>>, made)
  BY <1>5, AttFacts DEF Queue
<1>8. \A k \in DOMAIN requests : made[requests[k].id] # -1
  <2>1. \A k \in DOMAIN requests : requests[k] \in Requests
    BY <1>3
  <2>2. \A k \in DOMAIN requests : requests[k].value \in Nat
    BY <2>1 DEF Requests
  <2> QED
    BY <1>3, <2>2 DEF Queue
<1>9. Owed(<<>>, made, done')
  <2> SUFFICES ASSUME NEW i \in RequestIds
               PROVE  (made[i] = -1 => done'[i] = "no") /\ (made[i] # -1 => done'[i] # "no")
    BY <1>5 DEF Owed
  <2>1. CASE \E k \in DOMAIN requests : requests[k].id = i
    BY <1>1, <1>8, <2>1
  <2>2. CASE ~ \E k \in DOMAIN requests : requests[k].id = i
    BY <1>1, <1>3, <2>2 DEF Owed
  <2> QED
    BY <2>1, <2>2
<1>10. QueueInv' /\ StoredInv'
  BY <1>1, <1>7, <1>9 DEF AttInv, QueueInv, StoredInv
<1> QED
  BY <1>2, <1>6, <1>10 DEF AttInv

LEMMA InitAtt == Att!Init => AttInv
<1> SUFFICES ASSUME Att!Init PROVE AttInv
  OBVIOUS
<1>1. /\ connected = TRUE /\ requests = <<>> /\ busy = FALSE /\ securing = FALSE /\ encrypted = FALSE
      /\ mtu = DefaultMtu /\ localMtu = DefaultMtu /\ exchanged = FALSE
      /\ toGuest = <<>> /\ toPeer = <<>> /\ server = Att!NoGuest /\ stored = <<>>
      /\ made = [i \in RequestIds |-> -1] /\ done = [i \in RequestIds |-> "no"]
  BY DEF Att!Init, Att!Unmade
<1>2. server.mtu = DefaultMtu /\ server.prepared = <<>> /\ server \in Servers
  BY <1>1, AttFacts DEF Att!NoGuest, Servers
<1>3. DefaultMtu \in Nat /\ DefaultMtu <= DefaultMtu /\ DefaultMtu <= Settled(DefaultMtu) /\ DefaultMtu \in {DefaultMtu, MaxMtu}
  BY AttFacts
<1>4. <<>> \in Seq(Requests) /\ <<>> \in Seq(Pdus) /\ <<>> \in Seq(Replies) /\ DOMAIN <<>> = {} /\ Len(<<>>) = 0
  OBVIOUS
<1>5. Mtus(DefaultMtu, DefaultMtu, DefaultMtu, FALSE)
  BY <1>3 DEF Mtus
<1>6. Towards(<<>>, DefaultMtu, DefaultMtu, DefaultMtu, FALSE) /\ Back(<<>>, DefaultMtu, DefaultMtu, DefaultMtu)
  BY <1>3, <1>4 DEF Towards, Back, FitsGuest, FitsPeer
<1>7. MtuInv
  BY <1>1, <1>2, <1>4, <1>5, <1>6 DEF MtuInv, Sized
<1>8. TransactionInv
  BY <1>1, <1>2, <1>4 DEF TransactionInv, Transaction, NoneAsked, NoneTold, Waiting
<1>9. QueueInv
  BY <1>1, <1>4, AttFacts DEF QueueInv, Queue, Owed
<1>10. AttTypes
  BY <1>1, <1>2, <1>4 DEF AttTypes
<1> QED
  BY <1>1, <1>7, <1>8, <1>9, <1>10 DEF AttInv, StoredInv, WholeValue

LEMMA AttStep == AttInv /\ [Att!Next]_(Att!vars) => AttInv'
<1> SUFFICES ASSUME AttInv, [Att!Next]_(Att!vars) PROVE AttInv'
  OBVIOUS
<1>1. ASSUME UNCHANGED Att!vars PROVE AttInv'
  BY <1>1 DEF Att!vars, AttInv, AttTypes, MtuInv, QueueInv, TransactionInv, StoredInv, Queue, Owed, Sized
<1>2. ASSUME NEW id \in RequestIds, Att!Read(id) PROVE AttInv'
  BY <1>2, ReadStep
<1>3. ASSUME NEW id \in RequestIds, NEW size \in ValueSizes, Att!Write(id, size) PROVE AttInv'
  BY <1>3, WriteStep
<1>4. ASSUME NEW id \in RequestIds, Att!ExchangeMtu(id) PROVE AttInv'
  BY <1>4, ExchangeStep
<1>5. ASSUME Att!TimesOut \/ Att!Disconnected PROVE AttInv'
  BY <1>5, ClearStep DEF Att!TimesOut, Att!Disconnected
<1> QED
  BY <1>1, <1>2, <1>3, <1>4, <1>5, ServesStep, GarblesStep, RefusesStep, DemandsStep, AnsweredStep, GuestExchangesStep, NotifiesStep,
     ValueStep, HeardMtuStep, InsecureStep, PreparedStep, AnswerStep, ReadyStep DEF Att!Next

LEMMA OneAsked ==
  ASSUME NEW s \in Seq(Pdus)
  PROVE  /\ \A p : AskedOf(s, p) => Cardinality({i \in DOMAIN s : s[i].op # "answered"}) = 1
         /\ NoneAsked(s) => Cardinality({i \in DOMAIN s : s[i].op # "answered"}) = 0
<1>1. ASSUME NEW p, AskedOf(s, p) PROVE Cardinality({i \in DOMAIN s : s[i].op # "answered"}) = 1
  <2>1. PICK i \in DOMAIN s : s[i] = p /\ \A j \in DOMAIN s : j # i => s[j].op = "answered"
    BY <1>1 DEF AskedOf
  <2>2. {j \in DOMAIN s : s[j].op # "answered"} = {i}
    BY <1>1, <2>1 DEF AskedOf
  <2> QED
    BY <2>2, FS_Singleton
<1>2. ASSUME NoneAsked(s) PROVE Cardinality({i \in DOMAIN s : s[i].op # "answered"}) = 0
  <2>1. {j \in DOMAIN s : s[j].op # "answered"} = {}
    BY <1>2 DEF NoneAsked
  <2> QED
    BY <2>1, FS_EmptySet
<1> QED
  BY <1>1, <1>2

LEMMA OneTold ==
  ASSUME NEW s \in Seq(Replies)
  PROVE  /\ \A m : ToldOf(s, m) => Cardinality({i \in DOMAIN s : s[i].op \in Answers}) = 1
         /\ NoneTold(s) => Cardinality({i \in DOMAIN s : s[i].op \in Answers}) = 0
<1>1. ASSUME NEW m, ToldOf(s, m) PROVE Cardinality({i \in DOMAIN s : s[i].op \in Answers}) = 1
  <2>1. PICK i \in DOMAIN s : s[i] = m /\ \A j \in DOMAIN s : j # i => s[j].op \notin Answers
    BY <1>1 DEF ToldOf
  <2>2. {j \in DOMAIN s : s[j].op \in Answers} = {i}
    BY <1>1, <2>1 DEF ToldOf
  <2> QED
    BY <2>2, FS_Singleton
<1>2. ASSUME NoneTold(s) PROVE Cardinality({i \in DOMAIN s : s[i].op \in Answers}) = 0
  <2>1. {j \in DOMAIN s : s[j].op \in Answers} = {}
    BY <1>2 DEF NoneTold
  <2> QED
    BY <2>1, FS_EmptySet
<1> QED
  BY <1>1, <1>2

LEMMA SameCount == \A S : Att!Cardinality(S) = Cardinality(S)
BY DEF Att!Cardinality, Cardinality, Att!IsFiniteSet, IsFiniteSet

LEMMA AttSafe == AttInv => AttSafety
<1> SUFFICES ASSUME AttInv PROVE AttSafety
  OBVIOUS
<1>1. /\ requests \in Seq(Requests) /\ toGuest \in Seq(Pdus) /\ toPeer \in Seq(Replies) /\ busy \in BOOLEAN /\ stored \in Seq(Pdus)
      /\ Queue(requests, made) /\ Owed(requests, made, done)
  BY DEF AttInv, AttTypes, QueueInv
<1>2. Att!TypeOK
  <2>1. mtu \in Nat /\ DefaultMtu <= mtu /\ mtu <= MaxMtu /\ DefaultMtu \in Nat /\ MaxMtu \in Nat
    BY AttNow, AttFacts
  <2>2. mtu \in DefaultMtu..MaxMtu
    BY <2>1
  <2>3. /\ connected \in BOOLEAN /\ busy \in BOOLEAN /\ securing \in BOOLEAN /\ encrypted \in BOOLEAN /\ exchanged \in BOOLEAN
        /\ done \in [RequestIds -> {"no", "ok", "error", "refused", "closed"}] /\ made \in [RequestIds -> {-1, 0} \cup ValueSizes]
    BY DEF AttInv, AttTypes
  <2>4. localMtu \in {DefaultMtu, MaxMtu} /\ Len(requests) <= MaxPendingRequests
    BY <1>1, AttNow DEF Queue
  <2>5. made \in [RequestIds -> {Att!Unmade, 0} \cup ValueSizes]
    BY <2>3 DEF Att!Unmade
  <2> QED
    BY <2>2, <2>3, <2>4, <2>5 DEF Att!TypeOK
<1>3. Att!OneTransaction
  <2> DEFINE a == Cardinality({i \in DOMAIN toGuest : toGuest[i].op # "answered"})
             b == Cardinality({i \in DOMAIN toPeer : toPeer[i].op \in Answers})
  <2>1. Att!InFlight = a + b
    BY SameCount DEF Att!InFlight, Answers
  <2>2. CASE busy
    <3>1. AtGuest(requests[1], toGuest, toPeer, server.prepared) \/ AtPeer(requests[1], toGuest, toPeer, server.prepared, encrypted)
      BY <2>2 DEF AttInv, TransactionInv, Transaction
    <3>2. CASE AtGuest(requests[1], toGuest, toPeer, server.prepared)
      <4>1. a = 1 /\ b = 0
        BY <1>1, <3>2, OneAsked, OneTold DEF AtGuest
      <4> HIDE DEF a, b
      <4> QED
        BY <2>1, <2>2, <4>1 DEF Att!OneTransaction
    <3>3. CASE AtPeer(requests[1], toGuest, toPeer, server.prepared, encrypted)
      <4>1. a = 0 /\ b = 1
        BY <1>1, <3>3, OneAsked, OneTold DEF AtPeer
      <4> HIDE DEF a, b
      <4> QED
        BY <2>1, <2>2, <4>1 DEF Att!OneTransaction
    <3> QED
      BY <3>1, <3>2, <3>3
  <2>3. CASE ~busy
    <3>1. a = 0 /\ b = 0
      BY <1>1, <2>3, OneAsked, OneTold DEF AttInv, TransactionInv, Transaction
    <3> HIDE DEF a, b
    <3> QED
      BY <2>1, <2>3, <3>1 DEF Att!OneTransaction
  <2> QED
    BY <2>2, <2>3
<1>4. Att!WritesWhole
  <2>1. CASE stored = <<>>
    BY <2>1 DEF Att!WritesWhole
  <2>2. CASE stored # <<>>
    <3>1. Covers(stored, stored[1].id, made[stored[1].id])
      BY <2>2 DEF AttInv, StoredInv, WholeValue
    <3> QED
      BY <2>2, <3>1 DEF Att!WritesWhole, Covers, OfOne, Joined, End
  <2> QED
    BY <2>1, <2>2
<1>5. Att!PreparedOwned
  <2> SUFFICES ASSUME server.prepared # <<>>
               PROVE  requests # <<>> /\ Head(requests).long /\ \A i \in DOMAIN server.prepared : server.prepared[i].id = Head(requests).id
    BY DEF Att!PreparedOwned, Att!Front
  <2>1. ASSUME NEW r \in Requests, Shaped(r), Before(r, server.prepared) PROVE r.long /\ OfOne(server.prepared, r.id)
    BY <2>1 DEF Before, Covers, Shaped, Requests
  <2>2. requests # <<>>
    BY DEF AttInv, TransactionInv, Transaction, Waiting
  <2>3. requests[1] \in Requests /\ Head(requests) = requests[1] /\ 1 \in DOMAIN requests
    BY <1>1, <2>2, TailIs
  <2>4. Shaped(requests[1])
    BY <1>1, <2>3 DEF Queue
  <2>5. ASSUME NEW op, After(requests[1], op, server.prepared) PROVE requests[1].long /\ OfOne(server.prepared, requests[1].id)
    <3>1. CASE op = "insecure"
      BY <2>1, <2>3, <2>4, <2>5, <3>1 DEF After
    <3>2. CASE op # "insecure"
      <4>1. requests[1].packet.op = "prepare"
        BY <2>5, <3>2 DEF After
      <4> QED
        BY <2>3, <2>4, <2>5, <3>2, <4>1 DEF After, Covers, Shaped, Requests
    <3> QED
      BY <3>1, <3>2
  <2>6. requests[1].long /\ OfOne(server.prepared, requests[1].id)
    <3>1. CASE busy
      <4>1. Before(requests[1], server.prepared) \/ \E op : After(requests[1], op, server.prepared)
        BY <3>1 DEF AttInv, TransactionInv, Transaction, AtGuest, AtPeer
      <4> QED
        BY <2>1, <2>3, <2>4, <2>5, <4>1
    <3>2. CASE ~busy
      BY <2>1, <2>2, <2>3, <2>4, <3>2 DEF AttInv, TransactionInv, Transaction, Waiting
    <3> QED
      BY <3>1, <3>2
  <2> QED
    BY <2>2, <2>3, <2>6 DEF OfOne
<1>6. Att!PduFits
  <2>1. Towards(toGuest, server.mtu, mtu, localMtu, exchanged) /\ Back(toPeer, server.mtu, mtu, localMtu)
    BY DEF AttInv, MtuInv
  <2>2. toGuest # <<>> => Head(toGuest).size <= server.mtu
    BY <1>1, <2>1, AttNow, TowardsTail, TailIs
  <2>3. toPeer # <<>> => Head(toPeer).size <= mtu
    BY <1>1, <2>1, AttNow, BackTail, TailIs
  <2> QED
    BY <2>2, <2>3 DEF Att!PduFits, Att!Packet
<1>7. Att!Accounted
  BY <1>1 DEF Owed, Att!Accounted, Att!Unmade
<1> QED
  BY <1>2, <1>3, <1>4, <1>5, <1>6, <1>7 DEF AttSafety, Att!AttSafety

(* At most one request of the client is under way, and while one is, exactly  *)
(* one PDU of it is; the guest applies a value whole; what it has prepared    *)
(* belongs to the write in front; no PDU is longer than its reader's MTU,     *)
(* however the two exchanges cross; every request is waiting or completed.    *)
THEOREM RequestsCorrect == Att!Spec => []AttSafety
<1>1. Att!Init => AttInv
  BY InitAtt
<1>2. AttInv /\ [Att!Next]_(Att!vars) => AttInv'
  BY AttStep
<1>3. AttInv => AttSafety
  BY AttSafe
<1> QED
  BY <1>1, <1>2, <1>3, PTL DEF Att!Spec

-----------------------------------------------------------------------------
(* QEMU's process and its console: what is proved of it in QemuProcessProofs, *)
(* under Frontend's names.                                                    *)
Child == INSTANCE QemuProcessProofs

(* What a child wrote has been printed once and in order, but for the LED     *)
(* reports, when its output is closed, wherever the reads, the pipe and the   *)
(* limit on a line's length cut it.                                           *)
THEOREM ConsoleCorrect == Console!Spec => []OutputForwarded
<1>1. Child!ProcessAssumption
  BY FrontendAssumption DEF Child!ProcessAssumption, Console!ProcessAssumption
<1>2. Child!Spec => []Child!OutputForwarded
  BY <1>1, Child!OutputCorrect
<1>3. Child!Spec => []Child!TypeOK
  BY <1>1, Child!TypesCorrect
<1>4. Child!Init <=> Console!Init
  BY DEF Child!Init, Console!Init, Child!Children, Console!Children
<1>5. [Child!Next]_(Child!vars) <=> [Console!Next]_(Console!vars)
  BY DEF Child!Next, Console!Next, Child!vars, Console!vars, Child!process, Console!process, Child!output,
         Console!output, Child!Children, Console!Children, Child!Fds, Console!Fds, Child!Alive,
         Console!Alive, Child!isLedStateLine, Console!isLedStateLine, Child!forwardLine,
         Console!forwardLine, Child!Splitter, Console!Splitter, Child!Character, Console!Character,
         Child!HeldTooLong, Console!HeldTooLong, Child!Characters, Console!Characters, Child!Read,
         Console!Read, Child!drainOutput, Console!drainOutput, Child!Splits, Console!Splits,
         Child!ChildWrites, Console!ChildWrites, Child!Open, Console!Open, Child!StartFails,
         Console!StartFails, Child!Start, Console!Start, Child!ChildExits, Console!ChildExits, Child!Reap,
         Console!Reap, Child!Exited, Console!Exited, Child!Signalled, Console!Signalled, Child!StopBegins,
         Console!StopBegins, Child!StopPolls, Console!StopPolls, Child!StopKills, Console!StopKills,
         Child!StopReaps, Console!StopReaps, Child!StopCloses, Console!StopCloses
<1>6. Child!OutputForwarded <=> Console!OutputForwarded
  BY DEF Child!OutputForwarded, Console!OutputForwarded, Child!Kept, Console!Kept, Child!Reported,
         Console!Reported, Child!LineOf, Console!LineOf
<1>7. Child!TypeOK <=> Console!TypeOK
  BY DEF Child!TypeOK, Console!TypeOK, Child!Children, Console!Children, Child!Fds, Console!Fds
<1>8. Console!TypeOK /\ Console!OutputForwarded <=> OutputForwarded
  BY DEF OutputForwarded
<1> QED
  BY <1>2, <1>3, <1>4, <1>5, <1>6, <1>7, <1>8, PTL DEF Child!Spec, Console!Spec
=============================================================================
