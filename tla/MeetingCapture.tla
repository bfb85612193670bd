--------------------------- MODULE MeetingCapture ---------------------------
(***************************************************************************)
(* The life of a recording of meeting-capture: a recorder journals each    *)
(* audio file before it opens it, worker processes turn the files into an  *)
(* archive and a manifest and remove them, and after a crash of either     *)
(* another launch, or another instance, offers what is left for recovery.  *)
(* Recorder and workers exclude each other by a lock per recording that    *)
(* the system releases when its holder dies.                               *)
(*                                                                         *)
(* A recording has microphone segments and process tracks; what matters of *)
(* a file is whose audio it holds, if any.  Names are the base names, in   *)
(* the order of their suffixes.  The trigger of a recording (detection,    *)
(* countdown, timers) is any moment.                                       *)
(***************************************************************************)
EXTENDS Naturals, FiniteSets

CONSTANTS Instances,  \* of the application
          Segments,   \* microphone segments a recording may have
          Tracks,     \* process tracks a recording may have
          Names,      \* base names of recordings, as numbers
          None,
          Scenarios   \* bounds of everything that may happen, to choose from

Parts == Segments \cup Tracks

(* RecordingSession and its journal, a PCM file, a manifest. *)
SessionSet  == [name : Names, id : Nat, parts : SUBSET Parts, started : SUBSET Segments,
                live : SUBSET Parts, failed : BOOLEAN, aborted : BOOLEAN]
JournalSet  == [parts : SUBSET Parts, failed : BOOLEAN]
FileSet     == [of : Nat, audio : BOOLEAN]
ManifestSet == [archive : SUBSET [part : Parts, of : Nat], complete : BOOLEAN]

ASSUME CaptureAssumption ==
  /\ Segments \cap Tracks = {}
  /\ Names \subseteq Nat
  /\ None \notin Instances
  /\ None \notin SessionSet
  /\ None \notin JournalSet
  /\ None \notin FileSet
  /\ None \notin ManifestSet
  /\ Scenarios \subseteq [recordings : Nat, launches : Nat, recoveries : Nat,
                         crashes : Nat, faults : Nat]

VARIABLES
  app,      \* AppModel and CaptureCoordinator of each instance
  disk,     \* journal, audio files, archive and manifest of each name
  workers,  \* finalize and recover processes
  written,  \* history: the audio that reached a file
  cut,      \* history: names whose clean-up left a journal
  holder,   \* history: the instance that last captured or processed a name
  budget

vars == <<app, disk, workers, written, cut, holder, budget>>

Down == [state |-> "down", session |-> None, claimed |-> {}, offered |-> {},
         recovering |-> FALSE]

NoFiles == [journal |-> None, pcm |-> [p \in Parts |-> None], archive |-> {},
            manifest |-> None, unrecoverable |-> {}]

Init ==
  /\ app = [i \in Instances |-> Down]
  /\ disk = [n \in Names |-> NoFiles]
  /\ workers = {}
  /\ written = {}
  /\ cut = {}
  /\ holder = [n \in Names |-> None]
  /\ budget \in Scenarios

Spend(kind) == /\ budget[kind] > 0
               /\ budget' = [budget EXCEPT ![kind] = @ - 1]

(***************************************************************************)
(* Locks and discovery.                                                    *)
(***************************************************************************)
(* RecordingClaim: by a recorder until stop() returns, by a worker while it *)
(* works.                                                                  *)
Locked(apps, ws, n) ==
  \/ \E i \in Instances : apps[i].session # None /\ apps[i].session.name = n
  \/ \E w \in ws : w.name = n /\ w.step \notin {"spawned", "done"}

Interrupted(files) ==
  files.journal # None \/ \E p \in Parts : files.pcm[p] # None

(* recoverableFiles: what instance i finds, its own claims excluded. *)
Refreshed(i, apps, ws, files) ==
  [apps EXCEPT ![i].offered =
     {n \in Names \ apps[i].claimed :
        Interrupted(files[n]) /\ ~Locked(apps, ws, n)}]

(* paths: a name is taken by results and by audio files, also by those that *)
(* were marked unrecoverable, and not by a journal or a lock.              *)
Taken(files) ==
  \/ files.manifest # None
  \/ files.archive # {}
  \/ files.unrecoverable # {}
  \/ \E p \in Parts : files.pcm[p] # None

IsNextName(n) == /\ ~Taken(disk[n])
                 /\ \A m \in Names : m < n => Taken(disk[m])

(***************************************************************************)
(* The recorder.                                                           *)
(***************************************************************************)
Session(i) == app[i].session
Capturing(i) == app[i].state \in {"starting", "recording", "stopping", "draining"}

NewSession(n, id) ==
  [name |-> n, id |-> id, parts |-> {}, started |-> {}, live |-> {},
   failed |-> FALSE, aborted |-> FALSE]

(* save: the journal is replaced atomically by what is in memory. *)
Saved(s) ==
  [disk EXCEPT ![s.name].journal = [parts |-> s.parts, failed |-> s.failed]]

(* beginRecording and the claim of start. *)
Begin(i) ==
  /\ app[i].state = "idle"
  /\ Spend("recordings")
  /\ \E n \in Names :
       /\ IsNextName(n)
       /\ IF Locked(app, workers, n)
          THEN /\ app' = Refreshed(i, [app EXCEPT ![i].state = "error"], workers, disk)
               /\ UNCHANGED holder
          ELSE /\ app' = [app EXCEPT ![i].state = "starting",
                                     ![i].claimed = @ \cup {n},
                                     ![i].session = NewSession(n, budget.recordings)]
               /\ holder' = [holder EXCEPT ![n] = i]
  /\ UNCHANGED <<disk, workers, written, cut>>

(* A recording starts with one segment and restarts the microphone with    *)
(* others while nothing failed; tracks join once the microphone runs.      *)
MayOpen(i, p) ==
  /\ app[i].state \in {"starting", "recording"}
  /\ p \notin Session(i).parts
  /\ IF p \in Segments THEN app[i].state = "starting" => Session(i).parts = {}
                       ELSE Session(i).started # {}

(* Faulty variant: the journal is written after the file is opened. *)
OpenUnjournaled(i, p) ==
  /\ MayOpen(i, p)
  /\ LET s == Session(i)
     IN  app' = [app EXCEPT ![i].session =
                   [s EXCEPT !.parts = @ \cup {p},
                             !.started = @ \cup ({p} \cap Segments),
                             !.live = (IF p \in Segments THEN @ \ Segments ELSE @) \cup {p}]]
  /\ UNCHANGED <<disk, workers, written, cut, holder, budget>>

(* prepareMicrophoneSegment and start or restart of the microphone; or a   *)
(* process that captureOutputProcesses finds, and that may be gone again.  *)
Open(i, p) ==
  /\ MayOpen(i, p)
  /\ \E running \in {{p}, {p} \cap Segments} :
       LET s == Session(i)
           next == [s EXCEPT !.parts = @ \cup {p},
                             !.started = @ \cup ({p} \cap Segments),
                             !.live = (IF p \in Segments THEN @ \ Segments ELSE @) \cup running]
       IN  /\ app' = [app EXCEPT ![i].session = next]
           /\ disk' = Saved(next)
  /\ UNCHANGED <<workers, written, cut, holder, budget>>

(* One of its steps fails, before or after audio could arrive.  start then *)
(* stops what it began; a recording that runs is stopped by onFailure.     *)
OpenFails(i, p) ==
  /\ MayOpen(i, p)
  /\ ~Session(i).failed
  /\ Spend("faults")
  /\ \E running \in SUBSET {p}, saved \in BOOLEAN :
       LET s == Session(i)
           next == [s EXCEPT !.parts = @ \cup {p}, !.live = @ \cup running,
                             !.started = @ \cup (running \cap Segments),
                             !.failed = TRUE, !.aborted = app[i].state = "starting"]
       IN  /\ running = {} \/ saved
           /\ app' = [app EXCEPT ![i].session = next, ![i].state = "stopping"]
           /\ disk' = IF saved THEN Saved(next) ELSE disk
  /\ UNCHANGED <<workers, written, cut, holder>>

(* A finalization starts its process faster than somebody starts another    *)
(* recording, which takes its name if it left no file.                      *)
Starting(n) ==
  \E w \in workers : w.name = n /\ w.task = "finalize" /\ w.step = "spawned"

(* PCMFile.write: the first frames of a part create its file, over one of  *)
(* that name.                                                              *)
Write(i, p) ==
  /\ Capturing(i)
  /\ p \in Session(i).live
  /\ ~Starting(Session(i).name)
  /\ LET s == Session(i)
         file == disk[s.name].pcm[p]
     IN  IF file = None \/ (file # None /\ file.of # s.id)
         THEN /\ disk' = [disk EXCEPT ![s.name].pcm[p] = [of |-> s.id, audio |-> FALSE]]
              /\ UNCHANGED written
         ELSE /\ ~file.audio
              /\ disk' = [disk EXCEPT ![s.name].pcm[p].audio = TRUE]
              /\ written' = written \cup {[name |-> s.name, of |-> s.id, part |-> p]}
  /\ UNCHANGED <<app, workers, cut, holder, budget>>

(* recordFailure: only a recording that runs is stopped at once. *)
Fail(i) ==
  /\ Capturing(i)
  /\ ~Session(i).failed
  /\ Spend("faults")
  /\ LET next == [Session(i) EXCEPT !.failed = TRUE]
     IN  /\ app' = [app EXCEPT ![i].session = next,
                               ![i].state = IF @ = "recording" THEN "stopping" ELSE @]
         /\ disk' \in {disk, Saved(next)}
  /\ UNCHANGED <<workers, written, cut, holder>>

(* start returns, and a failure that arrived meanwhile stops the recording. *)
Started(i) ==
  /\ app[i].state = "starting"
  /\ Session(i).started # {}
  /\ disk' = Saved(Session(i))
  /\ app' = [app EXCEPT ![i].state = IF Session(i).failed THEN "stopping" ELSE "recording"]
  /\ UNCHANGED <<workers, written, cut, holder, budget>>

Stop(i) ==
  /\ app[i].state = "recording"
  /\ app' = [app EXCEPT ![i].state = "stopping"]
  /\ UNCHANGED <<disk, workers, written, cut, holder, budget>>

(* stop: the microphone stops at once and tells which segments it ran. *)
StopMicrophone(i) ==
  /\ app[i].state = "stopping"
  /\ app' = [app EXCEPT ![i].state = "draining",
                        ![i].session.parts = Session(i).started \cup (@ \cap Tracks),
                        ![i].session.live = @ \ Segments]
  /\ UNCHANGED <<disk, workers, written, cut, holder, budget>>

Worker(i, task, n, parts, failed) ==
  [by |-> i, task |-> task, name |-> n, parts |-> parts, failed |-> failed,
   left |-> {}, step |-> "spawned"]

(* stop, after the tracks are closed: tracks without a file are dropped,   *)
(* the journal is written for the last time, and the lock goes.            *)
FinishStop(i) ==
  /\ app[i].state = "draining"
  /\ LET s     == Session(i)
         n     == s.name
         final == [s EXCEPT !.parts = {p \in @ : p \in Tracks => disk[n].pcm[p] # None}]
         ended == [app EXCEPT ![i].session = None,
                              ![i].state = IF s.failed THEN "error" ELSE "idle"]
     IN  /\ disk' = IF final.parts = {} THEN [disk EXCEPT ![n].journal = None]
                                        ELSE Saved(final)
         /\ IF s.aborted
            THEN /\ app' = Refreshed(i, [ended EXCEPT ![i].claimed = @ \ {n}],
                                     workers, disk')
                 /\ UNCHANGED workers
            ELSE /\ app' = ended
                 /\ workers' = workers \cup
                      {Worker(i, "finalize", n, final.parts, final.failed)}
  /\ UNCHANGED <<written, cut, holder, budget>>

(* The last save fails. *)
StopFails(i) ==
  /\ app[i].state = "draining"
  /\ Spend("faults")
  /\ app' = Refreshed(i, [app EXCEPT ![i].session = None, ![i].state = "error",
                                     ![i].claimed = @ \ {Session(i).name}],
                      workers, disk)
  /\ UNCHANGED <<disk, workers, written, cut, holder>>

(***************************************************************************)
(* The workers.                                                            *)
(***************************************************************************)
Becomes(w, next) == workers' = (workers \ {w}) \cup {next}

(* The process ends; its application, if it lives, has yet to hear of it. *)
Ends(w) ==
  workers' = (workers \ {w}) \cup
    IF w.by = None THEN {}
    ELSE {[w EXCEPT !.parts = {}, !.left = {}, !.step = "done"]}

(* Faulty variant: the lock is not looked at. *)
ClaimUnlocked(w) ==
  /\ w.step = "spawned"
  /\ Becomes(w, [w EXCEPT !.step = IF w.task = "finalize" THEN "archive" ELSE "load"])
  /\ holder' = [holder EXCEPT ![w.name] = w.by]
  /\ UNCHANGED <<app, disk, written, cut, budget>>

Claim(w) ==
  /\ w.step = "spawned"
  /\ IF Locked(app, workers, w.name)
     THEN Ends(w) /\ UNCHANGED holder
     ELSE /\ Becomes(w, [w EXCEPT !.step = IF w.task = "finalize" THEN "archive" ELSE "load"])
          /\ holder' = [holder EXCEPT ![w.name] = w.by]
  /\ UNCHANGED <<app, disk, written, cut, budget>>

HasAudio(n, p) == disk[n].pcm[p] # None /\ disk[n].pcm[p].audio

(* Faulty variant: a recovered recording passes for a complete one. *)
LoadKeepingStatus(w) ==
  /\ w.step = "load"
  /\ LET n == w.name
         journal == disk[n].journal
         parts == {p \in journal.parts : disk[n].pcm[p] # None}
     IN  IF journal = None THEN Ends(w) /\ UNCHANGED disk
         ELSE IF \E p \in parts : HasAudio(n, p)
         THEN /\ disk' = [disk EXCEPT ![n].journal.parts = parts]
              /\ Becomes(w, [w EXCEPT !.parts = parts, !.failed = journal.failed,
                                      !.step = "archive"])
         ELSE Becomes(w, [w EXCEPT !.step = "quarantine"]) /\ UNCHANGED disk
  /\ UNCHANGED <<app, written, cut, holder, budget>>

(* recover: the journal without the files that are missing. *)
Load(w) ==
  /\ w.step = "load"
  /\ LET n == w.name
         journal == disk[n].journal
         parts == {p \in journal.parts : disk[n].pcm[p] # None}
     IN  IF journal = None THEN Ends(w) /\ UNCHANGED disk
         ELSE IF \E p \in parts : HasAudio(n, p)
         THEN /\ disk' = [disk EXCEPT ![n].journal = [parts |-> parts, failed |-> TRUE]]
              /\ Becomes(w, [w EXCEPT !.parts = parts, !.failed = TRUE, !.step = "archive"])
         ELSE Becomes(w, [w EXCEPT !.step = "quarantine"]) /\ UNCHANGED disk
  /\ UNCHANGED <<app, written, cut, holder, budget>>

(* Files without audio are renamed one by one, the journal last. *)
Quarantine(w) ==
  /\ w.step = "quarantine"
  /\ LET n == w.name
         files == {p \in Parts : disk[n].pcm[p] # None}
     IN  \/ \E p \in files :
              /\ disk' = [disk EXCEPT ![n].pcm[p] = None,
                                      ![n].unrecoverable = @ \cup {[file |-> disk[n].pcm[p], part |-> p]}]
              /\ UNCHANGED workers
         \/ /\ files = {}
            /\ disk' = [disk EXCEPT ![n].journal = None]
            /\ Ends(w)
  /\ UNCHANGED <<app, written, cut, holder, budget>>

(* createArchive: a part without a readable file fails, one without audio  *)
(* is left out, and the verified archive replaces the one there is.        *)
Archive(w) ==
  /\ w.step = "archive"
  /\ LET n == w.name
         audible == {p \in w.parts : HasAudio(n, p)}
     IN  IF audible = {} \/ \E p \in w.parts : disk[n].pcm[p] = None
         THEN Ends(w) /\ UNCHANGED disk
         ELSE /\ disk' = [disk EXCEPT ![n].archive =
                            {[part |-> p, of |-> disk[n].pcm[p].of] : p \in audible}]
              /\ Becomes(w, [w EXCEPT !.step = "manifest"])
  /\ UNCHANGED <<app, written, cut, holder, budget>>

(* Faulty variant: the manifest is written once, not after each archive. *)
WriteManifestOnce(w) ==
  /\ w.step = "manifest"
  /\ LET archive == disk[w.name].archive
     IN  disk' = [disk EXCEPT ![w.name].manifest =
                    IF @ # None THEN @
                    ELSE [archive |-> archive,
                          complete |-> ~w.failed /\ \E a \in archive : a.part \in Segments]]
  /\ Becomes(w, [w EXCEPT !.step = "delete", !.left = w.parts])
  /\ UNCHANGED <<app, written, cut, holder, budget>>

WriteManifest(w) ==
  /\ w.step = "manifest"
  /\ LET archive == disk[w.name].archive
     IN  disk' = [disk EXCEPT ![w.name].manifest =
                    [archive |-> archive,
                     complete |-> ~w.failed /\ \E a \in archive : a.part \in Segments]]
  /\ Becomes(w, [w EXCEPT !.step = "delete", !.left = w.parts])
  /\ UNCHANGED <<app, written, cut, holder, budget>>

(* Reading, encoding, or writing the journal or manifest fails. *)
WorkFails(w) ==
  /\ w.step \in {"load", "archive", "manifest"}
  /\ Spend("faults")
  /\ Ends(w)
  /\ UNCHANGED <<app, disk, written, cut, holder>>

(* finish removes the segments, then the tracks, then the journal, and     *)
(* goes on over a removal that fails.                                      *)
RemoveFile(w, p) ==
  /\ w.step = "delete"
  /\ p \in w.left
  /\ p \in Tracks => w.left \cap Segments = {}
  /\ Becomes(w, [w EXCEPT !.left = @ \ {p}])
  /\ \/ /\ disk' = [disk EXCEPT ![w.name].pcm[p] = None]
        /\ UNCHANGED budget
     \/ /\ Spend("faults")
        /\ UNCHANGED disk
  /\ UNCHANGED <<app, written, cut, holder>>

RemoveJournal(w) ==
  /\ w.step = "delete"
  /\ w.left = {}
  /\ \/ /\ disk' = [disk EXCEPT ![w.name].journal = None]
        /\ UNCHANGED <<cut, budget>>
     \/ /\ Spend("faults")
        /\ cut' = cut \cup {w.name}
        /\ UNCHANGED disk
  /\ Ends(w)
  /\ UNCHANGED <<app, written, holder>>

CrashWorker(w) ==
  /\ w.step # "done"
  /\ Spend("crashes")
  /\ cut' = IF w.step = "delete" THEN cut \cup {w.name} ELSE cut
  /\ Ends(w)
  /\ UNCHANGED <<app, disk, written, holder>>

(***************************************************************************)
(* The application around them.                                            *)
(***************************************************************************)
(* Faulty variant: the list of recoverable recordings is not read again. *)
AnswerSilently(w) ==
  /\ w.step = "done"
  /\ workers' = workers \ {w}
  /\ app' = [app EXCEPT ![w.by].claimed = @ \ {w.name},
                        ![w.by].recovering = @ /\ w.task # "recover"]
  /\ UNCHANGED <<disk, written, cut, holder, budget>>

(* finalizeInBackground and recoverInterruptedRecording go on when their   *)
(* worker ended, whichever way.                                            *)
Answer(w) ==
  /\ w.step = "done"
  /\ workers' = workers \ {w}
  /\ app' = Refreshed(w.by,
              [app EXCEPT ![w.by].claimed = @ \ {w.name},
                          ![w.by].recovering = @ /\ w.task # "recover"],
              workers', disk)
  /\ UNCHANGED <<disk, written, cut, holder, budget>>

Recover(i, n) ==
  /\ app[i].state \in {"idle", "error"}
  /\ ~app[i].recovering
  /\ n \in app[i].offered \ app[i].claimed
  /\ Spend("recoveries")
  /\ app' = [app EXCEPT ![i].recovering = TRUE, ![i].claimed = @ \cup {n}]
  /\ workers' = workers \cup {Worker(i, "recover", n, {}, FALSE)}
  /\ UNCHANGED <<disk, written, cut, holder>>

DismissError(i) ==
  /\ app[i].state = "error"
  /\ app' = [app EXCEPT ![i].state = "idle"]
  /\ UNCHANGED <<disk, workers, written, cut, holder, budget>>

(* The application quits or crashes; its workers go on. *)
Exit(i) ==
  /\ app[i].state # "down"
  /\ Spend("crashes")
  /\ app' = [app EXCEPT ![i] = Down]
  /\ workers' = {w \in workers : w.by # i} \cup
                {[w EXCEPT !.by = None] : w \in {v \in workers : v.by = i /\ v.step # "done"}}
  /\ holder' = [n \in Names |-> IF holder[n] = i THEN None ELSE holder[n]]
  /\ UNCHANGED <<disk, written, cut>>

Launch(i) ==
  /\ app[i].state = "down"
  /\ Spend("launches")
  /\ app' = Refreshed(i, [app EXCEPT ![i].state = "idle"], workers, disk)
  /\ UNCHANGED <<disk, workers, written, cut, holder>>

RecorderStep(i) ==
  \/ Begin(i) \/ Fail(i) \/ Started(i) \/ Stop(i)
  \/ StopMicrophone(i) \/ FinishStop(i) \/ StopFails(i)
  \/ \E p \in Parts : Open(i, p) \/ OpenFails(i, p) \/ Write(i, p)

WorkerStep(w) ==
  \/ Claim(w) \/ Load(w) \/ Quarantine(w) \/ Archive(w) \/ WriteManifest(w)
  \/ WorkFails(w) \/ RemoveJournal(w) \/ CrashWorker(w) \/ Answer(w)
  \/ \E p \in Parts : RemoveFile(w, p)

Next ==
  \/ \E i \in Instances : \/ RecorderStep(i) \/ DismissError(i) \/ Exit(i) \/ Launch(i)
                          \/ \E n \in Names : Recover(i, n)
  \/ \E w \in workers : WorkerStep(w)

Spec == Init /\ [][Next]_vars

(***************************************************************************)
(* Properties.                                                             *)
(***************************************************************************)
(* Types: a session exists while an instance captures, and its name is     *)
(* among the claims of the instance.                                       *)
AppSet ==
  [state : {"down", "idle", "error", "starting", "recording", "stopping", "draining"},
   session : SessionSet \cup {None}, claimed : SUBSET Names, offered : SUBSET Names,
   recovering : BOOLEAN]

NameSet ==
  [journal : JournalSet \cup {None}, pcm : [Parts -> FileSet \cup {None}],
   archive : SUBSET [part : Parts, of : Nat], manifest : ManifestSet \cup {None},
   unrecoverable : SUBSET [file : FileSet, part : Parts]]

WorkerSet ==
  [by : Instances \cup {None}, task : {"finalize", "recover"}, name : Names,
   parts : SUBSET Parts, failed : BOOLEAN, left : SUBSET Parts,
   step : {"spawned", "load", "quarantine", "archive", "manifest", "delete", "done"}]

IsConsistent(w) == /\ w.left \subseteq w.parts
                   /\ w.step # "delete" => w.left = {}
                   /\ w.step = "done" => w.by # None

TypeOK ==
  /\ app \in [Instances -> AppSet]
  /\ \A i \in Instances : /\ (Session(i) # None) <=> Capturing(i)
                          /\ Session(i) # None => Session(i).live \subseteq Session(i).parts
  /\ disk \in [Names -> NameSet]
  /\ workers \subseteq WorkerSet
  /\ \A w \in workers : IsConsistent(w)
  /\ written \subseteq [name : Names, of : Nat, part : Parts]
  /\ cut \subseteq Names
  /\ holder \in [Names -> Instances \cup {None}]
  /\ budget \in [recordings : Nat, launches : Nat, recoveries : Nat, crashes : Nat,
                 faults : Nat]

(* Audio that reached a file is in that file, in the archive or in a file  *)
(* marked unrecoverable.                                                   *)
Kept(a) ==
  LET files == disk[a.name]
  IN  \/ files.pcm[a.part] = [of |-> a.of, audio |-> TRUE]
      \/ [part |-> a.part, of |-> a.of] \in files.archive
      \/ [file |-> [of |-> a.of, audio |-> TRUE], part |-> a.part] \in files.unrecoverable

(* README of meeting-capture, lines 154 to 157: the archive is published,  *)
(* recorded in the manifest, and only then the audio files are deleted; a  *)
(* failed finalization leaves them for recovery.                           *)
AudioIsKept == \A a \in written : Kept(a)

(* Whatever crashes, fails, or is recovered by whom, audio is lost only    *)
(* where a clean-up was cut off before it removed the journal.             *)
OnlyCutCleanUpsLoseAudio == \A a \in written : Kept(a) \/ a.name \in cut

(* A manifest that says complete describes an archive with all the audio   *)
(* its recording had, although files get lost, segments and tracks come    *)
(* and go, and failures arrive while the recording starts or stops.  Once  *)
(* nothing is left to recover, the manifest describes the archive beside   *)
(* it, also if archives were made again after crashes in between.          *)
CompleteArchivesAreWhole ==
  \A n \in Names :
    disk[n].manifest # None /\ disk[n].manifest.complete =>
      \A a \in written :
        a.name = n => [part |-> a.part, of |-> a.of] \in disk[n].manifest.archive

SettledManifestsMatch ==
  \A n \in Names :
    disk[n].journal = None /\ disk[n].archive # {} =>
      disk[n].manifest # None /\ disk[n].manifest.archive = disk[n].archive

ManifestsTellTheTruth == CompleteArchivesAreWhole /\ SettledManifestsMatch

(* Audio that is not archived is in the journal, which recovery relies on  *)
(* to place it in time: no order of saving, opening, failing and crashing  *)
(* leaves an audio file without one.  What an instance captured or         *)
(* processed last, and did not finish, it offers for recovery unless it is *)
(* still at it.                                                            *)
AudioIsJournaled ==
  \A n \in Names : \A p \in Parts :
    HasAudio(n, p) /\ [part |-> p, of |-> disk[n].pcm[p].of] \notin disk[n].archive =>
      disk[n].journal # None /\ p \in disk[n].journal.parts

UnfinishedIsOffered ==
  \A n \in Names :
    LET i == holder[n]
    IN  i # None /\ Interrupted(disk[n]) =>
          \/ n \in app[i].offered
          \/ Session(i) # None /\ Session(i).name = n
          \/ \E w \in workers : w.by = i /\ w.name = n

AudioCanBeRecovered == AudioIsJournaled /\ UnfinishedIsOffered
=============================================================================
