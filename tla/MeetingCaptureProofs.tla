------------------------- MODULE MeetingCaptureProofs -------------------------
(***************************************************************************)
(* Proofs about MeetingCapture, for any instances, names, parts, crashes   *)
(* and faults.                                                             *)
(*                                                                         *)
(* The argument is made one name at a time: whoever touches the files of a *)
(* name holds its lock (Exclusive), and RecordingInv relates the files of  *)
(* one name to the audio that reached them, to the recorder that has the   *)
(* lock, and to the workers that have it or wait for it.                   *)
(***************************************************************************)
EXTENDS MeetingCapture, TLAPS

(* The files of a name, and what was heard of it. *)
Files(f)   == {p \in Parts : f.pcm[p] # None}
Audible(f) == {p \in Files(f) : f.pcm[p].audio}

InFile(f, a)          == f.pcm[a.part] = [of |-> a.of, audio |-> TRUE]
InArchive(archive, a) == [part |-> a.part, of |-> a.of] \in archive
Entry(f, p)           == [part |-> p, of |-> f.pcm[p].of]
Matches(f)            == f.manifest # None /\ f.manifest.archive = f.archive

Heard(n) == {a \in written : a.name = n}

Active(w)   == w.step \notin {"spawned", "done"}
Waits(w)    == w.task = "finalize" /\ w.step = "spawned"
Deletes(ws) == \E w \in ws : w.step = "delete"

(* The files of one name, c if a clean-up of it was cut off. *)
NameInv(f, heard, c, deleting) ==
  /\ f.journal # None => Files(f) \subseteq f.journal.parts
  /\ \A p \in Audible(f) : Entry(f, p) \in f.archive \/ f.journal # None
  /\ ~c /\ f.journal = None => \A a \in heard : InArchive(f.archive, a)
  /\ ~c /\ f.journal # None /\ ~deleting => \A a \in heard : InFile(f, a)
  /\ f.journal = None /\ f.archive # {} => Matches(f)
  /\ f.archive # {} /\ ~Matches(f) => Audible(f) # {}
  /\ c => f.archive # {}
  /\ f.manifest # None => f.archive # {}
  /\ f.manifest # None /\ f.manifest.complete =>
       \A a \in heard : InArchive(f.manifest.archive, a)

(* A recorder works on a name nobody used, and saves a part's name before  *)
(* it can have a file.                                                     *)
SessionInv(s, f, heard, ws) ==
  /\ f.archive = {} /\ f.manifest = None /\ f.unrecoverable = {}
  /\ Files(f) \subseteq s.parts
  /\ Files(f) \cap Segments \subseteq s.started
  /\ Files(f) # {} => f.journal # None /\ \A w \in ws : ~Waits(w)
  /\ \A p \in Files(f) : f.pcm[p].of = s.id
  /\ s.live \cap Segments \subseteq s.started
  /\ s.live # {} => f.journal # None /\ s.live \subseteq f.journal.parts
  /\ \A a \in heard : InFile(f, a)

(* A finalization that still finds all of its files finds all that was     *)
(* heard, although others may have recovered the recording before.         *)
Finalizes(w, f, heard) ==
  /\ Files(f) \subseteq w.parts
  /\ w.parts \subseteq Files(f) =>
       /\ \A a \in heard : InFile(f, a)
       /\ \A e \in f.archive : \E p \in Audible(f) : e = Entry(f, p)

WorkerInv(w, f, heard, c) ==
  /\ w.task = "finalize" /\ w.step \in {"spawned", "archive"} => Finalizes(w, f, heard)
  /\ w.task = "recover" /\ w.step = "archive" =>
       f.journal # None /\ Files(f) \subseteq w.parts
  /\ w.task = "recover" /\ w.step \in {"archive", "manifest", "delete"} => w.failed
  /\ w.step \in {"manifest", "delete"} =>
       /\ f.archive # {}
       /\ \A p \in Audible(f) : Entry(f, p) \in f.archive
       /\ w.task = "finalize" \/ ~c => \A a \in heard : InArchive(f.archive, a)
  /\ w.step = "delete" => Matches(f)
  /\ w.step = "quarantine" => Audible(f) = {} /\ (~c => heard = {})
  /\ w.step = "load" => w.task = "recover"

RecordingInv(f, heard, c, ss, ws) ==
  /\ NameInv(f, heard, c, Deletes(ws))
  /\ \A s \in ss : SessionInv(s, f, heard, ws)
  /\ \A w \in ws : WorkerInv(w, f, heard, c)

WorkersOf(n)  == {w \in workers : w.name = n}
OnName(i, n)  == Session(i) # None /\ Session(i).name = n
SessionsOn(n) == {Session(i) : i \in {j \in Instances : OnName(j, n)}}

RecordedOn(n) ==
  RecordingInv(disk[n], Heard(n), n \in cut, SessionsOn(n), WorkersOf(n))

Recordings == \A n \in Names : RecordedOn(n)

(* One recorder or worker at a time has a name, on behalf of its holder. *)
Exclusive ==
  /\ \A i, j \in Instances : \A n \in Names : OnName(i, n) /\ OnName(j, n) => i = j
  /\ \A i \in Instances : \A w \in workers : OnName(i, w.name) => ~Active(w)
  /\ \A v, w \in workers : v.name = w.name /\ Active(v) /\ Active(w) => v = w
  /\ \A i \in Instances : \A n \in Names : OnName(i, n) => holder[n] = i
  /\ \A w \in workers : Active(w) => holder[w.name] = w.by

(* An instance is busy with the names it claims. *)
Busy(i, n) == OnName(i, n) \/ \E w \in workers : w.by = i /\ w.name = n

Claims == \A i \in Instances : \A n \in app[i].claimed : Busy(i, n)

OfferedOn(n) ==
  holder[n] # None /\ Interrupted(disk[n]) =>
    n \in app[holder[n]].offered \/ Busy(holder[n], n)

Inv == TypeOK /\ Exclusive /\ Recordings /\ Claims /\ UnfinishedIsOffered

-----------------------------------------------------------------------------
(***************************************************************************)
(* Types.                                                                  *)
(***************************************************************************)
LEMMA NoneIsNothing ==
  /\ \A s \in SessionSet : s # None
  /\ \A s \in JournalSet : s # None
  /\ \A s \in FileSet : s # None
  /\ \A s \in ManifestSet : s # None
BY CaptureAssumption

LEMMA TypeInit == ASSUME Init PROVE TypeOK
BY CaptureAssumption
   DEF Init, TypeOK, AppSet, NameSet, Down, NoFiles, Session, Capturing

LEMMA SpendType ==
  ASSUME TypeOK, NEW kind \in {"recordings", "launches", "recoveries", "crashes", "faults"},
         Spend(kind)
  PROVE  budget' \in [recordings : Nat, launches : Nat, recoveries : Nat,
                      crashes : Nat, faults : Nat]
<1>1. CASE kind = "recordings" BY <1>1 DEF TypeOK, Spend
<1>2. CASE kind = "launches" BY <1>2 DEF TypeOK, Spend
<1>3. CASE kind = "recoveries" BY <1>3 DEF TypeOK, Spend
<1>4. CASE kind = "crashes" BY <1>4 DEF TypeOK, Spend
<1>5. CASE kind = "faults" BY <1>5 DEF TypeOK, Spend
<1> QED
  BY <1>1, <1>2, <1>3, <1>4, <1>5

(* An instance offers what it finds interrupted and not locked. *)
Fresh(i, apps, ws, files) ==
  apps[i].offered =
    {n \in Names \ apps[i].claimed : Interrupted(files[n]) /\ ~Locked(apps, ws, n)}

(* Refreshed changes what i offers and nothing else. *)
LEMMA RefreshedFacts ==
  ASSUME NEW i \in Instances, NEW ws, NEW files, NEW apps, apps \in [Instances -> AppSet],
         NEW next, next = Refreshed(i, apps, ws, files)
  PROVE  /\ next \in [Instances -> AppSet]
         /\ \A j \in Instances : /\ next[j].session = apps[j].session
                                 /\ next[j].state = apps[j].state
                                 /\ next[j].claimed = apps[j].claimed
         /\ \A j \in Instances \ {i} : next[j] = apps[j]
         /\ Fresh(i, next, ws, files)
<1>1. /\ next \in [Instances -> AppSet]
      /\ \A j \in Instances : /\ next[j].session = apps[j].session
                              /\ next[j].state = apps[j].state
                              /\ next[j].claimed = apps[j].claimed
      /\ \A j \in Instances \ {i} : next[j] = apps[j]
      /\ next[i].offered =
           {n \in Names \ apps[i].claimed : Interrupted(files[n]) /\ ~Locked(apps, ws, n)}
  BY DEF Refreshed, AppSet
<1>2. \A n \in Names : Locked(apps, ws, n) <=> Locked(next, ws, n)
  BY <1>1 DEF Locked
<1> QED
  BY <1>1, <1>2 DEF Fresh

LEMMA SessionFacts ==
  ASSUME TypeOK, NEW i \in Instances, Capturing(i) \/ Session(i) # None
  PROVE  /\ Session(i) \in SessionSet /\ Session(i) # None /\ Capturing(i)
         /\ Session(i).name \in Names /\ Session(i).id \in Nat
         /\ Session(i).parts \subseteq Parts /\ Session(i).live \subseteq Session(i).parts
         /\ Session(i).started \subseteq Segments
         /\ disk[Session(i).name] \in NameSet
         /\ app[i] \in AppSet
BY CaptureAssumption DEF TypeOK, AppSet, Session, SessionSet

(* The journal of s is saved: files are as they were. *)
LEMMA SavedFacts ==
  ASSUME TypeOK, NEW s \in SessionSet, NEW later, later = Saved(s)
  PROVE  /\ later \in [Names -> NameSet]
         /\ later = [disk EXCEPT ![s.name].journal = later[s.name].journal]
         /\ later[s.name].journal # None /\ later[s.name].journal.parts = s.parts
<1> DEFINE j == [parts |-> s.parts, failed |-> s.failed]
<1>1. j \in JournalSet /\ j # None /\ j.parts = s.parts /\ s.name \in Names
  BY CaptureAssumption DEF SessionSet, JournalSet
<1>2. later = [disk EXCEPT ![s.name].journal = j]
  BY DEF Saved
<1> HIDE DEF j
<1>3. disk \in [Names -> NameSet]
  BY DEF TypeOK
<1>4. later \in [Names -> NameSet] /\ later[s.name].journal = j
  <2> DEFINE n == [disk[s.name] EXCEPT !.journal = j]
  <2>1. disk[s.name] \in NameSet
    BY <1>1, <1>3
  <2>2. n \in NameSet /\ n.journal = j
    BY <1>1, <2>1 DEF NameSet
  <2>3. later = [disk EXCEPT ![s.name] = n]
    BY <1>2
  <2> HIDE DEF n
  <2> QED
    BY <1>1, <1>3, <2>2, <2>3
<1> QED
  BY <1>1, <1>2, <1>4

LEMMA WorkerType ==
  ASSUME NEW i \in Instances, NEW task \in {"finalize", "recover"}, NEW n \in Names,
         NEW parts \in SUBSET Parts, NEW failed \in BOOLEAN
  PROVE  /\ Worker(i, task, n, parts, failed) \in WorkerSet
         /\ Worker(i, task, n, parts, failed).left = {}
         /\ Worker(i, task, n, parts, failed).step = "spawned"
BY DEF Worker, WorkerSet

(* The sessions and states of the instances belong together. *)
SessionsOK(apps) ==
  /\ apps \in [Instances -> AppSet]
  /\ \A i \in Instances :
       /\ apps[i].session # None <=>
            apps[i].state \in {"starting", "recording", "stopping", "draining"}
       /\ apps[i].session # None => apps[i].session.live \subseteq apps[i].session.parts

LEMMA SessionsAreOK == TypeOK <=> TypeOK /\ SessionsOK(app)
BY DEF TypeOK, SessionsOK, Session, Capturing

(* An instance gets another state and session. *)
LEMMA SessionChanges ==
  ASSUME SessionsOK(app), NEW i \in Instances, NEW apps, NEW a \in AppSet,
         apps = [app EXCEPT ![i] = a],
         a.session # None <=> a.state \in {"starting", "recording", "stopping", "draining"},
         a.session # None => a.session.live \subseteq a.session.parts
  PROVE  SessionsOK(apps) /\ apps[i] = a /\ \A j \in Instances \ {i} : apps[j] = app[j]
BY DEF SessionsOK

LEMMA RefreshedSessions ==
  ASSUME NEW i \in Instances, NEW ws, NEW files, NEW apps, SessionsOK(apps)
  PROVE  SessionsOK(Refreshed(i, apps, ws, files))
BY RefreshedFacts DEF SessionsOK

LEMMA NewSessionType ==
  ASSUME NEW n \in Names, NEW id \in Nat, NEW s, s = NewSession(n, id)
  PROVE  /\ s \in SessionSet /\ s # None /\ s.name = n
         /\ s.parts = {} /\ s.started = {} /\ s.live = {}
BY NoneIsNothing DEF NewSession, SessionSet

(* Begin fails, or gives i a session on a name that is free. *)
Begins(i, n) ==
  /\ Session(i) = None
  /\ \A j \in Instances \ {i} : app'[j] = app[j]
  /\ \/ /\ Session(i)' = None /\ app'[i].claimed = app[i].claimed
        /\ Fresh(i, app', workers', disk')
        /\ UNCHANGED holder
     \/ /\ ~Locked(app, workers, n) /\ ~Taken(disk[n])
        /\ Session(i)' = NewSession(n, budget.recordings)
        /\ app'[i].claimed = app[i].claimed \cup {n}
        /\ app'[i].offered = app[i].offered
        /\ holder' = [holder EXCEPT ![n] = i]
  /\ UNCHANGED <<disk, workers, written, cut>>

LEMMA BeginOutcome ==
  ASSUME TypeOK, NEW i \in Instances, Begin(i)
  PROVE  TypeOK' /\ \E n \in Names : Begins(i, n)
<1>1. /\ app[i].state = "idle" /\ Spend("recordings")
      /\ UNCHANGED <<disk, workers, written, cut>>
  BY DEF Begin
<1>2. app[i] \in AppSet /\ SessionsOK(app) /\ app[i].session = None
  BY <1>1, SessionsAreOK DEF SessionsOK
<1>3. PICK n \in Names :
        /\ IsNextName(n)
        /\ IF Locked(app, workers, n)
           THEN /\ app' = Refreshed(i, [app EXCEPT ![i].state = "error"], workers, disk)
                /\ UNCHANGED holder
           ELSE /\ app' = [app EXCEPT ![i].state = "starting",
                                      ![i].claimed = @ \cup {n},
                                      ![i].session = NewSession(n, budget.recordings)]
                /\ holder' = [holder EXCEPT ![n] = i]
  BY DEF Begin
<1>4. SessionsOK(app') /\ holder' \in [Names -> Instances \cup {None}] /\ Begins(i, n)
  <2>1. CASE Locked(app, workers, n)
    <3> DEFINE a == [app[i] EXCEPT !.state = "error"]
               apps == [app EXCEPT ![i] = a]
    <3>1. /\ a \in AppSet /\ a.state = "error" /\ a.session = None
          /\ a.claimed = app[i].claimed
      BY <1>2 DEF AppSet
    <3>2. [app EXCEPT ![i].state = "error"] = apps
      BY <1>2 DEF SessionsOK
    <3> HIDE DEF a
    <3>3. /\ SessionsOK(apps) /\ apps \in [Instances -> AppSet] /\ apps[i] = a
          /\ \A j \in Instances \ {i} : apps[j] = app[j]
      BY <1>2, <3>1, SessionChanges DEF SessionsOK
    <3> HIDE DEF apps
    <3>4. app' = Refreshed(i, apps, workers, disk) /\ UNCHANGED holder
      BY <1>3, <2>1, <3>2
    <3>5. /\ \A j \in Instances : /\ app'[j].session = apps[j].session
                                  /\ app'[j].claimed = apps[j].claimed
          /\ \A j \in Instances \ {i} : app'[j] = apps[j]
          /\ Fresh(i, app', workers, disk)
      BY <3>3, <3>4, RefreshedFacts
    <3>6. SessionsOK(app')
      BY <3>3, <3>4, RefreshedSessions
    <3>7. workers' = workers /\ disk' = disk
      BY <1>1
    <3> QED
      BY <1>1, <1>2, <3>1, <3>3, <3>4, <3>5, <3>6, <3>7 DEF TypeOK, Begins, Session
  <2>2. CASE ~Locked(app, workers, n)
    <3> DEFINE s == NewSession(n, budget.recordings)
    <3>1. s \in SessionSet /\ s # None /\ s.live \subseteq s.parts
      BY NewSessionType DEF TypeOK
    <3> HIDE DEF s
    <3>2. /\ app' \in [Instances -> AppSet]
          /\ app'[i].session = s /\ app'[i].state = "starting"
          /\ app'[i].claimed = app[i].claimed \cup {n}
          /\ app'[i].offered = app[i].offered
          /\ \A j \in Instances \ {i} : app'[j] = app[j]
      BY <1>2, <1>3, <2>2, <3>1 DEF AppSet, SessionsOK, s
    <3>3. SessionsOK(app')
      BY <1>2, <3>1, <3>2 DEF SessionsOK
    <3>4. holder' = [holder EXCEPT ![n] = i] /\ holder \in [Names -> Instances \cup {None}]
      BY <1>3, <2>2 DEF TypeOK
    <3>5. ~Taken(disk[n])
      BY <1>3 DEF IsNextName
    <3> QED
      BY <1>1, <1>2, <2>2, <3>2, <3>3, <3>4, <3>5 DEF Begins, Session, s
  <2> QED
    BY <2>1, <2>2
<1>5. budget' \in [recordings : Nat, launches : Nat, recoveries : Nat,
                   crashes : Nat, faults : Nat]
  BY <1>1, SpendType
<1>6. TypeOK'
  BY <1>1, <1>4, <1>5 DEF TypeOK, SessionsOK, Session, Capturing
<1> QED
  BY <1>4, <1>6

(* A recorder goes on with its session: files that are there stay among    *)
(* its parts, and parts that get live are saved.                           *)
Continues(s, next, old, journal) ==
  /\ next.name = s.name /\ next.id = s.id
  /\ s.parts \cap (s.started \cup Tracks) \subseteq next.parts
  /\ s.started \subseteq next.started
  /\ next.live \cap Segments \subseteq s.live \cup next.started
  /\ \/ /\ journal # None
        /\ journal.parts = next.parts
        /\ s.parts \subseteq next.parts
     \/ journal = old /\ next.live \subseteq s.live

(* Files, archive and manifest stay. *)
SameFiles(f, g) == /\ g.pcm = f.pcm /\ g.archive = f.archive /\ g.manifest = f.manifest
                   /\ g.unrecoverable = f.unrecoverable

SessionContinues(i) ==
  LET s == Session(i)
  IN  /\ Session(i) # None /\ Session(i)' \in SessionSet
      /\ Continues(s, Session(i)', disk[s.name].journal, disk'[s.name].journal)
      /\ SameFiles(disk[s.name], disk'[s.name])
      /\ \A m \in Names \ {s.name} : disk'[m] = disk[m]
      /\ \A j \in Instances \ {i} : app'[j] = app[j]
      /\ app'[i].claimed = app[i].claimed /\ app'[i].offered = app[i].offered
      /\ UNCHANGED <<workers, written, cut, holder>>

(* What the steps of a session have in common. *)
LEMMA SessionGoesOn ==
  ASSUME TypeOK, NEW i \in Instances, Session(i) # None, NEW next \in SessionSet,
         NEW state \in {"starting", "recording", "stopping", "draining"},
         app' = [app EXCEPT ![i].session = next, ![i].state = state],
         disk' \in {disk, Saved(next)},
         next.live \subseteq next.parts,
         Continues(Session(i), next, disk[next.name].journal, disk'[next.name].journal),
         UNCHANGED <<workers, written, cut, holder>>,
         budget' = budget \/ Spend("faults")
  PROVE  TypeOK' /\ SessionContinues(i)
<1>1. SessionsOK(app) /\ app \in [Instances -> AppSet] /\ next # None
  BY SessionsAreOK, NoneIsNothing DEF SessionsOK
<1>2. /\ app' \in [Instances -> AppSet]
      /\ app'[i].session = next /\ app'[i].state = state
      /\ app'[i].claimed = app[i].claimed /\ app'[i].offered = app[i].offered
      /\ \A j \in Instances \ {i} : app'[j] = app[j]
  BY <1>1 DEF AppSet
<1>3. SessionsOK(app')
  BY <1>1, <1>2 DEF SessionsOK
<1>4. next.name = Session(i).name /\ next.name \in Names
  BY DEF Continues, SessionSet
<1>5. /\ disk' \in [Names -> NameSet]
      /\ disk' = [disk EXCEPT ![next.name].journal = disk'[next.name].journal]
  <2>1. CASE disk' = disk
    BY <2>1 DEF TypeOK, NameSet
  <2>2. CASE disk' = Saved(next)
    BY <2>2, SavedFacts
  <2> QED
    BY <2>1, <2>2
<1>6. budget' \in [recordings : Nat, launches : Nat, recoveries : Nat,
                   crashes : Nat, faults : Nat]
  BY SpendType DEF TypeOK
<1>7. TypeOK'
  BY <1>3, <1>5, <1>6 DEF TypeOK, SessionsOK, Session, Capturing
<1>8. disk[next.name] \in NameSet /\ disk \in [Names -> NameSet]
  BY <1>4 DEF TypeOK
<1>9. /\ disk'[next.name] = [disk[next.name] EXCEPT !.journal = disk'[next.name].journal]
      /\ \A m \in Names \ {next.name} : disk'[m] = disk[m]
  BY <1>4, <1>5, <1>8
<1>11. SameFiles(disk[next.name], disk'[next.name])
  BY <1>8, <1>9 DEF NameSet, SameFiles
<1>10. Session(i)' = next
  BY <1>2 DEF Session
<1> QED
  BY <1>2, <1>4, <1>7, <1>9, <1>10, <1>11 DEF SessionContinues

LEMMA OpenContinues ==
  ASSUME TypeOK, NEW i \in Instances, NEW p \in Parts, Open(i, p)
  PROVE  TypeOK' /\ SessionContinues(i)
<1> DEFINE s == Session(i)
<1>1. /\ Capturing(i) /\ p \notin s.parts
      /\ UNCHANGED <<workers, written, cut, holder, budget>>
      /\ app[i].state \in {"starting", "recording", "stopping", "draining"}
  BY DEF Open, MayOpen, Capturing
<1>2. /\ s \in SessionSet /\ app[i] \in AppSet /\ s.live \subseteq s.parts /\ s # None
      /\ disk[s.name] \in NameSet
  BY <1>1, SessionFacts
<1>3. PICK running \in {{p}, {p} \cap Segments} :
        LET next == [s EXCEPT !.parts = @ \cup {p},
                              !.started = @ \cup ({p} \cap Segments),
                              !.live = (IF p \in Segments THEN @ \ Segments ELSE @) \cup running]
        IN  /\ app' = [app EXCEPT ![i].session = next]
            /\ disk' = Saved(next)
  BY DEF Open
<1> DEFINE live == (IF p \in Segments THEN s.live \ Segments ELSE s.live) \cup running
           next == [s EXCEPT !.parts = @ \cup {p}, !.started = @ \cup ({p} \cap Segments),
                             !.live = (IF p \in Segments THEN @ \ Segments ELSE @) \cup running]
<1>4. live \in SUBSET Parts /\ live \subseteq s.live \cup {p}
  BY <1>2 DEF SessionSet
<1>5. next = [s EXCEPT !.parts = s.parts \cup {p}, !.started = s.started \cup ({p} \cap Segments),
                       !.live = live]
  BY <1>2 DEF SessionSet
<1>6. app' = [app EXCEPT ![i].session = next] /\ disk' = Saved(next)
  BY <1>3
<1> HIDE DEF live, next
<1>7. /\ next \in SessionSet
      /\ next.parts = s.parts \cup {p} /\ next.started = s.started \cup ({p} \cap Segments)
      /\ next.live = live /\ next.id = s.id /\ next.name = s.name
  BY <1>2, <1>4, <1>5 DEF SessionSet
<1>8. app' = [app EXCEPT ![i].session = next, ![i].state = app[i].state]
  BY <1>2, <1>6 DEF AppSet, TypeOK
<1>9. Continues(s, next, disk[next.name].journal, disk'[next.name].journal)
  BY <1>2, <1>4, <1>6, <1>7, SavedFacts DEF Continues, Parts
<1>10. next.live \subseteq next.parts
  BY <1>2, <1>4, <1>7
<1> QED
  BY <1>1, <1>2, <1>6, <1>7, <1>8, <1>9, <1>10, SessionGoesOn

LEMMA OpenFailsContinues ==
  ASSUME TypeOK, NEW i \in Instances, NEW p \in Parts, OpenFails(i, p)
  PROVE  TypeOK' /\ SessionContinues(i)
<1> DEFINE s == Session(i)
<1>1. /\ Capturing(i) /\ p \notin s.parts /\ Spend("faults")
      /\ UNCHANGED <<workers, written, cut, holder>>
  BY DEF OpenFails, MayOpen, Capturing
<1>2. /\ s \in SessionSet /\ app[i] \in AppSet /\ s.live \subseteq s.parts /\ s # None
      /\ disk[s.name] \in NameSet
  BY <1>1, SessionFacts
<1>3. PICK running \in SUBSET {p}, saved \in BOOLEAN :
        LET next == [s EXCEPT !.parts = @ \cup {p}, !.live = @ \cup running,
                              !.started = @ \cup (running \cap Segments),
                              !.failed = TRUE, !.aborted = app[i].state = "starting"]
        IN  /\ running = {} \/ saved
            /\ app' = [app EXCEPT ![i].session = next, ![i].state = "stopping"]
            /\ disk' = IF saved THEN Saved(next) ELSE disk
  BY DEF OpenFails
<1> DEFINE live == s.live \cup running
           aborted == app[i].state = "starting"
           next == [s EXCEPT !.parts = @ \cup {p}, !.live = @ \cup running,
                              !.started = @ \cup (running \cap Segments),
                              !.failed = TRUE, !.aborted = app[i].state = "starting"]
<1>4. live \in SUBSET Parts /\ live \subseteq s.live \cup {p} /\ aborted \in BOOLEAN
  BY <1>2 DEF SessionSet
<1>5. next = [s EXCEPT !.parts = s.parts \cup {p}, !.live = live,
                       !.started = s.started \cup (running \cap Segments),
                       !.failed = TRUE, !.aborted = aborted]
  BY <1>2 DEF SessionSet
<1>6. /\ app' = [app EXCEPT ![i].session = next, ![i].state = "stopping"]
      /\ disk' = IF saved THEN Saved(next) ELSE disk
      /\ running = {} \/ saved
  BY <1>3
<1>x. live = s.live \cup running
  OBVIOUS
<1> HIDE DEF live, next, aborted
<1>7. /\ next \in SessionSet
      /\ next.parts = s.parts \cup {p} /\ next.started = s.started \cup (running \cap Segments)
      /\ next.live = live /\ next.id = s.id /\ next.name = s.name
  BY <1>2, <1>4, <1>5 DEF SessionSet
<1>9. Continues(s, next, disk[next.name].journal, disk'[next.name].journal)
  <2>1. CASE saved
    BY <2>1, <1>x, <1>2, <1>4, <1>6, <1>7, SavedFacts DEF Continues, Parts
  <2>2. CASE ~saved
    BY <2>2, <1>x, <1>2, <1>4, <1>6, <1>7 DEF Continues, Parts
  <2> QED
    BY <2>1, <2>2
<1>10. next.live \subseteq next.parts
  BY <1>2, <1>4, <1>7
<1> QED
  BY <1>1, <1>2, <1>6, <1>7, <1>9, <1>10, SessionGoesOn

LEMMA FailContinues ==
  ASSUME TypeOK, NEW i \in Instances, Fail(i)
  PROVE  TypeOK' /\ SessionContinues(i)
<1> DEFINE s == Session(i)
<1>1. /\ Capturing(i) /\ Spend("faults")
      /\ UNCHANGED <<workers, written, cut, holder>>
  BY DEF Fail
<1>2. /\ s \in SessionSet /\ app[i] \in AppSet /\ s.live \subseteq s.parts /\ s # None
      /\ disk[s.name] \in NameSet
  BY <1>1, SessionFacts
<1> DEFINE next == [s EXCEPT !.failed = TRUE]
           state == IF app[i].state = "recording" THEN "stopping" ELSE app[i].state
<1>3. /\ app' = [app EXCEPT ![i].session = next,
                            ![i].state = IF @ = "recording" THEN "stopping" ELSE @]
      /\ disk' \in {disk, Saved(next)}
  BY DEF Fail
<1>4. /\ next \in SessionSet
      /\ next.parts = s.parts /\ next.started = s.started
      /\ next.live = s.live /\ next.id = s.id /\ next.name = s.name
  BY <1>2 DEF SessionSet
<1> HIDE DEF next
<1>5. app' = [app EXCEPT ![i].session = next, ![i].state = state]
  BY <1>2, <1>3 DEF AppSet, TypeOK
<1>6. state \in {"starting", "recording", "stopping", "draining"}
  BY <1>1 DEF Capturing
<1>9. Continues(s, next, disk[next.name].journal, disk'[next.name].journal)
  BY <1>2, <1>3, <1>4, SavedFacts DEF Continues, Parts
<1> HIDE DEF state
<1> QED
  BY <1>1, <1>2, <1>3, <1>4, <1>5, <1>6, <1>9, SessionGoesOn

LEMMA StartedContinues ==
  ASSUME TypeOK, NEW i \in Instances, Started(i)
  PROVE  TypeOK' /\ SessionContinues(i)
<1> DEFINE s == Session(i)
           state == IF Session(i).failed THEN "stopping" ELSE "recording"
<1>1. /\ Capturing(i) /\ UNCHANGED <<workers, written, cut, holder, budget>>
      /\ app' = [app EXCEPT ![i].state = state] /\ disk' = Saved(s)
  BY DEF Started, Capturing
<1>2. /\ s \in SessionSet /\ app[i] \in AppSet /\ s.live \subseteq s.parts /\ s # None
      /\ disk[s.name] \in NameSet /\ app \in [Instances -> AppSet]
  BY <1>1, SessionFacts DEF TypeOK
<1>3. app' = [app EXCEPT ![i].session = s, ![i].state = state]
  BY <1>1, <1>2 DEF AppSet, Session
<1>9. Continues(s, s, disk[s.name].journal, disk'[s.name].journal)
  BY <1>1, <1>2, SavedFacts DEF Continues, Parts
<1>4. state \in {"starting", "recording", "stopping", "draining"}
  OBVIOUS
<1> HIDE DEF state
<1> QED
  BY <1>1, <1>2, <1>3, <1>4, <1>9, SessionGoesOn

LEMMA StopContinues ==
  ASSUME TypeOK, NEW i \in Instances, Stop(i)
  PROVE  TypeOK' /\ SessionContinues(i)
<1> DEFINE s == Session(i)
<1>1. /\ Capturing(i) /\ UNCHANGED <<disk, workers, written, cut, holder, budget>>
      /\ app' = [app EXCEPT ![i].state = "stopping"]
  BY DEF Stop, Capturing
<1>2. /\ s \in SessionSet /\ app[i] \in AppSet /\ s.live \subseteq s.parts /\ s # None
      /\ disk[s.name] \in NameSet /\ app \in [Instances -> AppSet]
  BY <1>1, SessionFacts DEF TypeOK
<1>3. app' = [app EXCEPT ![i].session = s, ![i].state = "stopping"]
  BY <1>1, <1>2 DEF AppSet, Session
<1>9. Continues(s, s, disk[s.name].journal, disk'[s.name].journal)
  BY <1>1, <1>2 DEF Continues, Parts
<1> QED
  BY <1>1, <1>2, <1>3, <1>9, SessionGoesOn


LEMMA StopMicrophoneContinues ==
  ASSUME TypeOK, NEW i \in Instances, StopMicrophone(i)
  PROVE  TypeOK' /\ SessionContinues(i)
<1> DEFINE s == Session(i)
<1>1. /\ Capturing(i) /\ UNCHANGED <<disk, workers, written, cut, holder, budget>>
      /\ app' = [app EXCEPT ![i].state = "draining",
                            ![i].session.parts = s.started \cup (@ \cap Tracks),
                            ![i].session.live = @ \ Segments]
  BY DEF StopMicrophone, Capturing
<1>2. /\ s \in SessionSet /\ app[i] \in AppSet /\ s.live \subseteq s.parts /\ s # None
      /\ disk[s.name] \in NameSet /\ app \in [Instances -> AppSet]
      /\ s.live \subseteq Parts /\ s.parts \subseteq Parts
  BY <1>1, SessionFacts DEF TypeOK
<1> DEFINE next == [s EXCEPT !.parts = s.started \cup (s.parts \cap Tracks),
                             !.live = s.live \ Segments]
<1>3. /\ next \in SessionSet
      /\ next.parts = s.started \cup (s.parts \cap Tracks) /\ next.started = s.started
      /\ next.live = s.live \ Segments /\ next.id = s.id /\ next.name = s.name
  BY <1>2 DEF SessionSet, Parts
<1>4. app' = [app EXCEPT ![i].session = next, ![i].state = "draining"]
  BY <1>1, <1>2 DEF AppSet, Session, SessionSet
<1> HIDE DEF next
<1>9. Continues(s, next, disk[next.name].journal, disk'[next.name].journal)
  BY <1>1, <1>2, <1>3 DEF Continues, Parts
<1>5. next.live \subseteq next.parts
  BY <1>2, <1>3 DEF Parts
<1> QED
  BY <1>1, <1>2, <1>3, <1>4, <1>5, <1>9, SessionGoesOn

(* One part gets another file, or none. *)
PutsFile(f, g, p, x) ==
  /\ g.journal = f.journal /\ g.archive = f.archive /\ g.manifest = f.manifest
  /\ g.unrecoverable = f.unrecoverable
  /\ g.pcm = [f.pcm EXCEPT ![p] = x]

LEMMA PutFileType ==
  ASSUME TypeOK, NEW n \in Names, NEW p \in Parts, NEW x \in FileSet \cup {None},
         disk' = [disk EXCEPT ![n].pcm[p] = x]
  PROVE  /\ disk' \in [Names -> NameSet]
         /\ PutsFile(disk[n], disk'[n], p, x)
         /\ \A m \in Names \ {n} : disk'[m] = disk[m]
<1>1. disk \in [Names -> NameSet]
  BY DEF TypeOK
<1> QED
  BY <1>1 DEF NameSet, PutsFile

LEMMA AudioAdded ==
  ASSUME NEW x \in FileSet
  PROVE  [x EXCEPT !.audio = TRUE] = [of |-> x.of, audio |-> TRUE]
<1> DEFINE y == [x EXCEPT !.audio = TRUE]
<1>1. y \in FileSet /\ y.of = x.of /\ y.audio = TRUE
  BY DEF FileSet
<1> HIDE DEF y
<1>2. y = [of |-> y.of, audio |-> y.audio]
  BY <1>1 DEF FileSet
<1> QED
  BY <1>1, <1>2 DEF y

(* What Write does: a new file, or the first audio of a file. *)
Writes(i, p) ==
  LET s == Session(i)
      f == disk[s.name]
  IN  /\ Capturing(i) /\ p \in s.live /\ ~Starting(s.name)
      /\ \A m \in Names \ {s.name} : disk'[m] = disk[m]
      /\ \/ /\ f.pcm[p] = None \/ f.pcm[p].of # s.id
            /\ PutsFile(f, disk'[s.name], p, [of |-> s.id, audio |-> FALSE])
            /\ UNCHANGED written
         \/ /\ f.pcm[p] # None /\ f.pcm[p].of = s.id
            /\ PutsFile(f, disk'[s.name], p, [of |-> s.id, audio |-> TRUE])
            /\ written' = written \cup {[name |-> s.name, of |-> s.id, part |-> p]}
      /\ UNCHANGED <<app, workers, cut, holder, budget>>

LEMMA WriteOutcome ==
  ASSUME TypeOK, NEW i \in Instances, NEW p \in Parts, Write(i, p)
  PROVE  TypeOK' /\ Writes(i, p)
<1> DEFINE s == Session(i)
           f == disk[s.name]
<1>1. /\ Capturing(i) /\ p \in s.live /\ ~Starting(s.name)
      /\ UNCHANGED <<app, workers, cut, holder, budget>>
  BY DEF Write
<1>2. s \in SessionSet /\ f \in NameSet /\ s.name \in Names /\ s.id \in Nat
  BY <1>1, SessionFacts
<1>3. f.pcm[p] \in FileSet \cup {None}
  BY <1>2 DEF NameSet
<1>4. CASE f.pcm[p] = None \/ f.pcm[p].of # s.id
  <2>1. /\ disk' = [disk EXCEPT ![s.name].pcm[p] = [of |-> s.id, audio |-> FALSE]]
        /\ UNCHANGED written
    BY <1>4 DEF Write
  <2> DEFINE x == [of |-> s.id, audio |-> FALSE]
  <2>2. x \in FileSet
    BY <1>2 DEF FileSet
  <2>3. /\ disk' \in [Names -> NameSet]
        /\ PutsFile(f, disk'[s.name], p, x)
        /\ \A m \in Names \ {s.name} : disk'[m] = disk[m]
    <3> HIDE DEF x, s
    <3> QED
      BY <1>1, <1>2, <2>1, <2>2, PutFileType DEF x
  <2> QED
    BY <1>1, <1>4, <2>1, <2>3 DEF Writes, TypeOK, Session, Capturing
<1>5. CASE f.pcm[p] # None /\ f.pcm[p].of = s.id
  <2>1. /\ disk' = [disk EXCEPT ![s.name].pcm[p].audio = TRUE]
        /\ written' = written \cup {[name |-> s.name, of |-> s.id, part |-> p]}
    BY <1>5 DEF Write
  <2> DEFINE x == [of |-> s.id, audio |-> TRUE]
  <2>2. x \in FileSet
    BY <1>2 DEF FileSet
  <2>4. disk \in [Names -> NameSet] /\ disk[s.name].pcm \in [Parts -> FileSet \cup {None}]
    BY <1>2 DEF TypeOK, NameSet
  <2>8. [f.pcm[p] EXCEPT !.audio = TRUE] = x
    BY <1>3, <1>5, AudioAdded
  <2>5. disk' = [disk EXCEPT ![s.name].pcm[p] = x]
    <3> HIDE DEF x, s
    <3> QED
      BY <1>1, <1>2, <2>1, <2>8, <2>4
  <2>6. /\ disk' \in [Names -> NameSet]
        /\ PutsFile(f, disk'[s.name], p, x)
        /\ \A m \in Names \ {s.name} : disk'[m] = disk[m]
    <3> HIDE DEF x, s
    <3> QED
      BY <1>1, <1>2, <2>5, <2>2, PutFileType
  <2>7. written' \subseteq [name : Names, of : Nat, part : Parts]
    BY <1>2, <2>1 DEF TypeOK
  <2> QED
    BY <1>1, <1>5, <2>1, <2>6, <2>7 DEF Writes, TypeOK, Session, Capturing
<1> QED
  BY <1>4, <1>5

(* The session of i ends; a recorder that was not aborted leaves a worker. *)
FinalParts(s, f) == {p \in s.parts : p \in Tracks => f.pcm[p] # None}

Finishes(i) ==
  LET s == Session(i)
      n == s.name
      f == disk[n]
      g == disk'[n]
      parts == FinalParts(s, f)
  IN  /\ Session(i) # None /\ Session(i)' = None
      /\ \A j \in Instances \ {i} : app'[j] = app[j]
      /\ \A m \in Names \ {n} : disk'[m] = disk[m]
      /\ SameFiles(f, g)
      /\ \/ parts = {} /\ g.journal = None
         \/ g.journal # None /\ g.journal.parts = parts
      /\ \/ /\ app'[i].claimed = app[i].claimed \ {n}
            /\ Fresh(i, app', workers', disk')
            /\ UNCHANGED workers
         \/ /\ app'[i].claimed = app[i].claimed /\ app'[i].offered = app[i].offered
            /\ workers' = workers \cup {Worker(i, "finalize", n, parts, s.failed)}
      /\ UNCHANGED <<written, cut, holder>>

LEMMA FinishOutcome ==
  ASSUME TypeOK, NEW i \in Instances, FinishStop(i)
  PROVE  TypeOK' /\ Finishes(i)
<1> DEFINE s == Session(i)
           n == s.name
           parts == FinalParts(s, disk[n])
           final == [s EXCEPT !.parts = {p \in @ : p \in Tracks => disk[n].pcm[p] # None}]
           state == IF s.failed THEN "error" ELSE "idle"
           ended == [app EXCEPT ![i].session = None, ![i].state = state]
<1>1. /\ Capturing(i) /\ UNCHANGED <<written, cut, holder, budget>>
  BY DEF FinishStop, Capturing
<1>2. /\ s \in SessionSet /\ app[i] \in AppSet /\ s # None /\ n \in Names
      /\ disk[n] \in NameSet /\ disk \in [Names -> NameSet]
      /\ SessionsOK(app) /\ s.failed \in BOOLEAN /\ s.parts \subseteq Parts
  BY <1>1, SessionFacts, SessionsAreOK DEF TypeOK, SessionSet
<1>3. /\ disk' = IF final.parts = {} THEN [disk EXCEPT ![n].journal = None] ELSE Saved(final)
      /\ IF s.aborted
         THEN /\ app' = Refreshed(i, [ended EXCEPT ![i].claimed = @ \ {n}], workers, disk')
              /\ UNCHANGED workers
         ELSE /\ app' = ended
              /\ workers' = workers \cup
                   {Worker(i, "finalize", n, final.parts, final.failed)}
  BY DEF FinishStop
<1>4. /\ final \in SessionSet /\ final.parts = parts /\ final.failed = s.failed
      /\ final.name = n /\ parts \subseteq Parts
  BY <1>2 DEF SessionSet, FinalParts
<1> HIDE DEF final
<1>5. /\ disk' \in [Names -> NameSet]
      /\ \A m \in Names \ {n} : disk'[m] = disk[m]
      /\ SameFiles(disk[n], disk'[n])
      /\ \/ parts = {} /\ disk'[n].journal = None
         \/ disk'[n].journal # None /\ disk'[n].journal.parts = parts
  <2> HIDE DEF parts, s
  <2>1. CASE final.parts = {}
    BY <1>2, <1>3, <1>4, <2>1 DEF NameSet, SameFiles
  <2>2. CASE final.parts # {}
    <3>1. disk' = Saved(final)
      BY <1>3, <2>2
    <3>2. /\ disk' \in [Names -> NameSet]
          /\ disk' = [disk EXCEPT ![n].journal = disk'[n].journal]
          /\ disk'[n].journal # None /\ disk'[n].journal.parts = parts
      BY <1>4, <3>1, SavedFacts
    <3> QED
      BY <1>2, <3>2 DEF NameSet, SameFiles
  <2> QED
    BY <2>1, <2>2
<1>6. /\ ended \in [Instances -> AppSet] /\ SessionsOK(ended)
      /\ ended[i].session = None
      /\ ended[i].claimed = app[i].claimed /\ ended[i].offered = app[i].offered
      /\ \A j \in Instances \ {i} : ended[j] = app[j]
  <2>1. state \in {"error", "idle"}
    OBVIOUS
  <2> HIDE DEF state
  <2>2. /\ ended \in [Instances -> AppSet]
        /\ ended[i].session = None /\ ended[i].state = state
        /\ ended[i].claimed = app[i].claimed /\ ended[i].offered = app[i].offered
        /\ \A j \in Instances \ {i} : ended[j] = app[j]
    BY <1>2, <2>1 DEF AppSet, SessionsOK
  <2> HIDE DEF ended
  <2> QED
    BY <1>2, <2>1, <2>2 DEF SessionsOK
<1> HIDE DEF ended
<1>7. CASE s.aborted
  <2> DEFINE apps == [ended EXCEPT ![i].claimed = @ \ {n}]
  <2>1. /\ apps \in [Instances -> AppSet] /\ apps[i].session = None
        /\ apps[i].claimed = app[i].claimed \ {n} /\ apps[i].state = ended[i].state
        /\ \A j \in Instances \ {i} : apps[j] = app[j]
    BY <1>6 DEF AppSet
  <2>2. app' = Refreshed(i, apps, workers, disk') /\ UNCHANGED workers
    BY <1>3, <1>7
  <2> HIDE DEF apps
  <2>3. SessionsOK(apps)
    BY <1>6, <2>1 DEF SessionsOK
  <2>4. SessionsOK(app')
    BY <2>2, <2>3, RefreshedSessions
  <2>5. /\ app'[i].session = None /\ app'[i].claimed = app[i].claimed \ {n}
        /\ \A j \in Instances \ {i} : app'[j] = app[j]
        /\ Fresh(i, app', workers, disk')
    BY <2>1, <2>2, RefreshedFacts
  <2> QED
    BY <1>1, <1>2, <1>5, <2>2, <2>4, <2>5
       DEF TypeOK, SessionsOK, Finishes, Session, Capturing
<1>8. CASE ~s.aborted
  <2>1. app' = ended /\ workers' = workers \cup {Worker(i, "finalize", n, parts, s.failed)}
    BY <1>3, <1>4, <1>8
  <2> DEFINE w == Worker(i, "finalize", n, parts, s.failed)
  <2>2. w \in WorkerSet /\ IsConsistent(w)
    BY <1>2, <1>4, WorkerType DEF IsConsistent
  <2> HIDE DEF w
  <2>3. /\ workers' \subseteq WorkerSet
        /\ \A v \in workers' : IsConsistent(v)
    BY <2>1, <2>2 DEF TypeOK, w
  <2>4. TypeOK'
    BY <1>1, <1>2, <1>5, <1>6, <2>1, <2>3 DEF TypeOK, SessionsOK, Session, Capturing
  <2> QED
    BY <1>1, <1>2, <1>5, <1>6, <2>1, <2>4 DEF Finishes, Session
<1> QED
  BY <1>7, <1>8

LEMMA StopFailsOutcome ==
  ASSUME TypeOK, NEW i \in Instances, StopFails(i)
  PROVE  /\ TypeOK'
         /\ Session(i) # None /\ Session(i)' = None
         /\ \A j \in Instances \ {i} : app'[j] = app[j]
         /\ app'[i].claimed = app[i].claimed \ {Session(i).name}
         /\ Fresh(i, app', workers', disk')
         /\ UNCHANGED <<disk, workers, written, cut, holder>>
<1> DEFINE n == Session(i).name
           apps == [app EXCEPT ![i].session = None, ![i].state = "error",
                               ![i].claimed = @ \ {n}]
<1>1. /\ Capturing(i) /\ Spend("faults") /\ UNCHANGED <<disk, workers, written, cut, holder>>
      /\ app' = Refreshed(i, apps, workers, disk)
  BY DEF StopFails, Capturing
<1>2. app[i] \in AppSet /\ SessionsOK(app) /\ Session(i) # None
  BY <1>1, SessionFacts, SessionsAreOK
<1> HIDE DEF n
<1>3. /\ apps \in [Instances -> AppSet] /\ apps[i].session = None /\ apps[i].state = "error"
      /\ apps[i].claimed = app[i].claimed \ {n}
      /\ \A j \in Instances \ {i} : apps[j] = app[j]
  BY <1>2 DEF AppSet, SessionsOK
<1> HIDE DEF apps
<1>4. SessionsOK(apps)
  BY <1>2, <1>3 DEF SessionsOK
<1>5. SessionsOK(app')
  BY <1>1, <1>4, RefreshedSessions
<1>6. /\ app'[i].session = None /\ app'[i].claimed = app[i].claimed \ {n}
      /\ \A j \in Instances \ {i} : app'[j] = app[j]
      /\ Fresh(i, app', workers, disk)
  BY <1>1, <1>3, RefreshedFacts
<1>7. budget' \in [recordings : Nat, launches : Nat, recoveries : Nat,
                   crashes : Nat, faults : Nat]
  BY <1>1, SpendType
<1>8. TypeOK'
  BY <1>1, <1>5, <1>7 DEF TypeOK, SessionsOK, Session, Capturing
<1>9. workers' = workers /\ disk' = disk
  BY <1>1
<1> QED
  BY <1>1, <1>2, <1>6, <1>8, <1>9 DEF Session, n

LEMMA DismissOutcome ==
  ASSUME TypeOK, NEW i \in Instances, DismissError(i)
  PROVE  /\ TypeOK'
         /\ \A j \in Instances : /\ Session(j)' = Session(j)
                                 /\ app'[j].claimed = app[j].claimed
                                 /\ app'[j].offered = app[j].offered
         /\ UNCHANGED <<disk, workers, written, cut, holder>>
<1> DEFINE a == [app[i] EXCEPT !.state = "idle"]
<1>1. /\ app[i].state = "error" /\ app' = [app EXCEPT ![i].state = "idle"]
      /\ UNCHANGED <<disk, workers, written, cut, holder, budget>>
  BY DEF DismissError
<1>2. app[i] \in AppSet /\ SessionsOK(app) /\ app[i].session = None
  BY <1>1, SessionsAreOK DEF SessionsOK
<1>3. /\ a \in AppSet /\ a.state = "idle" /\ a.session = None
      /\ a.claimed = app[i].claimed /\ a.offered = app[i].offered
      /\ app' = [app EXCEPT ![i] = a]
  BY <1>1, <1>2 DEF AppSet, SessionsOK
<1> HIDE DEF a
<1>4. SessionsOK(app') /\ app'[i] = a /\ \A j \in Instances \ {i} : app'[j] = app[j]
  <2>1. a.session # None <=> a.state \in {"starting", "recording", "stopping", "draining"}
    BY <1>3
  <2>2. a.session # None => a.session.live \subseteq a.session.parts
    BY <1>3
  <2>3. a \in AppSet /\ SessionsOK(app) /\ app' = [app EXCEPT ![i] = a]
    BY <1>2, <1>3
  <2> QED
    BY <2>1, <2>2, <2>3 DEF SessionsOK
<1>5. TypeOK'
  BY <1>1, <1>4 DEF TypeOK, SessionsOK, Session, Capturing
<1> QED
  BY <1>1, <1>2, <1>3, <1>4, <1>5 DEF Session

LEMMA LaunchOutcome ==
  ASSUME TypeOK, NEW i \in Instances, Launch(i)
  PROVE  /\ TypeOK'
         /\ Session(i)' = Session(i) /\ app'[i].claimed = app[i].claimed
         /\ \A j \in Instances \ {i} : app'[j] = app[j]
         /\ Fresh(i, app', workers', disk')
         /\ UNCHANGED <<disk, workers, written, cut, holder>>
<1> DEFINE a == [app[i] EXCEPT !.state = "idle"]
           apps == [app EXCEPT ![i] = a]
<1>1. /\ app[i].state = "down" /\ Spend("launches")
      /\ app' = Refreshed(i, [app EXCEPT ![i].state = "idle"], workers, disk)
      /\ UNCHANGED <<disk, workers, written, cut, holder>>
  BY DEF Launch
<1>2. app[i] \in AppSet /\ SessionsOK(app) /\ app[i].session = None
  BY <1>1, SessionsAreOK DEF SessionsOK
<1>3. /\ a \in AppSet /\ a.state = "idle" /\ a.session = None
      /\ a.claimed = app[i].claimed
      /\ apps = [app EXCEPT ![i].state = "idle"]
  BY <1>1, <1>2 DEF AppSet, SessionsOK
<1> HIDE DEF a
<1>4. SessionsOK(apps) /\ apps[i] = a /\ \A j \in Instances \ {i} : apps[j] = app[j]
  BY <1>2, <1>3, SessionChanges
<1> HIDE DEF apps
<1>5. app' = Refreshed(i, apps, workers, disk)
  BY <1>1, <1>3
<1>6. SessionsOK(app')
  BY <1>4, <1>5, RefreshedSessions
<1>7. /\ app'[i].session = a.session /\ app'[i].claimed = a.claimed
      /\ \A j \in Instances \ {i} : app'[j] = app[j]
      /\ Fresh(i, app', workers, disk)
  BY <1>4, <1>5, RefreshedFacts DEF SessionsOK
<1>8. budget' \in [recordings : Nat, launches : Nat, recoveries : Nat,
                   crashes : Nat, faults : Nat]
  BY <1>1, SpendType
<1>9. TypeOK'
  BY <1>1, <1>6, <1>8 DEF TypeOK, SessionsOK, Session, Capturing
<1>10. workers' = workers /\ disk' = disk
  BY <1>1
<1> QED
  BY <1>1, <1>2, <1>3, <1>7, <1>9, <1>10 DEF Session

LEMMA RecoverOutcome ==
  ASSUME TypeOK, NEW i \in Instances, NEW n \in Names, Recover(i, n)
  PROVE  /\ TypeOK'
         /\ Session(i)' = Session(i) /\ app'[i].claimed = app[i].claimed \cup {n}
         /\ app'[i].offered = app[i].offered
         /\ \A j \in Instances \ {i} : app'[j] = app[j]
         /\ workers' = workers \cup {Worker(i, "recover", n, {}, FALSE)}
         /\ UNCHANGED <<disk, written, cut, holder>>
<1> DEFINE w == Worker(i, "recover", n, {}, FALSE)
<1>1. /\ Spend("recoveries") /\ UNCHANGED <<disk, written, cut, holder>>
      /\ app' = [app EXCEPT ![i].recovering = TRUE, ![i].claimed = @ \cup {n}]
      /\ workers' = workers \cup {w}
  BY DEF Recover
<1>2. app[i] \in AppSet /\ SessionsOK(app)
  BY SessionsAreOK DEF SessionsOK
<1>3. /\ app' \in [Instances -> AppSet]
      /\ app'[i].session = app[i].session /\ app'[i].state = app[i].state
      /\ app'[i].claimed = app[i].claimed \cup {n} /\ app'[i].offered = app[i].offered
      /\ \A j \in Instances \ {i} : app'[j] = app[j]
  BY <1>1, <1>2 DEF AppSet, SessionsOK
<1>4. SessionsOK(app')
  BY <1>2, <1>3 DEF SessionsOK
<1>5. w \in WorkerSet /\ IsConsistent(w)
  BY WorkerType DEF IsConsistent
<1> HIDE DEF w
<1>6. /\ workers' \subseteq WorkerSet
      /\ \A v \in workers' : IsConsistent(v)
  BY <1>1, <1>5 DEF TypeOK
<1>7. budget' \in [recordings : Nat, launches : Nat, recoveries : Nat,
                   crashes : Nat, faults : Nat]
  BY <1>1, SpendType
<1>8. TypeOK'
  BY <1>1, <1>4, <1>6, <1>7 DEF TypeOK, SessionsOK, Session, Capturing
<1> QED
  BY <1>1, <1>3, <1>8 DEF Session, w

(* The workers of an application that ended go on for nobody. *)
Orphan(i, v) == IF v.by = i THEN [v EXCEPT !.by = None] ELSE v

LEMMA ExitOutcome ==
  ASSUME TypeOK, NEW i \in Instances, Exit(i)
  PROVE  /\ TypeOK'
         /\ app'[i] = Down /\ \A j \in Instances \ {i} : app'[j] = app[j]
         /\ workers' = {Orphan(i, v) : v \in {w \in workers : ~(w.by = i /\ w.step = "done")}}
         /\ holder' = [n \in Names |-> IF holder[n] = i THEN None ELSE holder[n]]
         /\ UNCHANGED <<disk, written, cut>>
<1>1. /\ Spend("crashes") /\ UNCHANGED <<disk, written, cut>>
      /\ app' = [app EXCEPT ![i] = Down]
      /\ workers' = {w \in workers : w.by # i} \cup
           {[w EXCEPT !.by = None] : w \in {v \in workers : v.by = i /\ v.step # "done"}}
      /\ holder' = [n \in Names |-> IF holder[n] = i THEN None ELSE holder[n]]
  BY DEF Exit
<1>2. SessionsOK(app) /\ Down \in AppSet /\ Down.session = None /\ Down.state = "down"
  BY SessionsAreOK DEF AppSet, Down
<1>3. SessionsOK(app') /\ app'[i] = Down /\ \A j \in Instances \ {i} : app'[j] = app[j]
  BY <1>1, <1>2, SessionChanges
<1>4. workers' = {Orphan(i, v) : v \in {w \in workers : ~(w.by = i /\ w.step = "done")}}
  BY <1>1 DEF Orphan
<1>5. ASSUME NEW v \in workers, v.step # "done" \/ v.by # i
      PROVE  /\ Orphan(i, v) \in WorkerSet
             /\ IsConsistent(Orphan(i, v))
  BY <1>5 DEF TypeOK, WorkerSet, Orphan, IsConsistent
<1>6. /\ workers' \subseteq WorkerSet
      /\ \A v \in workers' : IsConsistent(v)
  BY <1>4, <1>5
<1>7. holder' \in [Names -> Instances \cup {None}]
  BY <1>1 DEF TypeOK
<1>8. budget' \in [recordings : Nat, launches : Nat, recoveries : Nat,
                   crashes : Nat, faults : Nat]
  BY <1>1, SpendType
<1>9. TypeOK'
  BY <1>1, <1>3, <1>6, <1>7, <1>8 DEF TypeOK, SessionsOK, Session, Capturing
<1> QED
  BY <1>1, <1>3, <1>4, <1>9

LEMMA AnswerOutcome ==
  ASSUME TypeOK, NEW w \in workers, Answer(w)
  PROVE  /\ TypeOK'
         /\ w.step = "done" /\ w.by \in Instances
         /\ Session(w.by)' = Session(w.by)
         /\ app'[w.by].claimed = app[w.by].claimed \ {w.name}
         /\ \A j \in Instances \ {w.by} : app'[j] = app[j]
         /\ Fresh(w.by, app', workers', disk')
         /\ workers' = workers \ {w}
         /\ UNCHANGED <<disk, written, cut, holder>>
<1> DEFINE i == w.by
           apps == [app EXCEPT ![i].claimed = @ \ {w.name},
                               ![i].recovering = @ /\ w.task # "recover"]
<1>1. /\ w.step = "done" /\ workers' = workers \ {w}
      /\ app' = Refreshed(i, apps, workers', disk)
      /\ UNCHANGED <<disk, written, cut, holder, budget>>
  BY DEF Answer
<1>2. i \in Instances /\ app[i] \in AppSet /\ SessionsOK(app)
  BY <1>1, SessionsAreOK DEF SessionsOK, TypeOK, WorkerSet, IsConsistent
<1> HIDE DEF i
<1>3. /\ apps \in [Instances -> AppSet]
      /\ apps[i].session = app[i].session /\ apps[i].state = app[i].state
      /\ apps[i].claimed = app[i].claimed \ {w.name}
      /\ \A j \in Instances \ {i} : apps[j] = app[j]
  BY <1>2 DEF AppSet, SessionsOK
<1> HIDE DEF apps
<1>4. SessionsOK(apps)
  BY <1>2, <1>3 DEF SessionsOK
<1>5. SessionsOK(app')
  BY <1>1, <1>2, <1>4, RefreshedSessions
<1>6. /\ app'[i].session = app[i].session /\ app'[i].claimed = app[i].claimed \ {w.name}
      /\ \A j \in Instances \ {i} : app'[j] = app[j]
      /\ Fresh(i, app', workers', disk)
  BY <1>1, <1>2, <1>3, RefreshedFacts
<1>7. TypeOK'
  BY <1>1, <1>5 DEF TypeOK, SessionsOK, Session, Capturing
<1>8. disk' = disk
  BY <1>1
<1> QED
  BY <1>1, <1>2, <1>6, <1>7, <1>8 DEF Session, i

(***************************************************************************)
(* Workers.  A step replaces a worker by its successor, if somebody waits  *)
(* for it.                                                                 *)
(***************************************************************************)
Replaces(w, next) ==
  /\ workers' = (workers \ {w}) \cup next
  /\ next \subseteq WorkerSet
  /\ \A v \in next : /\ v.by = w.by /\ v.name = w.name /\ v.task = w.task
                     /\ IsConsistent(v)
  /\ next = {} => w.by = None

Ended(w) ==
  IF w.by = None THEN {} ELSE {[w EXCEPT !.parts = {}, !.left = {}, !.step = "done"]}

LEMMA WorkerFacts ==
  ASSUME TypeOK, NEW w \in workers
  PROVE  /\ w \in WorkerSet /\ w.name \in Names /\ w.parts \subseteq Parts
         /\ IsConsistent(w) /\ w.by \in Instances \cup {None}
         /\ disk[w.name] \in NameSet /\ w.failed \in BOOLEAN
         /\ disk \in [Names -> NameSet]
BY DEF TypeOK, WorkerSet

LEMMA EndsReplaces ==
  ASSUME TypeOK, NEW w \in workers, Ends(w)
  PROVE  Replaces(w, Ended(w)) /\ \A v \in Ended(w) : v.step = "done"
<1>1. ASSUME NEW v, v = [w EXCEPT !.parts = {}, !.left = {}, !.step = "done"]
      PROVE  /\ v \in WorkerSet /\ v.by = w.by /\ v.name = w.name /\ v.task = w.task
             /\ v.left = {} /\ v.step = "done"
  BY <1>1, WorkerFacts DEF WorkerSet
<1> QED
  BY <1>1 DEF Ends, Ended, Replaces, IsConsistent

LEMMA BecomesReplaces ==
  ASSUME TypeOK, NEW w \in workers, NEW next \in WorkerSet, Becomes(w, next),
         next.by = w.by, next.name = w.name, next.task = w.task,
         IsConsistent(next)
  PROVE  Replaces(w, {next})
BY DEF Becomes, Replaces

LEMMA WorkerStepType ==
  ASSUME TypeOK, NEW w \in workers, NEW next, Replaces(w, next),
         app' = app, disk' \in [Names -> NameSet], written' = written,
         cut' \subseteq Names, holder' \in [Names -> Instances \cup {None}],
         budget' = budget \/ Spend("faults") \/ Spend("crashes")
  PROVE  TypeOK'
<1>1. /\ workers' \subseteq WorkerSet
      /\ \A v \in workers' : IsConsistent(v)
  BY DEF Replaces, TypeOK
<1>2. budget' \in [recordings : Nat, launches : Nat, recoveries : Nat,
                   crashes : Nat, faults : Nat]
  BY SpendType DEF TypeOK
<1> QED
  BY <1>1, <1>2 DEF TypeOK, Session, Capturing

(* The step of a worker, its effect on the files of its name apart. *)
Works(w, next) ==
  /\ TypeOK'
  /\ Replaces(w, next)
  /\ \A m \in Names \ {w.name} : disk'[m] = disk[m] /\ (m \in cut' <=> m \in cut)
  /\ UNCHANGED <<app, written>>

LEMMA ClaimOutcome ==
  ASSUME TypeOK, NEW w \in workers, Claim(w)
  PROVE  /\ w.step = "spawned" /\ UNCHANGED <<disk, cut>>
         /\ \/ /\ Works(w, Ended(w)) /\ UNCHANGED holder
               /\ \A v \in Ended(w) : v.step = "done"
            \/ \E next \in WorkerSet :
                 /\ ~Locked(app, workers, w.name)
                 /\ Works(w, {next})
                 /\ holder' = [holder EXCEPT ![w.name] = w.by]
                 /\ next.parts = w.parts
                 /\ next.step = IF w.task = "finalize" THEN "archive" ELSE "load"
<1>1. w.step = "spawned" /\ UNCHANGED <<app, disk, written, cut, budget>>
  BY DEF Claim
<1>2. /\ disk' \in [Names -> NameSet] /\ cut' \subseteq Names
      /\ holder \in [Names -> Instances \cup {None}]
  BY <1>1 DEF TypeOK
<1>3. CASE Locked(app, workers, w.name)
  <2>1. Ends(w) /\ UNCHANGED holder
    BY <1>3 DEF Claim
  <2>2. Replaces(w, Ended(w)) /\ \A v \in Ended(w) : v.step = "done"
    BY <2>1, EndsReplaces
  <2>3. TypeOK'
    BY <1>1, <1>2, <2>1, <2>2, WorkerStepType
  <2> QED
    BY <1>1, <2>1, <2>2, <2>3 DEF Works
<1>4. CASE ~Locked(app, workers, w.name)
  <2> DEFINE step == IF w.task = "finalize" THEN "archive" ELSE "load"
             next == [w EXCEPT !.step = step]
  <2>1. Becomes(w, next) /\ holder' = [holder EXCEPT ![w.name] = w.by]
    BY <1>4 DEF Claim
  <2>2. /\ next \in WorkerSet /\ next.by = w.by /\ next.name = w.name /\ next.task = w.task
        /\ next.left = w.left /\ next.step = step /\ next.parts = w.parts
    BY WorkerFacts DEF WorkerSet
  <2>3. IsConsistent(next)
    BY <1>1, <2>2, WorkerFacts DEF IsConsistent
  <2> HIDE DEF next
  <2>4. Replaces(w, {next})
    BY <2>1, <2>2, <2>3, BecomesReplaces
  <2>5. holder' \in [Names -> Instances \cup {None}]
    BY <1>2, <2>1, WorkerFacts
  <2>6. TypeOK'
    BY <1>1, <1>2, <2>4, <2>5, WorkerStepType
  <2> QED
    BY <1>1, <1>4, <2>1, <2>2, <2>4, <2>6 DEF Works
<1> QED
  BY <1>1, <1>3, <1>4

LEMMA JournalEdit ==
  ASSUME TypeOK, NEW n \in Names, NEW j \in JournalSet \cup {None},
         disk' = [disk EXCEPT ![n].journal = j]
  PROVE  /\ disk' \in [Names -> NameSet]
         /\ SameFiles(disk[n], disk'[n]) /\ disk'[n].journal = j
         /\ \A m \in Names \ {n} : disk'[m] = disk[m]
<1>1. disk \in [Names -> NameSet]
  BY DEF TypeOK
<1> QED
  BY <1>1 DEF NameSet, SameFiles

Archives(f, g, archive) ==
  /\ g.journal = f.journal /\ g.pcm = f.pcm /\ g.manifest = f.manifest
  /\ g.archive = archive

LEMMA ArchiveEdit ==
  ASSUME TypeOK, NEW n \in Names, NEW archive \in SUBSET [part : Parts, of : Nat],
         disk' = [disk EXCEPT ![n].archive = archive]
  PROVE  /\ disk' \in [Names -> NameSet]
         /\ Archives(disk[n], disk'[n], archive)
         /\ \A m \in Names \ {n} : disk'[m] = disk[m]
<1>1. disk \in [Names -> NameSet]
  BY DEF TypeOK
<1> QED
  BY <1>1 DEF NameSet, Archives

Describes(f, g, manifest) ==
  /\ g.journal = f.journal /\ g.pcm = f.pcm /\ g.archive = f.archive
  /\ g.manifest = manifest

LEMMA ManifestEdit ==
  ASSUME TypeOK, NEW n \in Names, NEW manifest \in ManifestSet,
         disk' = [disk EXCEPT ![n].manifest = manifest]
  PROVE  /\ disk' \in [Names -> NameSet]
         /\ Describes(disk[n], disk'[n], manifest)
         /\ \A m \in Names \ {n} : disk'[m] = disk[m]
<1>1. disk \in [Names -> NameSet]
  BY DEF TypeOK
<1> QED
  BY <1>1 DEF NameSet, Describes

(* A part has no file any more. *)
Removes(f, g, p) ==
  /\ g.journal = f.journal /\ g.archive = f.archive /\ g.manifest = f.manifest
  /\ g.pcm = [f.pcm EXCEPT ![p] = None]

LEMMA LoadOutcome ==
  ASSUME TypeOK, NEW w \in workers, Load(w)
  PROVE  LET f == disk[w.name]
             g == disk'[w.name]
         IN  /\ w.step = "load" /\ UNCHANGED <<cut, holder>>
             /\ \/ /\ Works(w, Ended(w)) /\ UNCHANGED disk
                   /\ \A v \in Ended(w) : v.step = "done"
                \/ \E next \in WorkerSet :
                     /\ Works(w, {next})
                     /\ next.step = "archive" /\ next.failed
                     /\ f.journal # None /\ SameFiles(f, g) /\ g.journal # None
                     /\ g.journal.parts = next.parts
                     /\ next.parts = {p \in f.journal.parts : f.pcm[p] # None}
                \/ \E next \in WorkerSet :
                     /\ Works(w, {next}) /\ UNCHANGED disk
                     /\ next.step = "quarantine" /\ f.journal # None
                     /\ \A p \in f.journal.parts : ~HasAudio(w.name, p)
<1> DEFINE n == w.name
           journal == disk[n].journal
           parts == {p \in journal.parts : disk[n].pcm[p] # None}
<1>1. w.step = "load" /\ UNCHANGED <<app, written, cut, holder, budget>>
  BY DEF Load
<1>2. /\ w \in WorkerSet /\ n \in Names /\ disk[n] \in NameSet
      /\ disk \in [Names -> NameSet] /\ cut \subseteq Names
      /\ holder \in [Names -> Instances \cup {None}] /\ w.left = {}
  BY <1>1, WorkerFacts DEF TypeOK, IsConsistent
<1>3. CASE journal = None
  <2>1. Ends(w) /\ UNCHANGED disk
    BY <1>3 DEF Load
  <2>2. Replaces(w, Ended(w)) /\ \A v \in Ended(w) : v.step = "done"
    BY <2>1, EndsReplaces
  <2>3. TypeOK'
    BY <1>1, <1>2, <2>1, <2>2, WorkerStepType
  <2> QED
    BY <1>1, <2>1, <2>2, <2>3 DEF Works
<1>4. CASE journal # None /\ \E p \in parts : HasAudio(n, p)
  <2> DEFINE next == [w EXCEPT !.parts = parts, !.failed = TRUE, !.step = "archive"]
             later == [parts |-> parts, failed |-> TRUE]
  <2>1. /\ disk' = [disk EXCEPT ![n].journal = later]
        /\ Becomes(w, next)
    BY <1>4 DEF Load
  <2>2. parts \subseteq Parts
    BY <1>2, <1>4 DEF NameSet, JournalSet
  <2> HIDE DEF parts
  <2>3. later \in JournalSet /\ later # None /\ later.parts = parts
    BY <2>2, NoneIsNothing DEF JournalSet
  <2>4. /\ next \in WorkerSet /\ next.by = w.by /\ next.name = w.name /\ next.task = w.task
        /\ next.left = w.left /\ next.parts = parts /\ next.failed /\ next.step = "archive"
    BY <1>2, <2>2 DEF WorkerSet
  <2>5. IsConsistent(next)
    BY <1>2, <2>4 DEF IsConsistent
  <2> HIDE DEF next, later, n
  <2>6. Replaces(w, {next})
    BY <2>1, <2>4, <2>5, BecomesReplaces
  <2>7. /\ disk' \in [Names -> NameSet]
        /\ SameFiles(disk[n], disk'[n]) /\ disk'[n].journal = later
        /\ \A m \in Names \ {n} : disk'[m] = disk[m]
    BY <1>2, <2>1, <2>3, JournalEdit
  <2>8. TypeOK'
    BY <1>1, <1>2, <2>6, <2>7, WorkerStepType
  <2> QED
    BY <1>1, <1>4, <2>3, <2>4, <2>6, <2>7, <2>8 DEF Works, parts, n
<1>5. CASE journal # None /\ ~\E p \in parts : HasAudio(n, p)
  <2> DEFINE next == [w EXCEPT !.step = "quarantine"]
  <2>1. UNCHANGED disk /\ Becomes(w, next)
    BY <1>5 DEF Load
  <2>4. /\ next \in WorkerSet /\ next.by = w.by /\ next.name = w.name /\ next.task = w.task
        /\ next.left = {} /\ next.step = "quarantine"
    BY <1>2 DEF WorkerSet
  <2>5. IsConsistent(next)
    BY <2>4 DEF IsConsistent
  <2> HIDE DEF next
  <2>6. Replaces(w, {next})
    BY <2>1, <2>4, <2>5, BecomesReplaces
  <2>8. TypeOK'
    BY <1>1, <1>2, <2>1, <2>6, WorkerStepType
  <2>9. \A p \in journal.parts : ~HasAudio(n, p)
    BY <1>5 DEF HasAudio
  <2> QED
    BY <1>1, <1>5, <2>1, <2>4, <2>6, <2>8, <2>9 DEF Works
<1> QED
  BY <1>1, <1>3, <1>4, <1>5

LEMMA QuarantineOutcome ==
  ASSUME TypeOK, NEW w \in workers, Quarantine(w)
  PROVE  LET f == disk[w.name]
             g == disk'[w.name]
         IN  /\ w.step = "quarantine" /\ UNCHANGED <<cut, holder>>
             /\ \/ \E p \in Files(f) : Works(w, {w}) /\ Removes(f, g, p)
                \/ /\ Works(w, Ended(w)) /\ Files(f) = {}
                   /\ \A v \in Ended(w) : v.step = "done"
                   /\ SameFiles(f, g) /\ g.journal = None
<1> DEFINE n == w.name
           f == disk[n]
<1>1. w.step = "quarantine" /\ UNCHANGED <<app, written, cut, holder, budget>>
  BY DEF Quarantine
<1>2. /\ w \in WorkerSet /\ n \in Names /\ f \in NameSet
      /\ disk \in [Names -> NameSet] /\ cut \subseteq Names
      /\ holder \in [Names -> Instances \cup {None}] /\ IsConsistent(w)
  BY <1>1, WorkerFacts DEF TypeOK
<1>3. \/ \E p \in Files(f) :
           /\ disk' = [disk EXCEPT ![n].pcm[p] = None,
                                   ![n].unrecoverable = @ \cup {[file |-> disk[n].pcm[p], part |-> p]}]
           /\ UNCHANGED workers
      \/ /\ Files(f) = {}
         /\ disk' = [disk EXCEPT ![n].journal = None]
         /\ Ends(w)
  BY DEF Quarantine, Files
<1>4. CASE /\ Files(f) = {}
           /\ disk' = [disk EXCEPT ![n].journal = None]
           /\ Ends(w)
  <2>1. Replaces(w, Ended(w)) /\ \A v \in Ended(w) : v.step = "done"
    BY <1>4, EndsReplaces
  <2>2. /\ disk' \in [Names -> NameSet]
        /\ SameFiles(disk[n], disk'[n]) /\ disk'[n].journal = None
        /\ \A m \in Names \ {n} : disk'[m] = disk[m]
    BY <1>2, <1>4, JournalEdit
  <2>3. TypeOK'
    BY <1>1, <1>2, <2>1, <2>2, WorkerStepType
  <2> QED
    BY <1>1, <1>4, <2>1, <2>2, <2>3 DEF Works
<1>5. ASSUME NEW p \in Files(f),
             disk' = [disk EXCEPT ![n].pcm[p] = None,
                                  ![n].unrecoverable = @ \cup {[file |-> disk[n].pcm[p], part |-> p]}],
             UNCHANGED workers
      PROVE  Works(w, {w}) /\ Removes(f, disk'[n], p)
  <2> DEFINE x == [file |-> disk[n].pcm[p], part |-> p]
             files == [f.pcm EXCEPT ![p] = None]
             lost == f.unrecoverable \cup {x}
             g == [[f EXCEPT !.pcm = files] EXCEPT !.unrecoverable = lost]
  <2>1. p \in Parts /\ f.pcm[p] \in FileSet /\ f.pcm \in [Parts -> FileSet \cup {None}]
    BY <1>2 DEF Files, NameSet
  <2>2. x \in [file : FileSet, part : Parts] /\ files \in [Parts -> FileSet \cup {None}]
    BY <2>1
  <2>3. lost \in SUBSET [file : FileSet, part : Parts]
    BY <1>2, <2>2 DEF NameSet
  <2>4. disk' = [disk EXCEPT ![n] = g]
    BY <1>2, <1>5 DEF NameSet
  <2> HIDE DEF files, lost
  <2>5. /\ g \in NameSet /\ g.journal = f.journal /\ g.archive = f.archive
        /\ g.manifest = f.manifest /\ g.pcm = files
    BY <1>2, <2>2, <2>3 DEF NameSet
  <2> HIDE DEF g, f
  <2>6. /\ disk' \in [Names -> NameSet] /\ disk'[n] = g
        /\ \A m \in Names \ {n} : disk'[m] = disk[m]
    BY <1>2, <2>4, <2>5
  <2>7. Replaces(w, {w})
    BY <1>2, <1>5 DEF Replaces
  <2>8. TypeOK'
    BY <1>1, <1>2, <2>6, <2>7, WorkerStepType
  <2> QED
    BY <1>1, <2>5, <2>6, <2>7, <2>8 DEF Works, Removes, files
<1> QED
  BY <1>1, <1>3, <1>4, <1>5

LEMMA ArchiveOutcome ==
  ASSUME TypeOK, NEW w \in workers, Archive(w)
  PROVE  LET f == disk[w.name]
             g == disk'[w.name]
         IN  /\ w.step = "archive" /\ UNCHANGED <<cut, holder>>
             /\ \/ /\ Works(w, Ended(w)) /\ UNCHANGED disk
                   /\ \A v \in Ended(w) : v.step = "done"
                \/ \E next \in WorkerSet :
                     /\ Works(w, {next})
                     /\ next.step = "manifest" /\ next.failed = w.failed
                     /\ w.parts \subseteq Files(f) /\ w.parts \cap Audible(f) # {}
                     /\ Archives(f, g, {Entry(f, p) : p \in w.parts \cap Audible(f)})
<1> DEFINE n == w.name
           f == disk[n]
           audible == {p \in w.parts : HasAudio(n, p)}
<1>1. w.step = "archive" /\ UNCHANGED <<app, written, cut, holder, budget>>
  BY DEF Archive
<1>2. /\ w \in WorkerSet /\ n \in Names /\ f \in NameSet /\ w.parts \subseteq Parts
      /\ disk \in [Names -> NameSet] /\ cut \subseteq Names
      /\ holder \in [Names -> Instances \cup {None}] /\ w.left = {}
  BY <1>1, WorkerFacts DEF TypeOK, IsConsistent
<1>3. CASE audible = {} \/ \E p \in w.parts : disk[n].pcm[p] = None
  <2>1. Ends(w) /\ UNCHANGED disk
    BY <1>3 DEF Archive
  <2>2. Replaces(w, Ended(w)) /\ \A v \in Ended(w) : v.step = "done"
    BY <2>1, EndsReplaces
  <2>3. TypeOK'
    BY <1>1, <1>2, <2>1, <2>2, WorkerStepType
  <2> QED
    BY <1>1, <2>1, <2>2, <2>3 DEF Works
<1>4. CASE ~(audible = {} \/ \E p \in w.parts : disk[n].pcm[p] = None)
  <2> DEFINE next == [w EXCEPT !.step = "manifest"]
             archive == {[part |-> p, of |-> disk[n].pcm[p].of] : p \in audible}
             entries == {Entry(f, p) : p \in w.parts \cap Audible(f)}
  <2>1. disk' = [disk EXCEPT ![n].archive = archive] /\ Becomes(w, next)
    BY <1>4 DEF Archive
  <2>2. audible = w.parts \cap Audible(f)
    BY <1>2 DEF Audible, Files, HasAudio
  <2>3. archive = entries
    BY <2>2 DEF Entry
  <2>4. \A p \in Audible(f) : Entry(f, p) \in [part : Parts, of : Nat]
    BY <1>2 DEF Audible, Files, NameSet, FileSet, Entry
  <2>5. entries \in SUBSET [part : Parts, of : Nat]
    BY <2>4
  <2>6. /\ next \in WorkerSet /\ next.by = w.by /\ next.name = w.name /\ next.task = w.task
        /\ next.left = {} /\ next.step = "manifest" /\ next.failed = w.failed
    BY <1>2 DEF WorkerSet
  <2>7. IsConsistent(next)
    BY <2>6 DEF IsConsistent
  <2>8. w.parts \subseteq Files(f) /\ w.parts \cap Audible(f) # {}
    BY <1>2, <1>4, <2>2 DEF Files
  <2> HIDE DEF next, archive, entries
  <2>9. Replaces(w, {next})
    BY <2>1, <2>6, <2>7, BecomesReplaces
  <2>10. /\ disk' \in [Names -> NameSet]
         /\ Archives(disk[n], disk'[n], entries)
         /\ \A m \in Names \ {n} : disk'[m] = disk[m]
    BY <1>2, <2>1, <2>3, <2>5, ArchiveEdit
  <2>11. TypeOK'
    BY <1>1, <1>2, <2>9, <2>10, WorkerStepType
  <2> QED
    BY <1>1, <2>6, <2>8, <2>9, <2>10, <2>11 DEF Works, entries
<1> QED
  BY <1>3, <1>4

LEMMA WriteManifestOutcome ==
  ASSUME TypeOK, NEW w \in workers, WriteManifest(w)
  PROVE  LET f == disk[w.name]
             g == disk'[w.name]
         IN  /\ w.step = "manifest" /\ UNCHANGED <<cut, holder>>
             /\ \E next \in WorkerSet, manifest \in ManifestSet :
                  /\ Works(w, {next})
                  /\ next.step = "delete" /\ next.failed = w.failed
                  /\ manifest.archive = f.archive
                  /\ manifest.complete => ~w.failed
                  /\ Describes(f, g, manifest)
<1> DEFINE n == w.name
           f == disk[n]
           complete == ~w.failed /\ \E a \in f.archive : a.part \in Segments
           manifest == [archive |-> f.archive, complete |-> complete]
           next == [w EXCEPT !.step = "delete", !.left = w.parts]
<1>1. /\ w.step = "manifest" /\ UNCHANGED <<app, written, cut, holder, budget>>
      /\ disk' = [disk EXCEPT ![n].manifest = manifest]
      /\ Becomes(w, next)
  BY DEF WriteManifest
<1>2. /\ w \in WorkerSet /\ n \in Names /\ f \in NameSet /\ w.parts \subseteq Parts
      /\ disk \in [Names -> NameSet] /\ cut \subseteq Names
      /\ holder \in [Names -> Instances \cup {None}]
  BY <1>1, WorkerFacts DEF TypeOK
<1>3. complete \in BOOLEAN /\ (complete => ~w.failed)
  OBVIOUS
<1> HIDE DEF complete
<1>4. manifest \in ManifestSet /\ manifest.archive = f.archive /\ manifest.complete = complete
  BY <1>2, <1>3 DEF ManifestSet, NameSet
<1>6. /\ next \in WorkerSet /\ next.by = w.by /\ next.name = w.name /\ next.task = w.task
      /\ next.left = w.parts /\ next.parts = w.parts
      /\ next.step = "delete" /\ next.failed = w.failed
  BY <1>2 DEF WorkerSet
<1>7. IsConsistent(next)
  BY <1>6 DEF IsConsistent
<1> HIDE DEF next, manifest
<1>9. Replaces(w, {next})
  BY <1>1, <1>6, <1>7, BecomesReplaces
<1>10. /\ disk' \in [Names -> NameSet]
       /\ Describes(disk[n], disk'[n], manifest)
       /\ \A m \in Names \ {n} : disk'[m] = disk[m]
  BY <1>1, <1>2, <1>4, ManifestEdit
<1>11. TypeOK'
  BY <1>1, <1>2, <1>9, <1>10, WorkerStepType
<1>12. Works(w, {next})
  BY <1>1, <1>9, <1>10, <1>11 DEF Works
<1> QED
  BY <1>1, <1>3, <1>4, <1>6, <1>10, <1>12

(* A worker that ends without a change to the files. *)
LEMMA EndsOutcome ==
  ASSUME TypeOK, NEW w \in workers, Ends(w), UNCHANGED <<app, disk, written, holder>>,
         cut' = cut \/ cut' = cut \cup {w.name},
         budget' = budget \/ Spend("faults") \/ Spend("crashes")
  PROVE  Works(w, Ended(w)) /\ \A v \in Ended(w) : v.step = "done"
<1>1. /\ disk' \in [Names -> NameSet] /\ cut' \subseteq Names
      /\ holder' \in [Names -> Instances \cup {None}]
      /\ \A m \in Names \ {w.name} : m \in cut' <=> m \in cut
  BY WorkerFacts DEF TypeOK
<1>2. Replaces(w, Ended(w)) /\ \A v \in Ended(w) : v.step = "done"
  BY EndsReplaces
<1>3. TypeOK'
  BY <1>1, <1>2, WorkerStepType
<1> QED
  BY <1>1, <1>2, <1>3 DEF Works

LEMMA RemoveFileOutcome ==
  ASSUME TypeOK, NEW w \in workers, NEW p \in Parts, RemoveFile(w, p)
  PROVE  LET f == disk[w.name]
             g == disk'[w.name]
         IN  /\ w.step = "delete" /\ UNCHANGED <<cut, holder>>
             /\ \E next \in WorkerSet :
                  /\ Works(w, {next})
                  /\ next.step = "delete" /\ next.failed = w.failed
                  /\ Removes(f, g, p) \/ g = f
<1> DEFINE n == w.name
           next == [w EXCEPT !.left = w.left \ {p}]
<1>1. /\ w.step = "delete" /\ p \in w.left /\ UNCHANGED <<app, written, cut, holder>>
      /\ Becomes(w, next)
      /\ \/ disk' = [disk EXCEPT ![n].pcm[p] = None] /\ budget' = budget
         \/ Spend("faults") /\ disk' = disk
  BY DEF RemoveFile
<1>2. /\ w \in WorkerSet /\ n \in Names /\ IsConsistent(w)
      /\ disk \in [Names -> NameSet] /\ cut \subseteq Names
      /\ holder \in [Names -> Instances \cup {None}]
  BY <1>1, WorkerFacts DEF TypeOK
<1>6. /\ next \in WorkerSet /\ next.by = w.by /\ next.name = w.name /\ next.task = w.task
      /\ next.left = w.left \ {p} /\ next.parts = w.parts
      /\ next.step = "delete" /\ next.failed = w.failed
  BY <1>1, <1>2 DEF WorkerSet
<1>7. IsConsistent(next)
  BY <1>2, <1>6 DEF IsConsistent
<1> HIDE DEF next
<1>9. Replaces(w, {next})
  BY <1>1, <1>6, <1>7, BecomesReplaces
<1>10. /\ disk' \in [Names -> NameSet]
       /\ Removes(disk[n], disk'[n], p) \/ disk'[n] = disk[n]
       /\ \A m \in Names \ {n} : disk'[m] = disk[m]
  BY <1>1, <1>2, PutFileType DEF PutsFile, Removes
<1>11. TypeOK'
  BY <1>1, <1>2, <1>9, <1>10, WorkerStepType
<1>12. Works(w, {next})
  BY <1>1, <1>9, <1>10, <1>11 DEF Works
<1> QED
  BY <1>1, <1>6, <1>10, <1>12

LEMMA RemoveJournalOutcome ==
  ASSUME TypeOK, NEW w \in workers, RemoveJournal(w)
  PROVE  LET f == disk[w.name]
             g == disk'[w.name]
         IN  /\ w.step = "delete" /\ UNCHANGED holder
             /\ Works(w, Ended(w)) /\ \A v \in Ended(w) : v.step = "done"
             /\ \/ SameFiles(f, g) /\ g.journal = None /\ UNCHANGED cut
                \/ UNCHANGED disk /\ cut' = cut \cup {w.name}
<1>1. /\ w.step = "delete" /\ UNCHANGED <<app, written, holder>> /\ Ends(w)
      /\ \/ disk' = [disk EXCEPT ![w.name].journal = None] /\ UNCHANGED <<cut, budget>>
         \/ Spend("faults") /\ UNCHANGED disk /\ cut' = cut \cup {w.name}
  BY DEF RemoveJournal
<1>2. CASE Spend("faults") /\ UNCHANGED disk /\ cut' = cut \cup {w.name}
  BY <1>1, <1>2, EndsOutcome
<1>3. CASE disk' = [disk EXCEPT ![w.name].journal = None] /\ UNCHANGED <<cut, budget>>
  <2>1. Replaces(w, Ended(w)) /\ \A v \in Ended(w) : v.step = "done"
    BY <1>1, EndsReplaces
  <2>2. /\ disk' \in [Names -> NameSet]
        /\ SameFiles(disk[w.name], disk'[w.name]) /\ disk'[w.name].journal = None
        /\ \A m \in Names \ {w.name} : disk'[m] = disk[m]
    BY <1>3, WorkerFacts, JournalEdit
  <2>3. cut' \subseteq Names /\ holder' \in [Names -> Instances \cup {None}]
    BY <1>1, <1>3 DEF TypeOK
  <2>4. TypeOK'
    BY <1>1, <1>3, <2>1, <2>2, <2>3, WorkerStepType
  <2> QED
    BY <1>1, <1>3, <2>1, <2>2, <2>4 DEF Works
<1> QED
  BY <1>1, <1>2, <1>3

LEMMA WorkFailsOutcome ==
  ASSUME TypeOK, NEW w \in workers, WorkFails(w)
  PROVE  /\ w.step \in {"load", "archive", "manifest"} /\ UNCHANGED <<disk, cut, holder>>
         /\ Works(w, Ended(w)) /\ \A v \in Ended(w) : v.step = "done"
BY EndsOutcome DEF WorkFails

LEMMA CrashWorkerOutcome ==
  ASSUME TypeOK, NEW w \in workers, CrashWorker(w)
  PROVE  /\ w.step # "done" /\ UNCHANGED <<disk, holder>>
         /\ cut' = IF w.step = "delete" THEN cut \cup {w.name} ELSE cut
         /\ Works(w, Ended(w)) /\ \A v \in Ended(w) : v.step = "done"
BY EndsOutcome DEF CrashWorker

(***************************************************************************)
(* One name: what each effect on its files keeps.                          *)
(***************************************************************************)
Audio == [name : Names, of : Nat, part : Parts]

(* A worker that waits to finalize finds what it found before. *)
StillFinalizes(ws, f, g, heard) ==
  \A v \in ws : Waits(v) /\ Finalizes(v, f, heard) => Finalizes(v, g, heard)

LEMMA FileFacts ==
  ASSUME NEW f \in NameSet
  PROVE  /\ \A p \in Files(f) : p \in Parts /\ f.pcm[p] \in FileSet /\ f.pcm[p] # None
         /\ \A p \in Parts \ Files(f) : f.pcm[p] = None
         /\ Audible(f) \subseteq Files(f) /\ Files(f) \subseteq Parts
         /\ \A a \in Audio : InFile(f, a) => a.part \in Audible(f)
         /\ \A a \in Audio : InFile(f, a) => Entry(f, a.part) = [part |-> a.part, of |-> a.of]
<1>1. /\ \A p \in Files(f) : p \in Parts /\ f.pcm[p] \in FileSet /\ f.pcm[p] # None
      /\ \A p \in Parts \ Files(f) : f.pcm[p] = None
      /\ Audible(f) \subseteq Files(f) /\ Files(f) \subseteq Parts
  BY DEF NameSet, Files, Audible
<1>2. ASSUME NEW a \in Audio, InFile(f, a)
      PROVE  /\ a.part \in Audible(f)
             /\ Entry(f, a.part) = [part |-> a.part, of |-> a.of]
  <2> DEFINE x == [of |-> a.of, audio |-> TRUE]
  <2>1. f.pcm[a.part] = x
    BY <1>2 DEF InFile
  <2>2. x \in FileSet /\ x.of = a.of /\ x.audio = TRUE /\ a.part \in Parts
    BY DEF Audio, FileSet
  <2> HIDE DEF x
  <2>3. x # None
    BY <2>2, NoneIsNothing
  <2> QED
    BY <2>1, <2>2, <2>3 DEF Audible, Files, Entry
<1> QED
  BY <1>1, <1>2

LEMMA SameFilesFacts ==
  ASSUME NEW f, NEW g, SameFiles(f, g)
  PROVE  /\ Files(g) = Files(f) /\ Audible(g) = Audible(f)
         /\ \A p : Entry(g, p) = Entry(f, p)
         /\ \A a : InFile(g, a) <=> InFile(f, a)
         /\ Matches(g) <=> Matches(f)
         /\ g.archive = f.archive /\ g.manifest = f.manifest
BY DEF SameFiles, Files, Audible, Entry, InFile, Matches

LEMMA SameFilesFinalize ==
  ASSUME NEW f, NEW g, SameFiles(f, g), NEW heard, NEW w
  PROVE  Finalizes(w, f, heard) <=> Finalizes(w, g, heard)
BY SameFilesFacts DEF Finalizes

(* The recorder of a name nobody else works on. *)
LEMMA ContinueKeeps ==
  ASSUME NEW f \in NameSet, NEW g \in NameSet, NEW heard \in SUBSET Audio, NEW c \in BOOLEAN,
         NEW ws, NEW s \in SessionSet, NEW next \in SessionSet,
         RecordingInv(f, heard, c, {s}, ws), \A w \in ws : ~Active(w),
         SameFiles(f, g), Continues(s, next, f.journal, g.journal),
         next.live \subseteq next.parts
  PROVE  RecordingInv(g, heard, c, {next}, ws)
<1>1. /\ NameInv(f, heard, c, Deletes(ws)) /\ SessionInv(s, f, heard, ws)
      /\ \A w \in ws : WorkerInv(w, f, heard, c)
  BY DEF RecordingInv
<1>2. /\ Files(g) = Files(f) /\ Audible(g) = Audible(f)
      /\ \A p : Entry(g, p) = Entry(f, p)
      /\ \A a : InFile(g, a) <=> InFile(f, a)
      /\ g.archive = {} /\ g.manifest = None /\ g.unrecoverable = {}
      /\ g.pcm = f.pcm
  BY <1>1, SameFilesFacts DEF SameFiles, SessionInv
<1>3. Files(f) \subseteq next.parts
  BY <1>1 DEF SessionInv, Continues, Parts, Files
<1>4. f.journal # None => g.journal # None
  BY DEF Continues
<1>5. NameInv(g, heard, c, Deletes(ws))
  <2>1. g.journal # None => Files(g) \subseteq g.journal.parts
    BY <1>1, <1>2, <1>3 DEF NameInv, Continues
  <2>2. \A p \in Audible(g) : g.journal # None
    BY <1>1, <1>2, <1>4 DEF SessionInv, Audible
  <2>3. \A a \in heard : InFile(g, a)
    BY <1>1, <1>2 DEF SessionInv
  <2>4. g.journal = None => heard = {}
    BY <2>2, <2>3, FileFacts
  <2>5. ~c
    BY <1>1 DEF NameInv, SessionInv
  <2> QED
    BY <1>2, <2>1, <2>2, <2>3, <2>4, <2>5 DEF NameInv
<1>6. SessionInv(next, g, heard, ws)
  <2>1. /\ Files(g) \cap Segments \subseteq next.started
        /\ next.live \cap Segments \subseteq next.started
        /\ \A p \in Files(g) : g.pcm[p].of = next.id
    BY <1>1, <1>2 DEF SessionInv, Continues
  <2>2. Files(g) # {} => g.journal # None /\ \A w \in ws : ~Waits(w)
    BY <1>1, <1>2, <1>4 DEF SessionInv
  <2>3. next.live # {} => g.journal # None /\ next.live \subseteq g.journal.parts
    BY <1>1 DEF SessionInv, Continues
  <2> QED
    BY <1>1, <1>2, <1>3, <2>1, <2>2, <2>3 DEF SessionInv
<1>7. \A w \in ws : WorkerInv(w, g, heard, c)
  BY <1>1, SameFilesFinalize DEF WorkerInv, Active
<1> QED
  BY <1>5, <1>6, <1>7 DEF RecordingInv

(* It writes where no file was, or the first audio of its file. *)
LEMMA WriteKeeps ==
  ASSUME NEW f \in NameSet, NEW g \in NameSet, NEW heard \in SUBSET Audio, NEW c \in BOOLEAN,
         NEW ws, NEW s \in SessionSet, NEW p \in s.live, s.live \subseteq s.parts,
         s.parts \subseteq Parts, NEW later,
         RecordingInv(f, heard, c, {s}, ws), \A w \in ws : ~Active(w) /\ ~Waits(w),
         \/ /\ f.pcm[p] = None \/ f.pcm[p].of # s.id
            /\ PutsFile(f, g, p, [of |-> s.id, audio |-> FALSE])
            /\ later = heard
         \/ /\ f.pcm[p] # None /\ f.pcm[p].of = s.id
            /\ PutsFile(f, g, p, [of |-> s.id, audio |-> TRUE])
            /\ later = heard \cup {[name |-> s.name, of |-> s.id, part |-> p]}
  PROVE  RecordingInv(g, later, c, {s}, ws)
<1>1. /\ NameInv(f, heard, c, Deletes(ws)) /\ SessionInv(s, f, heard, ws)
      /\ \A w \in ws : WorkerInv(w, f, heard, c)
  BY DEF RecordingInv
<1>2. PICK x \in FileSet : PutsFile(f, g, p, x) /\ x.of = s.id
  <2>1. \A b \in BOOLEAN : /\ [of |-> s.id, audio |-> b] \in FileSet
                          /\ [of |-> s.id, audio |-> b].of = s.id
    BY DEF SessionSet, FileSet
  <2> QED
    BY <2>1
<1>3. /\ g.journal = f.journal /\ g.archive = {} /\ g.manifest = None /\ g.unrecoverable = {}
      /\ p \in Parts /\ x # None /\ f.pcm \in [Parts -> FileSet \cup {None}]
      /\ g.pcm = [f.pcm EXCEPT ![p] = x]
  BY <1>1, <1>2, NoneIsNothing DEF SessionInv, PutsFile, NameSet
<1>4. /\ Files(g) = Files(f) \cup {p}
      /\ \A q \in Files(g) : g.pcm[q].of = s.id
      /\ \A q \in Parts \ {p} : g.pcm[q] = f.pcm[q]
  BY <1>1, <1>2, <1>3 DEF SessionInv, Files
<1>5. f.journal # None /\ s.live \subseteq f.journal.parts
  BY <1>1 DEF SessionInv
<1>6. \A a \in later : InFile(g, a)
  <2>1. ASSUME NEW a \in heard, a.part # p
        PROVE  InFile(g, a)
    BY <1>1, <1>4, <2>1 DEF SessionInv, InFile, Audio
  <2>2. ASSUME NEW a \in heard, a.part = p
        PROVE  p \in Files(f) /\ f.pcm[p] = [of |-> a.of, audio |-> TRUE]
    BY <1>1, <2>2, FileFacts DEF SessionInv, InFile, Audible
  <2>3. CASE /\ f.pcm[p] = None \/ f.pcm[p].of # s.id
             /\ PutsFile(f, g, p, [of |-> s.id, audio |-> FALSE])
             /\ later = heard
    BY <1>1, <2>1, <2>2, <2>3 DEF SessionInv, Files
  <2>4. CASE /\ f.pcm[p] # None /\ f.pcm[p].of = s.id
             /\ PutsFile(f, g, p, [of |-> s.id, audio |-> TRUE])
             /\ later = heard \cup {[name |-> s.name, of |-> s.id, part |-> p]}
    <3>1. g.pcm[p] = [of |-> s.id, audio |-> TRUE]
      BY <1>3, <2>4 DEF PutsFile
    <3>2. ASSUME NEW a \in heard, a.part = p
          PROVE  InFile(g, a)
      <4>1. f.pcm[p] = [of |-> a.of, audio |-> TRUE]
        BY <2>2, <3>2
      <4>2. f.pcm[p].of = a.of
        BY <4>1
      <4> QED
        BY <2>4, <3>1, <3>2, <4>2 DEF InFile
    <3> DEFINE b == [name |-> s.name, of |-> s.id, part |-> p]
    <3>3. b.of = s.id /\ b.part = p
      OBVIOUS
    <3> HIDE DEF b
    <3>4. InFile(g, b)
      BY <3>1, <3>3 DEF InFile
    <3>5. later = heard \cup {b}
      BY <2>4 DEF b
    <3> QED
      BY <2>1, <3>2, <3>4, <3>5
  <2> QED
    BY <2>3, <2>4
<1>7. NameInv(g, later, c, Deletes(ws))
  BY <1>1, <1>3, <1>4, <1>5, <1>6 DEF NameInv, SessionInv
<1>8. SessionInv(s, g, later, ws)
  BY <1>1, <1>3, <1>4, <1>5, <1>6 DEF SessionInv
<1>9. \A w \in ws : WorkerInv(w, g, later, c)
  BY <1>1 DEF WorkerInv, Active, Waits
<1> QED
  BY <1>7, <1>8, <1>9 DEF RecordingInv

(* A recorder begins on a name that is not taken. *)
LEMMA BeginKeeps ==
  ASSUME NEW f \in NameSet, NEW heard \in SUBSET Audio, NEW c \in BOOLEAN,
         NEW ws, NEW s,
         RecordingInv(f, heard, c, {}, ws), \A w \in ws : ~Active(w), ~Taken(f),
         s.parts = {}, s.started = {}, s.live = {}
  PROVE  RecordingInv(f, heard, c, {s}, ws)
<1>1. NameInv(f, heard, c, Deletes(ws)) /\ \A w \in ws : WorkerInv(w, f, heard, c)
  BY DEF RecordingInv
<1>2. /\ f.archive = {} /\ f.manifest = None /\ f.unrecoverable = {} /\ Files(f) = {}
  BY DEF Taken, Files
<1>3. ~c /\ ~Deletes(ws)
  BY <1>1, <1>2 DEF NameInv, Deletes, Active
<1>4. heard = {}
  BY <1>1, <1>2, <1>3, FileFacts DEF NameInv, InArchive
<1> QED
  BY <1>1, <1>2, <1>4 DEF RecordingInv, SessionInv

(* It ends, and leaves a worker or not. *)
LEMMA FinishKeeps ==
  ASSUME NEW f \in NameSet, NEW g \in NameSet, NEW heard \in SUBSET Audio, NEW c \in BOOLEAN,
         NEW ws, NEW s \in SessionSet, NEW new,
         RecordingInv(f, heard, c, {s}, ws), \A w \in ws : ~Active(w),
         SameFiles(f, g),
         \/ FinalParts(s, f) = {} /\ g.journal = None
         \/ g.journal # None /\ g.journal.parts = FinalParts(s, f),
         \A w \in new : w.step = "spawned" /\ w.parts = FinalParts(s, f)
  PROVE  RecordingInv(g, heard, c, {}, ws \cup new)
<1>1. /\ NameInv(f, heard, c, Deletes(ws)) /\ SessionInv(s, f, heard, ws)
      /\ \A w \in ws : WorkerInv(w, f, heard, c)
  BY DEF RecordingInv
<1>2. /\ Files(g) = Files(f) /\ Audible(g) = Audible(f)
      /\ \A a : InFile(g, a) <=> InFile(f, a)
      /\ g.archive = {} /\ g.manifest = None
  BY <1>1, SameFilesFacts DEF SameFiles, SessionInv
<1>3. Files(f) \subseteq FinalParts(s, f)
  BY <1>1 DEF SessionInv, FinalParts, Files
<1>4. \A a \in heard : InFile(g, a)
  BY <1>1, <1>2 DEF SessionInv
<1>5. g.journal = None => Files(g) = {} /\ Audible(g) = {} /\ heard = {}
  BY <1>2, <1>3, <1>4, FileFacts
<1>6. ~c
  BY <1>1 DEF NameInv, SessionInv
<1>7. NameInv(g, heard, c, Deletes(ws \cup new))
  BY <1>2, <1>3, <1>4, <1>5, <1>6 DEF NameInv
<1>8. \A w \in ws : WorkerInv(w, g, heard, c)
  BY <1>1, SameFilesFinalize DEF WorkerInv, Active
<1>9. \A w \in new : WorkerInv(w, g, heard, c)
  BY <1>2, <1>3, <1>4 DEF WorkerInv, Finalizes
<1> QED
  BY <1>7, <1>8, <1>9 DEF RecordingInv

(* What the worker w that has the lock owes to its successors in next and  *)
(* to the workers ws that wait for it: files as they may find them.        *)
Finds(w, f, heard, c) ==
  NameInv(f, heard, c, w.step = "delete") /\ WorkerInv(w, f, heard, c)

Leaves(next, ws, f, g, heard, c) ==
  /\ NameInv(g, heard, c, Deletes(next))
  /\ \A v \in next : WorkerInv(v, g, heard, c)
  /\ StillFinalizes(ws, f, g, heard)

(* It ends with nothing done: a cut clean-up is remembered. *)
LEMMA EndLeaves ==
  ASSUME NEW f, NEW heard, NEW c \in BOOLEAN, NEW d \in BOOLEAN, NEW ws, NEW w, NEW next,
         Finds(w, f, heard, c), \A v \in next : v.step = "done",
         d = (c \/ w.step = "delete")
  PROVE  Leaves(next, ws, f, f, heard, d)
<1>1. Deletes(next) = FALSE /\ \A v \in next : WorkerInv(v, f, heard, d)
  BY DEF Deletes, WorkerInv
<1>2. NameInv(f, heard, d, FALSE)
  BY DEF Finds, NameInv, WorkerInv
<1> QED
  BY <1>1, <1>2 DEF Leaves, StillFinalizes

(* It gets the lock. *)
LEMMA ClaimLeaves ==
  ASSUME NEW f, NEW heard, NEW c \in BOOLEAN, NEW ws, NEW w \in WorkerSet, NEW v,
         Finds(w, f, heard, c), w.step = "spawned",
         v.task = w.task, v.parts = w.parts,
         v.step = (IF w.task = "finalize" THEN "archive" ELSE "load")
  PROVE  Leaves({v}, ws, f, f, heard, c)
<1>1. Deletes({v}) = FALSE /\ NameInv(f, heard, c, FALSE)
  BY DEF Deletes, Finds
<1>2. w.task \in {"finalize", "recover"}
  BY DEF WorkerSet
<1>3. WorkerInv(v, f, heard, c)
  BY <1>2 DEF Finds, WorkerInv, Finalizes
<1> QED
  BY <1>1, <1>3 DEF Leaves, StillFinalizes

(* The journal loses the files that are missing, and the recovery has all. *)
LEMMA LoadLeaves ==
  ASSUME NEW f \in NameSet, NEW g \in NameSet, NEW heard \in SUBSET Audio, NEW c \in BOOLEAN,
         NEW ws, NEW w \in WorkerSet, NEW v,
         Finds(w, f, heard, c), w.step = "load",
         v.task = w.task, v.step = "archive", v.failed,
         f.journal # None, SameFiles(f, g), g.journal # None, g.journal.parts = v.parts,
         v.parts = {p \in f.journal.parts : f.pcm[p] # None}
  PROVE  Leaves({v}, ws, f, g, heard, c)
<1>1. v.parts = Files(f) /\ w.task = "recover" /\ NameInv(f, heard, c, FALSE)
  <2>1. f.journal.parts \subseteq Parts
    BY DEF NameSet, JournalSet
  <2> QED
    BY <2>1 DEF Finds, WorkerInv, NameInv, Files
<1>2. /\ Files(g) = Files(f) /\ Audible(g) = Audible(f)
      /\ \A p : Entry(g, p) = Entry(f, p)
      /\ \A a : InFile(g, a) <=> InFile(f, a)
      /\ g.archive = f.archive /\ g.manifest = f.manifest /\ (Matches(g) <=> Matches(f))
  BY SameFilesFacts
<1>3. Deletes({v}) = FALSE
  BY DEF Deletes
<1>4. NameInv(g, heard, c, FALSE)
  BY <1>1, <1>2 DEF NameInv
<1>5. WorkerInv(v, g, heard, c)
  BY <1>1, <1>2 DEF WorkerInv
<1>6. StillFinalizes(ws, f, g, heard)
  BY SameFilesFinalize DEF StillFinalizes
<1> QED
  BY <1>3, <1>4, <1>5, <1>6 DEF Leaves

(* Nothing was heard, or it is in the archive already. *)
LEMMA LoadNothingLeaves ==
  ASSUME NEW f \in NameSet, NEW heard \in SUBSET Audio, NEW c \in BOOLEAN,
         NEW ws, NEW w \in WorkerSet, NEW v,
         Finds(w, f, heard, c), w.step = "load",
         v.task = w.task, v.step = "quarantine",
         f.journal # None, \A p \in f.journal.parts : p \notin Audible(f)
  PROVE  Leaves({v}, ws, f, f, heard, c)
<1>1. Audible(f) = {} /\ NameInv(f, heard, c, FALSE)
  BY FileFacts DEF Finds, NameInv
<1>2. ~c => heard = {}
  BY <1>1, FileFacts DEF NameInv
<1>3. Deletes({v}) = FALSE
  BY DEF Deletes
<1>4. WorkerInv(v, f, heard, c)
  BY <1>1, <1>2 DEF WorkerInv
<1> QED
  BY <1>1, <1>3, <1>4 DEF Leaves, StillFinalizes

LEMMA RemovesFacts ==
  ASSUME NEW f \in NameSet, NEW g, NEW p \in Parts, Removes(f, g, p)
  PROVE  /\ Files(g) = Files(f) \ {p} /\ Audible(g) = Audible(f) \ {p}
         /\ \A q \in Parts \ {p} : g.pcm[q] = f.pcm[q] /\ Entry(g, q) = Entry(f, q)
         /\ g.journal = f.journal /\ g.archive = f.archive /\ g.manifest = f.manifest
         /\ Matches(g) <=> Matches(f)
<1>1. f.pcm \in [Parts -> FileSet \cup {None}] /\ g.pcm = [f.pcm EXCEPT ![p] = None]
  BY DEF NameSet, Removes
<1>2. g.pcm[p] = None /\ \A q \in Parts \ {p} : g.pcm[q] = f.pcm[q]
  BY <1>1
<1>3. Files(g) = Files(f) \ {p}
  BY <1>2 DEF Files
<1>4. Audible(g) = Audible(f) \ {p}
  BY <1>2, <1>3 DEF Audible, Files
<1> QED
  BY <1>2, <1>3, <1>4 DEF Entry, Matches, Removes

(* Silent files go. *)
LEMMA QuarantineLeaves ==
  ASSUME NEW f \in NameSet, NEW g \in NameSet, NEW heard \in SUBSET Audio, NEW c \in BOOLEAN,
         NEW ws, NEW w \in WorkerSet, NEW p \in Files(f),
         Finds(w, f, heard, c), w.step = "quarantine", Removes(f, g, p)
  PROVE  Leaves({w}, ws, f, g, heard, c)
<1>1. /\ Audible(f) = {} /\ (~c => heard = {}) /\ NameInv(f, heard, c, FALSE)
      /\ p \in Parts
  BY FileFacts DEF Finds, WorkerInv
<1>2. /\ Files(g) \subseteq Files(f) /\ Audible(g) = {}
      /\ g.journal = f.journal /\ g.archive = f.archive /\ g.manifest = f.manifest
      /\ Matches(g) <=> Matches(f)
  BY <1>1, RemovesFacts
<1>3. NameInv(g, heard, c, FALSE) /\ Deletes({w}) = FALSE
  BY <1>1, <1>2 DEF NameInv, Deletes
<1>4. WorkerInv(w, g, heard, c)
  BY <1>1, <1>2 DEF WorkerInv, Finds
<1>5. ASSUME NEW v \in ws, Finalizes(v, f, heard)
      PROVE  Finalizes(v, g, heard)
  <2>1. v.parts \subseteq Files(f) => heard = {} /\ f.archive = {}
    BY <1>1, <1>5, FileFacts DEF Finalizes
  <2> QED
    BY <1>2, <1>5, <2>1 DEF Finalizes
<1> QED
  BY <1>3, <1>4, <1>5 DEF Leaves, StillFinalizes

LEMMA QuarantinedLeaves ==
  ASSUME NEW f \in NameSet, NEW g \in NameSet, NEW heard \in SUBSET Audio, NEW c \in BOOLEAN,
         NEW ws, NEW w \in WorkerSet, NEW next,
         Finds(w, f, heard, c), w.step = "quarantine", \A v \in next : v.step = "done",
         SameFiles(f, g), g.journal = None
  PROVE  Leaves(next, ws, f, g, heard, c)
<1>1. Audible(f) = {} /\ (~c => heard = {}) /\ NameInv(f, heard, c, FALSE)
  BY DEF Finds, WorkerInv
<1>2. /\ Files(g) = Files(f) /\ Audible(g) = {}
      /\ g.archive = f.archive /\ g.manifest = f.manifest /\ (Matches(g) <=> Matches(f))
  BY <1>1, SameFilesFacts
<1>3. NameInv(g, heard, c, FALSE) /\ Deletes(next) = FALSE
  BY <1>1, <1>2 DEF NameInv, Deletes
<1>4. \A v \in next : WorkerInv(v, g, heard, c)
  BY DEF WorkerInv
<1>5. StillFinalizes(ws, f, g, heard)
  BY SameFilesFinalize DEF StillFinalizes
<1> QED
  BY <1>3, <1>4, <1>5 DEF Leaves

(* The archive gets all that was heard, as the files are all there. *)
LEMMA ArchiveLeaves ==
  ASSUME NEW f \in NameSet, NEW g \in NameSet, NEW heard \in SUBSET Audio, NEW c \in BOOLEAN,
         NEW ws, NEW w \in WorkerSet, NEW v,
         Finds(w, f, heard, c), w.step = "archive",
         v.task = w.task, v.step = "manifest", v.failed = w.failed,
         w.parts \subseteq Files(f), w.parts \cap Audible(f) # {},
         Archives(f, g, {Entry(f, p) : p \in w.parts \cap Audible(f)})
  PROVE  Leaves({v}, ws, f, g, heard, c)
<1>1. NameInv(f, heard, c, FALSE) /\ WorkerInv(w, f, heard, c)
  BY DEF Finds
<1>2. w.task \in {"finalize", "recover"}
  BY DEF WorkerSet
<1>3. w.parts = Files(f) /\ w.parts \cap Audible(f) = Audible(f)
  BY <1>1, <1>2, FileFacts DEF WorkerInv, Finalizes
<1>4. /\ g.archive = {Entry(f, p) : p \in Audible(f)} /\ g.archive # {}
      /\ g.journal = f.journal /\ g.pcm = f.pcm /\ g.manifest = f.manifest
  BY <1>3 DEF Archives
<1>5. /\ Files(g) = Files(f) /\ Audible(g) = Audible(f)
      /\ \A p : Entry(g, p) = Entry(f, p)
      /\ \A a : InFile(g, a) <=> InFile(f, a)
  BY <1>4 DEF Files, Audible, Entry, InFile
<1>6. \A a \in heard : InFile(f, a) => InArchive(g.archive, a)
  BY <1>4, FileFacts DEF InArchive
<1>7. w.task = "finalize" \/ ~c => \A a \in heard : InFile(f, a)
  BY <1>1, <1>2, <1>3 DEF WorkerInv, NameInv, Finalizes
<1>8. f.journal = None => g.archive = f.archive
  <2>1. ASSUME f.journal = None
        PROVE  /\ \A p \in Audible(f) : Entry(f, p) \in f.archive
               /\ \A e \in f.archive : \E p \in Audible(f) : e = Entry(f, p)
    BY <1>1, <1>2, <1>3, <2>1 DEF WorkerInv, NameInv, Finalizes
  <2> QED
    BY <1>4, <2>1
<1>9. NameInv(g, heard, c, FALSE)
  <2>1. \A p \in Audible(g) : Entry(g, p) \in g.archive
    BY <1>4, <1>5
  <2>2. ~c /\ g.journal = None => \A a \in heard : InArchive(g.archive, a)
    BY <1>6, <1>7
  <2>3. g.journal = None => Matches(g)
    BY <1>1, <1>4, <1>8 DEF NameInv, Matches
  <2>4. Audible(g) # {}
    BY <1>4, <1>5
  <2> QED
    BY <1>1, <1>4, <1>5, <2>1, <2>2, <2>3, <2>4 DEF NameInv
<1>10. WorkerInv(v, g, heard, c)
  <2>1. \A p \in Audible(g) : Entry(g, p) \in g.archive
    BY <1>4, <1>5
  <2>2. w.task = "finalize" \/ ~c => \A a \in heard : InArchive(g.archive, a)
    BY <1>6, <1>7
  <2> QED
    BY <1>1, <1>4, <2>1, <2>2 DEF WorkerInv
<1>11. StillFinalizes(ws, f, g, heard)
  BY <1>4, <1>5 DEF StillFinalizes, Finalizes
<1>12. Deletes({v}) = FALSE
  BY DEF Deletes
<1> QED
  BY <1>9, <1>10, <1>11, <1>12 DEF Leaves

(* The manifest describes the archive; only a finalization calls it        *)
(* complete.                                                               *)
LEMMA ManifestLeaves ==
  ASSUME NEW f \in NameSet, NEW g \in NameSet, NEW heard \in SUBSET Audio, NEW c \in BOOLEAN,
         NEW ws, NEW w \in WorkerSet, NEW v, NEW manifest \in ManifestSet,
         Finds(w, f, heard, c), w.step = "manifest",
         v.task = w.task, v.step = "delete", v.failed = w.failed,
         manifest.archive = f.archive, manifest.complete => ~w.failed,
         Describes(f, g, manifest)
  PROVE  Leaves({v}, ws, f, g, heard, c)
<1>1. NameInv(f, heard, c, FALSE) /\ WorkerInv(w, f, heard, c)
  BY DEF Finds
<1>2. w.task \in {"finalize", "recover"}
  BY DEF WorkerSet
<1>3. /\ g.archive = f.archive /\ g.journal = f.journal /\ g.pcm = f.pcm
      /\ g.manifest = manifest /\ manifest # None
  BY NoneIsNothing DEF Describes
<1>4. /\ Files(g) = Files(f) /\ Audible(g) = Audible(f)
      /\ \A p : Entry(g, p) = Entry(f, p)
      /\ \A a : InFile(g, a) <=> InFile(f, a)
  BY <1>3 DEF Files, Audible, Entry, InFile
<1>5. Matches(g) /\ f.archive # {}
  BY <1>1, <1>3 DEF Matches, WorkerInv
<1>6. g.manifest.complete => \A a \in heard : InArchive(g.manifest.archive, a)
  BY <1>1, <1>2, <1>3 DEF WorkerInv
<1>7. NameInv(g, heard, c, TRUE)
  BY <1>1, <1>3, <1>4, <1>5, <1>6 DEF NameInv
<1>8. WorkerInv(v, g, heard, c)
  BY <1>1, <1>3, <1>4, <1>5 DEF WorkerInv
<1>9. StillFinalizes(ws, f, g, heard)
  BY <1>3, <1>4 DEF StillFinalizes, Finalizes
<1>10. Deletes({v}) = TRUE
  BY DEF Deletes
<1> QED
  BY <1>7, <1>8, <1>9, <1>10 DEF Leaves

(* A file goes, and a finalization that waits misses it. *)
LEMMA RemoveLeaves ==
  ASSUME NEW f \in NameSet, NEW g \in NameSet, NEW heard \in SUBSET Audio, NEW c \in BOOLEAN,
         NEW ws, NEW w \in WorkerSet, NEW v, NEW p \in Parts,
         Finds(w, f, heard, c), w.step = "delete",
         v.task = w.task, v.step = "delete", v.failed = w.failed,
         Removes(f, g, p) \/ g = f
  PROVE  Leaves({v}, ws, f, g, heard, c)
<1>1. NameInv(f, heard, c, TRUE) /\ WorkerInv(w, f, heard, c)
  <2>1. (w.step = "delete") = TRUE
    OBVIOUS
  <2> QED
    BY <2>1 DEF Finds
<1>2. Deletes({v}) = TRUE
  BY DEF Deletes
<1>3. CASE g = f
  BY <1>1, <1>2, <1>3 DEF Leaves, WorkerInv, StillFinalizes
<1>4. CASE Removes(f, g, p)
  <2>1. /\ Files(g) = Files(f) \ {p} /\ Audible(g) = Audible(f) \ {p}
        /\ \A q \in Parts \ {p} : g.pcm[q] = f.pcm[q] /\ Entry(g, q) = Entry(f, q)
        /\ g.journal = f.journal /\ g.archive = f.archive /\ g.manifest = f.manifest
        /\ Matches(g) <=> Matches(f)
    BY <1>4, RemovesFacts
  <2>2. Matches(f) /\ f.archive # {}
    BY <1>1 DEF WorkerInv
  <2>3. \A q \in Audible(g) : q \in Audible(f) /\ Entry(g, q) = Entry(f, q)
    BY <2>1, FileFacts
  <2>4. NameInv(g, heard, c, TRUE)
    BY <1>1, <2>1, <2>2, <2>3 DEF NameInv
  <2>5. WorkerInv(v, g, heard, c)
    BY <1>1, <2>1, <2>2, <2>3 DEF WorkerInv
  <2>6. ASSUME NEW u \in ws, Finalizes(u, f, heard)
        PROVE  Finalizes(u, g, heard)
    <3>1. Files(g) \subseteq u.parts
      BY <2>1, <2>6 DEF Finalizes
    <3>2. CASE u.parts \subseteq Files(g)
      <4>1. /\ Files(f) = Files(g) /\ Audible(g) = Audible(f)
            /\ \A q \in Audible(f) : Entry(g, q) = Entry(f, q) /\ g.pcm[q] = f.pcm[q]
        BY <2>1, <2>6, <3>2, FileFacts DEF Finalizes
      <4>2. /\ \A a \in heard : InFile(f, a)
            /\ \A e \in f.archive : \E q \in Audible(f) : e = Entry(f, q)
        BY <2>6, <3>2, <4>1 DEF Finalizes
      <4>3. \A a \in heard : InFile(g, a)
        BY <4>1, <4>2, FileFacts DEF InFile
      <4> QED
        BY <2>1, <3>1, <4>1, <4>2, <4>3 DEF Finalizes
    <3> QED
      BY <3>1, <3>2 DEF Finalizes
  <2> QED
    BY <1>2, <2>4, <2>5, <2>6 DEF Leaves, StillFinalizes
<1> QED
  BY <1>3, <1>4

(* The journal goes last. *)
LEMMA RemoveJournalLeaves ==
  ASSUME NEW f \in NameSet, NEW g \in NameSet, NEW heard \in SUBSET Audio, NEW c \in BOOLEAN,
         NEW ws, NEW w \in WorkerSet, NEW next,
         Finds(w, f, heard, c), w.step = "delete", \A v \in next : v.step = "done",
         SameFiles(f, g), g.journal = None
  PROVE  Leaves(next, ws, f, g, heard, c)
<1>1. NameInv(f, heard, c, TRUE) /\ WorkerInv(w, f, heard, c)
  <2>1. (w.step = "delete") = TRUE
    OBVIOUS
  <2> QED
    BY <2>1 DEF Finds
<1>2. /\ Files(g) = Files(f) /\ Audible(g) = Audible(f)
      /\ \A p : Entry(g, p) = Entry(f, p)
      /\ g.archive = f.archive /\ g.manifest = f.manifest /\ (Matches(g) <=> Matches(f))
  BY SameFilesFacts
<1>3. w.task \in {"finalize", "recover"}
  BY DEF WorkerSet
<1>4. Matches(f) /\ \A p \in Audible(f) : Entry(f, p) \in f.archive
  BY <1>1 DEF WorkerInv
<1>5. ~c => \A a \in heard : InArchive(f.archive, a)
  BY <1>1 DEF WorkerInv
<1>6. NameInv(g, heard, c, FALSE) /\ Deletes(next) = FALSE
  BY <1>1, <1>2, <1>4, <1>5 DEF NameInv, Deletes
<1>7. \A v \in next : WorkerInv(v, g, heard, c)
  BY DEF WorkerInv
<1>8. StillFinalizes(ws, f, g, heard)
  BY SameFilesFinalize DEF StillFinalizes
<1> QED
  BY <1>6, <1>7, <1>8 DEF Leaves

(***************************************************************************)
(* Every step keeps the invariant.                                         *)
(***************************************************************************)
LEMMA OfferedEach == UnfinishedIsOffered <=> \A n \in Names : OfferedOn(n)
BY DEF UnfinishedIsOffered, OfferedOn, Busy, OnName

LEMMA HeardFacts ==
  ASSUME TypeOK, NEW n \in Names
  PROVE  /\ Heard(n) \in SUBSET Audio
         /\ disk[n] \in NameSet
         /\ (n \in cut) \in BOOLEAN
BY DEF TypeOK, Heard, Audio

(* A recorder has its name for itself. *)
LEMMA OnlySession ==
  ASSUME TypeOK, Exclusive, NEW i \in Instances, NEW n \in Names, OnName(i, n)
  PROVE  /\ SessionsOn(n) = {Session(i)} /\ \A w \in WorkersOf(n) : ~Active(w)
         /\ holder[n] = i
BY DEF Exclusive, SessionsOn, WorkersOf

(* What nobody touches keeps its part of the invariant. *)
LEMMA Elsewhere ==
  ASSUME Recordings, NEW m \in Names, disk'[m] = disk[m], Heard(m)' = Heard(m),
         m \in cut' <=> m \in cut,
         \A j \in Instances : OnName(j, m)' => OnName(j, m) /\ Session(j)' = Session(j),
         WorkersOf(m)' = WorkersOf(m)
  PROVE  RecordedOn(m)'
<1>1. SessionsOn(m)' \subseteq SessionsOn(m)
  BY DEF SessionsOn
<1>2. RecordingInv(disk[m], Heard(m), m \in cut, SessionsOn(m), WorkersOf(m))
  BY DEF Recordings, RecordedOn
<1>3. (m \in cut') = (m \in cut)
  OBVIOUS
<1>4. RecordingInv(disk'[m], Heard(m)', m \in cut', SessionsOn(m)', WorkersOf(m)')
  BY <1>1, <1>2, <1>3 DEF RecordingInv
<1> QED
  BY <1>4 DEF RecordedOn

LEMMA StillOffered ==
  ASSUME TypeOK, UnfinishedIsOffered, NEW n \in Names,
         holder'[n] = holder[n], disk'[n] = disk[n],
         \A i \in Instances : i = holder[n] =>
            /\ app'[i].offered = app[i].offered
            /\ Busy(i, n) => Busy(i, n)'
  PROVE  OfferedOn(n)'
<1>1. holder[n] \in Instances \cup {None} /\ OfferedOn(n)
  BY OfferedEach DEF TypeOK
<1> QED
  BY <1>1 DEF OfferedOn, Busy, OnName, Session

(* A list that is read again is complete. *)
LEMMA FreshOffers ==
  ASSUME TypeOK', Exclusive', Claims', NEW i \in Instances,
         Fresh(i, app', workers', disk'), NEW n \in Names, holder'[n] = i
  PROVE  OfferedOn(n)'
<1> SUFFICES ASSUME Interrupted(disk'[n]), n \notin app'[i].offered
             PROVE  Busy(i, n)'
  BY DEF OfferedOn, Busy, OnName, Session
<1>1. n \in app'[i].claimed \/ Locked(app', workers', n)
  BY DEF Fresh
<1>2. CASE n \in app'[i].claimed
  BY <1>2 DEF Claims
<1>3. CASE Locked(app', workers', n)
  BY <1>3 DEF Locked, Exclusive, Busy, OnName, Active, Session
<1> QED
  BY <1>1, <1>2, <1>3

LEMMA ContinueInv ==
  ASSUME Inv, NEW i \in Instances, TypeOK', SessionContinues(i)
  PROVE  Inv'
<1> DEFINE s == Session(i)
           next == Session(i)'
<1>1. /\ TypeOK /\ Exclusive /\ Recordings /\ Claims /\ UnfinishedIsOffered
  BY DEF Inv
<1>2. PICK n \in Names : n = s.name
  BY <1>1, SessionFacts DEF SessionContinues
<1>3. /\ s \in SessionSet /\ s # None /\ OnName(i, n)
      /\ next \in SessionSet /\ next # None /\ next.name = n
      /\ Continues(s, next, disk[n].journal, disk'[n].journal)
      /\ SameFiles(disk[n], disk'[n])
      /\ \A m \in Names \ {n} : disk'[m] = disk[m]
      /\ \A j \in Instances \ {i} : app'[j] = app[j] /\ Session(j)' = Session(j)
      /\ app'[i].claimed = app[i].claimed /\ app'[i].offered = app[i].offered
      /\ UNCHANGED <<workers, written, cut, holder>>
  BY <1>1, <1>2, SessionFacts, NoneIsNothing DEF SessionContinues, Continues, OnName, Session
<1>4. \A j \in Instances, m \in Names : OnName(j, m)' <=> OnName(j, m)
  BY <1>2, <1>3 DEF OnName
<1>5. Exclusive'
  <2>1. \A w \in workers : w.name \in Names
    BY <1>1, WorkerFacts
  <2> QED
    BY <1>1, <1>3, <1>4, <2>1 DEF Exclusive
<1>6. \A j \in Instances, m \in Names : Busy(j, m)' <=> Busy(j, m)
  BY <1>3, <1>4 DEF Busy
<1>7. Claims'
  BY <1>1, <1>3, <1>6 DEF Claims, TypeOK, AppSet
<1>8. ASSUME NEW m \in Names
      PROVE  OfferedOn(m)'
  <2>1. CASE m = n
    <3>1. holder'[n] = i /\ OnName(i, n)'
      BY <1>1, <1>3, <1>4, OnlySession
    <3> QED
      BY <2>1, <3>1 DEF OfferedOn, Busy, OnName, Session
  <2>2. CASE m # n
    BY <1>1, <1>3, <1>6, <2>2, StillOffered
  <2> QED
    BY <2>1, <2>2
<1>9. RecordedOn(n)'
  <2> DEFINE f == disk[n]
             g == disk'[n]
             heard == Heard(n)
             c == n \in cut
             ws == WorkersOf(n)
  <2>1. /\ SessionsOn(n) = {s} /\ \A w \in ws : ~Active(w)
    BY <1>1, <1>3, OnlySession
  <2>2. RecordingInv(f, heard, c, {s}, ws)
    BY <1>1, <2>1 DEF Recordings, RecordedOn
  <2>3. /\ heard \in SUBSET Audio /\ c \in BOOLEAN
        /\ f \in NameSet /\ g \in NameSet
        /\ next.live \subseteq next.parts
    BY <1>1, <1>3, HeardFacts DEF TypeOK
  <2>4. SessionsOn(n)' = {next} /\ Heard(n)' = heard /\ WorkersOf(n)' = ws /\ c' = c
    BY <1>1, <1>3, <1>4 DEF SessionsOn, Exclusive, Heard, WorkersOf
  <2>5. SameFiles(f, g) /\ Continues(s, next, f.journal, g.journal)
    BY <1>3
  <2> HIDE DEF s, next, f, g, heard, c, ws
  <2>6. RecordingInv(g, heard, c, {next}, ws)
    BY <1>3, <2>1, <2>2, <2>3, <2>5, ContinueKeeps
  <2> QED
    BY <2>4, <2>6 DEF RecordedOn, g, c
<1>10. ASSUME NEW m \in Names \ {n}
       PROVE  RecordedOn(m)'
  <2>1. /\ Heard(m)' = Heard(m) /\ WorkersOf(m)' = WorkersOf(m)
        /\ disk'[m] = disk[m] /\ (m \in cut' <=> m \in cut)
    BY <1>3 DEF Heard, WorkersOf
  <2>2. \A j \in Instances : OnName(j, m)' => OnName(j, m) /\ Session(j)' = Session(j)
    BY <1>3, <1>4 DEF OnName
  <2> QED
    BY <1>1, <2>1, <2>2, Elsewhere
<1>11. Recordings' /\ UnfinishedIsOffered'
  BY <1>8, <1>9, <1>10 DEF Recordings, UnfinishedIsOffered, OfferedOn, Busy, OnName
<1> QED
  BY <1>5, <1>7, <1>11 DEF Inv

LEMMA InvEach ==
  ASSUME TypeOK', Exclusive', Claims', \A n \in Names : OfferedOn(n)' /\ RecordedOn(n)'
  PROVE  Inv'
BY DEF Inv, Recordings, UnfinishedIsOffered, OfferedOn, Busy, OnName

LEMMA WriteInv ==
  ASSUME Inv, NEW i \in Instances, NEW p \in Parts, TypeOK', Writes(i, p)
  PROVE  Inv'
<1> DEFINE s == Session(i)
<1>1. /\ TypeOK /\ Exclusive /\ Recordings /\ Claims /\ UnfinishedIsOffered
  BY DEF Inv
<1>2. PICK n \in Names : n = s.name
  BY <1>1, SessionFacts DEF Writes
<1> DEFINE f == disk[n]
           g == disk'[n]
           heard == Heard(n)
           later == Heard(n)'
           c == n \in cut
           ws == WorkersOf(n)
<1>3. /\ s \in SessionSet /\ s # None /\ OnName(i, n)
      /\ p \in s.live /\ ~Starting(n) /\ s.live \subseteq s.parts /\ s.parts \subseteq Parts
      /\ \A m \in Names \ {n} : disk'[m] = disk[m]
      /\ UNCHANGED <<app, workers, cut, holder, budget>>
  BY <1>1, <1>2, SessionFacts DEF Writes, OnName
<1>4. \/ /\ f.pcm[p] = None \/ f.pcm[p].of # s.id
         /\ PutsFile(f, g, p, [of |-> s.id, audio |-> FALSE])
         /\ written' = written
      \/ /\ f.pcm[p] # None /\ f.pcm[p].of = s.id
         /\ PutsFile(f, g, p, [of |-> s.id, audio |-> TRUE])
         /\ written' = written \cup {[name |-> s.name, of |-> s.id, part |-> p]}
  BY <1>2 DEF Writes
<1>5. \/ /\ f.pcm[p] = None \/ f.pcm[p].of # s.id
         /\ PutsFile(f, g, p, [of |-> s.id, audio |-> FALSE])
         /\ later = heard
      \/ /\ f.pcm[p] # None /\ f.pcm[p].of = s.id
         /\ PutsFile(f, g, p, [of |-> s.id, audio |-> TRUE])
         /\ later = heard \cup {[name |-> s.name, of |-> s.id, part |-> p]}
  BY <1>2, <1>4 DEF Heard
<1>6. \A m \in Names \ {n} : Heard(m)' = Heard(m)
  BY <1>2, <1>4 DEF Heard
<1>7. /\ \A j \in Instances, m \in Names : OnName(j, m)' <=> OnName(j, m)
      /\ \A j \in Instances : Session(j)' = Session(j)
      /\ \A m \in Names : SessionsOn(m)' = SessionsOn(m) /\ WorkersOf(m)' = WorkersOf(m)
  BY <1>3 DEF OnName, Session, SessionsOn, WorkersOf
<1>8. Exclusive' /\ Claims'
  BY <1>1, <1>3 DEF Exclusive, OnName, Session, Claims, Busy
<1>9. ASSUME NEW m \in Names
      PROVE  OfferedOn(m)'
  <2>1. CASE m = n
    <3>1. holder'[n] = i /\ OnName(i, n)'
      BY <1>1, <1>3, <1>7, OnlySession
    <3> QED
      BY <2>1, <3>1 DEF OfferedOn, Busy, OnName, Session
  <2>2. CASE m # n
    BY <1>1, <1>3, <1>7, <2>2, StillOffered DEF Busy
  <2> QED
    BY <2>1, <2>2
<1>10. RecordedOn(n)'
  <2>1. /\ SessionsOn(n) = {s} /\ \A w \in ws : ~Active(w) /\ ~Waits(w)
    BY <1>1, <1>3, OnlySession DEF Starting, Waits, WorkersOf
  <2>2. RecordingInv(f, heard, c, {s}, ws)
    BY <1>1, <2>1 DEF Recordings, RecordedOn
  <2>3. /\ heard \in SUBSET Audio /\ c \in BOOLEAN
        /\ f \in NameSet /\ g \in NameSet
    BY <1>1, <1>3, HeardFacts DEF TypeOK
  <2>4. SessionsOn(n)' = {s} /\ WorkersOf(n)' = ws /\ c' = c
    BY <1>3, <1>7, <2>1
  <2> HIDE DEF s, f, g, heard, later, c, ws
  <2>6. RecordingInv(g, later, c, {s}, ws)
    BY <1>3, <1>5, <2>1, <2>2, <2>3, WriteKeeps
  <2> QED
    BY <2>4, <2>6 DEF RecordedOn, g, c, later
<1>11. ASSUME NEW m \in Names \ {n}
       PROVE  RecordedOn(m)'
  <2>1. /\ Heard(m)' = Heard(m) /\ WorkersOf(m)' = WorkersOf(m)
        /\ disk'[m] = disk[m] /\ (m \in cut' <=> m \in cut)
    BY <1>3, <1>6, <1>7
  <2>2. \A j \in Instances : OnName(j, m)' => OnName(j, m) /\ Session(j)' = Session(j)
    BY <1>7
  <2> QED
    BY <1>1, <2>1, <2>2, Elsewhere
<1> QED
  BY <1>8, <1>9, <1>10, <1>11, InvEach

(* A recorder may end with nothing done, and lists may be read again. *)
LEMMA RefreshInv ==
  ASSUME Inv, NEW i \in Instances, TypeOK',
         UNCHANGED <<disk, workers, written, cut, holder>>,
         \A j \in Instances \ {i} : app'[j] = app[j],
         Session(i)' \in {Session(i), None},
         \A n \in app'[i].claimed : n \in app[i].claimed /\ (OnName(i, n) => OnName(i, n)'),
         \/ Fresh(i, app', workers', disk')
         \/ app'[i].offered = app[i].offered /\ Session(i)' = Session(i)
  PROVE  Inv'
<1>1. /\ TypeOK /\ Exclusive /\ Recordings /\ Claims /\ UnfinishedIsOffered
  BY DEF Inv
<1>2. \A j \in Instances, m \in Names : OnName(j, m)' => OnName(j, m) /\ Session(j)' = Session(j)
  BY DEF OnName, Session
<1>3. \A j \in Instances \ {i}, m \in Names : OnName(j, m)' <=> OnName(j, m)
  BY DEF OnName, Session
<1>4. Exclusive'
  <2>1. \A w \in workers : w.name \in Names
    BY <1>1, WorkerFacts
  <2> QED
    BY <1>1, <1>2, <2>1 DEF Exclusive
<1>5. Claims'
  BY <1>1, <1>3 DEF Claims, Busy, TypeOK, AppSet
<1>6. ASSUME NEW m \in Names
      PROVE  OfferedOn(m)'
  <2>1. CASE Fresh(i, app', workers', disk') /\ holder'[m] = i
    BY <1>4, <1>5, <2>1, FreshOffers
  <2>2. CASE holder'[m] # i
    BY <1>1, <1>3, <2>2, StillOffered DEF Busy
  <2>3. CASE app'[i].offered = app[i].offered /\ Session(i)' = Session(i)
    <3>1. \A j \in Instances : Busy(j, m) => Busy(j, m)'
      BY <1>3, <2>3 DEF Busy, OnName
    <3> QED
      BY <1>1, <2>3, <3>1, StillOffered
  <2> QED
    BY <2>1, <2>2, <2>3
<1>7. ASSUME NEW m \in Names
      PROVE  RecordedOn(m)'
  <2>1. /\ Heard(m)' = Heard(m) /\ WorkersOf(m)' = WorkersOf(m)
        /\ disk'[m] = disk[m] /\ (m \in cut' <=> m \in cut)
    BY DEF Heard, WorkersOf
  <2> QED
    BY <1>1, <1>2, <2>1, Elsewhere
<1> QED
  BY <1>4, <1>5, <1>6, <1>7, InvEach

LEMMA BeginInv ==
  ASSUME Inv, NEW i \in Instances, NEW n \in Names, TypeOK', Begins(i, n)
  PROVE  Inv'
<1>1. /\ TypeOK /\ Exclusive /\ Recordings /\ Claims /\ UnfinishedIsOffered
      /\ Session(i) = None /\ \A j \in Instances \ {i} : app'[j] = app[j]
      /\ UNCHANGED <<disk, workers, written, cut>>
  BY DEF Inv, Begins
<1>2. CASE /\ Session(i)' = None /\ app'[i].claimed = app[i].claimed
           /\ Fresh(i, app', workers', disk')
           /\ UNCHANGED holder
  BY <1>1, <1>2, RefreshInv DEF OnName
<1>3. CASE /\ ~Locked(app, workers, n) /\ ~Taken(disk[n])
           /\ Session(i)' = NewSession(n, budget.recordings)
           /\ app'[i].claimed = app[i].claimed \cup {n}
           /\ app'[i].offered = app[i].offered
           /\ holder' = [holder EXCEPT ![n] = i]
  <2> DEFINE s == Session(i)'
  <2>1. /\ s # None /\ s.name = n /\ s.parts = {} /\ s.started = {} /\ s.live = {}
    BY <1>1, <1>3, NewSessionType DEF TypeOK
  <2>2. /\ \A j \in Instances : ~OnName(j, n)
        /\ \A w \in workers : w.name = n => ~Active(w)
    BY <1>3 DEF Locked, OnName, Active, Session
  <2>3. /\ OnName(i, n)' /\ \A m \in Names \ {n} : ~OnName(i, m)' /\ ~OnName(i, m)
        /\ \A j \in Instances \ {i} : \A m \in Names : OnName(j, m)' <=> OnName(j, m)
        /\ \A j \in Instances \ {i} : Session(j)' = Session(j)
    BY <1>1, <2>1 DEF OnName, Session
  <2>4. holder'[n] = i /\ \A m \in Names \ {n} : holder'[m] = holder[m]
    BY <1>1, <1>3 DEF TypeOK
  <2>5. \A w \in workers : w.name \in Names
    BY <1>1, WorkerFacts
  <2> HIDE DEF s
  <2>6. Exclusive'
    <3>1. \A j, k \in Instances : \A m \in Names : (OnName(j, m) /\ OnName(k, m) => j = k)'
      BY <1>1, <2>2, <2>3 DEF Exclusive
    <3>2. \A j \in Instances : \A w \in workers : OnName(j, w.name)' => ~Active(w)
      BY <1>1, <2>2, <2>3, <2>5 DEF Exclusive
    <3>3. \A j \in Instances : \A m \in Names : OnName(j, m)' => holder'[m] = j
      BY <1>1, <2>2, <2>3, <2>4 DEF Exclusive
    <3>4. \A w \in workers : Active(w) => holder'[w.name] = w.by
      BY <1>1, <2>2, <2>4, <2>5 DEF Exclusive
    <3> QED
      BY <1>1, <3>1, <3>2, <3>3, <3>4 DEF Exclusive
  <2>7. \A j \in Instances, m \in Names : Busy(j, m) => Busy(j, m)'
    BY <1>1, <2>2, <2>3 DEF Busy
  <2>8. Claims'
    <3>1. Busy(i, n)'
      BY <2>3 DEF Busy
    <3> QED
      BY <1>1, <1>3, <2>7, <3>1 DEF Claims, TypeOK, AppSet
  <2>9. ASSUME NEW m \in Names
        PROVE  OfferedOn(m)'
    <3>1. CASE m = n
      BY <2>3, <2>4, <3>1 DEF OfferedOn, Busy, OnName, Session
    <3>2. CASE m # n
      BY <1>1, <1>3, <2>4, <2>7, <3>2, StillOffered
    <3> QED
      BY <3>1, <3>2
  <2>10. RecordedOn(n)'
    <3> DEFINE f == disk[n]
               heard == Heard(n)
               c == n \in cut
               ws == WorkersOf(n)
    <3>1. SessionsOn(n) = {} /\ \A w \in ws : ~Active(w)
      BY <2>2 DEF SessionsOn, WorkersOf
    <3>2. RecordingInv(f, heard, c, {}, ws)
      BY <1>1, <3>1 DEF Recordings, RecordedOn
    <3>3. heard \in SUBSET Audio /\ c \in BOOLEAN /\ f \in NameSet /\ ~Taken(f)
      BY <1>1, <1>3, HeardFacts
    <3>4. /\ SessionsOn(n)' = {s} /\ WorkersOf(n)' = ws /\ c' = c
          /\ disk'[n] = f /\ Heard(n)' = heard
      BY <1>1, <2>2, <2>3 DEF SessionsOn, WorkersOf, Heard, s
    <3> HIDE DEF f, heard, c, ws
    <3>5. RecordingInv(f, heard, c, {s}, ws)
      BY <2>1, <3>1, <3>2, <3>3, BeginKeeps
    <3> QED
      BY <3>4, <3>5 DEF RecordedOn, c
  <2>11. ASSUME NEW m \in Names \ {n}
         PROVE  RecordedOn(m)'
    <3>1. /\ Heard(m)' = Heard(m) /\ WorkersOf(m)' = WorkersOf(m)
          /\ disk'[m] = disk[m] /\ (m \in cut' <=> m \in cut)
      BY <1>1 DEF Heard, WorkersOf
    <3> QED
      BY <1>1, <2>3, <3>1, Elsewhere
  <2> QED
    BY <2>6, <2>8, <2>9, <2>10, <2>11, InvEach
<1> QED
  BY <1>2, <1>3 DEF Begins

LEMMA FinishInv ==
  ASSUME Inv, NEW i \in Instances, TypeOK', Finishes(i)
  PROVE  Inv'
<1> DEFINE s == Session(i)
<1>1. /\ TypeOK /\ Exclusive /\ Recordings /\ Claims /\ UnfinishedIsOffered
  BY DEF Inv
<1>2. PICK n \in Names : n = s.name
  BY <1>1, SessionFacts DEF Finishes
<1> DEFINE f == disk[n]
           g == disk'[n]
           heard == Heard(n)
           c == n \in cut
           ws == WorkersOf(n)
           left == Worker(i, "finalize", n, FinalParts(s, f), s.failed)
<1>3. /\ s \in SessionSet /\ s # None /\ OnName(i, n) /\ Session(i)' = None
      /\ \A m \in Names \ {n} : disk'[m] = disk[m]
      /\ \A j \in Instances \ {i} : app'[j] = app[j]
      /\ SameFiles(f, g)
      /\ \/ FinalParts(s, f) = {} /\ g.journal = None
         \/ g.journal # None /\ g.journal.parts = FinalParts(s, f)
      /\ UNCHANGED <<written, cut, holder>>
  BY <1>1, <1>2, SessionFacts DEF Finishes, OnName
<1>4. PICK new \in SUBSET {left} :
        /\ workers' = workers \cup new
        /\ \/ /\ new = {} /\ app'[i].claimed = app[i].claimed \ {n}
              /\ Fresh(i, app', workers', disk')
           \/ /\ new = {left} /\ app'[i].claimed = app[i].claimed
              /\ app'[i].offered = app[i].offered
  <2>1. CASE /\ app'[i].claimed = app[i].claimed \ {n}
             /\ Fresh(i, app', workers', disk')
             /\ UNCHANGED workers
    BY <2>1
  <2>2. CASE /\ app'[i].claimed = app[i].claimed /\ app'[i].offered = app[i].offered
             /\ workers' = workers \cup {left}
    BY <2>2
  <2> QED
    BY <1>2, <2>1, <2>2 DEF Finishes
<1>5. /\ left.step = "spawned" /\ left.parts = FinalParts(s, f)
      /\ left.name = n /\ left.by = i
  BY DEF Worker
<1> HIDE DEF left
<1>6. /\ \A m \in Names : ~OnName(i, m)'
      /\ \A m \in Names \ {n} : ~OnName(i, m)
      /\ \A j \in Instances \ {i} : \A m \in Names : OnName(j, m)' <=> OnName(j, m)
      /\ \A j \in Instances \ {i} : Session(j)' = Session(j)
  BY <1>2, <1>3 DEF OnName, Session
<1>7. /\ WorkersOf(n)' = ws \cup new
      /\ \A m \in Names \ {n} : WorkersOf(m)' = WorkersOf(m)
  BY <1>4, <1>5 DEF WorkersOf
<1>8. Exclusive'
  <2>1. \A w \in workers : w.name \in Names
    BY <1>1, WorkerFacts
  <2>2. ~Active(left)
    BY <1>5 DEF Active
  <2>3. \A j \in Instances : \A m \in Names : OnName(j, m)' => OnName(j, m)
    BY <1>6
  <2> QED
    BY <1>1, <1>3, <1>4, <1>5, <2>1, <2>2, <2>3 DEF Exclusive
<1>9. \A j \in Instances, m \in Names :
        Busy(j, m) => Busy(j, m)' \/ (j = i /\ m = n)
  BY <1>4, <1>6 DEF Busy
<1>10. new = {left} => Busy(i, n)'
  BY <1>4, <1>5 DEF Busy
<1>11. Claims'
  BY <1>1, <1>3, <1>4, <1>9, <1>10 DEF Claims, TypeOK, AppSet
<1>12. ASSUME NEW m \in Names
       PROVE  OfferedOn(m)'
  <2>1. CASE Fresh(i, app', workers', disk') /\ holder'[m] = i
    BY <1>8, <1>11, <2>1, FreshOffers
  <2>2. CASE new = {left} /\ m = n
    <3>1. holder'[n] = i
      BY <1>1, <1>3, OnlySession
    <3> QED
      BY <1>10, <2>2, <3>1 DEF OfferedOn, Busy, OnName, Session
  <2>3. CASE m # n /\ (holder'[m] # i \/ new = {left})
    BY <1>1, <1>3, <1>4, <1>9, <2>3, StillOffered
  <2> QED
    <3>1. holder'[n] = i
      BY <1>1, <1>3, OnlySession
    <3> QED
      BY <1>4, <2>1, <2>2, <2>3, <3>1
<1>13. RecordedOn(n)'
  <2>1. SessionsOn(n) = {s} /\ \A w \in ws : ~Active(w)
    BY <1>1, <1>3, OnlySession
  <2>2. RecordingInv(f, heard, c, {s}, ws)
    BY <1>1, <2>1 DEF Recordings, RecordedOn
  <2>3. heard \in SUBSET Audio /\ c \in BOOLEAN /\ f \in NameSet /\ g \in NameSet
    BY <1>1, HeardFacts DEF TypeOK
  <2>4. SessionsOn(n)' = {}
    BY <1>1, <1>3, <1>6 DEF SessionsOn, Exclusive
  <2>5. WorkersOf(n)' = ws \cup new /\ c' = c /\ Heard(n)' = heard
    BY <1>3, <1>7 DEF Heard
  <2>6. \A w \in new : w.step = "spawned" /\ w.parts = FinalParts(s, f)
    BY <1>4, <1>5
  <2> HIDE DEF s, f, g, heard, c, ws
  <2>7. RecordingInv(g, heard, c, {}, ws \cup new)
    BY <1>3, <2>1, <2>2, <2>3, <2>6, FinishKeeps
  <2> QED
    BY <2>4, <2>5, <2>7 DEF RecordedOn, g, c
<1>14. ASSUME NEW m \in Names \ {n}
       PROVE  RecordedOn(m)'
  <2>1. /\ Heard(m)' = Heard(m) /\ WorkersOf(m)' = WorkersOf(m)
        /\ disk'[m] = disk[m] /\ (m \in cut' <=> m \in cut)
    BY <1>3, <1>7 DEF Heard
  <2> QED
    BY <1>1, <1>6, <2>1, Elsewhere
<1> QED
  BY <1>8, <1>11, <1>12, <1>13, <1>14, InvEach

LEMMA RecoverInv ==
  ASSUME Inv, NEW i \in Instances, NEW n \in Names, TypeOK', NEW w,
         w = Worker(i, "recover", n, {}, FALSE),
         Session(i)' = Session(i), app'[i].claimed = app[i].claimed \cup {n},
         app'[i].offered = app[i].offered,
         \A j \in Instances \ {i} : app'[j] = app[j],
         workers' = workers \cup {w},
         UNCHANGED <<disk, written, cut, holder>>
  PROVE  Inv'
<1>1. /\ TypeOK /\ Exclusive /\ Recordings /\ Claims /\ UnfinishedIsOffered
  BY DEF Inv
<1>2. /\ w.step = "spawned" /\ w.task = "recover" /\ w.name = n /\ w.by = i
      /\ ~Active(w) /\ ~Waits(w)
  BY DEF Worker, Active, Waits
<1>3. /\ \A j \in Instances, m \in Names : OnName(j, m)' <=> OnName(j, m)
      /\ \A j \in Instances : Session(j)' = Session(j)
      /\ \A m \in Names : SessionsOn(m)' = SessionsOn(m)
  BY DEF OnName, Session, SessionsOn
<1>4. /\ WorkersOf(n)' = WorkersOf(n) \cup {w}
      /\ \A m \in Names \ {n} : WorkersOf(m)' = WorkersOf(m)
  BY <1>2 DEF WorkersOf
<1>5. Exclusive'
  <2>1. \A v \in workers : v.name \in Names
    BY <1>1, WorkerFacts
  <2> QED
    BY <1>1, <1>2, <1>3, <2>1 DEF Exclusive
<1>6. /\ \A j \in Instances, m \in Names : Busy(j, m) => Busy(j, m)'
      /\ Busy(i, n)'
  BY <1>2, <1>3 DEF Busy
<1>7. Claims'
  BY <1>1, <1>6 DEF Claims, TypeOK, AppSet
<1>8. ASSUME NEW m \in Names
      PROVE  OfferedOn(m)'
  BY <1>1, <1>6, StillOffered
<1>9. ASSUME NEW m \in Names \ {n}
      PROVE  RecordedOn(m)'
  <2>1. /\ Heard(m)' = Heard(m) /\ WorkersOf(m)' = WorkersOf(m)
        /\ disk'[m] = disk[m] /\ (m \in cut' <=> m \in cut)
    BY <1>4 DEF Heard
  <2> QED
    BY <1>1, <1>3, <2>1, Elsewhere
<1>10. RecordedOn(n)'
  <2>1. RecordingInv(disk[n], Heard(n), n \in cut, SessionsOn(n), WorkersOf(n))
    BY <1>1 DEF Recordings, RecordedOn
  <2>2. Deletes(WorkersOf(n) \cup {w}) = Deletes(WorkersOf(n))
    BY <1>2 DEF Deletes
  <2>3. WorkerInv(w, disk[n], Heard(n), n \in cut)
    BY <1>2 DEF WorkerInv
  <2>4. RecordingInv(disk[n], Heard(n), n \in cut, SessionsOn(n), WorkersOf(n) \cup {w})
    BY <1>2, <2>1, <2>2, <2>3 DEF RecordingInv, SessionInv
  <2>5. Heard(n)' = Heard(n)
    BY DEF Heard
  <2> QED
    BY <1>3, <1>4, <2>4, <2>5 DEF RecordedOn
<1> QED
  BY <1>5, <1>7, <1>8, <1>9, <1>10, InvEach

(* A worker less that had ended, or one that ends without the lock. *)
LEMMA QuietKeeps ==
  ASSUME TypeOK, Recordings, NEW m \in Names, NEW old, NEW new,
         \A w \in old : ~Active(w), \A w \in new : w.step = "done",
         WorkersOf(m)' = (WorkersOf(m) \ old) \cup new,
         disk'[m] = disk[m], Heard(m)' = Heard(m), m \in cut' <=> m \in cut,
         \A j \in Instances : OnName(j, m)' => OnName(j, m) /\ Session(j)' = Session(j)
  PROVE  RecordedOn(m)'
<1>1. SessionsOn(m)' \subseteq SessionsOn(m)
  BY DEF SessionsOn
<1>2. RecordingInv(disk[m], Heard(m), m \in cut, SessionsOn(m), WorkersOf(m))
  BY DEF Recordings, RecordedOn
<1>3. (m \in cut') = (m \in cut)
  OBVIOUS
<1> DEFINE ws == (WorkersOf(m) \ old) \cup new
<1>4. Deletes(ws) = Deletes(WorkersOf(m))
  BY DEF Deletes, Active
<1>5. \A w \in new : ~Waits(w) /\ WorkerInv(w, disk[m], Heard(m), m \in cut)
  BY DEF WorkerInv, Waits
<1>6. RecordingInv(disk'[m], Heard(m)', m \in cut', SessionsOn(m)', ws)
  BY <1>1, <1>2, <1>3, <1>4, <1>5 DEF RecordingInv, SessionInv
<1> QED
  BY <1>6 DEF RecordedOn

LEMMA AnswerInv ==
  ASSUME Inv, NEW w \in workers, TypeOK', w.step = "done", w.by \in Instances,
         Session(w.by)' = Session(w.by),
         app'[w.by].claimed = app[w.by].claimed \ {w.name},
         \A j \in Instances \ {w.by} : app'[j] = app[j],
         Fresh(w.by, app', workers', disk'),
         workers' = workers \ {w},
         UNCHANGED <<disk, written, cut, holder>>
  PROVE  Inv'
<1>1. /\ TypeOK /\ Exclusive /\ Recordings /\ Claims /\ UnfinishedIsOffered
  BY DEF Inv
<1>2. /\ \A j \in Instances, m \in Names : OnName(j, m)' <=> OnName(j, m)
      /\ \A j \in Instances : Session(j)' = Session(j)
  BY DEF OnName, Session
<1>3. Exclusive'
  <2>1. \A v \in workers : v.name \in Names
    BY <1>1, WorkerFacts
  <2> QED
    BY <1>1, <1>2, <2>1 DEF Exclusive
<1>4. \A j \in Instances, m \in Names :
        Busy(j, m) => Busy(j, m)' \/ (j = w.by /\ m = w.name)
  BY <1>2 DEF Busy
<1>5. Claims'
  BY <1>1, <1>4 DEF Claims, TypeOK, AppSet
<1>6. ASSUME NEW m \in Names
      PROVE  OfferedOn(m)'
  <2>1. CASE holder'[m] = w.by
    BY <1>3, <1>5, <2>1, FreshOffers
  <2>2. CASE holder'[m] # w.by
    BY <1>1, <1>4, <2>2, StillOffered
  <2> QED
    BY <2>1, <2>2
<1>7. ASSUME NEW m \in Names
      PROVE  RecordedOn(m)'
  <2> DEFINE old == {w}
             new == {}
  <2>1. /\ Heard(m)' = Heard(m) /\ WorkersOf(m)' = (WorkersOf(m) \ old) \cup new
        /\ disk'[m] = disk[m] /\ (m \in cut' <=> m \in cut)
    BY DEF Heard, WorkersOf
  <2>2. /\ \A v \in old : ~Active(v)
        /\ \A v \in new : v.step = "done"
    BY DEF Active
  <2> HIDE DEF old, new
  <2> QED
    BY <1>1, <1>2, <2>1, <2>2, QuietKeeps
<1> QED
  BY <1>3, <1>5, <1>6, <1>7, InvEach

LEMMA OrphanFacts ==
  ASSUME NEW i \in Instances, NEW v \in WorkerSet, NEW u, u = Orphan(i, v)
  PROVE  /\ u.name = v.name /\ u.step = v.step
         /\ u.by = IF v.by = i THEN None ELSE v.by
         /\ Active(u) <=> Active(v)
         /\ Waits(u) <=> Waits(v)
         /\ \A f, heard, c : WorkerInv(v, f, heard, c) => WorkerInv(u, f, heard, c)
<1>1. /\ u.name = v.name /\ u.step = v.step /\ u.task = v.task /\ u.parts = v.parts
      /\ u.failed = v.failed /\ u.by = IF v.by = i THEN None ELSE v.by
  BY DEF Orphan, WorkerSet
<1> QED
  BY <1>1 DEF Active, Waits, WorkerInv, Finalizes

LEMMA ExitInv ==
  ASSUME Inv, NEW i \in Instances, TypeOK',
         app'[i] = Down, \A j \in Instances \ {i} : app'[j] = app[j],
         workers' = {Orphan(i, v) : v \in {w \in workers : ~(w.by = i /\ w.step = "done")}},
         holder' = [n \in Names |-> IF holder[n] = i THEN None ELSE holder[n]],
         UNCHANGED <<disk, written, cut>>
  PROVE  Inv'
<1> DEFINE stay == {w \in workers : ~(w.by = i /\ w.step = "done")}
<1>1. /\ TypeOK /\ Exclusive /\ Recordings /\ Claims /\ UnfinishedIsOffered
      /\ workers \subseteq WorkerSet /\ None \notin Instances
  BY CaptureAssumption DEF Inv, TypeOK
<1>2. /\ \A v \in stay : Orphan(i, v) \in workers'
      /\ \A u \in workers' : \E v \in stay : u = Orphan(i, v)
  OBVIOUS
<1>3. stay \subseteq workers /\ \A v \in workers : v.by # i => v \in stay
  OBVIOUS
<1>4. \A m \in Names : holder'[m] = IF holder[m] = i THEN None ELSE holder[m]
  OBVIOUS
<1> HIDE DEF stay
<1>5. \A v \in stay : LET u == Orphan(i, v)
                     IN  /\ u.name = v.name /\ u.step = v.step
                         /\ u.by = IF v.by = i THEN None ELSE v.by
                         /\ Active(u) <=> Active(v)
                         /\ Waits(u) <=> Waits(v)
                         /\ \A f, heard, c : WorkerInv(v, f, heard, c) => WorkerInv(u, f, heard, c)
  BY <1>1, <1>3, OrphanFacts
<1>6. /\ \A m \in Names : ~OnName(i, m)'
      /\ \A j \in Instances \ {i} : \A m \in Names : OnName(j, m)' <=> OnName(j, m)
      /\ \A j \in Instances \ {i} : Session(j)' = Session(j)
      /\ app'[i].claimed = {}
  BY DEF OnName, Session, Down
<1>7. Exclusive'
  <2>1. \A v \in stay : v.name \in Names
    BY <1>1, <1>3, WorkerFacts
  <2>2. \A j, k \in Instances : \A m \in Names : (OnName(j, m) /\ OnName(k, m) => j = k)'
    BY <1>1, <1>6 DEF Exclusive
  <2>3. \A j \in Instances : \A u \in workers' : OnName(j, u.name)' => ~Active(u)
    BY <1>1, <1>2, <1>3, <1>5, <1>6, <2>1 DEF Exclusive
  <2>4. \A j \in Instances : \A m \in Names : OnName(j, m)' => holder'[m] = j
    BY <1>1, <1>4, <1>6 DEF Exclusive
  <2>5. \A u, x \in workers' : u.name = x.name /\ Active(u) /\ Active(x) => u = x
    <3> SUFFICES ASSUME NEW u \in workers', NEW x \in workers',
                        u.name = x.name, Active(u), Active(x)
                 PROVE  u = x
      OBVIOUS
    <3>1. PICK v \in stay, w \in stay : u = Orphan(i, v) /\ x = Orphan(i, w)
      BY <1>2
    <3>2. v.name = w.name /\ Active(v) /\ Active(w)
      BY <1>5, <3>1
    <3> QED
      BY <1>1, <1>3, <3>1, <3>2 DEF Exclusive
  <2>6. \A u \in workers' : Active(u) => holder'[u.name] = u.by
    <3> SUFFICES ASSUME NEW u \in workers', Active(u)
                 PROVE  holder'[u.name] = u.by
      OBVIOUS
    <3>1. PICK v \in stay : u = Orphan(i, v)
      BY <1>2
    <3> QED
      BY <1>1, <1>3, <1>4, <1>5, <2>1, <3>1 DEF Exclusive
  <2> QED
    BY <2>2, <2>3, <2>4, <2>5, <2>6 DEF Exclusive, OnName, Session, Active
<1>8. ASSUME NEW j \in Instances \ {i}, NEW m \in Names, Busy(j, m)
      PROVE  Busy(j, m)'
  <2>1. CASE OnName(j, m)
    BY <1>6, <2>1 DEF Busy
  <2>2. ASSUME NEW w \in workers, w.by = j, w.name = m
        PROVE  Busy(j, m)'
    BY <1>2, <1>3, <1>5, <2>2 DEF Busy
  <2> QED
    BY <1>8, <2>1, <2>2 DEF Busy
<1>9. Claims'
  BY <1>1, <1>6, <1>8 DEF Claims, TypeOK, AppSet
<1>10. ASSUME NEW m \in Names
       PROVE  OfferedOn(m)'
  <2>1. CASE holder[m] = i
    BY <1>4, <2>1 DEF OfferedOn
  <2>2. CASE holder[m] # i
    BY <1>1, <1>4, <1>8, <2>2, StillOffered
  <2> QED
    BY <2>1, <2>2
<1>11. ASSUME NEW m \in Names
       PROVE  RecordedOn(m)'
  <2>1. RecordingInv(disk[m], Heard(m), m \in cut, SessionsOn(m), WorkersOf(m))
    BY <1>1 DEF Recordings, RecordedOn
  <2> DEFINE ws == WorkersOf(m)
             later == WorkersOf(m)'
  <2>2. SessionsOn(m)' \subseteq SessionsOn(m)
    BY <1>6 DEF SessionsOn
  <2>3. \A u \in later : \E v \in ws \cap stay : u = Orphan(i, v)
    BY <1>2, <1>3, <1>5 DEF WorkersOf
  <2>4. \A v \in ws : v.step = "delete" => Orphan(i, v) \in later
    BY <1>2, <1>3, <1>5 DEF WorkersOf, stay
  <2> HIDE DEF ws, later
  <2>5. Deletes(later) = Deletes(ws)
    BY <1>2, <1>3, <1>5, <2>3, <2>4 DEF Deletes, stay, ws, WorkersOf
  <2>6. \A u \in later : WorkerInv(u, disk[m], Heard(m), m \in cut)
    BY <1>5, <2>1, <2>3 DEF RecordingInv, ws
  <2>7. \A s \in SessionsOn(m) : SessionInv(s, disk[m], Heard(m), later)
    BY <1>5, <2>1, <2>3 DEF RecordingInv, SessionInv, ws
  <2>8. RecordingInv(disk[m], Heard(m), m \in cut, SessionsOn(m)', later)
    BY <2>1, <2>2, <2>5, <2>6, <2>7 DEF RecordingInv, ws
  <2>9. Heard(m)' = Heard(m)
    BY DEF Heard
  <2> QED
    BY <2>8, <2>9 DEF RecordedOn, later
<1> QED
  BY <1>7, <1>9, <1>10, <1>11, InvEach

(* A worker ends without the lock. *)
LEMMA QuitInv ==
  ASSUME Inv, NEW w \in workers, NEW next, Works(w, next), ~Active(w),
         \A v \in next : v.step = "done", UNCHANGED <<disk, cut, holder>>
  PROVE  Inv'
<1>1. /\ TypeOK /\ Exclusive /\ Recordings /\ Claims /\ UnfinishedIsOffered
      /\ TypeOK' /\ None \notin Instances
  BY CaptureAssumption DEF Inv, Works
<1>2. /\ workers' = (workers \ {w}) \cup next /\ UNCHANGED <<app, written>>
      /\ \A v \in next : v.by = w.by /\ v.name = w.name /\ ~Active(v)
      /\ next = {} => w.by = None
  BY DEF Works, Replaces, Active
<1>3. /\ \A j \in Instances, m \in Names : OnName(j, m)' <=> OnName(j, m)
      /\ \A j \in Instances : Session(j)' = Session(j)
  BY <1>2 DEF OnName, Session
<1>4. Exclusive'
  <2>1. \A v \in workers : v.name \in Names
    BY <1>1, WorkerFacts
  <2> QED
    BY <1>1, <1>2, <1>3, <2>1 DEF Exclusive
<1>5. \A j \in Instances, m \in Names : Busy(j, m) => Busy(j, m)'
  BY <1>1, <1>2, <1>3 DEF Busy
<1>6. Claims'
  BY <1>1, <1>2, <1>5 DEF Claims, TypeOK, AppSet
<1>7. ASSUME NEW m \in Names
      PROVE  OfferedOn(m)'
  BY <1>1, <1>2, <1>5, StillOffered
<1>8. ASSUME NEW m \in Names
      PROVE  RecordedOn(m)'
  <2> DEFINE old == {w}
             new == {v \in next : v.name = m}
  <2>1. /\ Heard(m)' = Heard(m) /\ WorkersOf(m)' = (WorkersOf(m) \ old) \cup new
        /\ disk'[m] = disk[m] /\ (m \in cut' <=> m \in cut)
    BY <1>2 DEF Heard, WorkersOf
  <2>2. /\ \A v \in old : ~Active(v)
        /\ \A v \in new : v.step = "done"
    OBVIOUS
  <2> HIDE DEF old, new
  <2> QED
    BY <1>1, <1>3, <2>1, <2>2, QuietKeeps
<1> QED
  BY <1>1, <1>4, <1>6, <1>7, <1>8, InvEach

(* A worker that has the lock, or gets it. *)
Alone(w) ==
  /\ \A v \in workers : v.name = w.name /\ Active(v) => v = w
  /\ \A i \in Instances : ~OnName(i, w.name)

LEMMA ActiveIsAlone ==
  ASSUME TypeOK, Exclusive, NEW w \in workers, Active(w)
  PROVE  Alone(w) /\ holder[w.name] = w.by
BY DEF Exclusive, Alone

LEMMA UnlockedIsAlone ==
  ASSUME NEW w \in workers, ~Locked(app, workers, w.name)
  PROVE  Alone(w)
BY DEF Locked, Alone, OnName, Active, Session

LEMMA AloneFinds ==
  ASSUME Inv, NEW w \in workers, Alone(w)
  PROVE  Finds(w, disk[w.name], Heard(w.name), w.name \in cut)
<1>1. w.name \in Names /\ Recordings
  BY WorkerFacts DEF Inv
<1>2. RecordedOn(w.name)
  BY <1>1 DEF Recordings
<1>3. w \in WorkersOf(w.name)
  BY DEF WorkersOf
<1>4. Deletes(WorkersOf(w.name)) = (w.step = "delete")
  BY <1>3 DEF Deletes, WorkersOf, Alone, Active
<1> QED
  BY <1>2, <1>3, <1>4 DEF RecordedOn, RecordingInv, Finds

LEMMA AloneInv ==
  ASSUME Inv, NEW w \in workers, Alone(w), NEW next, Works(w, next),
         \A u, v \in next : u = v,
         holder'[w.name] = w.by, \A m \in Names \ {w.name} : holder'[m] = holder[m],
         Leaves(next, WorkersOf(w.name), disk[w.name], disk'[w.name],
                Heard(w.name), w.name \in cut')
  PROVE  Inv'
<1> DEFINE n == w.name
<1>1. /\ TypeOK /\ Exclusive /\ Recordings /\ Claims /\ UnfinishedIsOffered
      /\ TypeOK' /\ None \notin Instances
  BY CaptureAssumption DEF Inv, Works
<1>2. /\ workers' = (workers \ {w}) \cup next /\ UNCHANGED <<app, written>>
      /\ \A v \in next : v.by = w.by /\ v.name = n
      /\ next = {} => w.by = None
      /\ \A m \in Names \ {n} : disk'[m] = disk[m] /\ (m \in cut' <=> m \in cut)
  BY DEF Works, Replaces
<1>3. /\ \A j \in Instances, m \in Names : OnName(j, m)' <=> OnName(j, m)
      /\ \A j \in Instances : Session(j)' = Session(j)
      /\ \A v \in workers : v.name \in Names
  BY <1>1, <1>2, WorkerFacts DEF OnName, Session
<1>4. Exclusive'
  <2>1. \A j \in Instances : \A v \in workers' : OnName(j, v.name)' => ~Active(v)
    BY <1>1, <1>2, <1>3 DEF Exclusive, Alone
  <2>2. \A u, v \in workers' : u.name = v.name /\ Active(u) /\ Active(v) => u = v
    BY <1>1, <1>2 DEF Exclusive, Alone
  <2>3. \A j \in Instances : \A m \in Names : OnName(j, m)' => holder'[m] = j
    BY <1>1, <1>3 DEF Exclusive, Alone
  <2>4. \A v \in workers' : Active(v) => holder'[v.name] = v.by
    BY <1>1, <1>2, <1>3 DEF Exclusive, Alone
  <2> QED
    BY <1>1, <1>3, <2>1, <2>2, <2>3, <2>4 DEF Exclusive
<1>5. \A j \in Instances, m \in Names : Busy(j, m) => Busy(j, m)'
  BY <1>1, <1>2, <1>3 DEF Busy
<1>6. Claims'
  BY <1>1, <1>2, <1>5 DEF Claims, TypeOK, AppSet
<1>7. ASSUME NEW m \in Names
      PROVE  OfferedOn(m)'
  <2>1. CASE m = n
    <3>1. w.by # None => Busy(w.by, n)'
      BY <1>2 DEF Busy
    <3> QED
      BY <2>1, <3>1 DEF OfferedOn, Busy, OnName, Session
  <2>2. CASE m # n
    BY <1>1, <1>2, <1>5, <2>2, StillOffered
  <2> QED
    BY <2>1, <2>2
<1>8. RecordedOn(n)'
  <2> DEFINE f == disk[n]
             g == disk'[n]
             heard == Heard(n)
             c == n \in cut
             d == n \in cut'
             ws == WorkersOf(n)
             later == (ws \ {w}) \cup next
  <2>1. \A v \in ws : WorkerInv(v, f, heard, c)
    BY <1>1, <1>3 DEF Recordings, RecordedOn, RecordingInv
  <2>2. \A v \in ws \ {w} : ~Active(v)
    BY DEF Alone, WorkersOf
  <2>3. NameInv(g, heard, d, Deletes(next)) /\ StillFinalizes(ws, f, g, heard)
    BY DEF Leaves
  <2>4. \A v \in next : WorkerInv(v, g, heard, d)
    BY DEF Leaves
  <2>5. WorkersOf(n)' = later /\ Heard(n)' = heard /\ SessionsOn(n)' = {}
    BY <1>2, <1>3 DEF WorkersOf, Heard, SessionsOn, Alone
  <2> HIDE DEF f, g, heard, c, d, ws
  <2>6. Deletes(later) = Deletes(next)
    BY <2>2 DEF Deletes, Active
  <2>7. \A v \in ws \ {w} : WorkerInv(v, g, heard, d)
    BY <2>1, <2>2, <2>3 DEF WorkerInv, Active, StillFinalizes, Waits
  <2>8. RecordingInv(g, heard, d, {}, later)
    BY <2>3, <2>4, <2>6, <2>7 DEF RecordingInv
  <2> QED
    BY <2>5, <2>8 DEF RecordedOn, g, d
<1>9. ASSUME NEW m \in Names \ {n}
      PROVE  RecordedOn(m)'
  <2>1. /\ Heard(m)' = Heard(m) /\ WorkersOf(m)' = WorkersOf(m)
        /\ disk'[m] = disk[m] /\ (m \in cut' <=> m \in cut)
    BY <1>2 DEF Heard, WorkersOf
  <2> QED
    BY <1>1, <1>3, <2>1, Elsewhere
<1> QED
  BY <1>1, <1>4, <1>6, <1>7, <1>8, <1>9, InvEach

(* What the worker w does to the files of its name, if it has the lock.    *)
LEMMA LockedStep ==
  ASSUME Inv, NEW w \in workers, Active(w), UNCHANGED holder, NEW next, Works(w, next),
         \A u, v \in next : u = v,
         Leaves(next, WorkersOf(w.name), disk[w.name], disk'[w.name],
                Heard(w.name), w.name \in cut')
  PROVE  Inv'
BY ActiveIsAlone, AloneInv DEF Inv

LEMMA EndedOnce == \A w : \A u, v \in Ended(w) : u = v
BY DEF Ended

LEMMA WorkerStepInv ==
  ASSUME Inv, NEW w \in workers, WorkerStep(w)
  PROVE  Inv'
<1> DEFINE n == w.name
           f == disk[n]
           g == disk'[n]
           heard == Heard(n)
           c == n \in cut
           d == n \in cut'
           ws == WorkersOf(n)
<1>1. /\ TypeOK /\ Exclusive /\ w \in WorkerSet /\ n \in Names
      /\ f \in NameSet /\ heard \in SUBSET Audio /\ c \in BOOLEAN /\ d \in BOOLEAN
  BY WorkerFacts, HeardFacts DEF Inv
<1>2. TypeOK' => g \in NameSet
  BY <1>1 DEF TypeOK
<1>3. Active(w) => Finds(w, f, heard, c)
  BY <1>1, ActiveIsAlone, AloneFinds
<1>4. Works(w, Ended(w)) => TypeOK'
  BY DEF Works
<1>5. \A v : Works(w, {v}) => TypeOK'
  BY DEF Works
<1>6. \A u, v \in Ended(w) : u = v
  BY EndedOnce
<1>7. \A x : \A u, v \in {x} : u = v
  OBVIOUS
<1>8. CASE Claim(w)
  <2>1. w.step = "spawned" /\ UNCHANGED <<disk, cut>> /\ ~Active(w)
    BY <1>1, <1>8, ClaimOutcome DEF Active
  <2>2. CASE /\ Works(w, Ended(w)) /\ UNCHANGED holder
             /\ \A v \in Ended(w) : v.step = "done"
    BY <2>1, <2>2, QuitInv
  <2>3. ASSUME NEW v \in WorkerSet, ~Locked(app, workers, w.name), Works(w, {v}),
               holder' = [holder EXCEPT ![w.name] = w.by], v.parts = w.parts,
               v.step = IF w.task = "finalize" THEN "archive" ELSE "load"
        PROVE  Inv'
    <3>1. Alone(w) /\ Finds(w, f, heard, c)
      BY <2>3, UnlockedIsAlone, AloneFinds
    <3>2. v.task = w.task /\ g = f /\ d = c
      BY <2>1, <2>3 DEF Works, Replaces
    <3>3. /\ holder'[w.name] = w.by
          /\ \A m \in Names \ {w.name} : holder'[m] = holder[m]
      BY <1>1, <2>3 DEF TypeOK
    <3> HIDE DEF f, g, heard, c, d, ws
    <3>4. Leaves({v}, ws, f, f, heard, c)
      BY <1>1, <2>1, <2>3, <3>1, <3>2, ClaimLeaves
    <3>5. Leaves({v}, ws, f, g, heard, d)
      BY <3>2, <3>4
    <3> QED
      BY <1>7, <2>3, <3>1, <3>3, <3>5, AloneInv DEF f, g, heard, d, ws
  <2> QED
    BY <1>1, <1>8, <2>2, <2>3, ClaimOutcome
<1>9. CASE Load(w)
  <2>1. w.step = "load" /\ UNCHANGED <<cut, holder>> /\ Active(w) /\ d = c
    BY <1>1, <1>9, LoadOutcome DEF Active
  <2>2. CASE /\ Works(w, Ended(w)) /\ UNCHANGED disk
             /\ \A v \in Ended(w) : v.step = "done"
    <3>1. g = f /\ d = (c \/ w.step = "delete")
      BY <2>1, <2>2
    <3> HIDE DEF f, g, heard, c, d, ws
    <3>2. Leaves(Ended(w), ws, f, f, heard, d)
      BY <1>1, <1>3, <2>1, <2>2, <3>1, EndLeaves
    <3>3. Leaves(Ended(w), ws, f, g, heard, d)
      BY <3>1, <3>2
    <3> QED
      BY <1>6, <2>1, <2>2, <3>3, LockedStep DEF f, g, heard, d, ws
  <2>3. ASSUME NEW v \in WorkerSet, Works(w, {v}), v.step = "archive", v.failed,
               f.journal # None, SameFiles(f, g), g.journal # None,
               g.journal.parts = v.parts,
               v.parts = {p \in f.journal.parts : f.pcm[p] # None}
        PROVE  Inv'
    <3>1. v.task = w.task
      BY <2>3 DEF Works, Replaces
    <3> HIDE DEF f, g, heard, c, d, ws
    <3>2. Leaves({v}, ws, f, g, heard, c)
      BY <1>1, <1>2, <1>3, <1>5, <2>1, <2>3, <3>1, LoadLeaves
    <3> QED
      BY <1>7, <2>1, <2>3, <3>2, LockedStep DEF f, g, heard, d, ws
  <2>4. ASSUME NEW v \in WorkerSet, Works(w, {v}), UNCHANGED disk, v.step = "quarantine",
               f.journal # None, \A p \in f.journal.parts : ~HasAudio(w.name, p)
        PROVE  Inv'
    <3>1. v.task = w.task /\ g = f
      BY <2>4 DEF Works, Replaces
    <3>2. \A p \in f.journal.parts : p \notin Audible(f)
      BY <2>4 DEF HasAudio, Audible, Files
    <3> HIDE DEF f, g, heard, c, d, ws
    <3>3. Leaves({v}, ws, f, f, heard, c)
      BY <1>1, <1>3, <2>1, <2>4, <3>1, <3>2, LoadNothingLeaves
    <3>4. Leaves({v}, ws, f, g, heard, d)
      BY <2>1, <3>1, <3>3
    <3> QED
      BY <1>7, <2>1, <2>4, <3>4, LockedStep DEF f, g, heard, d, ws
  <2> QED
    BY <1>1, <1>9, <2>2, <2>3, <2>4, LoadOutcome
<1>10. CASE Quarantine(w)
  <2>1. w.step = "quarantine" /\ UNCHANGED <<cut, holder>> /\ Active(w) /\ d = c
    BY <1>1, <1>10, QuarantineOutcome DEF Active
  <2>2. ASSUME NEW p \in Files(f), Works(w, {w}), Removes(f, g, p)
        PROVE  Inv'
    <3> HIDE DEF f, g, heard, c, d, ws
    <3>1. Leaves({w}, ws, f, g, heard, c)
      BY <1>1, <1>2, <1>3, <1>5, <2>1, <2>2, QuarantineLeaves
    <3> QED
      BY <1>7, <2>1, <2>2, <3>1, LockedStep DEF f, g, heard, d, ws
  <2>3. CASE /\ Works(w, Ended(w))
             /\ \A v \in Ended(w) : v.step = "done"
             /\ SameFiles(f, g) /\ g.journal = None
    <3> HIDE DEF f, g, heard, c, d, ws
    <3>1. Leaves(Ended(w), ws, f, g, heard, c)
      BY <1>1, <1>2, <1>3, <1>4, <2>1, <2>3, QuarantinedLeaves
    <3> QED
      BY <1>6, <2>1, <2>3, <3>1, LockedStep DEF f, g, heard, d, ws
  <2> QED
    BY <1>1, <1>10, <2>2, <2>3, QuarantineOutcome
<1>11. CASE Archive(w)
  <2>1. w.step = "archive" /\ UNCHANGED <<cut, holder>> /\ Active(w) /\ d = c
    BY <1>1, <1>11, ArchiveOutcome DEF Active
  <2>2. CASE /\ Works(w, Ended(w)) /\ UNCHANGED disk
             /\ \A v \in Ended(w) : v.step = "done"
    <3>1. g = f /\ d = (c \/ w.step = "delete")
      BY <2>1, <2>2
    <3> HIDE DEF f, g, heard, c, d, ws
    <3>2. Leaves(Ended(w), ws, f, f, heard, d)
      BY <1>1, <1>3, <2>1, <2>2, <3>1, EndLeaves
    <3>3. Leaves(Ended(w), ws, f, g, heard, d)
      BY <3>1, <3>2
    <3> QED
      BY <1>6, <2>1, <2>2, <3>3, LockedStep DEF f, g, heard, d, ws
  <2>3. ASSUME NEW v \in WorkerSet, Works(w, {v}), v.step = "manifest", v.failed = w.failed,
               w.parts \subseteq Files(f), w.parts \cap Audible(f) # {},
               Archives(f, g, {Entry(f, p) : p \in w.parts \cap Audible(f)})
        PROVE  Inv'
    <3>1. v.task = w.task
      BY <2>3 DEF Works, Replaces
    <3> HIDE DEF f, g, heard, c, d, ws
    <3>2. Leaves({v}, ws, f, g, heard, c)
      BY <1>1, <1>2, <1>3, <1>5, <2>1, <2>3, <3>1, ArchiveLeaves
    <3> QED
      BY <1>7, <2>1, <2>3, <3>2, LockedStep DEF f, g, heard, d, ws
  <2> QED
    BY <1>1, <1>11, <2>2, <2>3, ArchiveOutcome
<1>12. CASE WriteManifest(w)
  <2>1. w.step = "manifest" /\ UNCHANGED <<cut, holder>> /\ Active(w) /\ d = c
    BY <1>1, <1>12, WriteManifestOutcome DEF Active
  <2>2. PICK v \in WorkerSet, manifest \in ManifestSet :
          /\ Works(w, {v})
          /\ v.step = "delete" /\ v.failed = w.failed
          /\ manifest.archive = f.archive
          /\ manifest.complete => ~w.failed
          /\ Describes(f, g, manifest)
    BY <1>1, <1>12, WriteManifestOutcome
  <2>3. v.task = w.task
    BY <2>2 DEF Works, Replaces
  <2> HIDE DEF f, g, heard, c, d, ws
  <2>4. Leaves({v}, ws, f, g, heard, c)
    BY <1>1, <1>2, <1>3, <1>5, <2>1, <2>2, <2>3, ManifestLeaves
  <2> QED
    BY <1>7, <2>1, <2>2, <2>4, LockedStep DEF f, g, heard, d, ws
<1>13. CASE WorkFails(w)
  <2>1. /\ UNCHANGED <<disk, cut, holder>> /\ Active(w) /\ Works(w, Ended(w))
        /\ \A v \in Ended(w) : v.step = "done"
        /\ g = f /\ d = (c \/ w.step = "delete")
    BY <1>1, <1>13, WorkFailsOutcome DEF Active
  <2> HIDE DEF f, g, heard, c, d, ws
  <2>2. Leaves(Ended(w), ws, f, f, heard, d)
    BY <1>1, <1>3, <2>1, EndLeaves
  <2>3. Leaves(Ended(w), ws, f, g, heard, d)
    BY <2>1, <2>2
  <2> QED
    BY <1>6, <2>1, <2>3, LockedStep DEF f, g, heard, d, ws
<1>14. ASSUME NEW p \in Parts, RemoveFile(w, p)
       PROVE  Inv'
  <2>1. w.step = "delete" /\ UNCHANGED <<cut, holder>> /\ Active(w) /\ d = c
    BY <1>1, <1>14, RemoveFileOutcome DEF Active
  <2>2. ASSUME NEW v \in WorkerSet, Works(w, {v}),
               v.step = "delete", v.failed = w.failed,
               Removes(f, g, p) \/ g = f
        PROVE  Inv'
    <3>1. v.task = w.task
      BY <2>2 DEF Works, Replaces
    <3> HIDE DEF f, g, heard, c, d, ws
    <3>2. Leaves({v}, ws, f, g, heard, c)
      BY <1>1, <1>2, <1>3, <1>5, <2>1, <2>2, <3>1, RemoveLeaves
    <3> QED
      BY <1>7, <2>1, <2>2, <3>2, LockedStep DEF f, g, heard, d, ws
  <2> QED
    BY <1>1, <1>14, <2>2, RemoveFileOutcome
<1>15. CASE RemoveJournal(w)
  <2>1. /\ w.step = "delete" /\ UNCHANGED holder /\ Active(w) /\ Works(w, Ended(w))
        /\ \A v \in Ended(w) : v.step = "done"
    BY <1>1, <1>15, RemoveJournalOutcome DEF Active
  <2>2. CASE SameFiles(f, g) /\ g.journal = None /\ UNCHANGED cut
    <3>1. d = c
      BY <2>2
    <3> HIDE DEF f, g, heard, c, d, ws
    <3>2. Leaves(Ended(w), ws, f, g, heard, c)
      BY <1>1, <1>2, <1>3, <1>4, <2>1, <2>2, RemoveJournalLeaves
    <3> QED
      BY <1>6, <2>1, <3>1, <3>2, LockedStep DEF f, g, heard, d, ws
  <2>3. CASE UNCHANGED disk /\ cut' = cut \cup {w.name}
    <3>1. g = f /\ d = (c \/ w.step = "delete")
      BY <2>1, <2>3
    <3> HIDE DEF f, g, heard, c, d, ws
    <3>2. Leaves(Ended(w), ws, f, f, heard, d)
      BY <1>1, <1>3, <2>1, <3>1, EndLeaves
    <3>3. Leaves(Ended(w), ws, f, g, heard, d)
      BY <3>1, <3>2
    <3> QED
      BY <1>6, <2>1, <3>3, LockedStep DEF f, g, heard, d, ws
  <2> QED
    BY <1>1, <1>15, <2>2, <2>3, RemoveJournalOutcome
<1>16. CASE CrashWorker(w)
  <2>1. /\ w.step # "done" /\ UNCHANGED <<disk, holder>> /\ Works(w, Ended(w))
        /\ \A v \in Ended(w) : v.step = "done"
        /\ cut' = IF w.step = "delete" THEN cut \cup {w.name} ELSE cut
    BY <1>1, <1>16, CrashWorkerOutcome
  <2>2. CASE Active(w)
    <3>1. g = f /\ d = (c \/ w.step = "delete")
      BY <2>1
    <3> HIDE DEF f, g, heard, c, d, ws
    <3>2. Leaves(Ended(w), ws, f, f, heard, d)
      BY <1>1, <1>3, <2>1, <2>2, <3>1, EndLeaves
    <3>3. Leaves(Ended(w), ws, f, g, heard, d)
      BY <3>1, <3>2
    <3> QED
      BY <1>6, <2>1, <2>2, <3>3, LockedStep DEF f, g, heard, d, ws
  <2>3. CASE ~Active(w)
    <3>1. UNCHANGED cut
      BY <2>1, <2>3 DEF Active
    <3> QED
      BY <2>1, <2>3, <3>1, QuitInv
  <2> QED
    BY <2>2, <2>3
<1>17. CASE Answer(w)
  BY <1>1, <1>17, AnswerOutcome, AnswerInv
<1> QED
  BY <1>8, <1>9, <1>10, <1>11, <1>12, <1>13, <1>14, <1>15, <1>16, <1>17 DEF WorkerStep

LEMMA RecorderStepInv ==
  ASSUME Inv, NEW i \in Instances, RecorderStep(i)
  PROVE  Inv'
<1>1. TypeOK
  BY DEF Inv
<1>2. CASE Begin(i)
  BY <1>1, <1>2, BeginOutcome, BeginInv
<1>3. CASE Fail(i)
  BY <1>1, <1>3, FailContinues, ContinueInv
<1>4. CASE Started(i)
  BY <1>1, <1>4, StartedContinues, ContinueInv
<1>5. CASE Stop(i)
  BY <1>1, <1>5, StopContinues, ContinueInv
<1>6. CASE StopMicrophone(i)
  BY <1>1, <1>6, StopMicrophoneContinues, ContinueInv
<1>7. CASE FinishStop(i)
  BY <1>1, <1>7, FinishOutcome, FinishInv
<1>8. CASE StopFails(i)
  <2>1. /\ TypeOK'
        /\ Session(i) # None /\ Session(i)' = None
        /\ \A j \in Instances \ {i} : app'[j] = app[j]
        /\ app'[i].claimed = app[i].claimed \ {Session(i).name}
        /\ Fresh(i, app', workers', disk')
        /\ UNCHANGED <<disk, workers, written, cut, holder>>
    BY <1>1, <1>8, StopFailsOutcome
  <2>2. \A n \in app'[i].claimed : n \in app[i].claimed /\ ~OnName(i, n)
    BY <2>1 DEF OnName
  <2> QED
    BY <2>1, <2>2, RefreshInv
<1>9. ASSUME NEW p \in Parts, Open(i, p) \/ OpenFails(i, p) \/ Write(i, p)
      PROVE  Inv'
  <2>1. CASE Open(i, p)
    BY <1>1, <2>1, OpenContinues, ContinueInv
  <2>2. CASE OpenFails(i, p)
    BY <1>1, <2>2, OpenFailsContinues, ContinueInv
  <2>3. CASE Write(i, p)
    BY <1>1, <2>3, WriteOutcome, WriteInv
  <2> QED
    BY <1>9, <2>1, <2>2, <2>3
<1> QED
  BY <1>2, <1>3, <1>4, <1>5, <1>6, <1>7, <1>8, <1>9 DEF RecorderStep

LEMMA InvInit == ASSUME Init PROVE Inv
<1>1. TypeOK
  BY TypeInit
<1>2. \A i \in Instances : /\ app[i] = Down /\ Session(i) = None
                           /\ \A n \in Names : ~OnName(i, n)
  BY DEF Init, Down, Session, OnName
<1>3. Exclusive /\ Claims
  BY <1>2 DEF Init, Exclusive, Claims, Down
<1>4. \A n \in Names : OfferedOn(n)
  BY DEF Init, OfferedOn
<1>5. \A n \in Names : RecordedOn(n)
  <2> TAKE n \in Names
  <2>1. /\ disk[n] = NoFiles /\ Heard(n) = {} /\ (n \in cut) = FALSE
        /\ SessionsOn(n) = {} /\ WorkersOf(n) = {}
    BY <1>2 DEF Init, Heard, SessionsOn, WorkersOf
  <2>2. Files(NoFiles) = {}
    BY DEF Files, NoFiles
  <2>3. RecordingInv(NoFiles, {}, FALSE, {}, {})
    BY <2>2 DEF RecordingInv, NameInv, NoFiles, Audible
  <2> QED
    BY <2>1, <2>3 DEF RecordedOn
<1> QED
  BY <1>1, <1>3, <1>4, <1>5, OfferedEach DEF Inv, Recordings

LEMMA InvStep == ASSUME Inv, [Next]_vars PROVE Inv'
<1>1. TypeOK
  BY DEF Inv
<1>2. ASSUME NEW i \in Instances, RecorderStep(i) PROVE Inv'
  BY <1>2, RecorderStepInv
<1>3. ASSUME NEW i \in Instances, DismissError(i) PROVE Inv'
  <2>1. /\ TypeOK'
        /\ \A j \in Instances : /\ Session(j)' = Session(j)
                                /\ app'[j].claimed = app[j].claimed
                                /\ app'[j].offered = app[j].offered
        /\ UNCHANGED <<disk, workers, written, cut, holder>>
    BY <1>1, <1>3, DismissOutcome
  <2>2. \A j \in Instances \ {i} : app'[j] = app[j]
    BY <1>1, <1>3 DEF DismissError, TypeOK
  <2> QED
    BY <2>1, <2>2, RefreshInv DEF OnName
<1>4. ASSUME NEW i \in Instances, Exit(i) PROVE Inv'
  BY <1>1, <1>4, ExitOutcome, ExitInv
<1>5. ASSUME NEW i \in Instances, Launch(i) PROVE Inv'
  <2>1. /\ TypeOK'
        /\ Session(i)' = Session(i) /\ app'[i].claimed = app[i].claimed
        /\ \A j \in Instances \ {i} : app'[j] = app[j]
        /\ Fresh(i, app', workers', disk')
        /\ UNCHANGED <<disk, workers, written, cut, holder>>
    BY <1>1, <1>5, LaunchOutcome
  <2> QED
    BY <2>1, RefreshInv DEF OnName
<1>6. ASSUME NEW i \in Instances, NEW n \in Names, Recover(i, n) PROVE Inv'
  <2> DEFINE w == Worker(i, "recover", n, {}, FALSE)
  <2>1. /\ TypeOK'
        /\ Session(i)' = Session(i) /\ app'[i].claimed = app[i].claimed \cup {n}
        /\ app'[i].offered = app[i].offered
        /\ \A j \in Instances \ {i} : app'[j] = app[j]
        /\ workers' = workers \cup {w}
        /\ UNCHANGED <<disk, written, cut, holder>>
    BY <1>1, <1>6, RecoverOutcome
  <2>2. w = Worker(i, "recover", n, {}, FALSE)
    OBVIOUS
  <2> HIDE DEF w
  <2> QED
    BY <2>1, <2>2, RecoverInv
<1>7. ASSUME NEW w \in workers, WorkerStep(w) PROVE Inv'
  BY <1>7, WorkerStepInv
<1>8. CASE UNCHANGED vars
  <2>1. UNCHANGED <<app, disk, workers, written, cut, holder, budget>>
    BY <1>8 DEF vars
  <2>2. TypeOK'
    BY <1>1, <2>1 DEF TypeOK, Session, Capturing
  <2>4. Exclusive' /\ Claims' /\ UnfinishedIsOffered'
    BY <2>1 DEF Inv, Exclusive, Claims, Busy, OnName, Session, UnfinishedIsOffered
  <2>5. ASSUME NEW m \in Names
        PROVE  RecordedOn(m)'
    <3>1. /\ Heard(m)' = Heard(m) /\ WorkersOf(m)' = WorkersOf(m)
          /\ disk'[m] = disk[m] /\ (m \in cut' <=> m \in cut)
          /\ Recordings
      BY <2>1 DEF Heard, WorkersOf, Inv
    <3>2. \A j \in Instances : OnName(j, m)' => OnName(j, m) /\ Session(j)' = Session(j)
      BY <2>1 DEF OnName, Session
    <3> QED
      BY <3>1, <3>2, Elsewhere
  <2> QED
    BY <2>2, <2>4, <2>5 DEF Inv, Recordings
<1> QED
  BY <1>2, <1>3, <1>4, <1>5, <1>6, <1>7, <1>8 DEF Next

LEMMA InvAlways == Spec => []Inv
<1>1. Init => Inv
  BY InvInit
<1>2. Inv /\ [Next]_vars => Inv'
  BY InvStep
<1> QED
  BY <1>1, <1>2, PTL DEF Spec

(***************************************************************************)
(* What follows from the invariant.                                        *)
(***************************************************************************)
(* The state of instances, files and workers stays what the code keeps: a  *)
(* session exists exactly while its instance captures.                     *)
THEOREM TypesHold == Spec => []TypeOK
<1>1. Inv => TypeOK
  BY DEF Inv
<1> QED
  BY <1>1, InvAlways, PTL

(* The lock of a recording keeps recorders and workers, of any instances   *)
(* and of those that died, from working on a name at the same time.        *)
THEOREM OneWorksOnAName == Spec => []Exclusive
<1>1. Inv => Exclusive
  BY DEF Inv
<1> QED
  BY <1>1, InvAlways, PTL

LEMMA RecordedNames ==
  ASSUME Inv, NEW n \in Names
  PROVE  /\ NameInv(disk[n], Heard(n), n \in cut, Deletes(WorkersOf(n)))
         /\ \A w \in WorkersOf(n) : WorkerInv(w, disk[n], Heard(n), n \in cut)
         /\ disk[n] \in NameSet
BY HeardFacts DEF Inv, Recordings, RecordedOn, RecordingInv

(* Audio that reached a file stays in it, in the archive, or in a file     *)
(* marked unrecoverable, whoever crashes, fails or recovers, unless a      *)
(* clean-up was cut off before it removed the journal.                     *)
THEOREM AudioSurvives == Spec => []OnlyCutCleanUpsLoseAudio
<1>1. Inv => OnlyCutCleanUpsLoseAudio
  <2> SUFFICES ASSUME Inv, NEW a \in written, a.name \notin cut
               PROVE  Kept(a)
    BY DEF OnlyCutCleanUpsLoseAudio
  <2> DEFINE n == a.name
             f == disk[n]
  <2>1. n \in Names /\ a \in Heard(n)
    BY DEF Inv, TypeOK, Heard
  <2>2. /\ NameInv(f, Heard(n), n \in cut, Deletes(WorkersOf(n)))
        /\ \A w \in WorkersOf(n) : WorkerInv(w, f, Heard(n), n \in cut)
    BY <2>1, RecordedNames
  <2>3. InFile(f, a) \/ InArchive(f.archive, a)
    <3>1. CASE f.journal = None
      BY <2>1, <2>2, <3>1 DEF NameInv
    <3>2. CASE f.journal # None /\ ~Deletes(WorkersOf(n))
      BY <2>1, <2>2, <3>2 DEF NameInv
    <3>3. CASE Deletes(WorkersOf(n))
      BY <2>1, <2>2, <3>3 DEF WorkerInv, Deletes
    <3> QED
      BY <3>1, <3>2, <3>3
  <2> QED
    BY <2>3 DEF Kept, InFile, InArchive
<1> QED
  BY <1>1, InvAlways, PTL

(* A manifest that says complete has all the audio of its recording, and   *)
(* when nothing is left to recover it describes the archive beside it.     *)
THEOREM ManifestsAreTrue == Spec => []ManifestsTellTheTruth
<1>1. Inv => ManifestsTellTheTruth
  <2> SUFFICES ASSUME Inv, NEW n \in Names
               PROVE  /\ disk[n].manifest # None /\ disk[n].manifest.complete =>
                           \A a \in written :
                             a.name = n => [part |-> a.part, of |-> a.of] \in disk[n].manifest.archive
                      /\ disk[n].journal = None /\ disk[n].archive # {} =>
                           disk[n].manifest # None /\ disk[n].manifest.archive = disk[n].archive
    BY DEF ManifestsTellTheTruth, CompleteArchivesAreWhole, SettledManifestsMatch
  <2> QED
    BY RecordedNames DEF NameInv, Heard, InArchive, Matches
<1> QED
  BY <1>1, InvAlways, PTL

(* Audio that is not archived is in the journal, and what an instance did  *)
(* not finish it is still at or offers for recovery.                       *)
THEOREM LeftAudioIsOffered == Spec => []AudioCanBeRecovered
<1>1. Inv => AudioIsJournaled
  <2> SUFFICES ASSUME Inv, NEW n \in Names, NEW p \in Parts, HasAudio(n, p),
                      [part |-> p, of |-> disk[n].pcm[p].of] \notin disk[n].archive
               PROVE  disk[n].journal # None /\ p \in disk[n].journal.parts
    BY DEF AudioIsJournaled
  <2>1. p \in Audible(disk[n]) /\ p \in Files(disk[n])
    BY DEF Audible, Files, HasAudio
  <2> QED
    BY <2>1, RecordedNames DEF NameInv, Entry
<1>2. Inv => UnfinishedIsOffered
  BY DEF Inv
<1>3. Inv => AudioCanBeRecovered
  BY <1>1, <1>2 DEF AudioCanBeRecovered
<1> QED
  BY <1>3, InvAlways, PTL
=============================================================================
