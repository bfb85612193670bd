-------------------------- MODULE SyncsAndJobsProofs --------------------------
(***************************************************************************)
(* Proofs about WorkerWorkspace, DocSync and Transcription, for any jobs,  *)
(* documents, recordings, runs and processes.                              *)
(***************************************************************************)
EXTENDS WorkerWorkspace, DocSync, Transcription, SequenceTheorems, TLAPS

(***************************************************************************)
(* ml-worker.  The lock of the job's fingerprint makes one process at a    *)
(* time its worker (WorkersTakeTurns), so what that process has prepared,  *)
(* fetched, cleared and written is still there when it uploads it          *)
(* (OwnFiles), and what mdstore accepted was written so (Accepted).        *)
(***************************************************************************)
(* Types, of a job j. *)
InputsOf(j, v) ==
  [DOMAIN j.inputs[v] -> {Absent} \cup {j.inputs[v][i] : i \in DOMAIN j.inputs[v]}]

Outputs(j) == [attempt : Nat, source : DOMAIN j.inputs \cup {Absent},
               inputs : UNION {InputsOf(j, v) : v \in DOMAIN j.inputs}]

WorkspaceSet(j, v) ==
  [source : DOMAIN j.inputs \cup {Absent}, inputs : InputsOf(j, v),
   outputs : [j.outputs -> Outputs(j) \cup {Absent}],
   moss : DOMAIN j.inputs \cup {Absent}]

DirsOK(j, dirs) == /\ dirs = [v \in DOMAIN j.inputs |-> dirs[v]]
                   /\ \A v \in DOMAIN j.inputs : dirs[v] \in WorkspaceSet(j, v)

DiskOK(j, d) ==
  /\ d \in [dirs : {d.dirs}, scratch : Nat \cup {Absent},
            shared : DOMAIN j.inputs \cup {Absent}, lock : WorkerProcesses \cup {NoProcess}]
  /\ DirsOK(j, d.dirs)

AttemptOK(j, a) ==
  /\ a \in [phase : {"preparing", "downloading", "cleared", "processing", "publishing"},
           attempt : Nat, version : DOMAIN j.inputs, lost : BOOLEAN,
           fetched : {a.fetched}, sent : SUBSET j.outputs, uploads : {a.uploads}]
  /\ a.fetched \subseteq DOMAIN j.inputs[a.version]

WorkerTypeOK ==
  /\ jobs \in JobScenarios
  /\ lease \in [version : Versions, attempt : Nat, held : BOOLEAN, done : BOOLEAN]
  /\ DiskOK(jobs, disk)
  /\ attempts = [p \in WorkerProcesses |-> attempts[p]]
  /\ \A p \in WorkerProcesses : attempts[p] = Idle \/ AttemptOK(jobs, attempts[p])
  /\ resident \in [WorkerProcesses ->
                     [loaded : BOOLEAN, finished : {"never", "now", "long ago"}]]
  /\ workerFaults \in Nat

(* The lock is held by the process that has an attempt. *)
WorkersTakeTurns ==
  \A p \in WorkerProcesses : attempts[p].phase # "idle" => disk.lock = p

(* The output of an attempt that read its own files. *)
OwnOutput(j, a) == [attempt |-> a.attempt, source |-> a.version,
                    inputs |-> j.inputs[a.version]]

(* What is in the directory of an attempt, by how far it is. *)
OwnFiles(j, a, d) ==
  /\ d.scratch = a.attempt
  /\ d.dirs[a.version].source = a.version
  /\ \A i \in a.fetched : d.dirs[a.version].inputs[i] = j.inputs[a.version][i]
  /\ a.phase \in {"cleared", "processing", "publishing"}
       => a.fetched = DOMAIN j.inputs[a.version]
  /\ a.phase = "cleared"
       => \A o \in j.outputs : d.dirs[a.version].outputs[o] = Absent
  /\ a.phase \in {"processing", "publishing"}
       => \A o \in j.outputs :
            d.dirs[a.version].outputs[o] \in {Absent, OwnOutput(j, a)}
  /\ a.sent # {} => a.phase = "publishing"
  /\ \A o \in a.sent : o \in DOMAIN a.uploads /\ a.uploads[o] = OwnOutput(j, a)

(* An attempt, with the disk and the models it works with. *)
AttemptInv(j, a, d, loaded) ==
  /\ a.phase = "preparing" => a.fetched = {} /\ a.sent = {}
  /\ a.phase \notin {"idle", "preparing"} => OwnFiles(j, a, d)
  /\ a.phase = "processing" => loaded

AttemptsInv ==
  \A p \in WorkerProcesses : AttemptInv(jobs, attempts[p], disk, resident[p].loaded)

Accepted ==
  \A c \in accepted : \A o \in jobs.outputs :
    c.outputs[o] = [attempt |-> c.attempt, source |-> c.version,
                    inputs |-> jobs.inputs[c.version]]

WorkerInv == WorkerTypeOK /\ WorkersTakeTurns /\ AttemptsInv /\ Accepted

-----------------------------------------------------------------------------
LEMMA WorkerInitInv == ASSUME WorkerInit PROVE WorkerInv
<1>1. jobs \in JobScenarios /\ 1 \in DOMAIN jobs.inputs /\ jobs.faults \in Nat
  BY WorkersAssumption DEF WorkerInit
<1>2. ASSUME NEW v \in Versions PROVE Workspace(v) \in WorkspaceSet(jobs, v)
  BY DEF Workspace, WorkspaceSet, InputsOf, InputPaths, Versions
<1>3. DirsOK(jobs, disk.dirs)
  BY <1>2 DEF WorkerInit, DirsOK, Versions
<1>4. DiskOK(jobs, disk)
  BY <1>3 DEF WorkerInit, DiskOK
<1>5. WorkerTypeOK
  BY <1>1, <1>4 DEF WorkerInit, WorkerTypeOK, Versions, Idle
<1>6. \A p \in WorkerProcesses : attempts[p].phase = "idle"
  BY DEF WorkerInit, Idle
<1>7. WorkersTakeTurns /\ AttemptsInv
  BY <1>6 DEF WorkersTakeTurns, AttemptsInv, AttemptInv
<1> QED
  BY <1>5, <1>7 DEF WorkerInit, WorkerInv, Accepted

(* One process has an attempt at a time. *)
LEMMA OthersAreIdle ==
  ASSUME WorkerInv, NEW p \in WorkerProcesses, attempts[p].phase # "idle",
         NEW q \in WorkerProcesses, q # p
  PROVE  attempts[q] = Idle /\ attempts[q].phase = "idle"
<1>1. attempts[q].phase = "idle"
  BY DEF WorkerInv, WorkersTakeTurns
<1>2. ~AttemptOK(jobs, attempts[q])
  BY <1>1 DEF AttemptOK
<1> QED
  BY <1>1, <1>2 DEF WorkerInv, WorkerTypeOK

(* An attempt's own output depends on its number and version only. *)
LEMMA SameOutput ==
  ASSUME NEW j, NEW a, NEW b, b.attempt = a.attempt, b.version = a.version
  PROVE  OwnOutput(j, b) = OwnOutput(j, a)
BY DEF OwnOutput

LEMMA WorkingFacts ==
  ASSUME WorkerInv, NEW p \in WorkerProcesses, attempts[p].phase # "idle"
  PROVE  /\ AttemptOK(jobs, attempts[p])
         /\ attempts[p].version \in Versions
         /\ disk.lock = p
         /\ DiskOK(jobs, disk)
         /\ disk.dirs[attempts[p].version] \in WorkspaceSet(jobs, attempts[p].version)
         /\ AttemptInv(jobs, attempts[p], disk, resident[p].loaded)
<1>1. AttemptOK(jobs, attempts[p])
  <2>1. attempts[p] = Idle \/ AttemptOK(jobs, attempts[p])
    BY DEF WorkerInv, WorkerTypeOK
  <2>2. attempts[p] # Idle
    BY DEF Idle
  <2> QED
    BY <2>1, <2>2
<1>2. attempts[p].version \in Versions
  BY <1>1 DEF AttemptOK, Versions
<1> QED
  BY <1>1, <1>2 DEF WorkerInv, WorkerTypeOK, WorkersTakeTurns, AttemptsInv, DiskOK, DirsOK,
     Versions

(* A step of the working process on its attempt, its files and its models. *)
LEMMA WorkStep ==
  ASSUME WorkerInv, NEW p \in WorkerProcesses, attempts[p].phase # "idle",
         UNCHANGED <<jobs, lease, accepted, workerFaults>>,
         NEW a, attempts' = [attempts EXCEPT ![p] = a], AttemptOK(jobs, a),
         DiskOK(jobs, disk'), disk'.lock = p,
         NEW r \in [loaded : BOOLEAN, finished : {"never", "now", "long ago"}],
         resident' = [resident EXCEPT ![p] = r],
         AttemptInv(jobs, a, disk', r.loaded)
  PROVE  WorkerInv'
<1>1. /\ attempts'[p] = a
      /\ \A q \in WorkerProcesses : q # p => attempts'[q] = attempts[q]
      /\ attempts' = [q \in WorkerProcesses |-> attempts'[q]]
  BY DEF WorkerInv, WorkerTypeOK
<1>2. /\ resident'[p] = r
      /\ resident' \in [WorkerProcesses ->
                          [loaded : BOOLEAN, finished : {"never", "now", "long ago"}]]
  BY DEF WorkerInv, WorkerTypeOK
<1>3. \A q \in WorkerProcesses : q # p => attempts'[q] = Idle /\ attempts'[q].phase = "idle"
  BY <1>1, OthersAreIdle
<1>4. WorkerTypeOK'
  BY <1>1, <1>2 DEF WorkerInv, WorkerTypeOK, Versions
<1>5. WorkersTakeTurns'
  BY <1>3 DEF WorkersTakeTurns
<1>6. AttemptsInv'
  <2>1. AttemptInv(jobs', attempts'[p], disk', resident'[p].loaded)
    BY <1>1, <1>2
  <2>2. ASSUME NEW q \in WorkerProcesses, q # p
        PROVE  AttemptInv(jobs', attempts'[q], disk', resident'[q].loaded)
    BY <1>3, <2>2 DEF AttemptInv
  <2> QED
    BY <2>1, <2>2 DEF AttemptsInv
<1> QED
  BY <1>4, <1>5, <1>6 DEF WorkerInv, Accepted

(* The files of one workspace change. *)
LEMMA WorkspaceStep ==
  ASSUME NEW j, NEW d, DiskOK(j, d), NEW v \in DOMAIN j.inputs,
         NEW w \in WorkspaceSet(j, v), NEW later,
         later = [d EXCEPT !.dirs = [d.dirs EXCEPT ![v] = w]]
  PROVE  /\ DiskOK(j, later)
         /\ later.dirs[v] = w
         /\ later.scratch = d.scratch
         /\ later.lock = d.lock
<1> DEFINE dirs == [d.dirs EXCEPT ![v] = w]
<1>1. /\ dirs = [u \in DOMAIN j.inputs |-> dirs[u]]
      /\ \A u \in DOMAIN j.inputs : dirs[u] = IF u = v THEN w ELSE d.dirs[u]
  BY DEF DiskOK, DirsOK
<1>2. DirsOK(j, dirs)
  BY <1>1 DEF DiskOK, DirsOK
<1>3. later = [d EXCEPT !.dirs = dirs]
  OBVIOUS
<1> HIDE DEF dirs
<1>4. /\ later.dirs = dirs /\ later.scratch = d.scratch /\ later.lock = d.lock
      /\ later.shared = d.shared
      /\ later = [dirs |-> dirs, scratch |-> d.scratch, shared |-> d.shared, lock |-> d.lock]
  BY <1>3 DEF DiskOK
<1>5. DiskOK(j, later)
  BY <1>2, <1>4 DEF DiskOK
<1> QED
  BY <1>1, <1>4, <1>5

(* The process that worked leaves, in one way or another. *)
LEMMA LeavingStep ==
  ASSUME WorkerInv, NEW p \in WorkerProcesses, attempts[p].phase # "idle",
         jobs' = jobs,
         lease' \in [version : Versions, attempt : Nat, held : BOOLEAN, done : BOOLEAN],
         attempts' = [attempts EXCEPT ![p] = Idle], DiskOK(jobs, disk'),
         resident' \in [WorkerProcesses ->
                          [loaded : BOOLEAN, finished : {"never", "now", "long ago"}]],
         Accepted', workerFaults' \in Nat
  PROVE  WorkerInv'
<1>1. /\ \A q \in WorkerProcesses : attempts'[q] = Idle
      /\ attempts' = [q \in WorkerProcesses |-> attempts'[q]]
  BY OthersAreIdle DEF WorkerInv, WorkerTypeOK
<1>2. \A q \in WorkerProcesses : attempts'[q].phase = "idle"
  <2>1. Idle.phase = "idle"
    BY DEF Idle
  <2> QED
    BY <1>1, <2>1
<1>3. WorkerTypeOK'
  BY <1>1 DEF WorkerInv, WorkerTypeOK, Versions
<1>4. WorkersTakeTurns'
  BY <1>2 DEF WorkersTakeTurns
<1>5. AttemptsInv'
  BY <1>2 DEF AttemptsInv, AttemptInv
<1> QED
  BY <1>3, <1>4, <1>5 DEF WorkerInv

(* The disk, its lock, its scratch directory and its shared generations apart. *)
LEMMA DiskStep ==
  ASSUME NEW j, NEW d, DiskOK(j, d), NEW s \in Nat \cup {Absent},
         NEW m \in DOMAIN j.inputs \cup {Absent}, NEW k \in WorkerProcesses \cup {NoProcess}
  PROVE  LET later == [dirs |-> d.dirs, scratch |-> s, shared |-> m, lock |-> k] IN
         /\ DiskOK(j, later)
         /\ later.dirs = d.dirs
  BY DEF DiskOK

(* The lease and the faults change, the files and the attempts do not. *)
LEMMA LeaseStep ==
  ASSUME WorkerInv, UNCHANGED <<jobs, disk, attempts, resident, accepted, workerFaults>>,
         lease' \in [version : Versions, attempt : Nat, held : BOOLEAN, done : BOOLEAN]
  PROVE  WorkerInv'
<1>1. WorkerTypeOK'
  BY DEF WorkerInv, WorkerTypeOK, Versions
<1>2. WorkersTakeTurns' /\ AttemptsInv' /\ Accepted'
  BY DEF WorkerInv, WorkersTakeTurns, AttemptsInv, Accepted
<1> QED
  BY <1>1, <1>2 DEF WorkerInv

LEMMA ReviseKeepsWorkers == ASSUME WorkerInv, Revise PROVE WorkerInv'
<1>1. lease' \in [version : Versions, attempt : Nat, held : BOOLEAN, done : BOOLEAN]
  BY DEF WorkerInv, WorkerTypeOK, Revise
<1> QED
  BY <1>1, LeaseStep DEF Revise

LEMMA ExpireKeepsWorkers == ASSUME WorkerInv, Expire PROVE WorkerInv'
<1>1. lease' \in [version : Versions, attempt : Nat, held : BOOLEAN, done : BOOLEAN]
  BY DEF WorkerInv, WorkerTypeOK, Expire
<1> QED
  BY <1>1, LeaseStep DEF Expire

(* The process that finds the lock free begins in a directory of its own. *)
LEMMA ClaimKeepsWorkers ==
  ASSUME WorkerInv, NEW p \in WorkerProcesses, Claim(p)
  PROVE  WorkerInv'
<1> DEFINE v == lease.version
           a == [phase |-> "preparing", attempt |-> lease.attempt + 1, version |-> v,
                 lost |-> FALSE, fetched |-> {}, sent |-> {}, uploads |-> <<>>]
           dirs == [u \in Versions |-> IF u = v THEN disk.dirs[u] ELSE Workspace(u)]
<1>0. lease \in [version : Versions, attempt : Nat, held : BOOLEAN, done : BOOLEAN]
  BY DEF WorkerInv, WorkerTypeOK
<1>1. lease' \in [version : Versions, attempt : Nat, held : BOOLEAN, done : BOOLEAN]
  <2>1. lease' = [lease EXCEPT !.attempt = lease.attempt + 1, !.held = TRUE]
    BY DEF Claim
  <2>2. lease' = [version |-> v, attempt |-> lease.attempt + 1, held |-> TRUE,
                  done |-> lease.done]
    BY <1>0, <2>1
  <2> QED
    BY <1>0, <2>2
<1>2. CASE ~ LockFree(p)
  BY <1>1, <1>2, LeaseStep DEF Claim
<1>3. CASE LockFree(p)
  <2>1. \A q \in WorkerProcesses : attempts[q].phase = "idle"
    BY <1>3, WorkersAssumption DEF WorkerInv, WorkersTakeTurns, LockFree
  <2>2. attempts' = [attempts EXCEPT ![p] = a]
    BY <1>3 DEF Claim
  <2>3. AttemptOK(jobs, a)
    BY <1>0 DEF AttemptOK, Versions
  <2>4. disk' = [disk EXCEPT !.lock = p, !.scratch = Absent, !.dirs = dirs]
    BY <1>3 DEF Claim
  <2>5. DirsOK(jobs, dirs)
    <3>1. ASSUME NEW u \in Versions PROVE Workspace(u) \in WorkspaceSet(jobs, u)
      BY DEF Workspace, WorkspaceSet, InputsOf, InputPaths, Versions
    <3> QED
      BY <3>1 DEF DirsOK, DiskOK, WorkerInv, WorkerTypeOK, Versions
  <2> HIDE DEF dirs
  <2>6. disk' = [dirs |-> dirs, scratch |-> Absent, shared |-> disk.shared, lock |-> p]
    BY <2>4 DEF DiskOK, WorkerInv, WorkerTypeOK
  <2>7. DiskOK(jobs, disk')
    BY <2>5, <2>6 DEF DiskOK, WorkerInv, WorkerTypeOK
  <2>8. /\ attempts'[p] = a
        /\ \A q \in WorkerProcesses : q # p => attempts'[q] = attempts[q]
        /\ attempts' = [q \in WorkerProcesses |-> attempts'[q]]
    BY <2>2 DEF WorkerInv, WorkerTypeOK
  <2>9. WorkerTypeOK'
    BY <1>1, <2>3, <2>7, <2>8 DEF WorkerInv, WorkerTypeOK, Versions, Claim
  <2>10. WorkersTakeTurns'
    BY <2>1, <2>6, <2>8 DEF WorkersTakeTurns
  <2>11. AttemptsInv'
    BY <2>1, <2>8 DEF AttemptsInv, AttemptInv, Claim
  <2> QED
    BY <2>9, <2>10, <2>11 DEF WorkerInv, Accepted, Claim
<1> QED
  BY <1>2, <1>3

LEMMA PrepareKeepsWorkers ==
  ASSUME WorkerInv, NEW p \in WorkerProcesses, Prepare(p)
  PROVE  WorkerInv'
<1> DEFINE a == attempts[p]
           b == [a EXCEPT !.phase = "downloading"]
           w == [disk.dirs[a.version] EXCEPT !.source = a.version]
           cleared == [disk EXCEPT !.dirs = [disk.dirs EXCEPT ![a.version] = w]]
<1>1. /\ AttemptOK(jobs, a) /\ a.version \in Versions /\ disk.lock = p
      /\ DiskOK(jobs, disk) /\ disk.dirs[a.version] \in WorkspaceSet(jobs, a.version)
      /\ AttemptInv(jobs, a, disk, resident[p].loaded)
  BY WorkingFacts DEF Prepare
<1>2. w \in WorkspaceSet(jobs, a.version) /\ w.source = a.version
  BY <1>1 DEF WorkspaceSet, Versions
<1>3. /\ DiskOK(jobs, cleared) /\ cleared.dirs[a.version] = w
      /\ cleared.lock = p
  BY <1>1, <1>2, WorkspaceStep DEF Versions
<1>4. disk' = [scratch |-> a.attempt, dirs |-> cleared.dirs, shared |-> cleared.shared, lock |-> cleared.lock]
  BY <1>1 DEF Prepare, DiskOK
<1> HIDE DEF cleared
<1>5. DiskOK(jobs, disk') /\ disk'.dirs[a.version] = w /\ disk'.scratch = a.attempt /\ disk'.lock = p
  BY <1>1, <1>3, <1>4 DEF DiskOK, AttemptOK
<1>6. /\ AttemptOK(jobs, b) /\ b.phase = "downloading" /\ b.attempt = a.attempt
      /\ b.version = a.version /\ b.fetched = {} /\ b.sent = {}
  BY <1>1 DEF AttemptOK, AttemptInv, Prepare
<1>7. AttemptInv(jobs, b, disk', resident[p].loaded)
  BY <1>2, <1>5, <1>6 DEF AttemptInv, OwnFiles
<1>8. attempts' = [attempts EXCEPT ![p] = b] /\ resident' = [resident EXCEPT ![p] = resident[p]]
  BY DEF Prepare, Enters, WorkerInv, WorkerTypeOK
<1>9. resident[p] \in [loaded : BOOLEAN, finished : {"never", "now", "long ago"}]
  BY DEF WorkerInv, WorkerTypeOK
<1>10. a.phase # "idle" /\ StoreKept
  BY DEF Prepare
<1> HIDE DEF a, b
<1> QED
  BY <1>5, <1>6, <1>7, <1>8, <1>9, <1>10, WorkStep DEF StoreKept, a

LEMMA DownloadKeepsWorkers ==
  ASSUME WorkerInv, NEW p \in WorkerProcesses, Download(p)
  PROVE  WorkerInv'
<1> DEFINE a == attempts[p]
<1>1. PICK i \in InputPaths(a.version) \ a.fetched :
        /\ disk' = [disk EXCEPT !.dirs[a.version].inputs[i] = jobs.inputs[a.version][i]]
        /\ attempts' = [attempts EXCEPT ![p].fetched = @ \cup {i}]
  BY DEF Download
<1> DEFINE b == [a EXCEPT !.fetched = @ \cup {i}]
           old == disk.dirs[a.version]
           w == [old EXCEPT !.inputs = [old.inputs EXCEPT ![i] = jobs.inputs[a.version][i]]]
<1>2. /\ AttemptOK(jobs, a) /\ a.version \in Versions /\ disk.lock = p
      /\ DiskOK(jobs, disk) /\ old \in WorkspaceSet(jobs, a.version)
      /\ AttemptInv(jobs, a, disk, resident[p].loaded) /\ a.phase = "downloading"
  BY WorkingFacts DEF Download
<1>3. i \in DOMAIN jobs.inputs[a.version]
  BY DEF InputPaths
<1>4. /\ w \in WorkspaceSet(jobs, a.version) /\ w.source = old.source
      /\ w.inputs[i] = jobs.inputs[a.version][i]
      /\ \A k \in DOMAIN jobs.inputs[a.version] : k # i => w.inputs[k] = old.inputs[k]
  BY <1>2, <1>3 DEF WorkspaceSet, InputsOf
<1>5. disk' = [disk EXCEPT !.dirs = [disk.dirs EXCEPT ![a.version] = w]]
  BY <1>1
<1> HIDE DEF w
<1>6. DiskOK(jobs, disk') /\ disk'.dirs[a.version] = w /\ disk'.scratch = disk.scratch
      /\ disk'.lock = p
  BY <1>2, <1>4, <1>5, WorkspaceStep DEF Versions
<1>7. /\ AttemptOK(jobs, b) /\ b.phase = "downloading" /\ b.attempt = a.attempt
      /\ b.version = a.version /\ b.fetched = a.fetched \cup {i} /\ b.sent = a.sent
      /\ b.uploads = a.uploads
  BY <1>2, <1>3 DEF AttemptOK
<1>8. AttemptInv(jobs, b, disk', resident[p].loaded)
  <2> HIDE DEF a, b
  <2>1. OwnFiles(jobs, a, disk)
    BY <1>2 DEF AttemptInv
  <2>2. \A k \in b.fetched : w.inputs[k] = jobs.inputs[a.version][k]
    BY <1>2, <1>4, <1>7, <2>1 DEF OwnFiles, AttemptOK
  <2>3. OwnFiles(jobs, b, disk')
    BY <1>2, <1>4, <1>6, <1>7, <2>1, <2>2, SameOutput DEF OwnFiles
  <2> QED
    BY <1>7, <2>3 DEF AttemptInv
<1>9. attempts' = [attempts EXCEPT ![p] = b] /\ resident' = [resident EXCEPT ![p] = resident[p]]
      /\ resident[p] \in [loaded : BOOLEAN, finished : {"never", "now", "long ago"}]
  BY <1>1 DEF Download, WorkerInv, WorkerTypeOK
<1>10. a.phase # "idle" /\ StoreKept
  BY DEF Download
<1> HIDE DEF a, b
<1> QED
  BY <1>6, <1>7, <1>8, <1>9, <1>10, WorkStep DEF StoreKept, a

LEMMA ClearOutputsKeepsWorkers ==
  ASSUME WorkerInv, NEW p \in WorkerProcesses, ClearOutputs(p)
  PROVE  WorkerInv'
<1> DEFINE a == attempts[p]
           b == [a EXCEPT !.phase = "cleared"]
           old == disk.dirs[a.version]
           w == [old EXCEPT !.outputs = [o \in jobs.outputs |-> Absent]]
<1>2. /\ AttemptOK(jobs, a) /\ a.version \in Versions /\ disk.lock = p
      /\ DiskOK(jobs, disk) /\ old \in WorkspaceSet(jobs, a.version)
      /\ AttemptInv(jobs, a, disk, resident[p].loaded) /\ a.phase = "downloading"
      /\ a.fetched = DOMAIN jobs.inputs[a.version]
  BY WorkingFacts DEF ClearOutputs, InputPaths
<1>4. /\ w \in WorkspaceSet(jobs, a.version) /\ w.source = old.source /\ w.inputs = old.inputs
      /\ \A o \in jobs.outputs : w.outputs[o] = Absent
  BY <1>2 DEF WorkspaceSet
<1>5. disk' = [disk EXCEPT !.dirs = [disk.dirs EXCEPT ![a.version] = w]]
  BY DEF ClearOutputs
<1> HIDE DEF w
<1>6. DiskOK(jobs, disk') /\ disk'.dirs[a.version] = w /\ disk'.scratch = disk.scratch
      /\ disk'.lock = p
  BY <1>2, <1>4, <1>5, WorkspaceStep DEF Versions
<1>7. /\ AttemptOK(jobs, b) /\ b.phase = "cleared" /\ b.attempt = a.attempt
      /\ b.version = a.version /\ b.fetched = a.fetched /\ b.sent = a.sent
      /\ b.uploads = a.uploads
  BY <1>2 DEF AttemptOK
<1>8. AttemptInv(jobs, b, disk', resident[p].loaded)
  <2> HIDE DEF a, b
  <2>1. OwnFiles(jobs, a, disk)
    BY <1>2 DEF AttemptInv
  <2>2. OwnFiles(jobs, b, disk')
    BY <1>2, <1>4, <1>6, <1>7, <2>1, SameOutput DEF OwnFiles
  <2> QED
    BY <1>7, <2>2 DEF AttemptInv
<1>9. attempts' = [attempts EXCEPT ![p] = b] /\ resident' = [resident EXCEPT ![p] = resident[p]]
      /\ resident[p] \in [loaded : BOOLEAN, finished : {"never", "now", "long ago"}]
  BY DEF ClearOutputs, Enters, WorkerInv, WorkerTypeOK
<1>10. a.phase # "idle" /\ StoreKept
  BY DEF ClearOutputs
<1> HIDE DEF a, b
<1> QED
  BY <1>6, <1>7, <1>8, <1>9, <1>10, WorkStep DEF StoreKept, a

LEMMA StartRecipeKeepsWorkers ==
  ASSUME WorkerInv, NEW p \in WorkerProcesses, StartRecipe(p)
  PROVE  WorkerInv'
<1> DEFINE a == attempts[p]
           b == [a EXCEPT !.phase = "processing"]
           old == disk.dirs[a.version]
           w == [old EXCEPT !.moss = IF jobs.recipe = "speech" /\ old.moss = Absent
                                     THEN disk.shared ELSE old.moss]
           r == [resident[p] EXCEPT !.loaded = TRUE]
<1>2. /\ AttemptOK(jobs, a) /\ a.version \in Versions /\ disk.lock = p
      /\ DiskOK(jobs, disk) /\ old \in WorkspaceSet(jobs, a.version)
      /\ AttemptInv(jobs, a, disk, resident[p].loaded) /\ a.phase = "cleared"
  BY WorkingFacts DEF StartRecipe
<1>4. /\ w \in WorkspaceSet(jobs, a.version) /\ w.source = old.source /\ w.inputs = old.inputs
      /\ w.outputs = old.outputs
  BY <1>2 DEF WorkspaceSet, DiskOK
<1>5. disk' = [disk EXCEPT !.dirs = [disk.dirs EXCEPT ![a.version] = w]]
  <2>1. CASE jobs.recipe = "speech" /\ old.moss = Absent
    BY <2>1 DEF StartRecipe, Dir
  <2>2. CASE ~ (jobs.recipe = "speech" /\ old.moss = Absent)
    <3>1. w = old
      BY <1>2, <2>2 DEF WorkspaceSet
    <3>2. [disk.dirs EXCEPT ![a.version] = old] = disk.dirs
      BY <1>2 DEF DiskOK, DirsOK, Versions
    <3>3. [disk EXCEPT !.dirs = disk.dirs] = disk
      BY <1>2 DEF DiskOK
    <3>4. disk' = disk
      BY <2>2 DEF StartRecipe, Dir
    <3> QED
      BY <3>1, <3>2, <3>3, <3>4
  <2> QED
    BY <2>1, <2>2
<1> HIDE DEF w
<1>6. DiskOK(jobs, disk') /\ disk'.dirs[a.version] = w /\ disk'.scratch = disk.scratch
      /\ disk'.lock = p
  BY <1>2, <1>4, <1>5, WorkspaceStep DEF Versions
<1>7. /\ AttemptOK(jobs, b) /\ b.phase = "processing" /\ b.attempt = a.attempt
      /\ b.version = a.version /\ b.fetched = a.fetched /\ b.sent = a.sent
      /\ b.uploads = a.uploads
  BY <1>2 DEF AttemptOK
<1>8. r \in [loaded : BOOLEAN, finished : {"never", "now", "long ago"}] /\ r.loaded = TRUE
  BY DEF WorkerInv, WorkerTypeOK
<1>9. AttemptInv(jobs, b, disk', r.loaded)
  <2> HIDE DEF a, b, r
  <2>1. OwnFiles(jobs, a, disk)
    BY <1>2 DEF AttemptInv
  <2>2. \A o \in jobs.outputs : old.outputs[o] = Absent
    BY <1>2, <2>1 DEF OwnFiles
  <2>3. OwnFiles(jobs, b, disk')
    BY <1>2, <1>4, <1>6, <1>7, <2>1, <2>2, SameOutput DEF OwnFiles
  <2> QED
    BY <1>7, <1>8, <2>3 DEF AttemptInv
<1>10. attempts' = [attempts EXCEPT ![p] = b] /\ resident' = [resident EXCEPT ![p] = r]
  BY DEF StartRecipe, Enters, WorkerInv, WorkerTypeOK
<1>11. a.phase # "idle" /\ StoreKept
  BY DEF StartRecipe
<1> HIDE DEF a, b, r
<1> QED
  BY <1>6, <1>7, <1>8, <1>9, <1>10, <1>11, WorkStep DEF StoreKept, a

(* What the recipe writes it writes from its own files. *)
LEMMA WriteOutputKeepsWorkers ==
  ASSUME WorkerInv, NEW p \in WorkerProcesses, WriteOutput(p)
  PROVE  WorkerInv'
<1> DEFINE a == attempts[p]
           old == disk.dirs[a.version]
<1>1. PICK o \in jobs.outputs :
        disk' = [disk EXCEPT !.dirs[a.version].outputs[o] = Written(p),
                             !.dirs[a.version].moss = IF jobs.recipe = "speech" THEN a.version ELSE @]
  BY DEF WriteOutput
<1> DEFINE w == [old EXCEPT !.outputs = [old.outputs EXCEPT ![o] = Written(p)],
                            !.moss = IF jobs.recipe = "speech" THEN a.version ELSE old.moss]
<1>2. /\ AttemptOK(jobs, a) /\ a.version \in Versions /\ disk.lock = p
      /\ DiskOK(jobs, disk) /\ old \in WorkspaceSet(jobs, a.version)
      /\ AttemptInv(jobs, a, disk, resident[p].loaded) /\ a.phase = "processing"
  BY WorkingFacts DEF WriteOutput
<1>3. Written(p) = OwnOutput(jobs, a) /\ Written(p) \in Outputs(jobs)
  <2>1. old.source = a.version /\ old.inputs \in InputsOf(jobs, a.version)
        /\ \A i \in DOMAIN jobs.inputs[a.version] : old.inputs[i] = jobs.inputs[a.version][i]
    BY <1>2 DEF AttemptInv, OwnFiles, WorkspaceSet
  <2>2. jobs.inputs[a.version] = [i \in DOMAIN jobs.inputs[a.version] |-> jobs.inputs[a.version][i]]
    BY <1>2, WorkersAssumption DEF Versions, WorkerInv, WorkerTypeOK
  <2>3. old.inputs = jobs.inputs[a.version]
    BY <2>1, <2>2 DEF InputsOf
  <2>4. Written(p) = OwnOutput(jobs, a)
    BY <2>1, <2>3 DEF Written, OwnOutput, Dir
  <2>5. Written(p) = [attempt |-> a.attempt, source |-> a.version, inputs |-> old.inputs]
    BY <2>1 DEF Written, Dir
  <2>6. old.inputs \in UNION {InputsOf(jobs, v) : v \in DOMAIN jobs.inputs}
    BY <1>2, <2>1 DEF Versions
  <2> QED
    BY <1>2, <2>4, <2>5, <2>6 DEF Outputs, AttemptOK, Versions
<1> DEFINE written == Written(p)
<1> HIDE DEF written
<1>4. /\ w \in WorkspaceSet(jobs, a.version) /\ w.source = old.source /\ w.inputs = old.inputs
      /\ \A k \in jobs.outputs : w.outputs[k] = IF k = o THEN Written(p) ELSE old.outputs[k]
  <2> DEFINE outputs == [old.outputs EXCEPT ![o] = Written(p)]
             moss == IF jobs.recipe = "speech" THEN a.version ELSE old.moss
  <2>1. /\ outputs \in [jobs.outputs -> Outputs(jobs) \cup {Absent}]
        /\ \A k \in jobs.outputs : outputs[k] = IF k = o THEN Written(p) ELSE old.outputs[k]
    BY <1>2, <1>3 DEF WorkspaceSet
  <2>2. moss \in DOMAIN jobs.inputs \cup {Absent}
    BY <1>2 DEF WorkspaceSet, Versions
  <2>3. w = [old EXCEPT !.outputs = outputs, !.moss = moss]
    OBVIOUS
  <2> HIDE DEF outputs, moss, w, old
  <2>4. w = [source |-> old.source, inputs |-> old.inputs, outputs |-> outputs, moss |-> moss]
    BY <1>2, <2>3 DEF WorkspaceSet
  <2> QED
    BY <1>2, <2>1, <2>2, <2>4 DEF WorkspaceSet
<1>5. disk' = [disk EXCEPT !.dirs = [disk.dirs EXCEPT ![a.version] = w]]
  <2> DEFINE dirs == disk.dirs
             first == [dirs EXCEPT ![a.version].outputs[o] = Written(p)]
             one == [disk EXCEPT !.dirs[a.version].outputs[o] = Written(p)]
             moss == IF jobs.recipe = "speech" THEN a.version ELSE old.moss
  <2>2. dirs = [v \in DOMAIN jobs.inputs |-> dirs[v]] /\ a.version \in DOMAIN jobs.inputs
    BY <1>2 DEF DiskOK, DirsOK, Versions
  <2>3. first = [dirs EXCEPT ![a.version] = [old EXCEPT !.outputs[o] = Written(p)]]
    OBVIOUS
  <2>4. first[a.version] = [old EXCEPT !.outputs[o] = Written(p)]
    BY <2>2, <2>3
  <2>5. first[a.version].moss = old.moss
    BY <1>2, <2>4 DEF WorkspaceSet
  <2>6. w = [first[a.version] EXCEPT !.moss = moss]
    <3> DEFINE part == [old EXCEPT !.outputs[o] = Written(p)]
    <3>1. w = [part EXCEPT !.moss = moss]
      <4> HIDE DEF old, moss
      <4> QED
        BY DEF moss
    <3> HIDE DEF w, moss, first, old
    <3> QED
      BY <2>4, <3>1
  <2>7. [first EXCEPT ![a.version] = w] = [dirs EXCEPT ![a.version] = w]
    <3> HIDE DEF w, dirs
    <3> QED
      BY <2>2, <2>3
  <2>8. disk' = [one EXCEPT !.dirs[a.version].moss =
                   IF jobs.recipe = "speech" THEN a.version ELSE @]
    BY <1>1, Zenon
  <2>9. one = [disk EXCEPT !.dirs = first]
    OBVIOUS
  <2>10. one.dirs = first
    BY <1>2, <2>9 DEF DiskOK
  <2> HIDE DEF dirs, first, one, w, a, old
  <2>11. disk' = [one EXCEPT !.dirs = [first EXCEPT ![a.version].moss = moss]]
    BY <2>5, <2>8, <2>10
  <2> HIDE DEF moss
  <2> QED
    BY <2>6, <2>7, <2>9, <2>11 DEF dirs
<1> HIDE DEF w
<1>6. DiskOK(jobs, disk') /\ disk'.dirs[a.version] = w /\ disk'.scratch = disk.scratch
      /\ disk'.lock = p
  BY <1>2, <1>4, <1>5, WorkspaceStep DEF Versions
<1>7. AttemptInv(jobs, a, disk', resident[p].loaded)
  <2> HIDE DEF a
  <2>1. OwnFiles(jobs, a, disk)
    BY <1>2 DEF AttemptInv
  <2>2. OwnFiles(jobs, a, disk')
    BY <1>2, <1>3, <1>4, <1>6, <2>1 DEF OwnFiles
  <2> QED
    BY <1>2, <2>2 DEF AttemptInv
<1>8. attempts' = [attempts EXCEPT ![p] = a] /\ resident' = [resident EXCEPT ![p] = resident[p]]
      /\ resident[p] \in [loaded : BOOLEAN, finished : {"never", "now", "long ago"}]
  BY DEF WriteOutput, WorkerInv, WorkerTypeOK
<1>9. a.phase # "idle" /\ StoreKept
  BY DEF WriteOutput, StoreKept
<1> HIDE DEF a
<1> QED
  BY <1>2, <1>6, <1>7, <1>8, <1>9, WorkStep DEF StoreKept, a

(* The generations of the recipe go back beside the workspaces. *)
LEMMA CopyingBack ==
  ASSUME WorkerInv, NEW p \in WorkerProcesses, attempts[p].phase # "idle"
  PROVE  /\ DiskOK(jobs, CopiedBack(p)) /\ CopiedBack(p).dirs = disk.dirs
         /\ CopiedBack(p).scratch = disk.scratch /\ CopiedBack(p).lock = p
<1>1. /\ DiskOK(jobs, disk) /\ disk.lock = p
      /\ disk.dirs[attempts[p].version] \in WorkspaceSet(jobs, attempts[p].version)
  BY WorkingFacts
<1>2. Dir(p).moss \in DOMAIN jobs.inputs \cup {Absent}
  BY <1>1 DEF Dir, WorkspaceSet
<1>3. CASE Dir(p).moss = Absent
  BY <1>1, <1>3 DEF CopiedBack
<1>4. CASE Dir(p).moss # Absent
  <2> DEFINE m == Dir(p).moss
  <2>1. CopiedBack(p) = [disk EXCEPT !.shared = m]
    BY <1>4 DEF CopiedBack
  <2> HIDE DEF m
  <2>2. CopiedBack(p) = [dirs |-> disk.dirs, scratch |-> disk.scratch, shared |-> m, lock |-> p]
    BY <1>1, <2>1 DEF DiskOK
  <2>3. disk.scratch \in Nat \cup {Absent} /\ m \in DOMAIN jobs.inputs \cup {Absent}
    BY <1>1, <1>2 DEF DiskOK, m
  <2> QED
    BY <1>1, <2>2, <2>3, DiskStep
<1> QED
  BY <1>3, <1>4

(* The scratch directory goes, and the lock. *)
LEMMA LeftDisk ==
  ASSUME NEW j, NEW d, DiskOK(j, d)
  PROVE  DiskOK(j, [d EXCEPT !.scratch = Absent, !.lock = NoProcess])
<1> DEFINE later == [d EXCEPT !.scratch = Absent, !.lock = NoProcess]
<1>0. d \in [dirs : {d.dirs}, scratch : {d.scratch}, shared : {d.shared}, lock : {d.lock}]
  BY DEF DiskOK
<1>1. later = [dirs |-> d.dirs, scratch |-> Absent, shared |-> d.shared, lock |-> NoProcess]
  <2>1. later = [d EXCEPT !.scratch = Absent, !.lock = NoProcess]
    OBVIOUS
  <2> HIDE DEF later
  <2> QED
    BY <1>0, <2>1
<1> HIDE DEF later
<1>2. DiskOK(j, later)
  BY <1>1 DEF DiskOK
<1> QED
  BY <1>2 DEF later

LEMMA EndRecipeKeepsWorkers ==
  ASSUME WorkerInv, NEW p \in WorkerProcesses, EndRecipe(p)
  PROVE  WorkerInv'
<1> DEFINE a == attempts[p]
           b == [a EXCEPT !.phase = "publishing"]
           r == [resident[p] EXCEPT !.finished = "now"]
<1>1. /\ AttemptOK(jobs, a) /\ AttemptInv(jobs, a, disk, resident[p].loaded)
      /\ a.phase = "processing"
  BY WorkingFacts DEF EndRecipe
<1>2. /\ DiskOK(jobs, disk') /\ disk'.dirs = disk.dirs /\ disk'.scratch = disk.scratch
      /\ disk'.lock = p
  BY CopyingBack DEF EndRecipe
<1>3. /\ AttemptOK(jobs, b) /\ b.phase = "publishing" /\ b.attempt = a.attempt
      /\ b.version = a.version /\ b.fetched = a.fetched /\ b.sent = a.sent
      /\ b.uploads = a.uploads
  BY <1>1 DEF AttemptOK
<1>4. r \in [loaded : BOOLEAN, finished : {"never", "now", "long ago"}]
  BY DEF WorkerInv, WorkerTypeOK
<1>5. AttemptInv(jobs, b, disk', r.loaded)
  <2> HIDE DEF a, b, r
  <2>1. OwnFiles(jobs, a, disk)
    BY <1>1 DEF AttemptInv
  <2>2. OwnFiles(jobs, b, disk')
    BY <1>1, <1>2, <1>3, <2>1, SameOutput DEF OwnFiles
  <2> QED
    BY <1>3, <2>2 DEF AttemptInv
<1>6. attempts' = [attempts EXCEPT ![p] = b] /\ resident' = [resident EXCEPT ![p] = r]
  BY DEF EndRecipe, Enters, Released, WorkerInv, WorkerTypeOK
<1>7. a.phase # "idle" /\ StoreKept
  BY DEF EndRecipe
<1> HIDE DEF a, b, r
<1> QED
  BY <1>2, <1>3, <1>4, <1>5, <1>6, <1>7, WorkStep DEF StoreKept, a

LEMMA LeaseAfterFailure ==
  ASSUME WorkerInv, NEW a, FailureReported(a)
  PROVE  lease' \in [version : Versions, attempt : Nat, held : BOOLEAN, done : BOOLEAN]
BY DEF FailureReported, WorkerInv, WorkerTypeOK

LEMMA RecipeFailsKeepsWorkers ==
  ASSUME WorkerInv, NEW p \in WorkerProcesses, RecipeFails(p)
  PROVE  WorkerInv'
<1>1. attempts[p].phase # "idle"
  BY DEF RecipeFails
<1>2. DiskOK(jobs, disk')
  BY <1>1, CopyingBack, LeftDisk DEF RecipeFails
<1>3. resident' \in [WorkerProcesses ->
                       [loaded : BOOLEAN, finished : {"never", "now", "long ago"}]]
  BY DEF RecipeFails, Released, WorkerInv, WorkerTypeOK
<1>4. lease' \in [version : Versions, attempt : Nat, held : BOOLEAN, done : BOOLEAN]
  BY LeaseAfterFailure DEF RecipeFails
<1>5. Accepted' /\ workerFaults' \in Nat /\ jobs' = jobs
  BY DEF RecipeFails, WorkerInv, WorkerTypeOK, Accepted
<1>6. attempts' = [attempts EXCEPT ![p] = Idle]
  BY DEF RecipeFails
<1> QED
  BY <1>1, <1>2, <1>3, <1>4, <1>5, <1>6, LeavingStep

LEMMA GiveUpKeepsWorkers ==
  ASSUME WorkerInv, NEW p \in WorkerProcesses, GiveUp(p)
  PROVE  WorkerInv'
<1>1. attempts[p].phase # "idle"
  BY DEF GiveUp
<1>2. DiskOK(jobs, disk')
  BY LeftDisk DEF GiveUp, Leaves, WorkerInv, WorkerTypeOK
<1>3. resident' \in [WorkerProcesses ->
                       [loaded : BOOLEAN, finished : {"never", "now", "long ago"}]]
  BY DEF GiveUp, WorkerInv, WorkerTypeOK
<1>4. lease' \in [version : Versions, attempt : Nat, held : BOOLEAN, done : BOOLEAN]
  BY LeaseAfterFailure DEF GiveUp
<1>5. Accepted' /\ workerFaults' \in Nat /\ jobs' = jobs
  <2>1. workerFaults \in Nat /\ Accepted
    BY DEF WorkerInv, WorkerTypeOK
  <2>2. workerFaults' \in Nat
    BY <2>1 DEF GiveUp
  <2> QED
    BY <2>1, <2>2 DEF GiveUp, Accepted
<1>6. attempts' = [attempts EXCEPT ![p] = Idle]
  BY DEF GiveUp, Leaves
<1> QED
  BY <1>1, <1>2, <1>3, <1>4, <1>5, <1>6, LeavingStep

LEMMA WorkerDiesKeepsWorkers ==
  ASSUME WorkerInv, NEW p \in WorkerProcesses, WorkerDies(p)
  PROVE  WorkerInv'
<1>1. attempts[p].phase # "idle" /\ DiskOK(jobs, disk)
  BY DEF WorkerDies, WorkerInv, WorkerTypeOK
<1>2. DiskOK(jobs, disk')
  <2>1. disk' = [dirs |-> disk.dirs, scratch |-> disk.scratch, shared |-> disk.shared,
                 lock |-> NoProcess]
    BY <1>1 DEF WorkerDies, DiskOK
  <2> QED
    BY <1>1, <2>1 DEF DiskOK
<1>3. resident' \in [WorkerProcesses ->
                       [loaded : BOOLEAN, finished : {"never", "now", "long ago"}]]
  BY DEF WorkerDies, WorkerInv, WorkerTypeOK
<1>4. lease' \in [version : Versions, attempt : Nat, held : BOOLEAN, done : BOOLEAN]
  BY DEF WorkerDies, WorkerInv, WorkerTypeOK
<1>5. Accepted' /\ workerFaults' \in Nat /\ jobs' = jobs
  <2>1. workerFaults \in Nat /\ Accepted
    BY DEF WorkerInv, WorkerTypeOK
  <2>2. workerFaults' \in Nat
    BY <2>1 DEF WorkerDies
  <2> QED
    BY <2>1, <2>2 DEF WorkerDies, Accepted
<1>6. attempts' = [attempts EXCEPT ![p] = Idle]
  BY DEF WorkerDies
<1> QED
  BY <1>1, <1>2, <1>3, <1>4, <1>5, <1>6, LeavingStep

(* An upload is of an output of the attempt's own. *)
LEMMA UploadKeepsWorkers ==
  ASSUME WorkerInv, NEW p \in WorkerProcesses, Upload(p)
  PROVE  WorkerInv'
<1> DEFINE a == attempts[p]
           out == disk.dirs[a.version].outputs
<1>1. PICK o \in jobs.outputs \ a.sent :
        /\ out[o] # Absent
        /\ attempts' = [attempts EXCEPT ![p].sent = @ \cup {o},
                                        ![p].uploads = [k \in DOMAIN @ \cup {o} |->
                                                          IF k = o THEN out[o] ELSE a.uploads[k]]]
  BY DEF Upload, Dir
<1> DEFINE uploads == [k \in DOMAIN a.uploads \cup {o} |-> IF k = o THEN out[o] ELSE a.uploads[k]]
           b == [a EXCEPT !.sent = @ \cup {o}, !.uploads = uploads]
<1>2. /\ AttemptOK(jobs, a) /\ disk.lock = p /\ DiskOK(jobs, disk)
      /\ AttemptInv(jobs, a, disk, resident[p].loaded) /\ a.phase = "publishing"
  BY WorkingFacts DEF Upload
<1>3. out[o] = OwnOutput(jobs, a)
  BY <1>1, <1>2 DEF AttemptInv, OwnFiles
<1>4. /\ DOMAIN uploads = {o} \cup DOMAIN a.uploads /\ uploads[o] = out[o]
      /\ \A k \in DOMAIN a.uploads : k # o => uploads[k] = a.uploads[k]
  OBVIOUS
<1>5. attempts' = [attempts EXCEPT ![p] = b]
  BY <1>1
<1> HIDE DEF uploads
<1>6. b = [phase |-> a.phase, attempt |-> a.attempt, version |-> a.version, lost |-> a.lost,
           fetched |-> a.fetched, sent |-> a.sent \cup {o}, uploads |-> uploads]
  <2>1. a \in [phase : {a.phase}, attempt : {a.attempt}, version : {a.version},
               lost : {a.lost}, fetched : {a.fetched}, sent : {a.sent}, uploads : {a.uploads}]
    BY <1>2 DEF AttemptOK
  <2>2. b = [a EXCEPT !.sent = a.sent \cup {o}, !.uploads = uploads]
    OBVIOUS
  <2> HIDE DEF a, b
  <2> QED
    BY <2>1, <2>2
<1> HIDE DEF b
<1>7. AttemptOK(jobs, b)
  BY <1>2, <1>6 DEF AttemptOK
<1>8. AttemptInv(jobs, b, disk', resident[p].loaded)
  <2>1. disk' = disk
    BY DEF Upload
  <2>2. OwnOutput(jobs, b) = OwnOutput(jobs, a)
    BY <1>6 DEF OwnOutput
  <2>3. \A k \in b.sent : k \in DOMAIN b.uploads /\ b.uploads[k] = OwnOutput(jobs, a)
    <3>1. b.sent = a.sent \cup {o} /\ b.uploads = uploads
      BY <1>6
    <3> HIDE DEF a, out
    <3>2. OwnFiles(jobs, a, disk)
      BY <1>2 DEF AttemptInv
    <3> QED
      BY <1>3, <1>4, <3>1, <3>2 DEF OwnFiles
  <2>4. /\ b.phase = a.phase /\ b.attempt = a.attempt /\ b.version = a.version
        /\ b.fetched = a.fetched
    BY <1>6
  <2>5. OwnFiles(jobs, a, disk)
    BY <1>2 DEF AttemptInv
  <2> HIDE DEF a
  <2>6. OwnFiles(jobs, b, disk)
    BY <1>2, <2>2, <2>3, <2>4, <2>5 DEF OwnFiles
  <2> QED
    BY <1>2, <2>1, <2>4, <2>6 DEF AttemptInv
<1>9. /\ resident' = [resident EXCEPT ![p] = resident[p]]
      /\ resident[p] \in [loaded : BOOLEAN, finished : {"never", "now", "long ago"}]
  BY DEF Upload, WorkerInv, WorkerTypeOK
<1>10. a.phase # "idle" /\ StoreKept /\ disk' = disk
  BY <1>2 DEF Upload
<1> HIDE DEF a, out
<1> QED
  BY <1>2, <1>5, <1>7, <1>8, <1>9, <1>10, WorkStep DEF StoreKept, a

(* mdstore accepts what has been uploaded under its lease. *)
LEMMA CompleteKeepsWorkers ==
  ASSUME WorkerInv, NEW p \in WorkerProcesses, Complete(p)
  PROVE  WorkerInv'
<1> DEFINE a == attempts[p]
<1>1. /\ AttemptInv(jobs, a, disk, resident[p].loaded) /\ a.phase = "publishing"
      /\ a.phase # "idle" /\ a.sent = jobs.outputs
  BY WorkingFacts DEF Complete
<1>2. DiskOK(jobs, disk')
  BY LeftDisk DEF Complete, Leaves, WorkerInv, WorkerTypeOK
<1>3. resident' \in [WorkerProcesses ->
                       [loaded : BOOLEAN, finished : {"never", "now", "long ago"}]]
  BY DEF Complete, WorkerInv, WorkerTypeOK
<1>4. lease' \in [version : Versions, attempt : Nat, held : BOOLEAN, done : BOOLEAN]
  <2>1. lease' = [lease EXCEPT !.held = FALSE, !.done = TRUE]
    BY DEF Complete
  <2>2. lease \in [version : Versions, attempt : Nat, held : BOOLEAN, done : BOOLEAN]
    BY DEF WorkerInv, WorkerTypeOK
  <2>3. lease' = [version |-> lease.version, attempt |-> lease.attempt, held |-> FALSE,
                  done |-> TRUE]
    BY <2>1, <2>2
  <2> QED
    BY <2>2, <2>3
<1>5. Accepted'
  <2>1. \A o \in jobs.outputs : a.uploads[o] = OwnOutput(jobs, a)
    BY <1>1 DEF AttemptInv, OwnFiles
  <2>2. /\ accepted' = accepted \cup {[attempt |-> a.attempt, version |-> a.version,
                                       outputs |-> a.uploads]}
        /\ jobs' = jobs
    BY DEF Complete
  <2> QED
    BY <2>1, <2>2 DEF WorkerInv, Accepted, OwnOutput
<1>6. attempts' = [attempts EXCEPT ![p] = Idle] /\ jobs' = jobs /\ workerFaults' \in Nat
  BY DEF Complete, Leaves, WorkerInv, WorkerTypeOK
<1> QED
  BY <1>1, <1>2, <1>3, <1>4, <1>5, <1>6, LeavingStep

LEMMA HeartbeatFailsKeepsWorkers ==
  ASSUME WorkerInv, NEW p \in WorkerProcesses, HeartbeatFails(p)
  PROVE  WorkerInv'
<1> DEFINE a == attempts[p]
           b == [a EXCEPT !.lost = TRUE]
<1>1. /\ AttemptOK(jobs, a) /\ AttemptInv(jobs, a, disk, resident[p].loaded)
      /\ DiskOK(jobs, disk) /\ disk.lock = p
  BY WorkingFacts DEF HeartbeatFails
<1>2. /\ AttemptOK(jobs, b) /\ b.phase = a.phase /\ b.attempt = a.attempt
      /\ b.version = a.version /\ b.fetched = a.fetched /\ b.sent = a.sent
      /\ b.uploads = a.uploads
  BY <1>1 DEF AttemptOK
<1>3. AttemptInv(jobs, b, disk, resident[p].loaded)
  <2>1. OwnFiles(jobs, a, disk) => OwnFiles(jobs, b, disk)
    BY <1>2 DEF OwnFiles, OwnOutput
  <2> HIDE DEF a, b
  <2> QED
    BY <1>1, <1>2, <2>1 DEF AttemptInv
<1>4. /\ attempts' = [attempts EXCEPT ![p] = b]
      /\ resident' = [resident EXCEPT ![p] = resident[p]]
      /\ resident[p] \in [loaded : BOOLEAN, finished : {"never", "now", "long ago"}]
  BY DEF HeartbeatFails, WorkerInv, WorkerTypeOK
<1>5. a.phase # "idle" /\ StoreKept /\ disk' = disk
  BY DEF HeartbeatFails
<1> HIDE DEF a, b
<1> QED
  BY <1>1, <1>2, <1>3, <1>4, <1>5, WorkStep DEF StoreKept, a

(* The maintenance thread leaves the models of a recipe that runs. *)
LEMMA MaintenanceStep ==
  ASSUME WorkerInv, UNCHANGED <<jobs, lease, disk, attempts, accepted, workerFaults>>,
         NEW p \in WorkerProcesses,
         NEW r \in [loaded : BOOLEAN, finished : {"never", "now", "long ago"}],
         resident' = [resident EXCEPT ![p] = r],
         attempts[p].phase = "processing" => r.loaded = resident[p].loaded
  PROVE  WorkerInv'
<1>1. /\ resident' \in [WorkerProcesses ->
                          [loaded : BOOLEAN, finished : {"never", "now", "long ago"}]]
      /\ resident'[p] = r /\ \A q \in WorkerProcesses : q # p => resident'[q] = resident[q]
  BY DEF WorkerInv, WorkerTypeOK
<1>2. WorkerTypeOK'
  BY <1>1 DEF WorkerInv, WorkerTypeOK, Versions
<1>3. WorkersTakeTurns' /\ Accepted'
  BY DEF WorkerInv, WorkersTakeTurns, Accepted
<1>4. AttemptsInv'
  <2>1. ASSUME NEW q \in WorkerProcesses
        PROVE  AttemptInv(jobs, attempts[q], disk, resident'[q].loaded)
    <3>1. AttemptInv(jobs, attempts[q], disk, resident[q].loaded)
      BY DEF WorkerInv, AttemptsInv
    <3>2. attempts[q].phase = "processing" => resident'[q].loaded = resident[q].loaded
      BY <1>1
    <3> QED
      BY <3>1, <3>2 DEF AttemptInv
  <2> QED
    BY <2>1 DEF AttemptsInv
<1> QED
  BY <1>2, <1>3, <1>4 DEF WorkerInv

LEMMA MaintenanceKeepsWorkers ==
  ASSUME WorkerInv, NEW p \in WorkerProcesses, GrowOld(p) \/ Evict(p)
  PROVE  WorkerInv'
<1> DEFINE old == [resident[p] EXCEPT !.finished = "long ago"]
           gone == [loaded |-> FALSE, finished |-> "never"]
<1>1. resident \in [WorkerProcesses ->
                      [loaded : BOOLEAN, finished : {"never", "now", "long ago"}]]
  BY DEF WorkerInv, WorkerTypeOK
<1>2. UNCHANGED <<jobs, lease, disk, attempts, accepted, workerFaults>>
  BY DEF GrowOld, Evict, StoreKept
<1>3. CASE GrowOld(p)
  <2>1. /\ old \in [loaded : BOOLEAN, finished : {"never", "now", "long ago"}]
        /\ old.loaded = resident[p].loaded
    BY <1>1
  <2>2. resident' = [resident EXCEPT ![p] = old]
    BY <1>1, <1>3 DEF GrowOld
  <2> HIDE DEF old
  <2> QED
    BY <1>2, <2>1, <2>2, MaintenanceStep
<1>4. CASE Evict(p)
  <2>1. gone \in [loaded : BOOLEAN, finished : {"never", "now", "long ago"}]
    OBVIOUS
  <2>2. resident' = [resident EXCEPT ![p] = gone] /\ attempts[p].phase # "processing"
    BY <1>4 DEF Evict, GroupFree
  <2> HIDE DEF gone
  <2> QED
    BY <1>2, <2>1, <2>2, MaintenanceStep
<1> QED
  BY <1>3, <1>4

-----------------------------------------------------------------------------
THEOREM WorkerInvAlways == WorkerSpec => []WorkerInv
<1>1. WorkerInit => WorkerInv
  BY WorkerInitInv
<1>2. WorkerInv /\ [WorkerNext]_workerVars => WorkerInv'
  <2> SUFFICES ASSUME WorkerInv, [WorkerNext]_workerVars
               PROVE  WorkerInv'
    OBVIOUS
  <2>1. CASE Revise \/ Expire
    BY <2>1, ReviseKeepsWorkers, ExpireKeepsWorkers
  <2>2. ASSUME NEW p \in WorkerProcesses,
               Claim(p) \/ Prepare(p) \/ Download(p) \/ ClearOutputs(p) \/ StartRecipe(p)
        PROVE  WorkerInv'
    BY <2>2, ClaimKeepsWorkers, PrepareKeepsWorkers, DownloadKeepsWorkers,
       ClearOutputsKeepsWorkers, StartRecipeKeepsWorkers
  <2>3. ASSUME NEW p \in WorkerProcesses,
               WriteOutput(p) \/ EndRecipe(p) \/ RecipeFails(p) \/ Upload(p) \/ Complete(p)
        PROVE  WorkerInv'
    BY <2>3, WriteOutputKeepsWorkers, EndRecipeKeepsWorkers, RecipeFailsKeepsWorkers,
       UploadKeepsWorkers, CompleteKeepsWorkers
  <2>4. ASSUME NEW p \in WorkerProcesses,
               GiveUp(p) \/ HeartbeatFails(p) \/ WorkerDies(p) \/ GrowOld(p) \/ Evict(p)
        PROVE  WorkerInv'
    BY <2>4, GiveUpKeepsWorkers, HeartbeatFailsKeepsWorkers, WorkerDiesKeepsWorkers,
       MaintenanceKeepsWorkers
  <2>5. CASE UNCHANGED workerVars
    <3>1. UNCHANGED <<jobs, disk, attempts, resident, accepted, workerFaults>> /\ lease' = lease
      BY <2>5 DEF workerVars
    <3>2. lease' \in [version : Versions, attempt : Nat, held : BOOLEAN, done : BOOLEAN]
      BY <3>1 DEF WorkerInv, WorkerTypeOK
    <3> QED
      BY <3>1, <3>2, LeaseStep
  <2> QED
    BY <2>1, <2>2, <2>3, <2>4, <2>5 DEF WorkerNext
<1> QED
  BY <1>1, <1>2, PTL DEF WorkerSpec

(* The workspaces of attempts are isolated, and what mdstore accepts was    *)
(* written by the attempt it was leased to, from the version it was leased  *)
(* for; the models of a recipe that runs are loaded: fingerprint lock, the  *)
(* cleared outputs, the digests of inputs, the lock of the model group.     *)
THEOREM WorkersAreIsolated == WorkerSpec => []JobsAreIsolated
<1>1. WorkerInv => JobsAreIsolated
  <2> SUFFICES ASSUME WorkerInv PROVE JobsAreIsolated
    OBVIOUS
  <2>1. ASSUME NEW p \in WorkerProcesses,
               attempts[p].phase \in {"cleared", "processing", "publishing"}
        PROVE  /\ disk.scratch = attempts[p].attempt
               /\ Dir(p).inputs = jobs.inputs[attempts[p].version]
    <3> DEFINE v == attempts[p].version
    <3>1. /\ OwnFiles(jobs, attempts[p], disk)
          /\ disk.dirs[v] \in WorkspaceSet(jobs, v) /\ v \in DOMAIN jobs.inputs
      BY <2>1, WorkingFacts DEF AttemptInv, Versions
    <3>2. jobs.inputs[v] = [i \in DOMAIN jobs.inputs[v] |-> jobs.inputs[v][i]]
      <4>1. jobs \in JobScenarios
        BY DEF WorkerInv, WorkerTypeOK
      <4> QED
        BY <3>1, <4>1, WorkersAssumption
    <3>3. /\ disk.dirs[v].inputs \in InputsOf(jobs, v)
          /\ \A i \in DOMAIN jobs.inputs[v] : disk.dirs[v].inputs[i] = jobs.inputs[v][i]
      BY <2>1, <3>1 DEF OwnFiles, WorkspaceSet
    <3>4. disk.dirs[v].inputs = jobs.inputs[v]
      BY <3>2, <3>3 DEF InputsOf
    <3> QED
      BY <3>1, <3>4 DEF OwnFiles, Dir
  <2>2. ASSUME NEW p \in WorkerProcesses, attempts[p].phase = "processing"
        PROVE  resident[p].loaded
    BY <2>2 DEF WorkerInv, AttemptsInv, AttemptInv
  <2>3. AttemptsReadTheirOwnFiles
    BY <2>1 DEF AttemptsReadTheirOwnFiles, WorkerInv, Accepted
  <2> QED
    BY <2>2, <2>3 DEF JobsAreIsolated, ModelsInUseAreLoaded
<1> QED
  BY <1>1, WorkerInvAlways, PTL

(***************************************************************************)
(* doc2md.  A plan is a set of files to write and a set of files to remove *)
(* whose results are the files of its manifest (Writing).  The commits of  *)
(* the remote branch have one stamp per sync, so a rebase over a manifest  *)
(* that did not change meets the same files (CommitsOK), and the tree that *)
(* is pushed keeps what others had below it (GitInv); in a directory the   *)
(* sync that started last is the only one at work (DirInv).                *)
(***************************************************************************)
NewPaths(manifest) == UNION {EntryPaths(manifest[d]) : d \in DOMAIN manifest}

(* Files outside the manifest of a tree. *)
Unmanaged(t) == DOMAIN t.files \ Managed(t)

TreeOK(t) ==
  t \in [files : {t.files}, manifest : {t.manifest}, stamp : Nat, other : {t.other}]

SyncOK(s) ==
  /\ s \in [phase : {"walk", "write", "fetch", "push", "done", "failed"}, n : Nat \ {0},
            allow : {s.allow}, walk : {s.walk}, tree : {s.tree}, base : {s.base},
            onto : {s.onto}, writes : {s.writes}, removes : {s.removes},
            manifest : {s.manifest}, attempt : {s.attempt}, answer : {s.answer},
            began : {s.began}, stood : {s.stood}, quiet : {s.quiet}]
  /\ TreeOK(s.tree) /\ TreeOK(s.base)

(* A plan that is being carried out on the tree t. *)
Writing(s, t) ==
  /\ NewPaths(s.manifest) \ DOMAIN t.files \subseteq {w.path : w \in s.writes}
  /\ {w.path : w \in s.writes} \subseteq NewPaths(s.manifest)
  /\ s.removes \cap NewPaths(s.manifest) = {}
  /\ DOMAIN t.files \ NewPaths(s.manifest) \subseteq s.removes \cup Unmanaged(s.base)

GitInv(s, log) ==
  /\ \E k \in DOMAIN log : s.base = log[k].tree
  /\ s.phase = "walk" => s.tree = s.base
  /\ s.phase = "write" => Writing(s, s.tree)
  /\ s.phase \in {"fetch", "push"} =>
       DOMAIN s.tree.files = Managed(s.tree) /\ s.tree.stamp = s.n
  /\ s.phase = "push" => \/ HasCommitOf(log, s.n)
                         \/ /\ s.onto \in DOMAIN log
                            /\ s.tree.other = log[s.onto].tree.other
  /\ s.phase = "done" => HasCommitOf(log, s.n)

DirInv(s, d, c, left) ==
  /\ s.phase \in {"walk", "write"} => s.n = c /\ Unmanaged(s.base) \subseteq left
  /\ s.phase = "walk" => d = s.base
  /\ s.phase = "write" => Writing(s, d)
  /\ s.phase = "failed" /\ s.n = c => d = s.base

IsLog(log) == log \in Seq({log[k] : k \in 1..Len(log)})

CommitsOK(log, c) ==
  /\ IsLog(log) /\ Len(log) \in Nat \ {0}
  /\ \A k \in DOMAIN log :
       /\ log[k].by \in 0..c
       /\ TreeOK(log[k].tree)
       /\ DOMAIN log[k].tree.files = Managed(log[k].tree)
       /\ log[k].tree.stamp # 0 => HasCommitOf(log, log[k].tree.stamp)
       /\ log[k].by # Operator => k # 1 /\ log[k].tree.other = log[k - 1].tree.other
  /\ \A k, m \in DOMAIN log : log[k].tree.stamp = log[m].tree.stamp =>
       DOMAIN log[k].tree.files = DOMAIN log[m].tree.files
  /\ \A k, m \in DOMAIN log : k # m /\ log[k].by = log[m].by => log[k].by = Operator

SyncsOK ==
  /\ count \in Nat
  /\ TreeOK(dir)
  /\ sync = [p \in Syncs |-> sync[p]]
  /\ \A p \in Syncs : \/ sync[p] = IdleSync
                      \/ /\ SyncOK(sync[p])
                         /\ sync[p].n <= count
  /\ \A p, q \in Syncs : p # q /\ sync[p].n = sync[q].n => sync[p] = IdleSync

SyncProgress ==
  /\ \A p \in Syncs : sync[p] # IdleSync =>
       /\ mode = "git" => GitInv(sync[p], remote)
       /\ mode # "git" => sync[p].phase \notin {"fetch", "push"}
       /\ mode = "directory" => DirInv(sync[p], dir, count, strays)
  /\ (mode = "directory" /\ \A p \in Syncs : ~AtWork(p)) => Unmanaged(dir) \subseteq strays

SyncInv == SyncsOK /\ CommitsOK(remote, count) /\ SyncProgress

-----------------------------------------------------------------------------
(* The branch grows at its end. *)
LEMMA LogGrows ==
  ASSUME NEW log, IsLog(log), NEW c
  PROVE  LET later == Append(log, c) IN
         /\ IsLog(later) /\ Len(later) = Len(log) + 1 /\ Len(log) \in Nat
         /\ DOMAIN later = 1..(Len(log) + 1) /\ DOMAIN log = 1..Len(log)
         /\ \A k \in DOMAIN log : later[k] = log[k]
         /\ later[Len(log) + 1] = c
<1> DEFINE S == {log[k] : k \in 1..Len(log)} \cup {c}
           later == Append(log, c)
<1>1. log \in Seq(S) /\ Len(log) \in Nat /\ DOMAIN log = 1..Len(log)
  BY DEF IsLog
<1>2. /\ later \in Seq(S) /\ Len(later) = Len(log) + 1
      /\ DOMAIN later = 1..(Len(log) + 1)
      /\ \A k \in DOMAIN log : later[k] = log[k]
      /\ later[Len(log) + 1] = c
  BY <1>1
<1> HIDE DEF later, S
<1>3. later \in Seq({later[k] : k \in 1..Len(later)})
  BY <1>2
<1> QED
  BY <1>1, <1>2, <1>3 DEF IsLog, later

LEMMA CommitsGrow ==
  ASSUME NEW log, IsLog(log), NEW c, NEW n, HasCommitOf(log, n)
  PROVE  HasCommitOf(Append(log, c), n)
BY LogGrows DEF HasCommitOf

LEMMA ProgressKept ==
  ASSUME NEW log, IsLog(log), NEW c, NEW s, GitInv(s, log)
  PROVE  GitInv(s, Append(log, c))
<1>1. /\ DOMAIN log \subseteq DOMAIN Append(log, c)
      /\ \A k \in DOMAIN log : Append(log, c)[k] = log[k]
  BY LogGrows
<1>2. HasCommitOf(log, s.n) => HasCommitOf(Append(log, c), s.n)
  BY CommitsGrow
<1> QED
  BY <1>1, <1>2 DEF GitInv

LEMMA InitialSyncs == ASSUME SyncInit PROVE SyncInv
<1> DEFINE first == [tree |-> EmptyTree, by |-> Operator]
<1>1. remote = <<first>> /\ dir = EmptyTree /\ count = 0 /\ sync = [p \in Syncs |-> IdleSync]
  BY DEF SyncInit
<1>2. TreeOK(EmptyTree) /\ DOMAIN EmptyTree.files = {} /\ Managed(EmptyTree) = {}
      /\ EmptyTree.stamp = 0
  BY DEF TreeOK, EmptyTree, Managed
<1>3. /\ Len(remote) = 1 /\ DOMAIN remote = {1} /\ remote[1] = first
      /\ remote \in Seq({first})
  BY <1>1
<1>4. first.by = Operator /\ first.tree = EmptyTree
  OBVIOUS
<1> HIDE DEF first
<1>5. IsLog(remote)
  BY <1>3 DEF IsLog
<1>6. CommitsOK(remote, count)
  <2>1. \A k \in DOMAIN remote : k = 1 /\ remote[k] = first
    BY <1>3
  <2>2. \A k \in DOMAIN remote :
          /\ remote[k].tree = EmptyTree /\ remote[k].by = 0 /\ k = 1
    BY <1>4, <2>1 DEF Operator
  <2>3. Len(remote) \in Nat \ {0}
    BY <1>3
  <2>4. \A k \in DOMAIN remote :
          /\ remote[k].by = Operator /\ remote[k].by \in 0..count
          /\ remote[k].tree.stamp = 0 /\ TreeOK(remote[k].tree)
          /\ remote[k].tree.files = EmptyTree.files
          /\ DOMAIN remote[k].tree.files = Managed(remote[k].tree)
    BY <1>1, <1>2, <2>2 DEF Operator
  <2> QED
    BY <1>5, <2>3, <2>4 DEF CommitsOK
<1>7. SyncsOK
  <2>1. \A p \in Syncs : sync[p] = IdleSync
    BY <1>1
  <2>2. sync = [p \in Syncs |-> sync[p]]
    BY <1>1
  <2>3. count \in Nat /\ TreeOK(dir)
    BY <1>1, <1>2
  <2> QED
    BY <2>1, <2>2, <2>3 DEF SyncsOK
<1>8. SyncProgress
  BY <1>1, <1>2 DEF SyncProgress, Unmanaged
<1> QED
  BY <1>6, <1>7, <1>8 DEF SyncInv

LEMMA TreeChanges ==
  ASSUME NEW s, SyncOK(s), NEW t, TreeOK(t)
  PROVE  LET r == [s EXCEPT !.tree = t] IN
         /\ SyncOK(r) /\ r.tree = t /\ r.phase = s.phase /\ r.n = s.n /\ r.base = s.base
         /\ r.onto = s.onto /\ r.writes = s.writes /\ r.removes = s.removes
         /\ r.manifest = s.manifest
BY DEF SyncOK

LEMMA AtWorkFacts ==
  ASSUME SyncInv, NEW p \in Syncs, AtWork(p)
  PROVE  /\ SyncOK(sync[p]) /\ sync[p].n <= count /\ sync[p] # IdleSync
         /\ sync[p].phase \in {"walk", "write", "fetch", "push"}
         /\ mode = "git" => GitInv(sync[p], remote)
         /\ mode # "git" => sync[p].phase \notin {"fetch", "push"}
         /\ mode = "directory" => DirInv(sync[p], dir, count, strays)
<1>1. sync[p] # IdleSync
  BY DEF AtWork, IdleSync
<1>2. SyncOK(sync[p]) /\ sync[p].n <= count
  BY <1>1 DEF SyncInv, SyncsOK
<1>3. sync[p].phase \in {"walk", "write", "fetch", "push"}
  BY <1>2 DEF AtWork, SyncOK
<1> QED
  BY <1>1, <1>2, <1>3 DEF SyncInv, SyncProgress

(* In a directory one sync is at work, the last one. *)
LEMMA OneAtWork ==
  ASSUME SyncInv, mode = "directory", NEW p \in Syncs, AtWork(p)
  PROVE  /\ sync[p].n = count
         /\ sync[p].phase \in {"walk", "write"}
         /\ \A q \in Syncs : q # p /\ sync[q] # IdleSync =>
              ~AtWork(q) /\ sync[q].n # count /\ DirInv(sync[q], dir, count, strays)
<1>1. sync[p].n = count /\ sync[p].phase \in {"walk", "write"}
  BY AtWorkFacts DEF DirInv
<1>2. ASSUME NEW q \in Syncs, q # p, sync[q] # IdleSync
      PROVE  ~AtWork(q) /\ sync[q].n # count /\ DirInv(sync[q], dir, count, strays)
  <2>1. sync[q].n # count
    BY <1>1, <1>2 DEF SyncInv, SyncsOK
  <2>2. DirInv(sync[q], dir, count, strays)
    BY <1>2 DEF SyncInv, SyncProgress
  <2>3. ~AtWork(q)
    BY <2>1, AtWorkFacts DEF DirInv
  <2> QED
    BY <2>1, <2>2, <2>3
<1> QED
  BY <1>1, <1>2

(* A sync at work goes on with its record s, and its tree becomes t. *)
LEMMA SyncGoesOn ==
  ASSUME SyncInv, NEW p \in Syncs, AtWork(p), NEW s, NEW t, Goes(p, s, t),
         strays' = strays, SyncOK(s), TreeOK(t), s.n = sync[p].n,
         \/ remote' = remote
         \/ \E c : remote' = Append(remote, c),
         CommitsOK(remote', count),
         mode # "git" => s.phase \notin {"fetch", "push"},
         mode = "git" => GitInv([s EXCEPT !.tree = t], remote'),
         mode = "directory" => DirInv(s, t, count, strays),
         mode = "directory" /\ s.phase \notin {"walk", "write"} => Unmanaged(t) \subseteq strays
  PROVE  SyncInv'
<1> DEFINE r == IF mode = "git" THEN [s EXCEPT !.tree = t] ELSE s
<1>1. /\ sync' = [sync EXCEPT ![p] = r] /\ dir' = IF mode = "git" THEN dir ELSE t
      /\ mode' = mode /\ count' = count
  BY DEF Goes
<1>2. SyncOK(r) /\ r.n = s.n /\ r.phase = s.phase
  BY TreeChanges
<1>3. mode = "git" => GitInv(r, remote')
  OBVIOUS
<1>4. mode # "git" => r = s
  OBVIOUS
<1> HIDE DEF r
<1>5. /\ sync'[p] = r /\ \A q \in Syncs : q # p => sync'[q] = sync[q]
      /\ sync' = [q \in Syncs |-> sync'[q]]
  BY <1>1 DEF SyncInv, SyncsOK
<1>6. r # IdleSync
  BY <1>2 DEF SyncOK, IdleSync
<1>7. SyncsOK'
  <2>1. count' \in Nat /\ TreeOK(dir')
    BY <1>1 DEF SyncInv, SyncsOK
  <2>2. r.n <= count' /\ sync[p].n = r.n /\ sync[p] # IdleSync
    BY <1>1, <1>2, AtWorkFacts
  <2>3. \A q \in Syncs : \/ sync'[q] = IdleSync
                         \/ SyncOK(sync'[q]) /\ sync'[q].n <= count'
    <3>1. ASSUME NEW q \in Syncs, q # p
          PROVE  \/ sync'[q] = IdleSync
                 \/ SyncOK(sync'[q]) /\ sync'[q].n <= count'
      BY <1>1, <1>5, <3>1 DEF SyncInv, SyncsOK
    <3> QED
      BY <1>2, <1>5, <2>2, <3>1
  <2>4. ASSUME NEW q \in Syncs, NEW u \in Syncs, q # u, sync'[q].n = sync'[u].n
        PROVE  sync'[q] = IdleSync
    <3>1. \A v \in Syncs : sync'[v].n = sync[v].n
      BY <1>2, <1>5, <2>2
    <3>2. sync[q].n = sync[u].n
      BY <2>4, <3>1
    <3>3. sync[q] = IdleSync
      BY <2>4, <3>2 DEF SyncInv, SyncsOK
    <3> QED
      BY <1>5, <2>2, <3>3
  <2> QED
    BY <1>5, <2>1, <2>3, <2>4 DEF SyncsOK
<1>8. CommitsOK(remote', count')
  BY <1>1
<1>9. ASSUME NEW q \in Syncs, sync'[q] # IdleSync
      PROVE  /\ mode' = "git" => GitInv(sync'[q], remote')
             /\ mode' # "git" => sync'[q].phase \notin {"fetch", "push"}
             /\ mode' = "directory" => DirInv(sync'[q], dir', count', strays')
  <2>1. CASE q = p
    BY <1>1, <1>2, <1>3, <1>4, <1>5, <2>1
  <2>2. CASE q # p
    <3>1. sync'[q] = sync[q] /\ sync[q] # IdleSync
      BY <1>5, <1>9, <2>2
    <3>2. mode = "git" => GitInv(sync[q], remote')
      <4>1. IsLog(remote) /\ (mode = "git" => GitInv(sync[q], remote))
        BY <3>1 DEF SyncInv, SyncProgress, CommitsOK
      <4> QED
        BY <4>1, ProgressKept
    <3>3. mode # "git" => sync[q].phase \notin {"fetch", "push"}
      BY <3>1 DEF SyncInv, SyncProgress
    <3>4. ASSUME mode = "directory" PROVE DirInv(sync[q], dir', count', strays')
      BY <1>1, <2>2, <3>1, <3>4, OneAtWork, AtWorkFacts DEF DirInv, AtWork
    <3> QED
      BY <1>1, <3>1, <3>2, <3>3, <3>4
  <2> QED
    BY <2>1, <2>2
<1>10. ASSUME mode' = "directory", \A q \in Syncs : ~AtWork(q)'
       PROVE  Unmanaged(dir') \subseteq strays'
  <2>1. s.phase \notin {"walk", "write"}
    <3>1. ~(r.phase \notin {"idle", "done", "failed"})
      BY <1>5, <1>10 DEF AtWork
    <3> QED
      BY <1>2, <3>1
  <2> QED
    BY <1>1, <1>10, <2>1
<1>11. SyncProgress'
  BY <1>9, <1>10 DEF SyncProgress
<1> QED
  BY <1>7, <1>8, <1>11 DEF SyncInv

(* A step before the commit: the branch stays as it is. *)
LEMMA SyncGoesOnLocally ==
  ASSUME SyncInv, NEW p \in Syncs, AtWork(p), NEW s, NEW t, Goes(p, s, t),
         remote' = remote, strays' = strays, SyncOK(s), TreeOK(t), s.n = sync[p].n,
         mode # "git" => s.phase \notin {"fetch", "push"},
         mode = "git" => GitInv([s EXCEPT !.tree = t], remote),
         mode = "directory" => DirInv(s, t, count, strays),
         mode = "directory" /\ s.phase \notin {"walk", "write"} => Unmanaged(t) \subseteq strays
  PROVE  SyncInv'
<1>1. CommitsOK(remote', count)
  BY DEF SyncInv
<1> QED
  BY <1>1, SyncGoesOn

LEMMA TreeOfFacts ==
  ASSUME SyncInv, NEW p \in Syncs, AtWork(p)
  PROVE  /\ TreeOK(TreeOf(p))
         /\ mode = "git" => TreeOf(p) = sync[p].tree
         /\ mode # "git" => TreeOf(p) = dir
BY AtWorkFacts DEF TreeOf, SyncOK, SyncInv, SyncsOK

(* Refused and failed syncs have written nothing. *)
LEMMA WalkEnds ==
  ASSUME SyncInv, NEW p \in Syncs, sync[p].phase = "walk", AtWork(p),
         NEW s, SyncOK(s), s.phase \in {"walk", "failed"}, s.n = sync[p].n,
         s.base = sync[p].base, Goes(p, s, TreeOf(p)), remote' = remote, strays' = strays
  PROVE  SyncInv'
<1>1. /\ SyncOK(sync[p])
      /\ mode = "git" => GitInv(sync[p], remote)
      /\ mode = "directory" => DirInv(sync[p], dir, count, strays)
  BY AtWorkFacts
<1> DEFINE t == TreeOf(p)
<1>2. TreeOK(t) /\ (mode = "git" => t = sync[p].tree) /\ (mode # "git" => t = dir)
  BY TreeOfFacts
<1> HIDE DEF t
<1> DEFINE r == [s EXCEPT !.tree = t]
<1>3. r.tree = t /\ r.phase = s.phase /\ r.base = s.base /\ r.n = s.n
  BY <1>2, TreeChanges
<1> HIDE DEF r
<1>4. mode = "git" => GitInv(r, remote)
  BY <1>1, <1>2, <1>3 DEF GitInv
<1>5. mode = "directory" => DirInv(s, t, count, strays)
  BY <1>1, <1>2 DEF DirInv
<1>6. mode = "directory" => Unmanaged(t) \subseteq strays
  BY <1>1, <1>2 DEF DirInv
<1> QED
  BY <1>2, <1>4, <1>5, <1>6, SyncGoesOnLocally DEF t, r

LEMMA RequestKeepsSyncs == ASSUME SyncInv, NEW p \in Syncs, Request(p) PROVE SyncInv'
<1> DEFINE w == Walked(sync[p].walk, source)
           s == [sync[p] EXCEPT !.walk = w,
                                !.phase = IF w.step = "failed" THEN "failed" ELSE @]
<1>1. AtWork(p) /\ sync[p].phase = "walk" /\ Goes(p, s, TreeOf(p))
  BY DEF Request, AtWork
<1> HIDE DEF w
<1>2. SyncOK(sync[p])
  BY <1>1, AtWorkFacts
<1>3. /\ SyncOK(s) /\ s.phase \in {"walk", "failed"} /\ s.n = sync[p].n
      /\ s.base = sync[p].base
  <2> DEFINE f == IF w.step = "failed" THEN "failed" ELSE "walk"
  <2>1. f \in {"walk", "failed"} /\ s = [sync[p] EXCEPT !.walk = w, !.phase = f]
    BY <1>1
  <2> HIDE DEF f, s
  <2>2. s = [sync[p] EXCEPT !.walk = w, !.phase = f]
    BY <2>1
  <2> QED
    BY <1>2, <2>1, <2>2 DEF SyncOK
<1> HIDE DEF s
<1> QED
  BY <1>1, <1>3, WalkEnds DEF Request

LEMMA RequestFailsKeepsSyncs ==
  ASSUME SyncInv, NEW p \in Syncs, RequestFails(p) PROVE SyncInv'
<1> DEFINE s == [sync[p] EXCEPT !.phase = "failed", !.walk = Gone]
<1>1. AtWork(p) /\ sync[p].phase = "walk" /\ Goes(p, s, TreeOf(p))
  BY DEF RequestFails, AtWork
<1>2. SyncOK(sync[p])
  BY <1>1, AtWorkFacts
<1>3. /\ SyncOK(s) /\ s.phase \in {"walk", "failed"} /\ s.n = sync[p].n
      /\ s.base = sync[p].base
  BY <1>2 DEF SyncOK
<1> HIDE DEF s
<1> QED
  BY <1>1, <1>3, WalkEnds DEF RequestFails

(* The files of a manifest are those of its documents, which no two share. *)
LEMMA ManifestOf ==
  ASSUME NEW docs, NEW t, NEW now, IsInjective([n \in DOMAIN docs |-> docs[n].id])
  PROVE  NewPaths(NewManifest(t, docs, now))
           = UNION {EntryPaths(Entry(docs[n], 0)) : n \in DOMAIN docs}
<1> DEFINE m == NewManifest(t, docs, now)
           first(d) == CHOOSE n \in DOMAIN docs : docs[n].id = d
           paths(n) == {FilePath(docs[n])} \cup AssetPaths(docs[n])
<1>1. ASSUME NEW n \in DOMAIN docs PROVE first(docs[n].id) = n
  BY DEF IsInjective
<1>2. \A doc, at : EntryPaths(Entry(doc, at)) = {FilePath(doc)} \cup AssetPaths(doc)
  BY DEF EntryPaths, Entry
<1>3. DOMAIN m = {docs[n].id : n \in DOMAIN docs}
  BY DEF NewManifest
<1>4. ASSUME NEW n \in DOMAIN docs
      PROVE  EntryPaths(m[docs[n].id]) = paths(n)
  <2>1. m[docs[n].id] = Entry(docs[first(docs[n].id)],
                              IngestedAt(t.manifest, docs[first(docs[n].id)], now))
    BY DEF NewManifest
  <2> HIDE DEF m, first
  <2>2. m[docs[n].id] = Entry(docs[n], IngestedAt(t.manifest, docs[n], now))
    BY <1>1, <2>1
  <2>3. EntryPaths(Entry(docs[n], IngestedAt(t.manifest, docs[n], now))) = paths(n)
    BY <1>2
  <2> QED
    BY <2>2, <2>3
<1> HIDE DEF m, first
<1>5. NewPaths(m) = UNION {paths(n) : n \in DOMAIN docs}
  BY <1>3, <1>4 DEF NewPaths
<1>6. \A n \in DOMAIN docs : EntryPaths(Entry(docs[n], 0)) = paths(n)
  BY <1>2
<1> QED
  BY <1>5, <1>6 DEF m

LEMMA PlannedWrites ==
  ASSUME NEW docs, NEW t, NEW now
  PROVE  LET paths == UNION {EntryPaths(Entry(docs[n], 0)) : n \in DOMAIN docs}
             written == {w.path : w \in Writes(t, docs, now)}
         IN  paths \ DOMAIN t.files \subseteq written /\ written \subseteq paths
<1> DEFINE asset(n, a) == [nth |-> 2 * n - 1, path |-> a, content |-> AssetContent(docs[n])]
           file(n) == [nth |-> 2 * n, path |-> FilePath(docs[n]),
                       content |-> Rendered(docs[n], IngestedAt(t.manifest, docs[n], now))]
           of(n) == {asset(n, a) : a \in AssetPaths(docs[n])} \cup {file(n)}
           all == UNION {of(n) : n \in DOMAIN docs}
           paths == UNION {EntryPaths(Entry(docs[n], 0)) : n \in DOMAIN docs}
<1>1. Writes(t, docs, now)
        = {w \in all : w.path \notin DOMAIN t.files \/ t.files[w.path] # w.content}
  BY DEF Writes
<1>2. \A n, a : asset(n, a).path = a /\ file(n).path = FilePath(docs[n])
  OBVIOUS
<1>3. \A n : EntryPaths(Entry(docs[n], 0)) = {FilePath(docs[n])} \cup AssetPaths(docs[n])
  BY DEF EntryPaths, Entry
<1> HIDE DEF asset, file
<1>4. {w.path : w \in all} = paths
  <2>1. ASSUME NEW w \in all PROVE w.path \in paths
    <3>1. PICK n \in DOMAIN docs : w \in of(n)
      OBVIOUS
    <3>2. w = file(n) \/ \E a \in AssetPaths(docs[n]) : w = asset(n, a)
      BY <3>1
    <3>3. w.path \in EntryPaths(Entry(docs[n], 0))
      BY <1>2, <1>3, <3>2
    <3> QED
      BY <3>3
  <2>2. ASSUME NEW x \in paths PROVE \E w \in all : w.path = x
    <3>1. PICK n \in DOMAIN docs : x \in {FilePath(docs[n])} \cup AssetPaths(docs[n])
      BY <1>3
    <3>2. file(n) \in all /\ \A a \in AssetPaths(docs[n]) : asset(n, a) \in all
      OBVIOUS
    <3> QED
      BY <1>2, <3>1, <3>2
  <2> QED
    BY <2>1, <2>2
<1> HIDE DEF all, paths
<1>5. {w.path : w \in Writes(t, docs, now)} \subseteq paths
  BY <1>1, <1>4
<1>6. paths \ DOMAIN t.files \subseteq {w.path : w \in Writes(t, docs, now)}
  BY <1>1, <1>4
<1> QED
  BY <1>5, <1>6 DEF paths

(* The plan covers the files of its manifest, and what it removes is managed. *)
LEMMA PlanKeepsSyncs == ASSUME SyncInv, NEW p \in Syncs, Plan(p) PROVE SyncInv'
<1> DEFINE docs == sync[p].walk.docs
           t == TreeOf(p)
<1>1. AtWork(p) /\ sync[p].phase = "walk" /\ remote' = remote /\ strays' = strays
  BY DEF Plan, AtWork
<1>2. /\ SyncOK(sync[p])
      /\ mode = "git" => GitInv(sync[p], remote)
      /\ mode = "directory" => DirInv(sync[p], dir, count, strays)
  BY <1>1, AtWorkFacts
<1>3. CASE Refused(t, docs, sync[p].allow)
  <2> DEFINE s == [sync[p] EXCEPT !.phase = "failed", !.walk = Gone]
  <2>1. Goes(p, s, t)
    BY <1>3 DEF Plan
  <2>2. SyncOK(s) /\ s.phase = "failed" /\ s.n = sync[p].n /\ s.base = sync[p].base
    BY <1>2 DEF SyncOK
  <2> HIDE DEF s
  <2> QED
    BY <1>1, <2>1, <2>2, WalkEnds
<1>4. CASE ~Refused(t, docs, sync[p].allow)
  <2> DEFINE writes == Writes(t, docs, sync[p].n)
             removes == Removals(t, docs)
             manifest == NewManifest(t, docs, sync[p].n)
             s == [sync[p] EXCEPT !.phase = "write", !.walk = Gone, !.writes = writes,
                                  !.removes = removes, !.manifest = manifest]
  <2>1. Goes(p, s, t)
    BY <1>4 DEF Plan
  <2>2. NewPaths(manifest) = UNION {EntryPaths(Entry(docs[n], 0)) : n \in DOMAIN docs}
    BY <1>4, ManifestOf DEF Refused
  <2>3. /\ NewPaths(manifest) \ DOMAIN t.files \subseteq {w.path : w \in writes}
        /\ {w.path : w \in writes} \subseteq NewPaths(manifest)
    BY <2>2, PlannedWrites
  <2>4. removes = Managed(t) \ NewPaths(manifest)
    BY <2>2 DEF Removals
  <2> HIDE DEF writes, removes, manifest
  <2>5. /\ SyncOK(s) /\ s.phase = "write" /\ s.n = sync[p].n /\ s.base = sync[p].base
        /\ s.writes = writes /\ s.removes = removes /\ s.manifest = manifest
    BY <1>2 DEF SyncOK
  <2>6. TreeOK(t) /\ (mode = "git" => t = sync[p].tree) /\ (mode # "git" => t = dir)
    BY <1>1, TreeOfFacts
  <2>7. mode \in {"git", "directory"} => t = s.base
    BY <1>1, <1>2, <2>5, <2>6 DEF GitInv, DirInv
  <2> HIDE DEF s, t
  <2>8. t = s.base => Writing(s, t)
    BY <2>3, <2>4, <2>5 DEF Writing, Unmanaged
  <2> DEFINE r == [s EXCEPT !.tree = t]
  <2>9. /\ r.tree = t /\ r.phase = s.phase /\ r.base = s.base /\ r.n = s.n
        /\ r.writes = s.writes /\ r.removes = s.removes /\ r.manifest = s.manifest
    BY <2>5, <2>6, TreeChanges
  <2> HIDE DEF r
  <2>10. Writing(s, t) => Writing(r, t)
    BY <2>9 DEF Writing
  <2>11. mode = "git" => GitInv(r, remote)
    BY <1>2, <2>5, <2>7, <2>8, <2>9, <2>10 DEF GitInv
  <2>12. mode = "directory" => DirInv(s, t, count, strays)
    BY <1>1, <1>2, <2>5, <2>7, <2>8 DEF DirInv
  <2> QED
    BY <1>1, <2>1, <2>5, <2>6, <2>11, <2>12, SyncGoesOnLocally DEF r
<1> QED
  BY <1>3, <1>4

(* A step of writing, over files that become those of t. *)
LEMMA WritingGoesOn ==
  ASSUME SyncInv, NEW p \in Syncs, sync[p].phase = "write", NEW s, NEW t, Goes(p, s, t),
         remote' = remote, strays' = strays, SyncOK(s), TreeOK(t), s.phase = "write",
         s.n = sync[p].n, s.base = sync[p].base, Writing(sync[p], TreeOf(p)) => Writing(s, t)
  PROVE  SyncInv'
<1>1. AtWork(p)
  BY DEF AtWork
<1>2. /\ mode = "git" => GitInv(sync[p], remote)
      /\ mode = "directory" => DirInv(sync[p], dir, count, strays)
  BY <1>1, AtWorkFacts
<1>3. (mode = "git" => TreeOf(p) = sync[p].tree) /\ (mode # "git" => TreeOf(p) = dir)
  BY <1>1, TreeOfFacts
<1> DEFINE r == [s EXCEPT !.tree = t]
<1>4. /\ r.tree = t /\ r.phase = s.phase /\ r.base = s.base /\ r.n = s.n
      /\ r.writes = s.writes /\ r.removes = s.removes /\ r.manifest = s.manifest
  BY TreeChanges
<1> HIDE DEF r
<1>5. Writing(s, t) => Writing(r, t)
  BY <1>4 DEF Writing
<1>6. mode = "git" => GitInv(r, remote)
  BY <1>2, <1>3, <1>4, <1>5 DEF GitInv
<1>7. mode = "directory" => DirInv(s, t, count, strays)
  BY <1>2, <1>3 DEF DirInv
<1> QED
  BY <1>1, <1>6, <1>7, SyncGoesOnLocally DEF r

LEMMA WriteFileKeepsSyncs == ASSUME SyncInv, NEW p \in Syncs, WriteFile(p) PROVE SyncInv'
<1>1. PICK w \in sync[p].writes :
        Goes(p, [sync[p] EXCEPT !.writes = @ \ {w}],
             [TreeOf(p) EXCEPT !.files = Put(@, w.path, w.content)])
  BY DEF WriteFile
<1> DEFINE old == TreeOf(p)
           files == Put(old.files, w.path, w.content)
           t == [old EXCEPT !.files = files]
           s == [sync[p] EXCEPT !.writes = @ \ {w}]
<1>2. AtWork(p) /\ sync[p].phase = "write" /\ Goes(p, s, t)
  BY <1>1 DEF WriteFile, AtWork
<1>3. TreeOK(old) /\ SyncOK(sync[p])
  BY <1>2, TreeOfFacts, AtWorkFacts
<1>4. DOMAIN files = DOMAIN old.files \cup {w.path}
  BY DEF Put
<1> HIDE DEF old, files
<1>5. TreeOK(t) /\ t.files = files
  BY <1>3 DEF TreeOK
<1>6. /\ SyncOK(s) /\ s.phase = "write" /\ s.n = sync[p].n /\ s.base = sync[p].base
      /\ s.removes = sync[p].removes /\ s.manifest = sync[p].manifest
      /\ s.writes = sync[p].writes \ {w}
  BY <1>2, <1>3 DEF SyncOK
<1> HIDE DEF s, t
<1>7. ASSUME Writing(sync[p], old) PROVE Writing(s, t)
  <2>1. DOMAIN t.files = DOMAIN old.files \cup {w.path}
    BY <1>4, <1>5
  <2>2. w.path \in NewPaths(s.manifest)
    BY <1>6, <1>7 DEF Writing
  <2>3. NewPaths(s.manifest) \ DOMAIN t.files \subseteq {v.path : v \in s.writes}
    BY <1>6, <1>7, <2>1 DEF Writing
  <2>4. DOMAIN t.files \ NewPaths(s.manifest) \subseteq s.removes \cup Unmanaged(s.base)
    BY <1>6, <1>7, <2>1, <2>2 DEF Writing
  <2> QED
    BY <1>6, <1>7, <2>3, <2>4 DEF Writing
<1> QED
  BY <1>2, <1>5, <1>6, <1>7, WritingGoesOn DEF WriteFile, old

LEMMA RemoveFileKeepsSyncs == ASSUME SyncInv, NEW p \in Syncs, RemoveFile(p) PROVE SyncInv'
<1>1. PICK path \in sync[p].removes :
        Goes(p, [sync[p] EXCEPT !.removes = @ \ {path}],
             [TreeOf(p) EXCEPT !.files = Without(@, path)])
  BY DEF RemoveFile
<1> DEFINE old == TreeOf(p)
           files == Without(old.files, path)
           t == [old EXCEPT !.files = files]
           s == [sync[p] EXCEPT !.removes = @ \ {path}]
<1>2. AtWork(p) /\ sync[p].phase = "write" /\ Goes(p, s, t)
  BY <1>1 DEF RemoveFile, AtWork
<1>3. TreeOK(old) /\ SyncOK(sync[p])
  BY <1>2, TreeOfFacts, AtWorkFacts
<1>4. DOMAIN files = DOMAIN old.files \ {path}
  BY DEF Without
<1> HIDE DEF old, files
<1>5. TreeOK(t) /\ t.files = files
  BY <1>3 DEF TreeOK
<1>6. /\ SyncOK(s) /\ s.phase = "write" /\ s.n = sync[p].n /\ s.base = sync[p].base
      /\ s.removes = sync[p].removes \ {path} /\ s.manifest = sync[p].manifest
      /\ s.writes = sync[p].writes
  BY <1>2, <1>3 DEF SyncOK
<1> HIDE DEF s, t
<1>7. Writing(sync[p], old) => Writing(s, t)
  BY <1>4, <1>5, <1>6 DEF Writing
<1> QED
  BY <1>2, <1>5, <1>6, <1>7, WritingGoesOn DEF RemoveFile, old

(* The manifest closes the writing. *)
LEMMA WriteManifestKeepsSyncs ==
  ASSUME SyncInv, NEW p \in Syncs, WriteManifest(p) PROVE SyncInv'
<1> DEFINE old == TreeOf(p)
           t == [old EXCEPT !.manifest = sync[p].manifest, !.stamp = sync[p].n]
           f == IF mode = "git" THEN "fetch" ELSE "done"
           s == [sync[p] EXCEPT !.phase = f]
<1>1. /\ AtWork(p) /\ sync[p].phase = "write" /\ Goes(p, s, t)
      /\ sync[p].writes = {} /\ sync[p].removes = {} /\ remote' = remote /\ strays' = strays
  BY DEF WriteManifest, AtWork
<1>2. TreeOK(old) /\ SyncOK(sync[p]) /\ (mode = "git" => old = sync[p].tree)
      /\ (mode # "git" => old = dir)
  BY <1>1, TreeOfFacts, AtWorkFacts
<1>3. /\ mode = "git" => GitInv(sync[p], remote)
      /\ mode = "directory" => DirInv(sync[p], dir, count, strays)
  BY <1>1, AtWorkFacts
<1> HIDE DEF old
<1>4. TreeOK(t) /\ t.files = old.files /\ t.manifest = sync[p].manifest /\ t.stamp = sync[p].n
  <2>1. old \in [files : {old.files}, manifest : {old.manifest}, stamp : Nat, other : {old.other}]
    BY <1>2 DEF TreeOK
  <2>2. sync[p].n \in Nat
    BY <1>2 DEF SyncOK
  <2>3. t = [old EXCEPT !.manifest = sync[p].manifest, !.stamp = sync[p].n]
    OBVIOUS
  <2> HIDE DEF t
  <2>4. t = [files |-> old.files, manifest |-> sync[p].manifest, stamp |-> sync[p].n,
             other |-> old.other]
    BY <2>1, <2>3
  <2> QED
    BY <2>2, <2>4 DEF TreeOK
<1>5. /\ SyncOK(s) /\ s.phase = f /\ s.n = sync[p].n /\ s.base = sync[p].base
  BY <1>2 DEF SyncOK
<1> HIDE DEF t, s
<1>6. Managed(t) = NewPaths(sync[p].manifest)
  BY <1>4 DEF Managed, NewPaths
<1>7. Writing(sync[p], old) =>
        Managed(t) \subseteq DOMAIN t.files /\ Unmanaged(t) \subseteq Unmanaged(sync[p].base)
  BY <1>1, <1>4, <1>6 DEF Writing, Unmanaged
<1> DEFINE r == [s EXCEPT !.tree = t]
<1>8. r.tree = t /\ r.phase = s.phase /\ r.base = s.base /\ r.n = s.n
  BY <1>4, <1>5, TreeChanges
<1> HIDE DEF r
<1>9. ASSUME mode = "git" PROVE GitInv(r, remote)
  <2>1. Writing(sync[p], old)
    BY <1>1, <1>2, <1>3, <1>9 DEF GitInv
  <2>2. PICK k \in DOMAIN remote : sync[p].base = remote[k].tree
    BY <1>3, <1>9 DEF GitInv
  <2>3. Unmanaged(sync[p].base) = {}
    BY <2>2 DEF Unmanaged, SyncInv, CommitsOK
  <2>4. DOMAIN t.files = Managed(t)
    BY <1>7, <2>1, <2>3 DEF Unmanaged
  <2> QED
    BY <1>4, <1>5, <1>8, <1>9, <2>2, <2>4 DEF GitInv
<1>10. ASSUME mode = "directory"
       PROVE  DirInv(s, t, count, strays) /\ Unmanaged(t) \subseteq strays
  <2>1. Writing(sync[p], old) /\ Unmanaged(sync[p].base) \subseteq strays
    BY <1>1, <1>2, <1>3, <1>10 DEF DirInv
  <2>2. s.phase = "done"
    BY <1>5, <1>10
  <2> QED
    BY <1>7, <2>1, <2>2 DEF DirInv
<1> QED
  BY <1>1, <1>4, <1>5, <1>9, <1>10, SyncGoesOnLocally DEF r

LEMMA GitWork ==
  ASSUME SyncInv, NEW p \in Syncs, sync[p].phase \in {"fetch", "push"}
  PROVE  /\ mode = "git" /\ AtWork(p) /\ SyncOK(sync[p]) /\ GitInv(sync[p], remote)
         /\ TreeOK(sync[p].tree) /\ TreeOf(p) = sync[p].tree
         /\ sync[p].n \in 1..count
<1>1. AtWork(p)
  BY DEF AtWork
<1>2. mode = "git"
  BY <1>1, AtWorkFacts
<1>3. SyncOK(sync[p]) /\ sync[p].n <= count /\ count \in Nat
  BY <1>1, AtWorkFacts DEF SyncInv, SyncsOK
<1>4. TreeOK(sync[p].tree) /\ sync[p].n \in 1..count
  BY <1>3 DEF SyncOK
<1> QED
  BY <1>1, <1>2, <1>3, <1>4, AtWorkFacts, TreeOfFacts

LEMMA AttemptFailedFacts ==
  ASSUME NEW s, SyncOK(s), s.phase \in {"fetch", "push"}
  PROVE  /\ SyncOK(AttemptFailed(s)) /\ AttemptFailed(s).phase \in {"fetch", "failed"}
         /\ AttemptFailed(s).n = s.n /\ AttemptFailed(s).base = s.base
<1> DEFINE over == [s EXCEPT !.phase = "failed"]
           again == [s EXCEPT !.phase = "fetch", !.attempt = @ + 1]
<1>1. SyncOK(over) /\ over.phase = "failed" /\ over.n = s.n /\ over.base = s.base
  BY DEF SyncOK
<1>2. SyncOK(again) /\ again.phase = "fetch" /\ again.n = s.n /\ again.base = s.base
  <2>1. again = [s EXCEPT !.phase = "fetch", !.attempt = s.attempt + 1]
    OBVIOUS
  <2> HIDE DEF again
  <2> QED
    BY <2>1 DEF SyncOK
<1>3. AttemptFailed(s) = over \/ AttemptFailed(s) = again
  BY DEF AttemptFailed
<1> HIDE DEF over, again
<1> QED
  BY <1>1, <1>2, <1>3

(* Another attempt, or the end of the last, changes nothing of the commit. *)
LEMMA NextAttempt ==
  ASSUME SyncInv, NEW p \in Syncs, sync[p].phase \in {"fetch", "push"},
         Goes(p, AttemptFailed(sync[p]), TreeOf(p)), strays' = strays,
         \/ remote' = remote
         \/ \E c : remote' = Append(remote, c),
         CommitsOK(remote', count)
  PROVE  SyncInv'
<1> DEFINE s == AttemptFailed(sync[p])
           t == sync[p].tree
           r == [s EXCEPT !.tree = t]
<1>1. /\ mode = "git" /\ AtWork(p) /\ SyncOK(sync[p]) /\ GitInv(sync[p], remote)
      /\ TreeOK(t) /\ TreeOf(p) = t
  BY GitWork
<1>2. SyncOK(s) /\ s.phase \in {"fetch", "failed"} /\ s.n = sync[p].n /\ s.base = sync[p].base
  BY <1>1, AttemptFailedFacts
<1> HIDE DEF s
<1>3. r.tree = t /\ r.phase = s.phase /\ r.base = s.base /\ r.n = s.n
  BY <1>1, <1>2, TreeChanges
<1> HIDE DEF r
<1>4. GitInv(sync[p], remote')
  <2>1. IsLog(remote)
    BY DEF SyncInv, CommitsOK
  <2> QED
    BY <1>1, <2>1, ProgressKept
<1>5. GitInv(r, remote')
  BY <1>2, <1>3, <1>4 DEF GitInv
<1>6. Goes(p, s, t)
  BY <1>1 DEF s
<1> HIDE DEF t
<1> QED
  BY <1>1, <1>2, <1>5, <1>6, SyncGoesOn DEF r

(* A rebase over a manifest that stayed meets the files it was made from. *)
LEMMA MergedFacts ==
  ASSUME NEW base, NEW ours, NEW theirs, TreeOK(ours), ~Conflict(base, ours, theirs),
         theirs.stamp = base.stamp => DOMAIN theirs.files = DOMAIN base.files
  PROVE  /\ TreeOK(Merged(base, ours, theirs))
         /\ Merged(base, ours, theirs).other = theirs.other
         /\ Merged(base, ours, theirs).stamp = ours.stamp
         /\ Merged(base, ours, theirs).manifest = ours.manifest
         /\ DOMAIN Merged(base, ours, theirs).files = DOMAIN ours.files
<1> DEFINE mine == Changed(base, ours)
           paths == (DOMAIN theirs.files \ mine) \cup (DOMAIN ours.files \cap mine)
           files == [path \in paths |-> IF path \in mine THEN ours.files[path]
                                        ELSE theirs.files[path]]
           m == [ours EXCEPT !.other = theirs.other, !.files = files]
<1>1. DOMAIN theirs.files = DOMAIN base.files
  BY DEF Conflict
<1>2. paths = DOMAIN ours.files
  BY <1>1 DEF Changed
<1>3. DOMAIN files = paths
  OBVIOUS
<1>4. Merged(base, ours, theirs) = m
  BY DEF Merged
<1> HIDE DEF files
<1>5. m = [files |-> files, manifest |-> ours.manifest, stamp |-> ours.stamp,
           other |-> theirs.other]
  <2>1. ours \in [files : {ours.files}, manifest : {ours.manifest}, stamp : Nat,
                  other : {ours.other}]
    BY DEF TreeOK
  <2>2. m = [ours EXCEPT !.other = theirs.other, !.files = files]
    OBVIOUS
  <2> HIDE DEF m
  <2> QED
    BY <2>1, <2>2
<1>6. ours.stamp \in Nat
  BY DEF TreeOK
<1> HIDE DEF m, paths
<1>7. TreeOK(m) /\ m.other = theirs.other /\ m.stamp = ours.stamp
      /\ m.manifest = ours.manifest /\ m.files = files
  BY <1>5, <1>6 DEF TreeOK
<1> QED
  BY <1>2, <1>3, <1>4, <1>7

LEMMA FetchRebaseKeepsSyncs ==
  ASSUME SyncInv, NEW p \in Syncs, FetchRebase(p) PROVE SyncInv'
<1> DEFINE s == sync[p]
           tip == Last(remote).tree
<1>1. s.phase = "fetch" /\ remote' = remote /\ strays' = strays
  BY DEF FetchRebase
<1>2. /\ mode = "git" /\ AtWork(p) /\ SyncOK(s) /\ GitInv(s, remote)
      /\ TreeOK(s.tree) /\ TreeOf(p) = s.tree /\ s.n \in 1..count
  BY <1>1, GitWork
<1>3. CommitsOK(remote, count) /\ Len(remote) \in DOMAIN remote
      /\ tip = remote[Len(remote)].tree
  <2>1. CommitsOK(remote, count) /\ IsLog(remote) /\ Len(remote) \in Nat \ {0}
    BY DEF SyncInv, CommitsOK
  <2>2. DOMAIN remote = 1..Len(remote)
    BY <2>1, LogGrows
  <2> QED
    BY <2>1, <2>2 DEF Last
<1>4. CASE HasCommitOf(remote, s.n)
  <2> DEFINE next == [s EXCEPT !.phase = "push", !.onto = Len(remote)]
             r == [next EXCEPT !.tree = s.tree]
  <2>1. Goes(p, next, s.tree)
    BY <1>4 DEF FetchRebase
  <2>2. SyncOK(next) /\ next.phase = "push" /\ next.n = s.n /\ next.base = s.base
    BY <1>2 DEF SyncOK
  <2> HIDE DEF next
  <2>3. r.tree = s.tree /\ r.phase = "push" /\ r.base = s.base /\ r.n = s.n
    BY <1>2, <2>2, TreeChanges
  <2> HIDE DEF r
  <2>4. GitInv(r, remote)
    BY <1>1, <1>2, <1>4, <2>3 DEF GitInv
  <2> HIDE DEF s
  <2> QED
    BY <1>1, <1>2, <2>1, <2>2, <2>4, SyncGoesOnLocally DEF r, s
<1>5. CASE ~HasCommitOf(remote, s.n) /\ Conflict(s.base, s.tree, tip)
  <2>1. Goes(p, AttemptFailed(s), TreeOf(p))
    BY <1>2, <1>5 DEF FetchRebase
  <2> QED
    BY <1>1, <1>2, <1>3, <2>1, NextAttempt
<1>6. CASE ~HasCommitOf(remote, s.n) /\ ~Conflict(s.base, s.tree, tip)
  <2> DEFINE next == [s EXCEPT !.phase = "push", !.onto = Len(remote), !.base = tip]
             t == Merged(s.base, s.tree, tip)
             r == [next EXCEPT !.tree = t]
  <2>1. Goes(p, next, t)
    BY <1>6 DEF FetchRebase
  <2>2. TreeOK(tip)
    BY <1>3 DEF CommitsOK
  <2>3. /\ SyncOK(next) /\ next.phase = "push" /\ next.n = s.n /\ next.base = tip
        /\ next.onto = Len(remote)
    <3> HIDE DEF tip
    <3> QED
      BY <1>2, <2>2 DEF SyncOK
  <2>4. tip.stamp = s.base.stamp => DOMAIN tip.files = DOMAIN s.base.files
    <3>1. PICK k \in DOMAIN remote : s.base = remote[k].tree
      BY <1>2 DEF GitInv
    <3> QED
      BY <1>3, <3>1 DEF CommitsOK
  <2>5. /\ TreeOK(t) /\ t.other = tip.other /\ t.stamp = s.tree.stamp
        /\ t.manifest = s.tree.manifest /\ DOMAIN t.files = DOMAIN s.tree.files
    BY <1>2, <1>6, <2>4, MergedFacts
  <2>6. DOMAIN s.tree.files = Managed(s.tree) /\ s.tree.stamp = s.n
    BY <1>1, <1>2 DEF GitInv
  <2>7. DOMAIN t.files = Managed(t) /\ t.stamp = s.n
    BY <2>5, <2>6 DEF Managed
  <2> HIDE DEF next, t
  <2>8. /\ r.tree = t /\ r.phase = "push" /\ r.base = tip /\ r.n = s.n
        /\ r.onto = Len(remote)
    BY <2>3, <2>5, TreeChanges
  <2> HIDE DEF r
  <2>9. GitInv(r, remote)
    BY <1>3, <2>5, <2>7, <2>8 DEF GitInv
  <2> HIDE DEF s
  <2> QED
    BY <1>1, <1>2, <2>1, <2>3, <2>5, <2>9, SyncGoesOnLocally DEF r, s
<1> QED
  BY <1>4, <1>5, <1>6

LEMMA FetchFailsKeepsSyncs ==
  ASSUME SyncInv, NEW p \in Syncs, FetchFails(p) PROVE SyncInv'
<1>1. /\ sync[p].phase \in {"fetch", "push"} /\ remote' = remote /\ strays' = strays
      /\ Goes(p, AttemptFailed(sync[p]), TreeOf(p))
  BY DEF FetchFails
<1>2. CommitsOK(remote', count)
  BY <1>1 DEF SyncInv
<1> QED
  BY <1>1, <1>2, NextAttempt

(* A push that fast-forwards adds one commit, over what it was rebased on. *)
LEMMA PushedFacts ==
  ASSUME SyncInv, NEW p \in Syncs, sync[p].phase = "push", FastForward(sync[p], remote)
  PROVE  LET later == Pushed(sync[p], remote) IN
         /\ CommitsOK(later, count)
         /\ HasCommitOf(later, sync[p].n)
         /\ \/ later = remote
            \/ \E c : later = Append(remote, c)
<1> DEFINE s == sync[p]
           c == [tree |-> s.tree, by |-> s.n]
           later == Append(remote, c)
<1>1. /\ SyncOK(s) /\ GitInv(s, remote) /\ s.phase = "push" /\ TreeOK(s.tree)
      /\ s.n \in 1..count /\ CommitsOK(remote, count)
  BY GitWork DEF SyncInv
<1>2. CASE HasCommitOf(remote, s.n)
  BY <1>1, <1>2 DEF Pushed
<1>3. CASE ~HasCommitOf(remote, s.n)
  <2>1. IsLog(remote) /\ Len(remote) \in Nat \ {0}
    BY <1>1 DEF CommitsOK
  <2>2. c.tree = s.tree /\ c.by = s.n
    OBVIOUS
  <2>3. /\ DOMAIN s.tree.files = Managed(s.tree) /\ s.tree.stamp = s.n
        /\ s.tree.other = remote[Len(remote)].tree.other
    BY <1>1, <1>3 DEF GitInv, FastForward
  <2> HIDE DEF c
  <2>4. /\ IsLog(later) /\ Len(later) = Len(remote) + 1
        /\ DOMAIN later = 1..(Len(remote) + 1) /\ DOMAIN remote = 1..Len(remote)
        /\ \A k \in DOMAIN remote : later[k] = remote[k]
        /\ later[Len(remote) + 1] = c
    BY <2>1, LogGrows
  <2>5. Pushed(s, remote) = later
    BY <1>3 DEF Pushed, c
  <2>6. \A n : HasCommitOf(remote, n) => HasCommitOf(later, n)
    BY <2>1, CommitsGrow
  <2> HIDE DEF later, s
  <2>7. HasCommitOf(later, s.n)
    BY <2>1, <2>2, <2>4 DEF HasCommitOf
  <2>8. ASSUME NEW k \in DOMAIN later
        PROVE  /\ later[k].by \in 0..count
               /\ TreeOK(later[k].tree)
               /\ DOMAIN later[k].tree.files = Managed(later[k].tree)
               /\ later[k].tree.stamp # 0 => HasCommitOf(later, later[k].tree.stamp)
               /\ later[k].by # Operator =>
                    k # 1 /\ later[k].tree.other = later[k - 1].tree.other
    <3>1. CASE k \in DOMAIN remote
      <4>1. later[k] = remote[k] /\ (k # 1 => later[k - 1] = remote[k - 1])
        BY <2>1, <2>4, <3>1
      <4> QED
        BY <1>1, <2>6, <3>1, <4>1 DEF CommitsOK
    <3>2. CASE k = Len(remote) + 1
      <4>1. later[k] = c /\ k # 1 /\ k - 1 = Len(remote) /\ Len(remote) \in DOMAIN remote
        BY <2>1, <2>4, <3>2
      <4> QED
        BY <1>1, <2>2, <2>3, <2>4, <2>7, <4>1
    <3> QED
      BY <2>1, <2>4, <3>1, <3>2
  <2>9. ASSUME NEW k \in DOMAIN later, NEW m \in DOMAIN later
        PROVE  /\ later[k].tree.stamp = later[m].tree.stamp =>
                    DOMAIN later[k].tree.files = DOMAIN later[m].tree.files
               /\ k # m /\ later[k].by = later[m].by => later[k].by = Operator
    <3>1. \A i \in DOMAIN remote :
            remote[i].tree.stamp # s.n /\ remote[i].by # s.n
      BY <1>1, <1>3 DEF CommitsOK, HasCommitOf
    <3>2. \/ k \in DOMAIN remote /\ later[k] = remote[k]
          \/ k = Len(remote) + 1 /\ later[k] = c
      BY <2>1, <2>4
    <3>3. \/ m \in DOMAIN remote /\ later[m] = remote[m]
          \/ m = Len(remote) + 1 /\ later[m] = c
      BY <2>1, <2>4
    <3> QED
      BY <1>1, <2>2, <2>3, <3>1, <3>2, <3>3 DEF CommitsOK
  <2>10. Len(later) \in Nat \ {0}
    BY <2>1, <2>4
  <2>11. CommitsOK(later, count)
    BY <2>4, <2>8, <2>9, <2>10 DEF CommitsOK
  <2> QED
    BY <2>5, <2>7, <2>11 DEF later, s
<1> QED
  BY <1>2, <1>3

LEMMA PushKeepsSyncs == ASSUME SyncInv, NEW p \in Syncs, Push(p) PROVE SyncInv'
<1> DEFINE s == sync[p]
<1>1. s.phase = "push" /\ strays' = strays
  BY DEF Push
<1>2. /\ mode = "git" /\ AtWork(p) /\ SyncOK(s) /\ GitInv(s, remote)
      /\ TreeOK(s.tree) /\ TreeOf(p) = s.tree /\ s.n \in 1..count
  BY <1>1, GitWork
<1>3. CASE FastForward(s, remote)
  <2> DEFINE next == [s EXCEPT !.phase = "done", !.answer = "pushed"]
             r == [next EXCEPT !.tree = s.tree]
  <2>1. Goes(p, next, s.tree) /\ remote' = Pushed(s, remote)
    BY <1>3 DEF Push
  <2>2. /\ CommitsOK(remote', count) /\ HasCommitOf(remote', s.n)
        /\ \/ remote' = remote
           \/ \E c : remote' = Append(remote, c)
    BY <1>1, <1>3, <2>1, PushedFacts
  <2>3. SyncOK(next) /\ next.phase = "done" /\ next.n = s.n /\ next.base = s.base
    BY <1>2 DEF SyncOK
  <2> HIDE DEF next
  <2>4. r.tree = s.tree /\ r.phase = "done" /\ r.base = s.base /\ r.n = s.n
    BY <1>2, <2>3, TreeChanges
  <2> HIDE DEF r
  <2>5. GitInv(s, remote')
    <3>1. IsLog(remote)
      BY DEF SyncInv, CommitsOK
    <3> QED
      BY <1>2, <2>2, <3>1, ProgressKept
  <2>6. GitInv(r, remote')
    BY <2>2, <2>4, <2>5 DEF GitInv
  <2> HIDE DEF s
  <2> QED
    BY <1>1, <1>2, <2>1, <2>2, <2>3, <2>6, SyncGoesOn DEF r, s
<1>4. CASE ~FastForward(s, remote)
  <2>1. Goes(p, AttemptFailed(s), TreeOf(p)) /\ remote' = remote
    BY <1>2, <1>4 DEF Push
  <2>2. CommitsOK(remote', count)
    BY <2>1 DEF SyncInv
  <2> QED
    BY <1>1, <2>1, <2>2, NextAttempt
<1> QED
  BY <1>3, <1>4

LEMMA PushAnswerLostKeepsSyncs ==
  ASSUME SyncInv, NEW p \in Syncs, PushAnswerLost(p) PROVE SyncInv'
<1>1. /\ sync[p].phase = "push" /\ FastForward(sync[p], remote)
      /\ remote' = Pushed(sync[p], remote) /\ strays' = strays
      /\ Goes(p, AttemptFailed(sync[p]), sync[p].tree)
  BY DEF PushAnswerLost
<1>2. TreeOf(p) = sync[p].tree
  BY <1>1, GitWork
<1>3. /\ CommitsOK(remote', count)
      /\ \/ remote' = remote
         \/ \E c : remote' = Append(remote, c)
  BY <1>1, PushedFacts
<1> QED
  BY <1>1, <1>2, <1>3, NextAttempt

(* A sync that starts is younger than every commit and every other sync. *)
LEMMA StartKeepsSyncs ==
  ASSUME SyncInv, NEW p \in Syncs, NEW allow \in BOOLEAN, Start(p, allow)
  PROVE  SyncInv'
<1> DEFINE tip == Last(remote).tree
           s == [phase |-> "walk", n |-> count + 1, allow |-> allow, walk |-> NewWalk(source),
                 tree |-> IF mode = "git" THEN tip ELSE EmptyTree,
                 base |-> IF mode = "git" THEN tip ELSE dir,
                 onto |-> Len(remote), writes |-> {}, removes |-> {}, manifest |-> <<>>,
                 attempt |-> 1, answer |-> "none",
                 began |-> source.page, stood |-> Standing(source), quiet |-> TRUE]
<1>1. /\ sync' = [sync EXCEPT ![p] = s] /\ count' = count + 1
      /\ mode' = mode /\ dir' = dir /\ remote' = remote /\ strays' = strays
      /\ ~AtWork(p) /\ (mode = "directory" => \A q \in Syncs : ~AtWork(q))
  BY DEF Start
<1>2. CommitsOK(remote, count) /\ Len(remote) \in DOMAIN remote
      /\ tip = remote[Len(remote)].tree /\ count \in Nat
  <2>1. CommitsOK(remote, count) /\ IsLog(remote) /\ Len(remote) \in Nat \ {0}
    BY DEF SyncInv, CommitsOK
  <2>2. DOMAIN remote = 1..Len(remote)
    BY <2>1, LogGrows
  <2> QED
    BY <2>1, <2>2 DEF Last, SyncInv, SyncsOK
<1>3. TreeOK(tip) /\ TreeOK(dir) /\ TreeOK(EmptyTree)
  BY <1>2 DEF CommitsOK, SyncInv, SyncsOK, TreeOK, EmptyTree
<1> HIDE DEF tip
<1>4. /\ s.phase = "walk" /\ s.n = count + 1
      /\ mode = "git" => s.tree = tip /\ s.base = tip
      /\ mode # "git" => s.base = dir
      /\ SyncOK(s)
  BY <1>2, <1>3 DEF SyncOK
<1> HIDE DEF s
<1>5. /\ sync'[p] = s /\ \A q \in Syncs : q # p => sync'[q] = sync[q]
      /\ sync' = [q \in Syncs |-> sync'[q]]
  BY <1>1 DEF SyncInv, SyncsOK
<1>6. s # IdleSync
  BY <1>4 DEF IdleSync
<1>7. \A q \in Syncs : sync[q].n <= count
  <2>1. IdleSync.n = 0
    BY DEF IdleSync
  <2> QED
    BY <1>2, <2>1 DEF SyncInv, SyncsOK
<1>8. SyncsOK'
  <2>1. count' \in Nat /\ TreeOK(dir')
    BY <1>1, <1>2, <1>3
  <2>2. \A q \in Syncs : \/ sync'[q] = IdleSync
                         \/ /\ SyncOK(sync'[q])
                            /\ sync'[q].n <= count'
    <3>1. ASSUME NEW q \in Syncs, q # p
          PROVE  \/ sync'[q] = IdleSync
                 \/ /\ SyncOK(sync'[q])
                    /\ sync'[q].n <= count'
      <4>1. sync'[q] = sync[q] /\ sync[q].n <= count'
        BY <1>1, <1>2, <1>5, <1>7, <3>1 DEF SyncInv, SyncsOK, SyncOK, IdleSync
      <4> QED
        BY <4>1 DEF SyncInv, SyncsOK
    <3> QED
      BY <1>1, <1>2, <1>4, <1>5, <3>1
  <2>3. ASSUME NEW q \in Syncs, NEW u \in Syncs, q # u, sync'[q].n = sync'[u].n
        PROVE  sync'[q] = IdleSync
    <3>1. q # p /\ u # p
      BY <1>2, <1>4, <1>5, <1>7, <2>3
    <3> QED
      BY <1>5, <2>3, <3>1 DEF SyncInv, SyncsOK
  <2> QED
    BY <1>5, <2>1, <2>2, <2>3 DEF SyncsOK
<1>9. CommitsOK(remote', count')
  <2>1. \A k \in DOMAIN remote : remote[k].by \in 0..(count + 1)
    BY <1>2 DEF CommitsOK
  <2>2. CommitsOK(remote, count + 1)
    BY <1>2, <2>1 DEF CommitsOK
  <2> QED
    BY <1>1, <2>2
<1>10. ASSUME NEW q \in Syncs, sync'[q] # IdleSync
       PROVE  /\ mode' = "git" => GitInv(sync'[q], remote')
              /\ mode' # "git" => sync'[q].phase \notin {"fetch", "push"}
              /\ mode' = "directory" => DirInv(sync'[q], dir', count', strays')
  <2>1. CASE q = p
    <3>1. mode = "git" => GitInv(s, remote)
      BY <1>2, <1>4 DEF GitInv
    <3>2. mode = "directory" => DirInv(s, dir, count + 1, strays)
      <4>1. mode = "directory" => Unmanaged(dir) \subseteq strays
        BY <1>1 DEF SyncInv, SyncProgress
      <4> QED
        BY <1>4, <4>1 DEF DirInv
    <3> QED
      BY <1>1, <1>4, <1>5, <2>1, <3>1, <3>2
  <2>2. CASE q # p
    <3>1. sync'[q] = sync[q] /\ sync[q] # IdleSync
      BY <1>5, <1>10, <2>2
    <3>2. /\ mode = "git" => GitInv(sync[q], remote)
          /\ mode # "git" => sync[q].phase \notin {"fetch", "push"}
          /\ mode = "directory" => DirInv(sync[q], dir, count, strays)
      BY <3>1 DEF SyncInv, SyncProgress
    <3>3. ASSUME mode = "directory" PROVE DirInv(sync[q], dir, count + 1, strays)
      <4>1. ~AtWork(q) /\ sync[q].n # count + 1
        BY <1>1, <1>2, <1>7, <3>3
      <4> QED
        BY <4>1 DEF DirInv, AtWork
    <3> QED
      BY <1>1, <3>1, <3>2, <3>3
  <2> QED
    BY <2>1, <2>2
<1>11. ~(\A q \in Syncs : ~AtWork(q)')
  <2>1. AtWork(p)'
    BY <1>4, <1>5 DEF AtWork
  <2> QED
    BY <2>1
<1>12. SyncProgress'
  BY <1>10, <1>11 DEF SyncProgress
<1> QED
  BY <1>8, <1>9, <1>12 DEF SyncInv

(* An interrupted sync leaves what it had written as strays. *)
LEMMA InterruptKeepsSyncs == ASSUME SyncInv, NEW p \in Syncs, Interrupt(p) PROVE SyncInv'
<1>1. /\ sync' = [sync EXCEPT ![p] = IdleSync] /\ strays' = strays \cup Unmanaged(dir)
      /\ UNCHANGED <<mode, dir, remote, count>> /\ AtWork(p)
  BY DEF Interrupt, Unmanaged
<1>2. /\ sync'[p] = IdleSync /\ \A q \in Syncs : q # p => sync'[q] = sync[q]
      /\ sync' = [q \in Syncs |-> sync'[q]]
  BY <1>1 DEF SyncInv, SyncsOK
<1>3. SyncsOK'
  <2>1. ASSUME NEW q \in Syncs, NEW u \in Syncs, q # u, sync'[q].n = sync'[u].n
        PROVE  sync'[q] = IdleSync
    <3>1. CASE q = p
      BY <1>2, <3>1
    <3>2. CASE u = p /\ q # p
      <4>1. sync[q].n = 0
        BY <1>2, <2>1, <3>2 DEF IdleSync
      <4>2. ~SyncOK(sync[q])
        BY <4>1 DEF SyncOK
      <4> QED
        BY <1>2, <3>2, <4>2 DEF SyncInv, SyncsOK
    <3>3. CASE q # p /\ u # p
      BY <1>2, <2>1, <3>3 DEF SyncInv, SyncsOK
    <3> QED
      BY <3>1, <3>2, <3>3
  <2>2. \A q \in Syncs : \/ sync'[q] = IdleSync
                         \/ /\ SyncOK(sync'[q])
                            /\ sync'[q].n <= count'
    BY <1>1, <1>2 DEF SyncInv, SyncsOK
  <2>3. count' \in Nat /\ TreeOK(dir')
    BY <1>1 DEF SyncInv, SyncsOK
  <2> QED
    BY <1>2, <2>1, <2>2, <2>3 DEF SyncsOK
<1>4. CommitsOK(remote', count')
  BY <1>1 DEF SyncInv
<1>5. ASSUME NEW q \in Syncs, sync'[q] # IdleSync
      PROVE  /\ mode' = "git" => GitInv(sync'[q], remote')
             /\ mode' # "git" => sync'[q].phase \notin {"fetch", "push"}
             /\ mode' = "directory" => DirInv(sync'[q], dir', count', strays')
  <2>1. sync'[q] = sync[q] /\ sync[q] # IdleSync
    BY <1>2, <1>5
  <2>2. DirInv(sync[q], dir, count, strays) => DirInv(sync[q], dir, count, strays')
    BY <1>1 DEF DirInv
  <2>3. /\ mode = "git" => GitInv(sync[q], remote)
        /\ mode # "git" => sync[q].phase \notin {"fetch", "push"}
        /\ mode = "directory" => DirInv(sync[q], dir, count, strays)
    BY <2>1 DEF SyncInv, SyncProgress
  <2> QED
    BY <1>1, <2>1, <2>2, <2>3
<1>6. SyncProgress'
  <2>1. Unmanaged(dir') \subseteq strays'
    BY <1>1
  <2> QED
    BY <1>5, <2>1 DEF SyncProgress
<1> QED
  BY <1>3, <1>4, <1>6 DEF SyncInv

(* Others commit over the tip, and leave its manifest and which files it has. *)
LEMMA ForeignCommitKeepsSyncs == ASSUME SyncInv, ForeignCommit PROVE SyncInv'
<1> DEFINE tip == Last(remote).tree
<1>1. PICK t : /\ remote' = Append(remote, [tree |-> t, by |-> Operator])
               /\ \/ t = [tip EXCEPT !.other = @ + 1]
                  \/ \E path \in DOMAIN tip.files : t = [tip EXCEPT !.files[path].text = 0]
  BY DEF ForeignCommit
<1>2. mode = "git" /\ UNCHANGED <<mode, dir, sync, count, strays>>
  BY DEF ForeignCommit
<1> DEFINE c == [tree |-> t, by |-> Operator]
           later == Append(remote, c)
<1>3. /\ CommitsOK(remote, count) /\ IsLog(remote) /\ Len(remote) \in Nat \ {0}
      /\ count \in Nat
  BY DEF SyncInv, CommitsOK, SyncsOK
<1>4. /\ IsLog(later) /\ Len(later) = Len(remote) + 1
      /\ DOMAIN later = 1..(Len(remote) + 1) /\ DOMAIN remote = 1..Len(remote)
      /\ \A k \in DOMAIN remote : later[k] = remote[k]
      /\ later[Len(remote) + 1] = c
  BY <1>3, LogGrows
<1>5. tip = remote[Len(remote)].tree /\ Len(remote) \in DOMAIN remote
  BY <1>3, <1>4 DEF Last
<1>6. TreeOK(tip) /\ DOMAIN tip.files = Managed(tip)
      /\ (tip.stamp # 0 => HasCommitOf(remote, tip.stamp))
  BY <1>3, <1>5 DEF CommitsOK
<1>7. /\ TreeOK(t) /\ t.stamp = tip.stamp /\ t.manifest = tip.manifest
      /\ DOMAIN t.files = DOMAIN tip.files
  <2> HIDE DEF tip
  <2>1. CASE t = [tip EXCEPT !.other = @ + 1]
    BY <1>6, <2>1 DEF TreeOK
  <2>2. CASE \E path \in DOMAIN tip.files : t = [tip EXCEPT !.files[path].text = 0]
    <3>1. PICK path \in DOMAIN tip.files : t = [tip EXCEPT !.files[path].text = 0]
      BY <2>2
    <3> DEFINE files == [tip.files EXCEPT ![path].text = 0]
    <3>2. DOMAIN files = DOMAIN tip.files /\ t = [tip EXCEPT !.files = files]
      BY <3>1
    <3> HIDE DEF files
    <3> QED
      BY <1>6, <3>2 DEF TreeOK
  <2> QED
    BY <1>1, <2>1, <2>2
<1>8. c.tree = t /\ c.by = Operator
  OBVIOUS
<1> HIDE DEF c, tip
<1>9. \A n : HasCommitOf(remote, n) => HasCommitOf(later, n)
  BY <1>3, CommitsGrow
<1> HIDE DEF later
<1>10. ASSUME NEW k \in DOMAIN later
       PROVE  /\ later[k].by \in 0..count
              /\ TreeOK(later[k].tree)
              /\ DOMAIN later[k].tree.files = Managed(later[k].tree)
              /\ later[k].tree.stamp # 0 => HasCommitOf(later, later[k].tree.stamp)
              /\ later[k].by # Operator =>
                   k # 1 /\ later[k].tree.other = later[k - 1].tree.other
  <2>1. CASE k \in DOMAIN remote
    <3>1. later[k] = remote[k] /\ (k # 1 => later[k - 1] = remote[k - 1])
      BY <1>3, <1>4, <2>1
    <3> QED
      BY <1>3, <1>9, <2>1, <3>1 DEF CommitsOK
  <2>2. CASE k = Len(remote) + 1
    <3>1. later[k] = c
      BY <1>4, <2>2
    <3>2. Managed(t) = Managed(tip)
      BY <1>7 DEF Managed
    <3> QED
      BY <1>3, <1>6, <1>7, <1>8, <1>9, <3>1, <3>2 DEF Operator
  <2> QED
    BY <1>3, <1>4, <2>1, <2>2
<1>11. ASSUME NEW k \in DOMAIN later, NEW m \in DOMAIN later
       PROVE  /\ later[k].tree.stamp = later[m].tree.stamp =>
                   DOMAIN later[k].tree.files = DOMAIN later[m].tree.files
              /\ k # m /\ later[k].by = later[m].by => later[k].by = Operator
  <2> DEFINE like(i, j) == /\ j \in DOMAIN remote
                           /\ later[i].tree.stamp = remote[j].tree.stamp
                           /\ DOMAIN later[i].tree.files = DOMAIN remote[j].tree.files
  <2>1. ASSUME NEW i \in DOMAIN later PROVE \E j : like(i, j)
    <3>1. CASE i \in DOMAIN remote
      <4>1. like(i, i)
        BY <1>4, <3>1
      <4> QED
        BY <4>1
    <3>2. CASE i = Len(remote) + 1
      <4>1. like(i, Len(remote))
        BY <1>4, <1>5, <1>7, <1>8, <3>2
      <4> QED
        BY <4>1
    <3> QED
      BY <1>3, <1>4, <3>1, <3>2
  <2>2. later[k].tree.stamp = later[m].tree.stamp =>
          DOMAIN later[k].tree.files = DOMAIN later[m].tree.files
    <3>1. PICK i : like(k, i)
      BY <2>1
    <3>2. PICK j : like(m, j)
      BY <2>1
    <3>3. remote[i].tree.stamp = remote[j].tree.stamp =>
            DOMAIN remote[i].tree.files = DOMAIN remote[j].tree.files
      BY <1>3, <3>1, <3>2 DEF CommitsOK
    <3> QED
      BY <3>1, <3>2, <3>3
  <2>3. k # m /\ later[k].by = later[m].by => later[k].by = Operator
    <3>1. CASE k \in DOMAIN remote /\ m \in DOMAIN remote
      BY <1>3, <1>4, <3>1 DEF CommitsOK
    <3>2. CASE k \notin DOMAIN remote \/ m \notin DOMAIN remote
      BY <1>3, <1>4, <1>8, <3>2
    <3> QED
      BY <3>1, <3>2
  <2> QED
    BY <2>2, <2>3
<1>12. Len(later) \in Nat \ {0}
  BY <1>3, <1>4
<1>13. CommitsOK(later, count)
  BY <1>4, <1>10, <1>11, <1>12 DEF CommitsOK
<1>14. remote' = later
  BY <1>1 DEF later, c
<1>15. SyncsOK'
  BY <1>2 DEF SyncInv, SyncsOK
<1>16. \A p \in Syncs : GitInv(sync[p], remote) => GitInv(sync[p], later)
  BY <1>3, ProgressKept DEF later
<1>17. SyncProgress'
  BY <1>2, <1>14, <1>16 DEF SyncInv, SyncProgress
<1> QED
  BY <1>2, <1>13, <1>14, <1>15, <1>17 DEF SyncInv

(* What users do at the provider meets syncs at work, and changes no tree. *)
LEMMA EditedKeepsSyncs ==
  ASSUME SyncInv, NEW new, NEW moved, Edited(new, moved) PROVE SyncInv'
<1> DEFINE next(q) == IF AtWork(q) THEN [sync[q] EXCEPT !.stood = @ \ moved, !.quiet = FALSE]
                                   ELSE sync[q]
<1>1. /\ UNCHANGED <<mode, dir, remote, count, strays>>
      /\ sync' = [q \in Syncs |-> next(q)]
  BY DEF Edited
<1>2. ASSUME NEW q \in Syncs
      PROVE  /\ next(q).n = sync[q].n /\ (next(q) = IdleSync <=> sync[q] = IdleSync)
             /\ SyncOK(sync[q]) =>
                  /\ SyncOK(next(q)) /\ next(q).phase = sync[q].phase
                  /\ next(q).base = sync[q].base /\ next(q).tree = sync[q].tree
                  /\ next(q).onto = sync[q].onto /\ next(q).writes = sync[q].writes
                  /\ next(q).removes = sync[q].removes /\ next(q).manifest = sync[q].manifest
  <2>1. CASE AtWork(q)
    <3> DEFINE stood == sync[q].stood \ moved
               r == [sync[q] EXCEPT !.stood = stood, !.quiet = FALSE]
    <3>1. next(q) = r
      BY <2>1
    <3>2. SyncOK(sync[q]) /\ sync[q] # IdleSync
      BY <2>1, AtWorkFacts
    <3> HIDE DEF stood
    <3>3. /\ SyncOK(r) /\ r.phase = sync[q].phase /\ r.n = sync[q].n
          /\ r.base = sync[q].base /\ r.tree = sync[q].tree
          /\ r.onto = sync[q].onto /\ r.writes = sync[q].writes
          /\ r.removes = sync[q].removes /\ r.manifest = sync[q].manifest
      BY <3>2 DEF SyncOK
    <3> HIDE DEF r, next
    <3>4. r # IdleSync
      BY <3>3 DEF SyncOK, IdleSync
    <3> QED
      BY <3>1, <3>2, <3>3, <3>4
  <2>2. CASE ~AtWork(q)
    BY <2>2
  <2> QED
    BY <2>1, <2>2
<1> HIDE DEF next
<1>3. \A q \in Syncs : sync'[q] = next(q)
  BY <1>1
<1>4. SyncsOK'
  <2>1. sync' = [q \in Syncs |-> sync'[q]]
    BY <1>1
  <2> QED
    BY <1>1, <1>2, <1>3, <2>1 DEF SyncInv, SyncsOK
<1>5. ASSUME NEW q \in Syncs, sync'[q] # IdleSync
      PROVE  /\ mode' = "git" => GitInv(sync'[q], remote')
             /\ mode' # "git" => sync'[q].phase \notin {"fetch", "push"}
             /\ mode' = "directory" => DirInv(sync'[q], dir', count', strays')
  <2>1. sync[q] # IdleSync /\ SyncOK(sync[q])
    BY <1>2, <1>3, <1>5 DEF SyncInv, SyncsOK
  <2>2. /\ mode = "git" => GitInv(sync[q], remote)
        /\ mode # "git" => sync[q].phase \notin {"fetch", "push"}
        /\ mode = "directory" => DirInv(sync[q], dir, count, strays)
    BY <2>1 DEF SyncInv, SyncProgress
  <2>3. \A t : Writing(sync[q], t) => Writing(next(q), t)
    BY <1>2, <2>1 DEF Writing
  <2>4. GitInv(sync[q], remote) => GitInv(next(q), remote)
    BY <1>2, <2>1, <2>3 DEF GitInv
  <2>5. DirInv(sync[q], dir, count, strays) => DirInv(next(q), dir, count, strays)
    BY <1>2, <2>1, <2>3 DEF DirInv
  <2> QED
    BY <1>1, <1>2, <1>3, <2>1, <2>2, <2>4, <2>5
<1>6. ASSUME mode' = "directory", \A q \in Syncs : ~AtWork(q)'
      PROVE  Unmanaged(dir') \subseteq strays'
  <2>1. ASSUME NEW q \in Syncs, AtWork(q) PROVE FALSE
    <3>1. SyncOK(sync[q])
      BY <2>1, AtWorkFacts
    <3>2. AtWork(q)'
      BY <1>2, <1>3, <2>1, <3>1 DEF AtWork
    <3> QED
      BY <1>6, <3>2
  <2> QED
    BY <1>1, <1>6, <2>1 DEF SyncInv, SyncProgress
<1>7. SyncProgress'
  BY <1>5, <1>6 DEF SyncProgress
<1>8. CommitsOK(remote', count')
  BY <1>1 DEF SyncInv
<1> QED
  BY <1>4, <1>7, <1>8 DEF SyncInv

-----------------------------------------------------------------------------
THEOREM SyncInvAlways == SyncSpec => []SyncInv
<1>1. SyncInit => SyncInv
  BY InitialSyncs
<1>2. SyncInv /\ [SyncNext]_syncVars => SyncInv'
  <2> SUFFICES ASSUME SyncInv, [SyncNext]_syncVars
               PROVE  SyncInv'
    OBVIOUS
  <2>1. ASSUME NEW p \in Syncs, SyncStep(p) PROVE SyncInv'
    <3>1. ASSUME NEW allow \in BOOLEAN, Start(p, allow) PROVE SyncInv'
      BY <3>1, StartKeepsSyncs
    <3>2. CASE Request(p) \/ RequestFails(p) \/ Plan(p)
      BY <3>2, RequestKeepsSyncs, RequestFailsKeepsSyncs, PlanKeepsSyncs
    <3>3. CASE WriteFile(p) \/ RemoveFile(p) \/ WriteManifest(p)
      BY <3>3, WriteFileKeepsSyncs, RemoveFileKeepsSyncs, WriteManifestKeepsSyncs
    <3>4. CASE FetchRebase(p) \/ FetchFails(p) \/ Push(p) \/ PushAnswerLost(p)
      BY <3>4, FetchRebaseKeepsSyncs, FetchFailsKeepsSyncs, PushKeepsSyncs,
         PushAnswerLostKeepsSyncs
    <3>5. CASE Interrupt(p)
      BY <3>5, InterruptKeepsSyncs
    <3> QED
      BY <2>1, <3>1, <3>2, <3>3, <3>4, <3>5 DEF SyncStep
  <2>2. CASE EditPage \/ Trash \/ MoveItem
    BY <2>2, EditedKeepsSyncs DEF EditPage, Trash, MoveItem
  <2>3. CASE UNCHANGED syncVars
    <3>1. UNCHANGED <<mode, dir, remote, sync, count, strays>>
      BY <2>3 DEF syncVars
    <3>2. SyncsOK' /\ CommitsOK(remote', count')
      BY <3>1 DEF SyncInv, SyncsOK
    <3>3. SyncProgress'
      BY <3>1 DEF SyncInv, SyncProgress, AtWork
    <3> QED
      BY <3>2, <3>3 DEF SyncInv
  <2> QED
    BY <2>1, <2>2, <2>3, ForeignCommitKeepsSyncs DEF SyncNext
<1> QED
  BY <1>1, <1>2, PTL DEF SyncSpec

(* The files of every commit are those of its manifest, whoever commits in  *)
(* between; a directory holds besides them only what interrupted syncs left *)
(* there, and a sync that refuses or fails leaves it as it was (apply,      *)
(* commit_and_push).                                                        *)
THEOREM SyncsManageTheirFiles == SyncSpec => []FilesAreManaged
<1>1. SyncInv => FilesAreManaged
  <2> SUFFICES ASSUME SyncInv PROVE FilesAreManaged
    OBVIOUS
  <2>1. \A n \in DOMAIN remote : DOMAIN remote[n].tree.files = Managed(remote[n].tree)
    BY DEF SyncInv, CommitsOK
  <2>2. (mode = "directory" /\ \A p \in Syncs : ~AtWork(p)) =>
          DOMAIN dir.files \ Managed(dir) \subseteq strays
    BY DEF SyncInv, SyncProgress, Unmanaged
  <2>3. ASSUME NEW p \in Syncs, mode = "directory", sync[p].phase = "failed", sync[p].n = count
        PROVE  dir = sync[p].base
    <3>1. sync[p] # IdleSync
      BY <2>3 DEF IdleSync
    <3> QED
      BY <2>3, <3>1 DEF SyncInv, SyncProgress, DirInv
  <2> QED
    BY <2>1, <2>2, <2>3 DEF FilesAreManaged
<1> QED
  BY <1>1, SyncInvAlways, PTL

(* However often a push is repeated after a lost answer, a sync adds one    *)
(* commit at most, has added it when it reports success, and keeps what     *)
(* others had committed below it (commit_and_push).                         *)
THEOREM SyncsCommitOnce == SyncSpec => []PushesAddOneCommit
<1>1. SyncInv => PushesAddOneCommit
  <2> SUFFICES ASSUME SyncInv PROVE PushesAddOneCommit
    OBVIOUS
  <2>1. /\ \A k, n \in DOMAIN remote :
             k # n /\ remote[k].by = remote[n].by => remote[k].by = Operator
        /\ \A n \in DOMAIN remote : remote[n].by # Operator =>
             remote[n].tree.other = remote[n - 1].tree.other
    BY DEF SyncInv, CommitsOK
  <2>2. ASSUME NEW p \in Syncs, sync[p].phase = "done", mode = "git"
        PROVE  HasCommitOf(remote, sync[p].n)
    <3>1. sync[p] # IdleSync
      BY <2>2 DEF IdleSync
    <3> QED
      BY <2>2, <3>1 DEF SyncInv, SyncProgress, GitInv
  <2> QED
    BY <2>1, <2>2 DEF PushesAddOneCommit
<1> QED
  BY <1>1, SyncInvAlways, PTL

-----------------------------------------------------------------------------
(***************************************************************************)
(* speech2md.  Cached generations do not say which span they are of, so    *)
(* what is replayed fits only because the positions of a pass follow from  *)
(* the generations it took before: those of the cache are laid out as the  *)
(* pass that replays them will go (LaidFrom), those it took as it went     *)
(* (LaidTo).  Every generation is kept under the recording it was decoded  *)
(* from, with the prompt in the metadata (KeptOf).                         *)
(***************************************************************************)
(* A position: the planned window, and where the submitted span starts. *)
FirstPosition(windows) == [at |-> 1, start |-> windows[1].start]
SpanAt(windows, q) == [start |-> q.start, end |-> windows[q.at].end]

(* Where result takes the n-th inference of a pass. *)
Suspect(result) == Len(result.text) >= TokenThreshold
NextPosition(windows, n, q, result) ==
  IF Suspect(result)
  THEN [at |-> q.at,
        start |-> Most(windows[q.at].start,
                       CoverageEnd(ParseSegments(ParseTranscript(result.text), n,
                                                 SpanAt(windows, q)),
                                   SpanAt(windows, q)) - RecoveryOverlap)]
  ELSE [at |-> q.at + 1,
        start |-> IF q.at < Len(windows) THEN windows[q.at + 1].start ELSE q.start]

DecodedAt(windows, q, e) ==
  e.result.made.span = SpanAt(windows, q) /\ e.base.made.span = SpanAt(windows, q)

(* The positions qs of a pass that takes entries, after k inferences. *)
Path(windows, entries, k, qs) ==
  /\ DOMAIN qs = 1 .. (Len(entries) + 1)
  /\ \A n \in 1 .. Len(entries) :
       /\ DecodedAt(windows, qs[n], entries[n])
       /\ qs[n + 1] = NextPosition(windows, k + n, qs[n], entries[n].result)

LaidFrom(windows, entries, k, q) == \E qs : Path(windows, entries, k, qs) /\ qs[1] = q
LaidTo(windows, entries, q) ==
  \E qs : /\ Path(windows, entries, 0, qs)
          /\ qs[1] = FirstPosition(windows) /\ qs[Len(entries) + 1] = q

(* What an entry was made from. *)
EntryOf(e, recording, prompt) ==
  /\ \A g \in {e.result, e.base} : g.made.track = recording /\ g.made.prompt = prompt
  /\ e.result.made.forces = e.forces
  /\ e.base.made.forces = {}
  /\ e.forces = {} => e.result = e.base

EntriesOf(entries, recording, prompt) ==
  /\ entries \in Seq(Range(entries))
  /\ \A n \in 1 .. Len(entries) : EntryOf(entries[n], recording, prompt)

WindowsOf(recording) == PlanWindows(Tracks[recording.track])

(* Cached generations, exact unless windows were decoded anew. *)
KeptOf(tracks, prompt, exact) ==
  \A recording \in DOMAIN tracks :
    /\ EntriesOf(tracks[recording], recording, prompt)
    /\ exact => LaidFrom(WindowsOf(recording), tracks[recording], 0, FirstPosition(WindowsOf(recording)))

PassShape(p) ==
  /\ p = [field \in DOMAIN p |-> p[field]]
  /\ DOMAIN p = {"windows", "at", "start", "attempt", "covered", "cached", "left", "guided",
                 "entries", "spans", "effective", "byWindow"}

Position(p) == [at |-> p.at, start |-> p.start]

PassOf(p, recording, prompt, exact) ==
  /\ PassShape(p)
  /\ p.windows = WindowsOf(recording)
  /\ EntriesOf(p.entries, recording, prompt)
  /\ EntriesOf(p.left, recording, prompt)
  /\ p.spans \in Seq(Range(p.spans)) /\ Len(p.spans) = Len(p.entries)
  /\ exact =>
       /\ LaidTo(p.windows, p.entries, Position(p))
       /\ LaidFrom(p.windows, p.left, Len(p.entries), Position(p))
       /\ \A n \in 1 .. Len(p.entries) :
            \A g \in {p.entries[n].result, p.entries[n].base} : g.made.span = p.spans[n]

RunShape(r) ==
  /\ r = [field \in DOMAIN r |-> r[field]]
  /\ DOMAIN r = {"phase", "version", "required", "sources", "at", "known", "generated",
                 "engine", "pass", "segments", "profiles"}

RunOf(r, exact) ==
  LET prompt == spoken.documents[r.version].prompt
  IN  /\ RunShape(r)
      /\ KeptOf(r.known, prompt, exact)
      /\ KeptOf(r.generated, prompt, exact)
      /\ r.phase \in {"decoding", "reconciling"} =>
           PassShape(r.pass) /\ EntriesOf(r.pass.entries, r.sources[r.at], prompt)
      /\ r.phase = "decoding" => PassOf(r.pass, r.sources[r.at], prompt, exact)

SpeechInv ==
  /\ reguided \in BOOLEAN
  /\ run = NoRun \/ RunOf(run, ~ reguided)
  /\ cache # Missing => KeptOf(cache.tracks, cache.metadata.prompt, ~ reguided)

-----------------------------------------------------------------------------
(* Positions.                                                                *)

LEMMA Listed ==
  ASSUME NEW S, NEW s \in Seq(S)
  PROVE  s \in Seq(Range(s))
<1>1. Len(s) \in Nat /\ s \in [1 .. Len(s) -> S] /\ DOMAIN s = 1 .. Len(s)
  OBVIOUS
<1>2. s \in [1 .. Len(s) -> Range(s)]
  BY <1>1 DEF Range
<1>3. Seq(Range(s)) = UNION {[1 .. n -> Range(s)] : n \in Nat}
  BY SeqDef
<1> QED
  BY <1>1, <1>2, <1>3

LEMMA ListAppend ==
  ASSUME NEW s, s \in Seq(Range(s)), NEW e
  PROVE  /\ Append(s, e) \in Seq(Range(Append(s, e)))
         /\ Len(Append(s, e)) = Len(s) + 1
         /\ \A n \in 1 .. Len(s) : Append(s, e)[n] = s[n]
         /\ Append(s, e)[Len(s) + 1] = e
<1> DEFINE S == Range(s) \cup {e}
<1>1. s \in Seq(S)
  <2>1. \A T, U : T \subseteq U => Seq(T) \subseteq Seq(U)
    OBVIOUS
  <2> QED
    BY <2>1
<1>2. e \in S
  OBVIOUS
<1> HIDE DEF S
<1>3. Append(s, e) \in Seq(S)
  BY <1>1, <1>2
<1>4. Append(s, e) \in Seq(Range(Append(s, e)))
  BY <1>3, Listed
<1> QED
  BY <1>1, <1>2, <1>4

LEMMA ListTail ==
  ASSUME NEW s, s \in Seq(Range(s)), s # <<>>
  PROVE  /\ Tail(s) \in Seq(Range(Tail(s)))
         /\ Len(s) \in Nat /\ Len(s) >= 1 /\ Len(Tail(s)) = Len(s) - 1
         /\ Head(s) = s[1]
         /\ \A n \in 1 .. (Len(s) - 1) : Tail(s)[n] = s[n + 1]
<1> DEFINE S == Range(s)
<1>1. s \in Seq(S)
  OBVIOUS
<1> HIDE DEF S
<1>2. Tail(s) \in Seq(S)
  BY <1>1
<1>3. Tail(s) \in Seq(Range(Tail(s)))
  BY <1>2, Listed
<1> QED
  BY <1>1, <1>3

LEMMA LaidAppend ==
  ASSUME NEW windows, NEW entries, entries \in Seq(Range(entries)), NEW q, NEW e,
         LaidTo(windows, entries, q), DecodedAt(windows, q, e)
  PROVE  LaidTo(windows, Append(entries, e),
                NextPosition(windows, Len(entries) + 1, q, e.result))
<1> DEFINE m == Len(entries)
           next == NextPosition(windows, m + 1, q, e.result)
           longer == Append(entries, e)
<1>1. m \in Nat
  OBVIOUS
<1>2. /\ Len(longer) = m + 1 /\ longer[m + 1] = e
      /\ \A n \in 1 .. m : longer[n] = entries[n]
  BY ListAppend
<1>3. PICK qs : /\ Path(windows, entries, 0, qs)
                /\ qs[1] = FirstPosition(windows) /\ qs[m + 1] = q
  BY DEF LaidTo
<1> DEFINE rs == [n \in 1 .. (m + 2) |-> IF n = m + 2 THEN next ELSE qs[n]]
<1> HIDE DEF next, longer, m
<1>4. /\ \A n \in 1 .. (m + 1) : rs[n] = qs[n]
      /\ rs[m + 2] = next /\ DOMAIN rs = 1 .. (m + 2)
  BY <1>1
<1> HIDE DEF rs
<1>5. ASSUME NEW n \in 1 .. (m + 1)
      PROVE  /\ DecodedAt(windows, rs[n], longer[n])
             /\ rs[n + 1] = NextPosition(windows, 0 + n, rs[n], longer[n].result)
  <2>1. CASE n \in 1 .. m
    <3>1. /\ DecodedAt(windows, qs[n], entries[n])
          /\ qs[n + 1] = NextPosition(windows, 0 + n, qs[n], entries[n].result)
      BY <1>3, <2>1 DEF Path, m
    <3>2. rs[n] = qs[n] /\ rs[n + 1] = qs[n + 1] /\ longer[n] = entries[n]
      BY <1>1, <1>2, <1>4, <2>1
    <3> QED
      BY <3>1, <3>2
  <2>2. CASE n = m + 1
    <3>1. rs[n] = q /\ rs[n + 1] = next /\ longer[n] = e /\ 0 + n = m + 1
      BY <1>1, <1>2, <1>3, <1>4, <2>2
    <3> QED
      BY <3>1 DEF next
  <2> QED
    BY <1>1, <2>1, <2>2
<1>6. Path(windows, longer, 0, rs)
  <2>1. DOMAIN rs = 1 .. (Len(longer) + 1)
    BY <1>1, <1>2, <1>4
  <2> QED
    BY <1>2, <1>5, <2>1 DEF Path
<1>7. rs[1] = FirstPosition(windows) /\ rs[Len(longer) + 1] = next
  BY <1>1, <1>2, <1>3, <1>4
<1>8. LaidTo(windows, longer, next)
  BY <1>6, <1>7 DEF LaidTo
<1> QED
  BY <1>8 DEF next, longer, m

LEMMA LaidTail ==
  ASSUME NEW windows, NEW entries, entries \in Seq(Range(entries)), entries # <<>>,
         NEW k \in Nat, NEW q, LaidFrom(windows, entries, k, q)
  PROVE  /\ DecodedAt(windows, q, Head(entries))
         /\ LaidFrom(windows, Tail(entries), k + 1,
                     NextPosition(windows, k + 1, q, Head(entries).result))
<1> DEFINE m == Len(entries)
           rest == Tail(entries)
           next == NextPosition(windows, k + 1, q, Head(entries).result)
<1>1. /\ m \in Nat /\ m >= 1 /\ Len(rest) = m - 1 /\ Head(entries) = entries[1]
      /\ \A n \in 1 .. (m - 1) : rest[n] = entries[n + 1]
  BY ListTail
<1>2. PICK qs : Path(windows, entries, k, qs) /\ qs[1] = q
  BY DEF LaidFrom
<1> HIDE DEF rest, m
<1>3. /\ DOMAIN qs = 1 .. (m + 1)
      /\ \A n \in 1 .. m :
           /\ DecodedAt(windows, qs[n], entries[n])
           /\ qs[n + 1] = NextPosition(windows, k + n, qs[n], entries[n].result)
  BY <1>2 DEF Path, m
<1>4. DecodedAt(windows, q, Head(entries)) /\ qs[2] = next
  BY <1>1, <1>2, <1>3
<1> DEFINE rs == [n \in 1 .. m |-> qs[n + 1]]
<1>5. DOMAIN rs = 1 .. (Len(rest) + 1)
  BY <1>1
<1>6. ASSUME NEW n \in 1 .. Len(rest)
      PROVE  /\ DecodedAt(windows, rs[n], rest[n])
             /\ rs[n + 1] = NextPosition(windows, (k + 1) + n, rs[n], rest[n].result)
  <2>1. n + 1 \in 1 .. m /\ n \in 1 .. (m - 1) /\ k + (n + 1) = (k + 1) + n
    BY <1>1
  <2>2. rs[n] = qs[n + 1] /\ rs[n + 1] = qs[(n + 1) + 1] /\ rest[n] = entries[n + 1]
    BY <1>1, <2>1
  <2> QED
    BY <1>3, <2>1, <2>2
<1>7. Path(windows, rest, k + 1, rs) /\ rs[1] = next
  <2>1. rs[1] = next
    BY <1>1, <1>4
  <2> HIDE DEF rs
  <2> QED
    BY <1>5, <1>6, <2>1 DEF Path
<1>8. LaidFrom(windows, rest, k + 1, next)
  BY <1>7 DEF LaidFrom
<1> QED
  BY <1>4, <1>8 DEF rest

LEMMA LaidEmpty ==
  ASSUME NEW windows, NEW k, NEW q
  PROVE  LaidFrom(windows, <<>>, k, q)
<1>1. Path(windows, <<>>, k, [n \in 1 .. 1 |-> q])
  BY DEF Path
<1> QED
  BY <1>1 DEF LaidFrom

LEMMA LaidNothing ==
  ASSUME NEW windows
  PROVE  LaidTo(windows, <<>>, FirstPosition(windows))
<1>1. Path(windows, <<>>, 0, [n \in 1 .. 1 |-> FirstPosition(windows)])
  BY DEF Path
<1> QED
  BY <1>1 DEF LaidTo

LEMMA LaidThrough ==
  ASSUME NEW windows, NEW entries, NEW q, LaidTo(windows, entries, q)
  PROVE  LaidFrom(windows, entries, 0, FirstPosition(windows))
BY DEF LaidTo, LaidFrom

(* Results that do not look truncated lead to the same position. *)
LEMMA WholeResultsGoOn ==
  ASSUME NEW windows, NEW n, NEW q, NEW r, NEW s, ~ Suspect(r), ~ Suspect(s)
  PROVE  NextPosition(windows, n, q, r) = NextPosition(windows, n, q, s)
BY DEF NextPosition

-----------------------------------------------------------------------------
(* Passes.                                                                   *)

LEMMA NoEntries ==
  ASSUME NEW recording, NEW prompt
  PROVE  EntriesOf(<<>>, recording, prompt)
<1>1. <<>> \in Seq(Range(<<>>)) /\ Len(<<>>) = 0
  OBVIOUS
<1> QED
  BY <1>1 DEF EntriesOf

LEMMA NewEntry ==
  ASSUME NEW entries, NEW recording, NEW prompt, NEW e,
         EntriesOf(entries, recording, prompt), EntryOf(e, recording, prompt)
  PROVE  EntriesOf(Append(entries, e), recording, prompt)
<1>1. entries \in Seq(Range(entries)) /\ Len(entries) \in Nat
  BY DEF EntriesOf
<1> DEFINE longer == Append(entries, e)
<1>2. /\ longer \in Seq(Range(longer)) /\ Len(longer) = Len(entries) + 1
      /\ \A n \in 1 .. Len(entries) : longer[n] = entries[n]
      /\ longer[Len(entries) + 1] = e
  BY <1>1, ListAppend
<1> HIDE DEF longer
<1>3. ASSUME NEW n \in 1 .. Len(longer) PROVE EntryOf(longer[n], recording, prompt)
  <2>1. n \in 1 .. Len(entries) \/ n = Len(entries) + 1
    BY <1>1, <1>2
  <2> QED
    BY <1>2, <2>1 DEF EntriesOf
<1>4. EntriesOf(longer, recording, prompt)
  BY <1>2, <1>3 DEF EntriesOf
<1> QED
  BY <1>4 DEF longer

LEMMA RestOfEntries ==
  ASSUME NEW entries, NEW recording, NEW prompt,
         EntriesOf(entries, recording, prompt), entries # <<>>
  PROVE  /\ EntryOf(Head(entries), recording, prompt)
         /\ EntriesOf(Tail(entries), recording, prompt)
<1>1. entries \in Seq(Range(entries))
  BY DEF EntriesOf
<1> DEFINE rest == Tail(entries)
<1>2. /\ rest \in Seq(Range(rest)) /\ Len(entries) \in Nat /\ Len(entries) >= 1
      /\ Len(rest) = Len(entries) - 1 /\ Head(entries) = entries[1]
      /\ \A n \in 1 .. (Len(entries) - 1) : rest[n] = entries[n + 1]
  BY <1>1, ListTail
<1> HIDE DEF rest
<1>3. EntryOf(Head(entries), recording, prompt)
  BY <1>2 DEF EntriesOf
<1>4. ASSUME NEW n \in 1 .. Len(rest) PROVE EntryOf(rest[n], recording, prompt)
  <2>1. n + 1 \in 1 .. Len(entries) /\ rest[n] = entries[n + 1]
    BY <1>2
  <2> QED
    BY <2>1 DEF EntriesOf
<1>5. EntriesOf(rest, recording, prompt)
  BY <1>2, <1>4 DEF EntriesOf
<1> QED
  BY <1>3, <1>5 DEF rest

(* What is exact is so all the more when less is claimed. *)
LEMMA KeptWeaker ==
  ASSUME NEW tracks, NEW prompt, NEW exact \in BOOLEAN, NEW less \in BOOLEAN,
         less => exact, KeptOf(tracks, prompt, exact)
  PROVE  KeptOf(tracks, prompt, less)
BY DEF KeptOf

LEMMA PassWeaker ==
  ASSUME NEW p, NEW recording, NEW prompt, NEW exact \in BOOLEAN, NEW less \in BOOLEAN,
         less => exact, PassOf(p, recording, prompt, exact)
  PROVE  PassOf(p, recording, prompt, less)
BY DEF PassOf

LEMMA RunWeaker ==
  ASSUME NEW r, NEW exact \in BOOLEAN, NEW less \in BOOLEAN,
         less => exact, RunOf(r, exact)
  PROVE  RunOf(r, less)
BY KeptWeaker, PassWeaker DEF RunOf

(* A pass from the beginning, over what is cached for its recording. *)
LEMMA NewPassOK ==
  ASSUME NEW recording, NEW prompt, NEW exact \in BOOLEAN, NEW cached, NEW guided,
         cached = Missing \/
           /\ EntriesOf(cached, recording, prompt)
           /\ exact => LaidFrom(WindowsOf(recording), cached, 0,
                                FirstPosition(WindowsOf(recording)))
  PROVE  PassOf(NewPass(Tracks[recording.track], cached, guided), recording, prompt, exact)
<1> DEFINE p == NewPass(Tracks[recording.track], cached, guided)
           w == WindowsOf(recording)
<1>1. /\ PassShape(p) /\ p.windows = w /\ p.entries = <<>> /\ p.spans = <<>>
      /\ p.at = 1 /\ p.start = w[1].start
      /\ p.left = IF cached = Missing THEN <<>> ELSE cached
  BY DEF NewPass, PassShape, WindowsOf
<1>2. Position(p) = FirstPosition(w)
  BY <1>1 DEF Position, FirstPosition
<1> HIDE DEF p, w
<1>3. EntriesOf(p.left, recording, prompt)
  BY <1>1, NoEntries
<1>4. exact => LaidFrom(w, p.left, 0, FirstPosition(w))
  BY <1>1, LaidEmpty DEF w
<1>5. /\ Len(<<>>) = 0 /\ <<>> \in Seq(Range(<<>>)) /\ LaidTo(w, <<>>, FirstPosition(w))
      /\ EntriesOf(<<>>, recording, prompt)
  BY LaidNothing, NoEntries
<1>6. PassOf(p, recording, prompt, exact)
  BY <1>1, <1>2, <1>3, <1>4, <1>5 DEF PassOf, w
<1> QED
  BY <1>6 DEF p

(* A run begins the pass over its next recording. *)
LEMMA BeginningOK ==
  ASSUME NEW r, NEW exact \in BOOLEAN, RunShape(r), r.phase = "decoding",
         KeptOf(r.known, spoken.documents[r.version].prompt, exact),
         KeptOf(r.generated, spoken.documents[r.version].prompt, exact)
  PROVE  RunOf(Beginning(r), exact)
<1> DEFINE recording == r.sources[r.at]
           prompt == spoken.documents[r.version].prompt
           p == NewPass(Tracks[recording.track], Cached(r), FALSE)
<1>1. Cached(r) = Missing \/
        /\ EntriesOf(Cached(r), recording, prompt)
        /\ exact => LaidFrom(WindowsOf(recording), Cached(r), 0,
                             FirstPosition(WindowsOf(recording)))
  BY DEF Cached, KeptOf
<1>2. PassOf(p, recording, prompt, exact)
  BY <1>1, NewPassOK
<1> DEFINE b == Beginning(r)
<1> HIDE DEF p
<1>3. /\ RunShape(b) /\ b.pass = p /\ b.phase = r.phase /\ b.sources = r.sources
      /\ b.at = r.at /\ b.version = r.version /\ b.known = r.known
      /\ b.generated = r.generated
  <2> DEFINE engine == r.engine \/ Cached(r) = Missing
  <2>1. b = [r EXCEPT !.pass = p, !.engine = engine]
    BY DEF Beginning, p
  <2> HIDE DEF b, engine
  <2> QED
    BY <2>1 DEF RunShape
<1> HIDE DEF b
<1>4. PassShape(p) /\ EntriesOf(p.entries, recording, prompt)
  BY <1>2 DEF PassOf
<1>5. RunOf(b, exact)
  BY <1>2, <1>3, <1>4 DEF RunOf
<1> QED
  BY <1>5 DEF b

(* A run that goes on with another pass over the same recording. *)
LEMMA PassReplaced ==
  ASSUME NEW exact \in BOOLEAN, RunOf(run, exact), NEW p, NEW r, RunShape(r),
         r.phase = "decoding", r.version = run.version, r.sources = run.sources,
         r.at = run.at, r.known = run.known, r.generated = run.generated, r.pass = p,
         PassOf(p, run.sources[run.at], Document.prompt, exact)
  PROVE  RunOf(r, exact)
<1>1. PassShape(p) /\ EntriesOf(p.entries, run.sources[run.at], Document.prompt)
  BY DEF PassOf
<1> QED
  BY <1>1 DEF RunOf, Document

LEMMA PassExcept ==
  ASSUME NEW exact \in BOOLEAN, RunOf(run, exact), run.phase = "decoding",
         NEW p, PassOf(p, run.sources[run.at], Document.prompt, exact), NEW engine
  PROVE  /\ RunOf([run EXCEPT !.pass = p], exact)
         /\ RunOf([run EXCEPT !.engine = engine, !.pass = p], exact)
<1>1. RunShape(run)
  BY DEF RunOf
<1> DEFINE r == [run EXCEPT !.pass = p]
           s == [run EXCEPT !.engine = engine, !.pass = p]
<1>2. /\ RunShape(r) /\ r.phase = "decoding" /\ r.version = run.version
      /\ r.sources = run.sources /\ r.at = run.at /\ r.known = run.known
      /\ r.generated = run.generated /\ r.pass = p
  BY <1>1 DEF RunShape
<1>3. /\ RunShape(s) /\ s.phase = "decoding" /\ s.version = run.version
      /\ s.sources = run.sources /\ s.at = run.at /\ s.known = run.known
      /\ s.generated = run.generated /\ s.pass = p
  BY <1>1 DEF RunShape
<1> HIDE DEF r, s
<1>4. RunOf(r, exact)
  BY <1>2, PassReplaced
<1>5. RunOf(s, exact)
  BY <1>3, PassReplaced
<1> QED
  BY <1>4, <1>5 DEF r, s

(* A result that was made for the span it is taken for, before what is left. *)
LEMMA AcceptOK ==
  ASSUME NEW exact \in BOOLEAN, RunOf(run, exact), run.phase = "decoding",
         NEW result, NEW base, NEW forces, NEW left,
         EntryOf([result |-> result, base |-> base, forces |-> forces],
                 run.sources[run.at], Document.prompt),
         EntriesOf(left, run.sources[run.at], Document.prompt),
         exact => /\ result.made.span = Span /\ base.made.span = Span
                  /\ LaidFrom(run.pass.windows, left, Len(run.pass.entries) + 1,
                              NextPosition(run.pass.windows, Len(run.pass.entries) + 1,
                                           Position(run.pass), result)),
         Accept(result, base, forces, left)
  PROVE  run' = NoRun \/ RunOf(run', exact)
<1> DEFINE p == run.pass
           e == [result |-> result, base |-> base, forces |-> forces]
           coverage == CoverageEnd(Segments(result), Span)
           effective == [start |-> Span.start,
                         end |-> IF Suspect(result) THEN coverage ELSE Span.end]
           noted == [p EXCEPT !.left = left, !.entries = Append(@, e),
                              !.spans = Append(@, Span),
                              !.byWindow = Append(@, Segments(result)),
                              !.effective = Append(@, effective)]
           next == NextPosition(p.windows, Len(p.entries) + 1, Position(p), result)
           q == IF Suspect(result) THEN Recovered(noted, coverage) ELSE NextWindow(noted)
           recording == run.sources[run.at]
<1>1. run' = NoRun \/ run' = [run EXCEPT !.pass = q]
  BY DEF Accept, Abort, Suspect
<1>2. PassOf(p, recording, Document.prompt, exact)
  BY DEF RunOf, Document
<1>3. Span = SpanAt(p.windows, Position(p))
  BY DEF Span, Planned, SpanAt, Position
<1>4. /\ PassShape(noted) /\ noted.windows = p.windows /\ noted.at = p.at
      /\ noted.start = p.start /\ noted.left = left
      /\ noted.entries = Append(p.entries, e) /\ noted.spans = Append(p.spans, Span)
  <2> HIDE DEF e, effective
  <2>1. PassShape(p)
    BY <1>2 DEF PassOf
  <2> QED
    BY <2>1 DEF PassShape
<1> HIDE DEF noted, effective
<1>5. /\ PassShape(q) /\ q.windows = p.windows /\ q.left = left
      /\ q.entries = Append(p.entries, e) /\ q.spans = Append(p.spans, Span)
  <2> HIDE DEF e, coverage
  <2>1. \A c : /\ PassShape(Recovered(noted, c)) /\ Recovered(noted, c).windows = noted.windows
               /\ Recovered(noted, c).left = noted.left
               /\ Recovered(noted, c).entries = noted.entries
               /\ Recovered(noted, c).spans = noted.spans
    BY <1>4 DEF Recovered, PassShape
  <2>2. /\ PassShape(NextWindow(noted)) /\ NextWindow(noted).windows = noted.windows
        /\ NextWindow(noted).left = noted.left /\ NextWindow(noted).entries = noted.entries
        /\ NextWindow(noted).spans = noted.spans
    BY <1>4 DEF NextWindow, PassShape
  <2> QED
    BY <1>4, <2>1, <2>2
<1>6. Position(q) = next
  <2>1. CASE Suspect(result)
    <3>1. coverage = CoverageEnd(ParseSegments(ParseTranscript(result.text), Len(p.entries) + 1,
                                               SpanAt(p.windows, Position(p))),
                                 SpanAt(p.windows, Position(p)))
      BY <1>3 DEF Segments, Inference
    <3> HIDE DEF coverage
    <3>2. /\ q.at = p.at
          /\ q.start = Most(p.windows[p.at].start, coverage - RecoveryOverlap)
      BY <1>4, <2>1 DEF Recovered, PassShape
    <3> QED
      BY <2>1, <3>1, <3>2 DEF NextPosition, Position
  <2>2. CASE ~ Suspect(result)
    <3>1. /\ q.at = p.at + 1
          /\ q.start = IF p.at < Len(p.windows) THEN p.windows[p.at + 1].start ELSE p.start
      BY <1>4, <2>2 DEF NextWindow, PassShape
    <3> QED
      BY <2>2, <3>1 DEF NextPosition, Position
  <2> QED
    BY <2>1, <2>2
<1> HIDE DEF q, coverage
<1>7. EntriesOf(q.entries, recording, Document.prompt)
  BY <1>2, <1>5, NewEntry DEF PassOf
<1>8. /\ p.entries \in Seq(Range(p.entries)) /\ Len(p.entries) \in Nat
      /\ p.spans \in Seq(Range(p.spans)) /\ Len(p.spans) = Len(p.entries)
  BY <1>2 DEF PassOf, EntriesOf
<1>9. /\ Len(q.entries) = Len(p.entries) + 1 /\ q.entries[Len(p.entries) + 1] = e
      /\ \A n \in 1 .. Len(p.entries) : q.entries[n] = p.entries[n]
  BY <1>5, <1>8, ListAppend
<1>10. /\ q.spans \in Seq(Range(q.spans))
       /\ Len(q.spans) = Len(p.entries) + 1 /\ q.spans[Len(p.entries) + 1] = Span
       /\ \A n \in 1 .. Len(p.entries) : q.spans[n] = p.spans[n]
  BY <1>5, <1>8, ListAppend
<1>11. ASSUME exact
       PROVE  /\ LaidTo(q.windows, q.entries, Position(q))
              /\ LaidFrom(q.windows, q.left, Len(q.entries), Position(q))
              /\ \A n \in 1 .. Len(q.entries) :
                   \A g \in {q.entries[n].result, q.entries[n].base} : g.made.span = q.spans[n]
  <2>1. DecodedAt(p.windows, Position(p), e) /\ e.result = result /\ e.base = base
    BY <1>3, <1>11 DEF DecodedAt
  <2>2. LaidTo(p.windows, p.entries, Position(p))
    BY <1>2, <1>11 DEF PassOf
  <2> HIDE DEF e
  <2>3. LaidTo(q.windows, q.entries, Position(q))
    BY <1>5, <1>6, <1>8, <2>1, <2>2, LaidAppend
  <2>4. LaidFrom(q.windows, q.left, Len(q.entries), Position(q))
    BY <1>5, <1>6, <1>9, <1>11
  <2>5. ASSUME NEW n \in 1 .. Len(q.entries), NEW g \in {q.entries[n].result, q.entries[n].base}
        PROVE  g.made.span = q.spans[n]
    <3>1. CASE n \in 1 .. Len(p.entries)
      BY <1>2, <1>9, <1>10, <1>11, <2>5, <3>1 DEF PassOf
    <3>2. CASE n = Len(p.entries) + 1
      BY <1>9, <1>10, <1>11, <2>1, <2>5, <3>2
    <3> QED
      BY <1>8, <1>9, <3>1, <3>2
  <2> QED
    BY <2>3, <2>4, <2>5
<1>12. PassOf(q, recording, Document.prompt, exact)
  <2>1. q.windows = WindowsOf(recording) /\ EntriesOf(q.left, recording, Document.prompt)
    BY <1>2, <1>5 DEF PassOf
  <2> QED
    BY <1>5, <1>7, <1>9, <1>10, <1>11, <2>1 DEF PassOf
<1> HIDE DEF next
<1>13. RunOf([run EXCEPT !.pass = q], exact)
  BY <1>12, PassExcept
<1> QED
  BY <1>1, <1>13

-----------------------------------------------------------------------------
(* Steps.                                                                    *)

LEMMA RunGoesOn ==
  ASSUME SpeechInv, spoken' = spoken, cache' = cache, reguided' \in BOOLEAN,
         reguided => reguided', run' = NoRun \/ RunOf(run', ~ reguided')
  PROVE  SpeechInv'
<1>1. cache # Missing => KeptOf(cache.tracks, cache.metadata.prompt, ~ reguided')
  BY KeptWeaker DEF SpeechInv
<1>2. (run = NoRun \/ RunOf(run, ~ reguided))'
  BY DEF RunOf
<1> QED
  BY <1>1, <1>2 DEF SpeechInv

LEMMA Decoding ==
  ASSUME SpeechInv, run.phase = "decoding", NEW exact \in BOOLEAN, exact => ~ reguided
  PROVE  /\ RunOf(run, exact)
         /\ PassOf(run.pass, run.sources[run.at], Document.prompt, exact)
         /\ Span = SpanAt(run.pass.windows, Position(run.pass))
         /\ Len(run.pass.entries) \in Nat
<1>1. RunOf(run, ~ reguided) /\ reguided \in BOOLEAN
  BY DEF SpeechInv, NoRun
<1>2. RunOf(run, exact)
  BY <1>1, RunWeaker
<1>3. PassOf(run.pass, run.sources[run.at], Document.prompt, exact)
  BY <1>2 DEF RunOf, Document
<1>4. run.pass.entries \in Seq(Range(run.pass.entries))
  BY <1>3 DEF PassOf, EntriesOf
<1> QED
  BY <1>2, <1>3, <1>4 DEF Span, Planned, SpanAt, Position

LEMMA DecodedNow ==
  ASSUME NEW forces, NEW g \in Decoded(forces)
  PROVE  /\ g.made.track = run.sources[run.at] /\ g.made.span = Span
         /\ g.made.prompt = Document.prompt /\ g.made.forces = forces
BY DEF Decoded, Made

LEMMA TranscribeKeeps ==
  ASSUME SpeechInv, Transcribe
  PROVE  SpeechInv'
<1> DEFINE p == run.pass
           exact == ~ reguided
<1>1. /\ run.phase = "decoding" /\ exact \in BOOLEAN /\ reguided \in BOOLEAN
      /\ UNCHANGED <<spoken, cache, reguided>>
  BY DEF Transcribe, Inferring, InferenceUnchanged, SpeechInv
<1>2. PICK base, result, forces :
        /\ base \in Decoded({})
        /\ forces = {} => result = base
        /\ result \in Decoded(forces)
        /\ Abort \/ Accept(result, base, forces, <<>>)
  BY DEF Transcribe
<1>3. /\ base.made.track = run.sources[run.at] /\ base.made.span = Span
      /\ base.made.prompt = Document.prompt /\ base.made.forces = {}
      /\ result.made.track = run.sources[run.at] /\ result.made.span = Span
      /\ result.made.prompt = Document.prompt /\ result.made.forces = forces
  BY <1>2, DecodedNow
<1>4. EntryOf([result |-> result, base |-> base, forces |-> forces],
              run.sources[run.at], Document.prompt)
  BY <1>2, <1>3 DEF EntryOf
<1>5. RunOf(run, exact)
  BY <1>1, Decoding
<1>6. run' = NoRun \/ RunOf(run', exact)
  BY <1>1, <1>2, <1>3, <1>4, <1>5, AcceptOK, NoEntries, LaidEmpty DEF Abort
<1> QED
  BY <1>1, <1>6, RunGoesOn

(* What is cached for the recording is as a new pass needs it. *)
LEMMA CachedOK ==
  ASSUME NEW exact \in BOOLEAN, RunOf(run, exact)
  PROVE  Cached(run) = Missing \/
           LET recording == run.sources[run.at]
           IN  /\ EntriesOf(Cached(run), recording, Document.prompt)
               /\ exact => LaidFrom(WindowsOf(recording), Cached(run), 0,
                                    FirstPosition(WindowsOf(recording)))
BY DEF Cached, RunOf, KeptOf, Document

LEMMA DiscardCacheOK ==
  ASSUME NEW exact \in BOOLEAN, RunOf(run, exact), run.phase = "decoding", DiscardCache
  PROVE  run' = NoRun \/ RunOf(run', exact)
<1> DEFINE p == NewPass(Track, Missing, FALSE)
<1>1. PassOf(p, run.sources[run.at], Document.prompt, exact)
  BY NewPassOK DEF Track
<1> HIDE DEF p
<1>2. RunOf([run EXCEPT !.engine = TRUE, !.pass = p], exact)
  BY <1>1, PassExcept
<1> QED
  BY <1>2 DEF DiscardCache, Abort, p

LEMMA DiscardKeeps ==
  ASSUME SpeechInv, CacheEnded \/ CacheUnused
  PROVE  SpeechInv'
<1> DEFINE exact == ~ reguided
<1>1. reguided \in BOOLEAN /\ exact \in BOOLEAN
  BY DEF SpeechInv
<1>2. run.phase = "decoding" /\ UNCHANGED <<spoken, cache, reguided>> /\ DiscardCache
  <2>1. CASE CacheEnded
    BY <2>1 DEF CacheEnded, Inferring, InferenceUnchanged
  <2>2. CASE CacheUnused
    BY <2>2 DEF CacheUnused, PassDone, InferenceUnchanged
  <2> QED
    BY <2>1, <2>2
<1>3. RunOf(run, exact)
  BY <1>1, <1>2, Decoding
<1>4. run' = NoRun \/ RunOf(run', exact)
  <2> HIDE DEF exact
  <2> QED
    BY <1>1, <1>2, <1>3, DiscardCacheOK
<1> QED
  BY <1>1, <1>2, <1>4, RunGoesOn

(* The cached entry was made for the position the pass is in, and so is what *)
(* follows it, unless something that looks truncated is made anew.           *)
LEMMA ReplayedEntry ==
  ASSUME NEW exact \in BOOLEAN, PassOf(run.pass, run.sources[run.at], Document.prompt, exact),
         Len(run.pass.entries) \in Nat,
         Span = SpanAt(run.pass.windows, Position(run.pass)),
         run.pass.left # <<>>, NEW entry, entry = Head(run.pass.left),
         NEW result, result = entry.result \/ (~ Suspect(result) /\ ~ Suspect(entry.result))
  PROVE  /\ EntryOf(entry, run.sources[run.at], Document.prompt)
         /\ EntriesOf(Tail(run.pass.left), run.sources[run.at], Document.prompt)
         /\ exact =>
              /\ entry.result.made.span = Span /\ entry.base.made.span = Span
              /\ LaidFrom(run.pass.windows, Tail(run.pass.left), Len(run.pass.entries) + 1,
                          NextPosition(run.pass.windows, Len(run.pass.entries) + 1,
                                       Position(run.pass), result))
<1> DEFINE p == run.pass
<1>1. EntriesOf(p.left, run.sources[run.at], Document.prompt)
  BY DEF PassOf
<1>2. /\ EntryOf(entry, run.sources[run.at], Document.prompt)
      /\ EntriesOf(Tail(p.left), run.sources[run.at], Document.prompt)
  BY <1>1, RestOfEntries
<1>3. ASSUME exact
      PROVE  /\ entry.result.made.span = Span /\ entry.base.made.span = Span
             /\ LaidFrom(p.windows, Tail(p.left), Len(p.entries) + 1,
                         NextPosition(p.windows, Len(p.entries) + 1, Position(p), result))
  <2>1. LaidFrom(p.windows, p.left, Len(p.entries), Position(p))
    BY <1>3 DEF PassOf
  <2>2. p.left \in Seq(Range(p.left))
    BY <1>1 DEF EntriesOf
  <2>3. /\ DecodedAt(p.windows, Position(p), entry)
        /\ LaidFrom(p.windows, Tail(p.left), Len(p.entries) + 1,
                    NextPosition(p.windows, Len(p.entries) + 1, Position(p), entry.result))
    BY <2>1, <2>2, LaidTail
  <2>4. NextPosition(p.windows, Len(p.entries) + 1, Position(p), entry.result)
          = NextPosition(p.windows, Len(p.entries) + 1, Position(p), result)
    BY WholeResultsGoOn
  <2> QED
    BY <2>3, <2>4 DEF DecodedAt
<1> QED
  BY <1>2, <1>3

LEMMA ReplayKeeps ==
  ASSUME SpeechInv, Replay
  PROVE  SpeechInv'
<1> DEFINE p == run.pass
           entry == Head(p.left)
           forces == IF Unreadable(entry.base) THEN {} ELSE ForcesFor(entry.base)
           recording == run.sources[run.at]
<1>1. /\ run.phase = "decoding" /\ p.left # <<>> /\ reguided \in BOOLEAN
      /\ UNCHANGED <<spoken, cache>>
  BY DEF Replay, Inferring, InferenceUnchanged, SpeechInv
<1>2. \/ /\ forces = {} \/ SameForces(entry, forces)
         /\ \/ Abort
            \/ forces = {} /\ Accept(entry.base, entry.base, {}, Tail(p.left))
            \/ forces # {} /\ Accept(entry.result, entry.base, forces, Tail(p.left))
         /\ Reguides(entry, forces, {})
      \/ forces # {} /\ ~ SameForces(entry, forces) /\ Guided(entry, forces)
  BY DEF Replay
<1> HIDE DEF forces
<1>0. PICK texts : Reguides(entry, forces, texts)
  BY <1>2 DEF Guided
<1>3. /\ reguided' \in BOOLEAN /\ (reguided => reguided')
      /\ (~ reguided' /\ forces # entry.forces) => (~ Suspect(entry.base) /\ ~ Suspect(entry.result))
  BY <1>0, <1>1 DEF Reguides, Suspect
<1> DEFINE exact == ~ reguided'
<1>4. exact \in BOOLEAN /\ (exact => ~ reguided)
  BY <1>3
<1>5. /\ RunOf(run, exact) /\ PassOf(p, recording, Document.prompt, exact)
      /\ Span = SpanAt(p.windows, Position(p)) /\ Len(p.entries) \in Nat
  BY <1>1, <1>4, Decoding
<1>6. /\ EntryOf(entry, recording, Document.prompt)
      /\ EntriesOf(Tail(p.left), recording, Document.prompt)
      /\ exact => entry.result.made.span = Span /\ entry.base.made.span = Span
  BY <1>1, <1>4, <1>5, ReplayedEntry
<1>7. ASSUME NEW result, exact => (result = entry.result \/ (~ Suspect(result) /\ ~ Suspect(entry.result)))
      PROVE  exact => LaidFrom(p.windows, Tail(p.left), Len(p.entries) + 1,
                        NextPosition(p.windows, Len(p.entries) + 1, Position(p), result))
  BY <1>1, <1>4, <1>5, <1>7, ReplayedEntry
<1> HIDE DEF entry, exact
<1>8. ASSUME forces = {}, Accept(entry.base, entry.base, {}, Tail(p.left))
      PROVE  run' = NoRun \/ RunOf(run', exact)
  <2>1. EntryOf([result |-> entry.base, base |-> entry.base, forces |-> {}],
                recording, Document.prompt)
    BY <1>6 DEF EntryOf
  <2>2. exact => (entry.base = entry.result \/ (~ Suspect(entry.base) /\ ~ Suspect(entry.result)))
    BY <1>3, <1>6, <1>8 DEF EntryOf, entry, exact
  <2>3. exact => LaidFrom(p.windows, Tail(p.left), Len(p.entries) + 1,
                   NextPosition(p.windows, Len(p.entries) + 1, Position(p), entry.base))
    BY <1>7, <2>2
  <2> QED
    BY <1>1, <1>4, <1>5, <1>6, <1>8, <2>1, <2>3, AcceptOK
<1>9. ASSUME SameForces(entry, forces), Accept(entry.result, entry.base, forces, Tail(p.left))
      PROVE  run' = NoRun \/ RunOf(run', exact)
  <2>1. EntryOf([result |-> entry.result, base |-> entry.base, forces |-> forces],
                recording, Document.prompt)
    BY <1>6, <1>9 DEF EntryOf, SameForces
  <2>2. exact => LaidFrom(p.windows, Tail(p.left), Len(p.entries) + 1,
                   NextPosition(p.windows, Len(p.entries) + 1, Position(p), entry.result))
    BY <1>7
  <2> QED
    BY <1>1, <1>4, <1>5, <1>6, <1>9, <2>1, <2>2, AcceptOK
<1>10. ASSUME forces # {}, ~ SameForces(entry, forces), Guided(entry, forces)
       PROVE  run' = NoRun \/ RunOf(run', exact)
  <2>1. CASE run' = [run EXCEPT !.engine = TRUE, !.pass = NewPass(Track, Cached(run), TRUE)]
    <3> DEFINE q == NewPass(Track, Cached(run), TRUE)
    <3>1. PassOf(q, recording, Document.prompt, exact)
      BY <1>4, <1>5, CachedOK, NewPassOK DEF Track, exact
    <3> HIDE DEF q
    <3>2. RunOf([run EXCEPT !.engine = TRUE, !.pass = q], exact)
      BY <1>1, <1>4, <1>5, <3>1, PassExcept DEF exact
    <3> QED
      BY <2>1, <3>2 DEF q
  <2>2. ASSUME NEW result \in Decoded(forces), Reguides(entry, forces, {result}),
               Accept(result, entry.base, forces, Tail(p.left))
        PROVE  run' = NoRun \/ RunOf(run', exact)
    <3>1. /\ result.made.track = recording /\ result.made.span = Span
          /\ result.made.prompt = Document.prompt /\ result.made.forces = forces
      BY DecodedNow
    <3>2. EntryOf([result |-> result, base |-> entry.base, forces |-> forces],
                  recording, Document.prompt)
      BY <1>6, <1>10, <3>1 DEF EntryOf
    <3>3. forces # entry.forces
      BY <1>10 DEF SameForces
    <3>4. exact => ~ Suspect(result) /\ ~ Suspect(entry.result)
      BY <2>2, <3>3 DEF Reguides, Suspect, exact
    <3>5. exact => LaidFrom(p.windows, Tail(p.left), Len(p.entries) + 1,
                     NextPosition(p.windows, Len(p.entries) + 1, Position(p), result))
      BY <1>7, <3>4
    <3> QED
      BY <1>1, <1>4, <1>5, <1>6, <2>2, <3>1, <3>2, <3>5, AcceptOK
  <2> QED
    BY <1>10, <2>1, <2>2 DEF Guided, Abort
<1>11. run' = NoRun \/ RunOf(run', exact)
  <2>1. CASE Abort
    BY <2>1 DEF Abort
  <2> QED
    BY <1>2, <1>8, <1>9, <1>10, <2>1
<1> QED
  BY <1>1, <1>3, <1>11, RunGoesOn DEF exact

(* The cache is used for the prompt it was made with. *)
LEMMA LoadedOK ==
  ASSUME SpeechInv, NEW document
  PROVE  KeptOf(LoadCache(document), document.prompt, ~ reguided)
<1>1. CASE LoadCache(document) = <<>>
  <2>1. DOMAIN <<>> = {}
    OBVIOUS
  <2> QED
    BY <1>1, <2>1 DEF KeptOf
<1>2. CASE cache # Missing /\ cache.metadata = CacheMetadata(document)
            /\ LoadCache(document) = cache.tracks
  <2>1. cache.metadata.prompt = document.prompt
    BY <1>2 DEF CacheMetadata
  <2> QED
    BY <1>2, <2>1 DEF SpeechInv
<1> QED
  BY <1>1, <1>2 DEF LoadCache

LEMMA BeginKeeps ==
  ASSUME SpeechInv, NEW required, Begin(required)
  PROVE  SpeechInv'
<1> DEFINE document == spoken.documents[version]
           known == LoadCache(document)
           order == SourceOrder(document)
           r == [phase |-> "decoding", version |-> version, required |-> required,
                 sources |-> order, at |-> 1, known |-> known,
                 generated |-> known, engine |-> FALSE, pass |-> NoRun,
                 segments |-> <<>>, profiles |-> <<>>]
           exact == ~ reguided
<1>1. /\ reguided \in BOOLEAN /\ exact \in BOOLEAN /\ UNCHANGED <<spoken, cache, reguided>>
      /\ run' = NoRun \/ run' = Beginning(r)
  BY DEF Begin, SpeechInv
<1>2. KeptOf(known, document.prompt, exact)
  BY LoadedOK
<1> HIDE DEF known, order, exact
<1>3. /\ RunShape(r) /\ r.phase = "decoding" /\ r.version = version
      /\ r.known = known /\ r.generated = known
  BY DEF RunShape
<1> HIDE DEF r
<1>4. RunOf(Beginning(r), exact)
  BY <1>1, <1>2, <1>3, BeginningOK
<1>5. run' = NoRun \/ RunOf(run', exact)
  BY <1>1, <1>4
<1> QED
  BY <1>1, <1>5, RunGoesOn DEF exact

(* What the pass took is kept under the recording it went over. *)
LEMMA FinishTrackKeeps ==
  ASSUME SpeechInv, FinishTrack
  PROVE  SpeechInv'
<1> DEFINE p == run.pass
           key == run.sources[run.at]
           generated == [k \in DOMAIN run.generated \cup {key} |->
                           IF k = key THEN p.entries ELSE run.generated[k]]
           split == Eager([i \in DOMAIN p.byWindow |-> SplitSpeakerRuns(p.byWindow[i])])
           q == [p EXCEPT !.byWindow = split]
           r == [run EXCEPT !.phase = "reconciling", !.generated = generated, !.pass = q]
           exact == ~ reguided
<1>1. /\ run.phase = "decoding" /\ reguided \in BOOLEAN /\ exact \in BOOLEAN
      /\ UNCHANGED <<spoken, reguided>>
      /\ cache' = [metadata |-> CacheMetadata(Document), tracks |-> generated]
  BY DEF FinishTrack, PassDone, SpeechInv
<1>2. /\ RunOf(run, exact)
      /\ PassOf(p, key, Document.prompt, exact)
  BY <1>1, Decoding
<1>3. RunShape(run) /\ PassShape(p)
  BY <1>2 DEF RunOf, PassOf
<1>4. run' = r
  <2>1. run' = [run EXCEPT !.phase = "reconciling", !.generated = generated,
                           !.pass.byWindow = split]
    BY DEF FinishTrack
  <2> HIDE DEF generated, split
  <2> QED
    BY <2>1, <1>3 DEF RunShape, PassShape
<1> HIDE DEF exact
<1>5. KeptOf(generated, Document.prompt, exact)
  <2>1. ASSUME NEW k \in DOMAIN generated
        PROVE  /\ EntriesOf(generated[k], k, Document.prompt)
               /\ exact => LaidFrom(WindowsOf(k), generated[k], 0, FirstPosition(WindowsOf(k)))
    <3>1. CASE k = key
      <4>1. generated[k] = p.entries
        BY <3>1
      <4> QED
        BY <1>2, <3>1, <4>1, LaidThrough DEF PassOf
    <3>2. CASE k # key
      <4>1. k \in DOMAIN run.generated /\ generated[k] = run.generated[k]
        BY <2>1, <3>2
      <4> QED
        BY <1>2, <4>1 DEF RunOf, KeptOf, Document
    <3> QED
      BY <3>1, <3>2
  <2> HIDE DEF generated
  <2> QED
    BY <2>1 DEF KeptOf
<1> HIDE DEF generated
<1>6. PassShape(q) /\ q.entries = p.entries
  <2> HIDE DEF split
  <2> QED
    BY <1>3 DEF PassShape
<1> HIDE DEF q
<1>7. /\ RunShape(r) /\ r.phase = "reconciling" /\ r.version = run.version
      /\ r.sources = run.sources /\ r.at = run.at /\ r.known = run.known
      /\ r.generated = generated /\ r.pass = q
  BY <1>3 DEF RunShape
<1> HIDE DEF r
<1>8. RunOf(r, exact)
  <2>1. EntriesOf(q.entries, key, Document.prompt)
    BY <1>2, <1>6 DEF PassOf
  <2>2. KeptOf(run.known, Document.prompt, exact)
    BY <1>2 DEF RunOf, Document
  <2> QED
    BY <1>5, <1>6, <1>7, <2>1, <2>2 DEF RunOf, Document
<1>9. /\ cache'.tracks = generated /\ cache'.metadata.prompt = Document.prompt
  BY <1>1 DEF CacheMetadata
<1>10. (run = NoRun \/ RunOf(run, ~ reguided))'
  <2>1. run' = NoRun \/ RunOf(run', ~ reguided')
    BY <1>1, <1>4, <1>8 DEF exact
  <2> QED
    BY <1>1, <2>1 DEF RunOf
<1>11. (KeptOf(cache.tracks, cache.metadata.prompt, ~ reguided))'
  BY <1>1, <1>5, <1>9 DEF exact
<1>12. (reguided \in BOOLEAN)'
  BY <1>1
<1> QED
  BY <1>10, <1>11, <1>12 DEF SpeechInv

LEMMA ReconcileKeeps ==
  ASSUME SpeechInv, Reconcile
  PROVE  SpeechInv'
<1> DEFINE exact == ~ reguided
<1>1. /\ run.phase = "reconciling" /\ reguided \in BOOLEAN /\ exact \in BOOLEAN
      /\ UNCHANGED <<spoken, cache, reguided>>
  BY DEF Reconcile, SpeechInv
<1>2. RunOf(run, exact)
  BY <1>1 DEF SpeechInv, NoRun
<1> DEFINE Following(segments, profiles) ==
             [WithTrack(run, segments, profiles) EXCEPT !.at = @ + 1, !.phase = "decoding"]
           LastOne(segments, profiles) ==
             [WithTrack(run, segments, profiles) EXCEPT !.phase = "rendering"]
<1>3. run' = NoRun \/ \E segments, profiles :
        run' = Beginning(Following(segments, profiles)) \/ run' = LastOne(segments, profiles)
  BY DEF Reconcile, Abort
<1> HIDE DEF exact
<1>4. RunShape(run) /\ KeptOf(run.known, Document.prompt, exact)
      /\ KeptOf(run.generated, Document.prompt, exact)
  BY <1>2 DEF RunOf, Document
<1>5. ASSUME NEW segments, NEW profiles
      PROVE  /\ RunOf(Beginning(Following(segments, profiles)), exact)
             /\ RunOf(LastOne(segments, profiles), exact)
  <2> DEFINE done == WithTrack(run, segments, profiles)
             r == [done EXCEPT !.at = @ + 1, !.phase = "decoding"]
             s == [done EXCEPT !.phase = "rendering"]
  <2>1. /\ RunShape(done) /\ done.known = run.known /\ done.generated = run.generated
        /\ done.version = run.version
    <3> DEFINE labelled == [n \in DOMAIN segments |-> segments[n] @@ [role |-> Role]]
    <3>1. done = [run EXCEPT !.profiles = profiles, !.segments = @ \o labelled]
      BY DEF WithTrack
    <3> HIDE DEF done, labelled
    <3> QED
      BY <1>4, <3>1 DEF RunShape
  <2> HIDE DEF done
  <2>2. /\ RunShape(r) /\ r.phase = "decoding" /\ r.known = run.known
        /\ r.generated = run.generated /\ r.version = run.version
    BY <2>1 DEF RunShape
  <2>3. /\ RunShape(s) /\ s.phase = "rendering" /\ s.known = run.known
        /\ s.generated = run.generated /\ s.version = run.version
    BY <2>1 DEF RunShape
  <2> HIDE DEF r, s
  <2>4. RunOf(Beginning(r), exact)
    BY <1>1, <1>4, <2>2, BeginningOK DEF Document
  <2>5. RunOf(s, exact)
    BY <1>4, <2>3 DEF RunOf, Document
  <2> QED
    BY <2>4, <2>5 DEF r, s, done
<1> HIDE DEF Following, LastOne
<1>6. run' = NoRun \/ RunOf(run', exact)
  BY <1>3, <1>5
<1> QED
  BY <1>1, <1>6, RunGoesOn DEF exact

(* The steps that decode nothing. *)
LEMMA OutcomeKeeps ==
  ASSUME SpeechInv, Render \/ PublishVoiceprints \/ PublishTranscript \/ StopRun
  PROVE  SpeechInv'
<1> DEFINE exact == ~ reguided
           Passing(segments, phase) == [run EXCEPT !.phase = phase, !.segments = segments]
<1>1. reguided \in BOOLEAN /\ exact \in BOOLEAN /\ UNCHANGED <<spoken, cache, reguided>>
  BY DEF SpeechInv, Render, PublishVoiceprints, PublishTranscript, StopRun
<1>2. \/ run' = NoRun
      \/ /\ run.phase \in {"rendering", "publishing"}
         /\ \E segments : \E phase \in {"publishing", "published"} :
              run' = Passing(segments, phase)
  <2>1. CASE Render
    BY <2>1 DEF Render
  <2>2. CASE PublishVoiceprints
    <3>1. run.phase = "publishing" /\ run' = [run EXCEPT !.phase = "published"]
      BY <2>2 DEF PublishVoiceprints
    <3>2. RunShape(run)
      BY <3>1 DEF SpeechInv, NoRun, RunOf
    <3>3. run' = [run EXCEPT !.phase = "published", !.segments = run.segments]
      BY <3>1, <3>2 DEF RunShape
    <3> QED
      BY <3>1, <3>3
  <2>3. CASE PublishTranscript \/ StopRun
    BY <2>3 DEF PublishTranscript, StopRun
  <2> QED
    BY <2>1, <2>2, <2>3
<1>3. ASSUME run.phase \in {"rendering", "publishing"},
             NEW segments, NEW phase \in {"publishing", "published"}
      PROVE  RunOf(Passing(segments, phase), exact)
  <2> DEFINE r == Passing(segments, phase)
  <2>1. RunOf(run, exact)
    BY <1>3 DEF SpeechInv, NoRun
  <2> HIDE DEF exact
  <2>2. RunShape(run)
    BY <2>1 DEF RunOf
  <2>3. /\ RunShape(r) /\ r.phase = phase /\ r.version = run.version
        /\ r.known = run.known /\ r.generated = run.generated
    BY <2>2 DEF RunShape
  <2> HIDE DEF r
  <2>4. RunOf(r, exact)
    BY <2>1, <2>3 DEF RunOf
  <2> QED
    BY <2>4 DEF r
<1>4. run' = NoRun \/ RunOf(run', exact)
  <2> HIDE DEF exact, Passing
  <2> QED
    BY <1>2, <1>3
<1> QED
  BY <1>1, <1>4, RunGoesOn

LEMMA SpeechStutter ==
  ASSUME SpeechInv, UNCHANGED <<spoken, cache, run, reguided>>
  PROVE  SpeechInv'
<1>1. reguided' = reguided /\ reguided \in BOOLEAN
  BY DEF SpeechInv
<1>2. run' = NoRun \/ RunOf(run', ~ reguided')
  BY <1>1 DEF SpeechInv
<1> QED
  BY <1>1, <1>2, RunGoesOn

LEMMA SpeechInitial ==
  ASSUME SpeechInit
  PROVE  SpeechInv
BY DEF SpeechInit, SpeechInv

LEMMA SpeechStep ==
  ASSUME SpeechInv, [SpeechNext]_speechVars
  PROVE  SpeechInv'
<1>1. CASE \E required \in BOOLEAN : Begin(required)
  BY <1>1, BeginKeeps
<1>2. CASE Transcribe
  BY <1>2, TranscribeKeeps
<1>3. CASE Replay
  BY <1>3, ReplayKeeps
<1>4. CASE CacheEnded \/ CacheUnused
  BY <1>4, DiscardKeeps
<1>5. CASE FinishTrack
  BY <1>5, FinishTrackKeeps
<1>6. CASE Reconcile
  BY <1>6, ReconcileKeeps
<1>7. CASE Render \/ PublishVoiceprints \/ PublishTranscript \/ StopRun
  BY <1>7, OutcomeKeeps
<1>8. CASE EditDocument
  BY <1>8, SpeechStutter DEF EditDocument
<1>9. CASE UNCHANGED speechVars
  BY <1>9, SpeechStutter DEF speechVars
<1> QED
  BY <1>1, <1>2, <1>3, <1>4, <1>5, <1>6, <1>7, <1>8, <1>9 DEF SpeechNext

(* SpeechInv holds always: what a run knows, has generated and what is cached *)
(* was decoded from the recording it is kept under, and lies one after        *)
(* another as a pass over that recording goes.                                *)
THEOREM CacheInvariant == SpeechSpec => []SpeechInv
<1>1. SpeechInit => SpeechInv
  BY SpeechInitial
<1>2. SpeechInv /\ [SpeechNext]_speechVars => SpeechInv'
  BY SpeechStep
<1> QED
  BY <1>1, <1>2, PTL DEF SpeechSpec

(* What a pass takes was decoded from its recording, under its prompt, with   *)
(* the labels its text asks for, and from the span it stands for unless a     *)
(* recovered window was replayed under other forces (transcribe in            *)
(* pipeline.py, replay in moss_cache.py).                                     *)
THEOREM GenerationsAreOfTheirInputs == SpeechSpec => []GenerationsAreReusedForTheirInputs
<1>1. SpeechInv => GenerationsAreReusedForTheirInputs
  <2> SUFFICES ASSUME SpeechInv, run.phase = "decoding",
                      NEW n \in DOMAIN run.pass.entries
               PROVE  LET e == run.pass.entries[n]
                      IN /\ \A g \in {e.result, e.base} :
                              /\ g.made.track = run.sources[run.at]
                              /\ g.made.prompt = Document.prompt
                              /\ ~ reguided => g.made.span = run.pass.spans[n]
                         /\ e.result.made.forces = e.forces
    BY DEF GenerationsAreReusedForTheirInputs
  <2> DEFINE exact == ~ reguided
  <2>1. exact \in BOOLEAN
    BY DEF SpeechInv
  <2>2. PassOf(run.pass, run.sources[run.at], Document.prompt, exact)
    BY <2>1, Decoding
  <2> HIDE DEF exact
  <2>3. n \in 1 .. Len(run.pass.entries)
    BY <2>2 DEF PassOf, EntriesOf
  <2>4. EntryOf(run.pass.entries[n], run.sources[run.at], Document.prompt)
    BY <2>2, <2>3 DEF PassOf, EntriesOf
  <2>5. exact => \A g \in {run.pass.entries[n].result, run.pass.entries[n].base} :
                   g.made.span = run.pass.spans[n]
    BY <2>2, <2>3 DEF PassOf
  <2> QED
    BY <2>4, <2>5 DEF EntryOf, exact
<1> QED
  BY <1>1, CacheInvariant, PTL
=============================================================================
