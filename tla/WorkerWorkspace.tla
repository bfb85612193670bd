-------------------------- MODULE WorkerWorkspace --------------------------
(***************************************************************************)
(* ml-worker: processes that share a cache directory claim the attempts of   *)
(* one mdstore job.  Each works in a directory of the job's fingerprint,     *)
(* beside a scratch directory and a model cache that belong to the job, and  *)
(* uploads what its recipe wrote there.  A lease may be lost at any time,    *)
(* and is noticed by a heartbeat thread only.                                *)
(*                                                                          *)
(* What a file holds is said by where it came from: a recording by the       *)
(* version of its document, an input by its asset, an output by the attempt  *)
(* that wrote it and the files it read.                                      *)
(***************************************************************************)
EXTENDS Naturals, FiniteSets, Functions

CONSTANTS NoProcess,       \* nobody holds the lock
          Absent,          \* a file that is not there
          WorkerProcesses,
          JobScenarios     \* [inputs: version |-> path |-> asset, recipe, outputs, attempts, faults]

ASSUME WorkersAssumption ==
    /\ NoProcess \notin WorkerProcesses
    /\ \A s \in JobScenarios :
         /\ 1 \in DOMAIN s.inputs
         /\ \A v \in DOMAIN s.inputs :
              s.inputs[v] = [i \in DOMAIN s.inputs[v] |-> s.inputs[v][i]]
         /\ s.attempts \in Nat
         /\ s.faults \in Nat

VARIABLES
    jobs,        \* the scenario
    lease,       \* mdstore: [version, attempt, held, done], attempt counts up
    disk,        \* the job's directory: [dirs, scratch, shared, lock]
    attempts,    \* process |-> the attempt it works on
    resident,    \* process |-> the model group of the recipe: [loaded, finished]
    accepted,    \* history: the completions mdstore accepted
    workerFaults

workerVars == <<jobs, lease, disk, attempts, resident, accepted, workerFaults>>

Versions == DOMAIN jobs.inputs
InputPaths(v) == DOMAIN jobs.inputs[v]
Workspace(v) == [source |-> Absent, inputs |-> [i \in InputPaths(v) |-> Absent],
                 outputs |-> [o \in jobs.outputs |-> Absent], moss |-> Absent]
Idle == [phase |-> "idle"]
IsCurrent(a) == lease.held /\ lease.attempt = a.attempt /\ lease.version = a.version

Enters(p, phase) == attempts' = [attempts EXCEPT ![p].phase = phase]
Dir(p) == disk.dirs[attempts[p].version]
StoreKept == UNCHANGED <<jobs, lease, accepted, workerFaults>>

(***************************************************************************)
(* mdstore: one lease at a time, which it takes back when heartbeats stop    *)
(* or the document changes.                                                  *)
(***************************************************************************)
Revise ==
    /\ \E v \in Versions : v = lease.version + 1 /\ lease' = [lease EXCEPT !.version = v, !.held = FALSE, !.done = FALSE]
    /\ UNCHANGED <<jobs, disk, attempts, resident, accepted, workerFaults>>
Expire ==
    /\ lease.held
    /\ lease' = [lease EXCEPT !.held = FALSE]
    /\ UNCHANGED <<jobs, disk, attempts, resident, accepted, workerFaults>>

(* The server may hear of it, when the lease was not noticed to be lost.     *)
FailureReported(a) ==
    IF a.lost \/ ~ IsCurrent(a) THEN lease' = lease ELSE lease' = [lease EXCEPT !.held = FALSE]

(***************************************************************************)
(* Claiming.  A process that finds the job's lock taken gives the attempt up *)
(* without a word to the server.  Workspaces of other versions go.           *)
(***************************************************************************)
(* Faulty variant: the lock file is opened and not locked. *)
FreeForAll(p) == TRUE

LockFree(p) == disk.lock = NoProcess

Claim(p) ==
    LET v == lease.version
        attempt == [phase |-> "preparing", attempt |-> lease.attempt + 1, version |-> v,
                    lost |-> FALSE, fetched |-> {}, sent |-> {}, uploads |-> <<>>]
    IN /\ attempts[p].phase = "idle"
       /\ ~ lease.held /\ ~ lease.done /\ lease.attempt < jobs.attempts
       /\ lease' = [lease EXCEPT !.attempt = @ + 1, !.held = TRUE]
       /\ IF LockFree(p)
          THEN /\ attempts' = [attempts EXCEPT ![p] = attempt]
               /\ disk' = [disk EXCEPT !.lock = p, !.scratch = Absent,
                             !.dirs = [u \in Versions |-> IF u = v THEN @[u] ELSE Workspace(u)]]
          ELSE UNCHANGED <<attempts, disk>>
       /\ UNCHANGED <<jobs, resident, accepted, workerFaults>>

(* The scratch directory is made, the recording written.                     *)
Prepare(p) ==
    /\ attempts[p].phase = "preparing"
    /\ disk' = [disk EXCEPT !.scratch = attempts[p].attempt,
                            !.dirs[attempts[p].version].source = attempts[p].version]
    /\ Enters(p, "downloading")
    /\ StoreKept /\ UNCHANGED resident

(* Its own finally, which follows every end but the death of the process.    *)
Leaves(p) ==
    /\ attempts' = [attempts EXCEPT ![p] = Idle]
    /\ disk' = [disk EXCEPT !.scratch = Absent, !.lock = NoProcess]

(* An input that is there with the right digest is not downloaded; what is   *)
(* downloaded is renamed into place when its digest is right.                *)
Download(p) ==
    LET a == attempts[p]
    IN /\ a.phase = "downloading" /\ ~ a.lost
       /\ \E i \in InputPaths(a.version) \ a.fetched :
            /\ Dir(p).inputs[i] = jobs.inputs[a.version][i] \/ IsCurrent(a)
            /\ disk' = [disk EXCEPT !.dirs[a.version].inputs[i] = jobs.inputs[a.version][i]]
            /\ attempts' = [attempts EXCEPT ![p].fetched = @ \cup {i}]
       /\ StoreKept /\ UNCHANGED resident

ClearOutputs(p) ==
    LET a == attempts[p]
    IN /\ a.phase = "downloading" /\ a.fetched = InputPaths(a.version)
       /\ disk' = [disk EXCEPT !.dirs[a.version].outputs = [o \in jobs.outputs |-> Absent]]
       /\ Enters(p, "cleared")
       /\ StoreKept /\ UNCHANGED resident

(***************************************************************************)
(* Processing, under the lock of the model group.  A transcription starts    *)
(* from the generations of an earlier version of the recording.              *)
(***************************************************************************)
StartRecipe(p) ==
    LET a == attempts[p]
    IN /\ a.phase = "cleared" /\ ~ a.lost
       /\ disk' = IF jobs.recipe = "speech" /\ Dir(p).moss = Absent
                  THEN [disk EXCEPT !.dirs[a.version].moss = disk.shared] ELSE disk
       /\ resident' = [resident EXCEPT ![p].loaded = TRUE]
       /\ Enters(p, "processing")
       /\ StoreKept

Written(p) == [attempt |-> attempts[p].attempt, source |-> Dir(p).source, inputs |-> Dir(p).inputs]
WriteOutput(p) ==
    LET a == attempts[p]
    IN /\ a.phase = "processing"
       /\ \E o \in jobs.outputs :
            /\ Dir(p).outputs[o] = Absent
            /\ disk' = [disk EXCEPT !.dirs[a.version].outputs[o] = Written(p),
                                    !.dirs[a.version].moss = IF jobs.recipe = "speech" THEN a.version ELSE @]
       /\ StoreKept /\ UNCHANGED <<attempts, resident>>

(* The model group is released, and the generations go back beside the       *)
(* workspaces, whether the recipe failed or not.                             *)
Released(p) == resident' = [resident EXCEPT ![p].finished = "now"]
CopiedBack(p) == IF Dir(p).moss = Absent THEN disk ELSE [disk EXCEPT !.shared = Dir(p).moss]

EndRecipe(p) ==
    /\ attempts[p].phase = "processing"
    /\ \A o \in jobs.outputs : Dir(p).outputs[o] # Absent
    /\ Released(p)
    /\ disk' = CopiedBack(p)
    /\ Enters(p, "publishing")
    /\ StoreKept

RecipeFails(p) ==
    /\ attempts[p].phase = "processing"
    /\ Released(p)
    /\ disk' = [CopiedBack(p) EXCEPT !.scratch = Absent, !.lock = NoProcess]
    /\ attempts' = [attempts EXCEPT ![p] = Idle]
    /\ FailureReported(attempts[p])
    /\ UNCHANGED <<jobs, accepted, workerFaults>>

(***************************************************************************)
(* Publishing, every upload under the lease.  The answer of a completion may *)
(* be lost and is asked for again: mdstore takes the same completion twice.  *)
(***************************************************************************)
Upload(p) ==
    LET a == attempts[p]
    IN /\ a.phase = "publishing" /\ ~ a.lost /\ IsCurrent(a)
       /\ \E o \in jobs.outputs \ a.sent :
            /\ Dir(p).outputs[o] # Absent
            /\ attempts' = [attempts EXCEPT ![p].sent = @ \cup {o},
                                            ![p].uploads = [k \in DOMAIN @ \cup {o} |-> IF k = o THEN Dir(p).outputs[o] ELSE a.uploads[k]]]
       /\ StoreKept /\ UNCHANGED <<disk, resident>>

Complete(p) ==
    LET a == attempts[p]
    IN /\ a.phase = "publishing" /\ ~ a.lost /\ a.sent = jobs.outputs /\ IsCurrent(a)
       /\ lease' = [lease EXCEPT !.held = FALSE, !.done = TRUE]
       /\ accepted' = accepted \cup {[attempt |-> a.attempt, version |-> a.version, outputs |-> a.uploads]}
       /\ Leaves(p)
       /\ UNCHANGED <<jobs, resident, workerFaults>>

(* Any request may fail, and does when the lease is lost; so does the attempt.*)
GiveUp(p) ==
    /\ attempts[p].phase \in {"preparing", "downloading", "cleared", "publishing"}
    /\ ~ IsCurrent(attempts[p]) \/ workerFaults > 0
    /\ workerFaults' = IF IsCurrent(attempts[p]) THEN workerFaults - 1 ELSE workerFaults
    /\ FailureReported(attempts[p])
    /\ Leaves(p)
    /\ UNCHANGED <<jobs, resident, accepted>>

HeartbeatFails(p) ==
    /\ attempts[p].phase # "idle"
    /\ ~ attempts[p].lost /\ ~ IsCurrent(attempts[p])
    /\ attempts' = [attempts EXCEPT ![p].lost = TRUE]
    /\ StoreKept /\ UNCHANGED <<disk, resident>>

(* The process dies: its lock goes with it, its files and its lease stay.    *)
WorkerDies(p) ==
    /\ attempts[p].phase # "idle" /\ workerFaults > 0
    /\ workerFaults' = workerFaults - 1
    /\ attempts' = [attempts EXCEPT ![p] = Idle]
    /\ disk' = [disk EXCEPT !.lock = NoProcess]
    /\ resident' = [resident EXCEPT ![p] = [loaded |-> FALSE, finished |-> "never"]]
    /\ UNCHANGED <<jobs, lease, accepted>>

(***************************************************************************)
(* The maintenance thread.  A group in use has its lock taken.               *)
(***************************************************************************)
(* Faulty variant: a group's lock is not asked for. *)
EvictAnyway(p) == TRUE

GroupFree(p) == attempts[p].phase # "processing"

GrowOld(p) ==
    /\ resident[p].finished = "now"
    /\ resident' = [resident EXCEPT ![p].finished = "long ago"]
    /\ StoreKept /\ UNCHANGED <<disk, attempts>>
Evict(p) ==
    /\ resident[p].finished = "long ago" /\ GroupFree(p)
    /\ resident' = [resident EXCEPT ![p] = [loaded |-> FALSE, finished |-> "never"]]
    /\ StoreKept /\ UNCHANGED <<disk, attempts>>

WorkerInit ==
    /\ jobs \in JobScenarios
    /\ lease = [version |-> 1, attempt |-> 0, held |-> FALSE, done |-> FALSE]
    /\ disk = [dirs |-> [v \in Versions |-> Workspace(v)], scratch |-> Absent,
               shared |-> Absent, lock |-> NoProcess]
    /\ attempts = [p \in WorkerProcesses |-> Idle]
    /\ resident = [p \in WorkerProcesses |-> [loaded |-> FALSE, finished |-> "never"]]
    /\ accepted = {}
    /\ workerFaults = jobs.faults

WorkerNext ==
    \/ Revise \/ Expire
    \/ \E p \in WorkerProcesses :
         \/ Claim(p) \/ Prepare(p) \/ Download(p) \/ ClearOutputs(p)
         \/ StartRecipe(p) \/ WriteOutput(p) \/ EndRecipe(p) \/ RecipeFails(p)
         \/ Upload(p) \/ Complete(p) \/ GiveUp(p)
         \/ HeartbeatFails(p) \/ WorkerDies(p) \/ GrowOld(p) \/ Evict(p)

WorkerSpec == WorkerInit /\ [][WorkerNext]_workerVars

(***************************************************************************)
(* Properties.                                                               *)
(***************************************************************************)

(* What mdstore accepted was written by the attempt that completed, all of   *)
(* it from the recording and the inputs of the version it was leased for;    *)
(* while an attempt works nobody takes its scratch directory or its files.   *)
AttemptsReadTheirOwnFiles ==
    /\ \A c \in accepted : \A o \in jobs.outputs :
         c.outputs[o] = [attempt |-> c.attempt, source |-> c.version, inputs |-> jobs.inputs[c.version]]
    /\ \A p \in WorkerProcesses :
         attempts[p].phase \in {"cleared", "processing", "publishing"} =>
            /\ disk.scratch = attempts[p].attempt
            /\ Dir(p).inputs = jobs.inputs[attempts[p].version]

(* A recipe that runs has its models, however long ago they were used.       *)
ModelsInUseAreLoaded ==
    \A p \in WorkerProcesses : attempts[p].phase = "processing" => resident[p].loaded

(* The two together: what README calls isolated workspaces and groups that   *)
(* are never evicted in use.                                                 *)
JobsAreIsolated == AttemptsReadTheirOwnFiles /\ ModelsInUseAreLoaded
=============================================================================
