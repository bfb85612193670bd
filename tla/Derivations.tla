----------------------------- MODULE Derivations -----------------------------
(***************************************************************************)
(* Derived documents of mdstore (mdstore/src/store/artifacts.rs) and the   *)
(* lease protocol of the workers that make them (ml-worker/src/ml_worker/  *)
(* worker.py, client.py).                                                  *)
(*                                                                         *)
(* A worker claims a job under an attempt secret, reads the parameters and *)
(* reference vectors it is handed and later downloads its inputs, and      *)
(* completes with outputs that are committed together with a manifest that *)
(* says what they were made from.  Meanwhile clients edit the sources,     *)
(* operators commit without the repository lock, leases expire, requests   *)
(* arrive late or twice, and the daemon crashes.                           *)
(*                                                                         *)
(* The revision of a repository state is fresh for every commit, which is  *)
(* all the compare-and-swap of commit_tree looks at; how the commit itself *)
(* is made and recovered is the subject of MdStore.                        *)
(***************************************************************************)
EXTENDS Naturals, Sequences, FiniteSets

CONSTANTS Derivations,  \* declared derivations and those that might be
          Values,       \* what the declared fields and inputs can be
          References(_),\* derivations whose outputs are its reference vectors
          None,
          MaxAttempts,  \* bound: claims, in the scenarios that allow most
          MaxFailures,  \* failures after which a job is given up (3 in the code)
          Scenarios     \* derivations that may be declared, bounds of claims and
                        \* of everything else, to choose from

Scenario ==
  [derivations : SUBSET Derivations, attempts : 0 .. MaxAttempts, edits : Nat,
   external : Nat, reverts : Nat, retries : Nat, expiries : Nat, failures : Nat,
   crashes : Nat, faults : Nat]

(* References to attempts, and jobs, in terms of the numbers of attempts. *)
RefsTo(n) == UNION {[D -> n] : D \in SUBSET Derivations}

JobSet(n) ==
  [fingerprint : Values, status : {"queued", "running", "current", "failed"},
   attempt : n \cup {None}, live : BOOLEAN, failures : Nat, refs : RefsTo(n),
   rerun : BOOLEAN]

ASSUME DerivationsAssumption ==
  /\ None \notin Nat
  /\ None \notin JobSet(Nat)
  /\ \A d \in Derivations : References(d) \subseteq Derivations
  /\ MaxFailures \in Nat \ {0}
  /\ MaxAttempts \in Nat
  /\ Scenarios \subseteq Scenario

VARIABLES
  head,       \* what HEAD holds: revision, inputs, declarations, manifest
  snapshot,   \* the StoreState readers and handlers see
  jobs,       \* mdstore/jobs.json
  attempts,   \* what each attempt was given, fetched and sent
  publishing, \* the publication complete_job is committing under the lock
  retried,    \* history: attempts made before the last retry of a job
  budget

vars == <<head, snapshot, jobs, attempts, publishing, retried, budget>>

Attempts == DOMAIN attempts

Init ==
  /\ budget \in Scenarios
  /\ \E declared \in SUBSET budget.derivations, v \in Values :
       head = [rev |-> 1, value |-> [d \in Derivations |-> v],
               declared |-> declared, pubs |-> [d \in Derivations |-> None]]
  /\ snapshot = head
  /\ jobs = [d \in Derivations |-> None]
  /\ attempts = <<>>
  /\ publishing = None
  /\ retried = [d \in Derivations |-> 0]

Spend(kind) == /\ budget[kind] > 0
               /\ budget' = [budget EXCEPT ![kind] = @ - 1]

(* Every handler below takes the repository lock. *)
LockFree == publishing = None

(***************************************************************************)
(* Jobs are projected from the declarations, the manifest and jobs.json.   *)
(* live stands for expires > now: the lease of a running job, the backoff  *)
(* of a queued one.                                                        *)
(***************************************************************************)
(* The fingerprint hashes the declared fields and input assets. *)
Fingerprint(repo, d) == repo.value[d]

IsCurrent(repo, d) ==
  repo.pubs[d] # None /\ repo.pubs[d].fingerprint = Fingerprint(repo, d)

NewJob(repo, d) ==
  [fingerprint |-> Fingerprint(repo, d), status |-> "queued", attempt |-> None,
   live |-> FALSE, failures |-> 0, refs |-> <<>>, rerun |-> FALSE]

(* Changed inputs requeue the job and fence its attempt. *)
Refingerprinted(repo, d, job) ==
  IF job.fingerprint = Fingerprint(repo, d) THEN job
  ELSE [NewJob(repo, d) EXCEPT !.refs = job.refs, !.rerun = job.rerun]

(* Faulty variant: a published job is current although it was retried. *)
ReconciledIgnoringRerun(repo, d, stored) ==
  LET job == Refingerprinted(repo, d, stored)
  IN  IF IsCurrent(repo, d)
      THEN [job EXCEPT !.status = "current", !.attempt = None, !.rerun = FALSE]
      ELSE IF job.status = "running" /\ ~job.live
           THEN [job EXCEPT !.status = "queued", !.attempt = None]
           ELSE job

(* Faulty variant: an expired lease is not taken back. *)
ReconciledForever(repo, d, stored) ==
  LET job == Refingerprinted(repo, d, stored)
  IN  IF IsCurrent(repo, d)
           /\ (job.rerun => repo.pubs[d].attempt = job.attempt)
      THEN [job EXCEPT !.status = "current", !.attempt = None, !.rerun = FALSE]
      ELSE job

ReconciledJob(repo, d, stored) ==
  LET job == Refingerprinted(repo, d, stored)
  IN  IF IsCurrent(repo, d)
           /\ (job.rerun => repo.pubs[d].attempt = job.attempt)
      THEN [job EXCEPT !.status = "current", !.attempt = None, !.rerun = FALSE]
      ELSE IF job.status = "running" /\ ~job.live
           THEN [job EXCEPT !.status = "queued", !.attempt = None]
           ELSE job

(* reconcile_jobs: jobs of declarations that are gone are dropped. *)
Reconciled(repo) ==
  [d \in Derivations |->
     IF d \notin repo.declared THEN None
     ELSE ReconciledJob(repo, d, IF jobs[d] = None THEN NewJob(repo, d)
                                                   ELSE jobs[d])]

(* Dropping a job forgets its retries. *)
Save(saved) ==
  /\ jobs' = saved
  /\ retried' = [d \in Derivations |-> IF saved[d] = None THEN 0 ELSE retried[d]]

(* Faulty variant: any running attempt of the job will do. *)
LeaseHeldByAnyone(a, reconciled) ==
  LET job == reconciled[attempts[a].job]
  IN  job # None /\ job.status = "running" /\ job.live

(* check_lease *)
LeaseHeld(a, reconciled) ==
  LET job == reconciled[attempts[a].job]
  IN  /\ job # None
      /\ job.status = "running"
      /\ job.live
      /\ job.attempt = a

ListJobs ==
  /\ LockFree
  /\ snapshot' = head
  /\ Save(Reconciled(head))
  /\ UNCHANGED <<head, attempts, publishing, budget>>

RetryJob(d) ==
  /\ LockFree
  /\ d \in head.declared
  /\ Spend("retries")
  /\ snapshot' = head
  /\ jobs' = [Reconciled(head) EXCEPT
                ![d].rerun = TRUE, ![d].status = "queued", ![d].attempt = None,
                ![d].failures = 0, ![d].live = FALSE]
  /\ retried' = [e \in Derivations |->
                   IF e = d THEN Len(attempts)
                   ELSE IF jobs'[e] = None THEN 0 ELSE retried[e]]
  /\ UNCHANGED <<head, attempts, publishing>>

(***************************************************************************)
(* An attempt is handed the parameters and the references that are current *)
(* at the claim; it downloads its inputs later, under the lease.           *)
(***************************************************************************)
CurrentReferences(repo, d) ==
  [s \in {s \in References(d) \ {d} : IsCurrent(repo, s)} |->
     repo.pubs[s].attempt]

ClaimJob(d) ==
  /\ LockFree
  /\ Len(attempts) < budget.attempts
  /\ d \in head.declared
  /\ snapshot' = head
  /\ LET saved == Reconciled(head)
         refs  == CurrentReferences(head, d)
     IN  /\ saved[d].status = "queued"
         /\ ~saved[d].live
         /\ Save([saved EXCEPT
                    ![d].status = "running", ![d].attempt = Len(attempts) + 1,
                    ![d].live = TRUE, ![d].refs = refs])
         /\ attempts' = Append(attempts,
              [job |-> d, params |-> head.value[d], refs |-> refs,
               fetched |-> None, stage |-> "claimed"])
  /\ UNCHANGED <<head, publishing, budget>>

(* leased_asset looks at the snapshot and saves nothing; a worker whose     *)
(* lease is refused gives up.                                               *)
Fetch(a) ==
  /\ LockFree
  /\ attempts[a].stage = "claimed"
  /\ attempts' =
       IF LeaseHeld(a, Reconciled(snapshot))
       THEN [attempts EXCEPT ![a].stage = "fetched",
                             ![a].fetched = snapshot.value[attempts[a].job]]
       ELSE [attempts EXCEPT ![a].stage = "failed"]
  /\ UNCHANGED <<head, snapshot, jobs, publishing, retried, budget>>

(* heartbeat does not refresh either, but saves what it reconciled. *)
Heartbeat(a) ==
  /\ LockFree
  /\ attempts[a].stage \in {"claimed", "fetched"}
  /\ LET saved == Reconciled(snapshot)
     IN  IF LeaseHeld(a, saved)
         THEN /\ Save([saved EXCEPT ![attempts[a].job].live = TRUE])
              /\ UNCHANGED attempts
         ELSE /\ attempts' = [attempts EXCEPT ![a].stage = "failed"]
              /\ UNCHANGED <<jobs, retried>>
  /\ UNCHANGED <<head, snapshot, publishing, budget>>

(* A worker also reports a failure when both answers to its completion were *)
(* lost, so the completion may be processed before or after the report.     *)
HeartbeatFailure(a) ==
  /\ LockFree
  /\ attempts[a].stage # "failed"
  /\ Spend("failures")
  /\ LET d     == attempts[a].job
         saved == Reconciled(snapshot)
         count == saved[d].failures + 1
     IN  /\ LeaseHeld(a, saved)
         /\ Save([saved EXCEPT
                    ![d].failures = count, ![d].attempt = None, ![d].live = TRUE,
                    ![d].status = IF count >= MaxFailures THEN "failed"
                                                          ELSE "queued"])
  /\ attempts' = [attempts EXCEPT ![a].stage =
                    IF @ \in {"claimed", "fetched"} THEN "failed" ELSE @]
  /\ UNCHANGED <<head, snapshot, publishing>>

(* The worker posts its completion and stops heartbeating; the request, and *)
(* its retry with the same bytes, may be processed at any time afterwards,  *)
(* any number of times.                                                     *)
SendComplete(a) ==
  /\ attempts[a].stage = "fetched"
  /\ attempts' = [attempts EXCEPT ![a].stage = "sent"]
  /\ UNCHANGED <<head, snapshot, jobs, publishing, retried, budget>>

(* The references of the lease are still the current publications. *)
ReferencesHold(refs, repo) ==
  \A s \in DOMAIN refs : /\ IsCurrent(repo, s)
                         /\ repo.pubs[s].attempt = refs[s]

(* complete_job up to its commit: a replay of a published attempt succeeds, *)
(* anything else must hold the lease of the job as it is now.               *)
CompleteJob(a) ==
  /\ LockFree
  /\ attempts[a].stage \in {"sent", "delivered"}
  /\ attempts' = [attempts EXCEPT ![a].stage = "delivered"]
  /\ snapshot' = head
  /\ LET d    == attempts[a].job
         now  == Reconciled(head)
         done == head.pubs[d] # None /\ head.pubs[d].attempt = a
     IN  publishing' =
           IF ~done /\ LeaseHeld(a, now) /\ ReferencesHold(now[d].refs, head)
           THEN [job |-> d, base |-> head.rev, committed |-> FALSE,
                 pub |-> [fingerprint |-> now[d].fingerprint, attempt |-> a,
                          refs |-> now[d].refs]]
           ELSE None
  /\ UNCHANGED <<head, jobs, retried, budget>>

(* Faulty variant: the publication is committed on whatever HEAD is. *)
PublishOnHead ==
  /\ publishing # None
  /\ ~publishing.committed
  /\ head' = [head EXCEPT !.rev = @ + 1,
                          !.pubs[publishing.job] = publishing.pub]
  /\ publishing' = [publishing EXCEPT !.committed = TRUE, !.base = head.rev]
  /\ UNCHANGED <<snapshot, jobs, attempts, retried, budget>>

(* commit_artifacts and commit_candidate: compare-and-swap on HEAD. *)
Publish ==
  /\ publishing # None
  /\ ~publishing.committed
  /\ IF head.rev = publishing.base
     THEN /\ head' = [head EXCEPT !.rev = @ + 1,
                                  !.pubs[publishing.job] = publishing.pub]
          /\ publishing' = [publishing EXCEPT !.committed = TRUE]
     ELSE publishing' = None /\ UNCHANGED head
  /\ UNCHANGED <<snapshot, jobs, attempts, retried, budget>>

(* publish_snapshot, unless HEAD advanced again. *)
Announce ==
  /\ publishing # None
  /\ publishing.committed
  /\ snapshot' = IF head.rev = publishing.base + 1 THEN head ELSE snapshot
  /\ publishing' = None
  /\ UNCHANGED <<head, jobs, attempts, retried, budget>>

(* A file or Git step before or after the commit fails. *)
PublicationFails ==
  /\ publishing # None
  /\ Spend("faults")
  /\ publishing' = None
  /\ UNCHANGED <<head, snapshot, jobs, attempts, retried>>

(***************************************************************************)
(* The environment.                                                        *)
(***************************************************************************)
(* The worker heartbeats every half minute, and its two last requests time  *)
(* out after a minute each: the lease of five minutes outlasts them.        *)
LeaseKept(d) ==
  /\ jobs[d].status = "running"
  /\ attempts[jobs[d].attempt].stage \in {"claimed", "fetched", "sent"}

(* The lease runs out all the same: the worker was suspended. *)
ExpireEarly(d) ==
  /\ jobs[d] # None
  /\ jobs[d].live
  /\ LeaseKept(d)
  /\ Spend("expiries")
  /\ jobs' = [jobs EXCEPT ![d].live = FALSE]
  /\ UNCHANGED <<head, snapshot, attempts, publishing, retried>>

(* A backoff, or the lease of a worker that stopped, runs out. *)
Expire(d) ==
  /\ jobs[d] # None
  /\ jobs[d].live
  /\ ~LeaseKept(d)
  /\ jobs' = [jobs EXCEPT ![d].live = FALSE]
  /\ UNCHANGED <<head, snapshot, attempts, publishing, retried, budget>>

Changed(repo) ==
  UNION { { [repo EXCEPT !.rev = @ + 1, !.value[d] = v] :
              v \in Values \ {repo.value[d]} } : d \in budget.derivations }

Redeclared(repo) ==
  { [repo EXCEPT !.rev = @ + 1, !.declared = declared] :
      declared \in (SUBSET budget.derivations) \ {repo.declared} }

(* A client edits a source or the declarations, or puts an input asset. *)
Edit ==
  /\ LockFree
  /\ Spend("edits")
  /\ head' \in Changed(head) \cup Redeclared(head)
  /\ snapshot' = head'
  /\ UNCHANGED <<jobs, attempts, publishing, retried>>

(* An operator commits without the lock. *)
ExternalCommit ==
  /\ Spend("external")
  /\ head' \in Changed(head)
  /\ UNCHANGED <<snapshot, jobs, attempts, publishing, retried>>

(* An operator reverts a publication: manifest and outputs go back. *)
ExternalRevert(d) ==
  /\ head.pubs[d] # None
  /\ Spend("reverts")
  /\ head' = [head EXCEPT !.rev = @ + 1, !.pubs[d] = None]
  /\ UNCHANGED <<snapshot, jobs, attempts, publishing, retried>>

(* The daemon dies and is started again; jobs.json survives. *)
Crash ==
  /\ Spend("crashes")
  /\ publishing' = None
  /\ snapshot' = head
  /\ UNCHANGED <<head, jobs, attempts, retried>>

WorkerStep(a) ==
  \/ Fetch(a)
  \/ Heartbeat(a)
  \/ HeartbeatFailure(a)
  \/ SendComplete(a)
  \/ CompleteJob(a)

Next ==
  \/ ListJobs
  \/ \E d \in Derivations : 
       \/ RetryJob(d) \/ ClaimJob(d)
       \/ ExpireEarly(d) \/ Expire(d)
       \/ ExternalRevert(d)
  \/ \E a \in Attempts : WorkerStep(a)
  \/ Publish \/ Announce \/ PublicationFails
  \/ Edit \/ ExternalCommit \/ Crash

Spec == Init /\ [][Next]_vars

(* An idle worker polls every second and works its job to one delivered     *)
(* completion; backoffs and abandoned leases run out; the lock is released. *)
Fairness ==
  /\ WF_vars(Publish) /\ WF_vars(Announce)
  /\ \A d \in Derivations : WF_vars(ClaimJob(d)) /\ WF_vars(Expire(d))
  /\ \A a \in 1 .. MaxAttempts :
       /\ WF_vars(a \in Attempts /\ Fetch(a))
       /\ WF_vars(a \in Attempts /\ SendComplete(a))
       /\ WF_vars(a \in Attempts /\ attempts[a].stage = "sent" /\ CompleteJob(a))

FairSpec == Spec /\ Fairness

-----------------------------------------------------------------------------
(***************************************************************************)
(* Properties.                                                             *)
(***************************************************************************)
Refs == RefsTo(Attempts)

Publication == [fingerprint : Values, attempt : Attempts, refs : Refs]

Repository ==
  [rev : Nat, value : [Derivations -> Values], declared : SUBSET Derivations,
   pubs : [Derivations -> Publication \cup {None}]]

Job == {job \in JobSet(Attempts) : job.attempt # None <=> job.status = "running"}

Attempt ==
  [job : Derivations, params : Values, refs : Refs,
   fetched : Values \cup {None},
   stage : {"claimed", "fetched", "sent", "delivered", "failed"}]

(* Types; an attempt is recorded exactly while its job runs. *)
TypeOK ==
  /\ head \in Repository /\ snapshot \in Repository
  /\ jobs \in [Derivations -> Job \cup {None}]
  /\ attempts \in Seq(Attempt)
  /\ publishing = None \/ publishing \in
       [job : Derivations, base : Nat, committed : BOOLEAN, pub : Publication]
  /\ retried \in [Derivations -> Nat]
  /\ budget \in Scenario

(* Every manifest entry tells the truth: the outputs were computed by the   *)
(* attempt it names, from parameters and inputs, read at different times,   *)
(* that both have the fingerprint it records, and from exactly the          *)
(* reference vectors it lists.                                              *)
PublicationsAreFaithful ==
  \A d \in Derivations :
    head.pubs[d] # None =>
      LET pub  == head.pubs[d]
          work == attempts[pub.attempt]
      IN  /\ work.job = d
          /\ work.params = pub.fingerprint
          /\ work.fetched = pub.fingerprint
          /\ work.refs = pub.refs

(* A publication is committed on a state it is current for: the derivation  *)
(* is declared there with the recorded inputs, and every reference is still *)
(* the current publication of its owner, although clients and operators     *)
(* committed while the worker was busy and while complete_job was checking. *)
PublicationsAreTimely ==
  [][\A d \in Derivations :
       head'.pubs[d] \notin {None, head.pubs[d]} =>
         /\ d \in head.declared
         /\ head'.pubs[d].fingerprint = Fingerprint(head, d)
         /\ ReferencesHold(head'.pubs[d].refs, head)]_vars

(* A retry is not lost: a job that was retried is reported current again    *)
(* only for a publication of an attempt claimed after the retry, whichever  *)
(* older attempts, expiries, edits and crashes come in between.             *)
RetriesRunAgain ==
  \A d \in Derivations :
    jobs[d] # None /\ jobs[d].status = "current" /\ head.pubs[d] # None
      => head.pubs[d].attempt > retried[d]

(* However workers, operators and the daemon fail, every declared           *)
(* derivation ends up published for its inputs or given up.  (Scenarios     *)
(* with MaxAttempts allow a claim for everything that can ask for one.)     *)
DerivationsSettle ==
  (budget.attempts = MaxAttempts) =>
  <>[](\A d \in head.declared :
         \/ IsCurrent(head, d)
         \/ jobs[d] # None /\ jobs[d].status = "failed")
==============================================================================
