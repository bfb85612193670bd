--------------------------- MODULE DerivationsProofs ---------------------------
(***************************************************************************)
(* Proofs about Derivations, for any derivations, references and workers:  *)
(* what a manifest entry says of its publication is true, publications are *)
(* made on the state they are current for, and a retry is not lost.        *)
(*                                                                         *)
(* The argument.  A job that runs carries the parameters and references of *)
(* the attempt it names, which is the last one claimed for it (JobInv): if *)
(* its inputs change, reconciliation takes the attempt away, so whatever   *)
(* is done under the lease was done for those parameters.  complete_job    *)
(* pins this in the publication it commits (Pinned), and the revision it   *)
(* compares pins the state it checked.  A retry stands in the job until a  *)
(* publication of the job's own attempt, which is a later one.             *)
(***************************************************************************)
EXTENDS Derivations, SequenceTheorems, TLAPS

(* The outputs of a publication were computed as it says.  (log is what    *)
(* each attempt was given, fetched and sent.)                               *)
Computed(log, d, pub) ==
  LET work == log[pub.attempt]
  IN  /\ work.job = d
      /\ work.params = pub.fingerprint
      /\ work.fetched = pub.fingerprint
      /\ work.refs = pub.refs
      /\ work.stage = "delivered"

Published(log, repo) ==
  \A d \in Derivations : repo.pubs[d] # None => Computed(log, d, repo.pubs[d])

(* Inputs are fetched under the lease, so they match the parameters. *)
Fetched(log) ==
  \A a \in DOMAIN log :
    log[a].stage \in {"fetched", "sent", "delivered"} => log[a].fetched = log[a].params

(* A running job is the work of the last attempt claimed for it. *)
Leased(log, d, job) ==
  /\ log[job.attempt].job = d
  /\ log[job.attempt].params = job.fingerprint
  /\ log[job.attempt].refs = job.refs
  /\ \A b \in DOMAIN log : log[b].job = d => b <= job.attempt

(* A job, with its publication and the attempts made before its last retry. *)
JobInv(log, pub, d, job, last) ==
  /\ last <= Len(log)
  /\ job # None /\ job.status = "running"
       => Leased(log, d, job) /\ job.attempt > last
  /\ job # None /\ job.status = "current" => ~job.rerun
  /\ (job = None \/ ~job.rerun) /\ pub # None => pub.attempt > last

Jobs == \A d \in Derivations :
          JobInv(attempts, head.pubs[d], d, jobs[d], retried[d])

(* The publications of the snapshot are not later than those of HEAD. *)
Order ==
  \A d \in Derivations :
    snapshot.pubs[d] # None /\ head.pubs[d] # None
      => snapshot.pubs[d].attempt <= head.pubs[d].attempt

(* What complete_job checked of a publication it has not committed yet. *)
Checked(p) ==
  /\ jobs[p.job] # None
  /\ jobs[p.job].status = "running"
  /\ jobs[p.job].attempt = p.pub.attempt
  /\ head.rev = p.base =>
       /\ p.job \in head.declared
       /\ p.pub.fingerprint = Fingerprint(head, p.job)
       /\ ReferencesHold(p.pub.refs, head)

Pinned ==
  publishing # None =>
    /\ Computed(attempts, publishing.job, publishing.pub)
    /\ publishing.base <= head.rev
    /\ ~publishing.committed => Checked(publishing)

Inv ==
  /\ TypeOK
  /\ Published(attempts, head) /\ Published(attempts, snapshot)
  /\ Fetched(attempts)
  /\ Order
  /\ Pinned
  /\ Jobs

-----------------------------------------------------------------------------
(***************************************************************************)
(* Reconciliation.                                                         *)
(***************************************************************************)
LEMMA NoneIsNoAttempt == \A a \in Attempts : TypeOK => a # None /\ a \in Nat /\ a > 0
BY DerivationsAssumption DEF Attempts, TypeOK

LEMMA SetsGrow ==
  ASSUME NEW m, NEW n, m \subseteq n
  PROVE  RefsTo(m) \subseteq RefsTo(n) /\ JobSet(m) \subseteq JobSet(n)
<1>1. RefsTo(m) \subseteq RefsTo(n)
  BY DEF RefsTo
<1>2. JobSet(m) \subseteq JobSet(n)
  BY <1>1 DEF JobSet
<1> QED
  BY <1>1, <1>2

LEMMA NoneIsNoJob == ASSUME TypeOK PROVE None \notin Job
<1>1. Attempts \subseteq Nat
  BY DEF TypeOK, Attempts
<1>2. Job \subseteq JobSet(Nat)
  BY <1>1, SetsGrow DEF Job
<1> QED
  BY <1>2, DerivationsAssumption

LEMMA EmptyRefs == <<>> \in Refs
<1>1. <<>> \in [{} -> Attempts]
  OBVIOUS
<1> QED
  BY <1>1 DEF Refs, RefsTo

LEMMA NewJobType ==
  ASSUME TypeOK, NEW repo \in Repository, NEW d \in Derivations
  PROVE  NewJob(repo, d) \in Job
BY EmptyRefs, NoneIsNoAttempt
   DEF NewJob, Job, JobSet, Refs, Repository, Fingerprint

LEMMA RefingerprintedType ==
  ASSUME TypeOK, NEW repo \in Repository, NEW d \in Derivations, NEW stored \in Job
  PROVE  /\ Refingerprinted(repo, d, stored) \in Job
         /\ Refingerprinted(repo, d, stored).fingerprint = Fingerprint(repo, d)
         /\ Refingerprinted(repo, d, stored).rerun = stored.rerun
         /\ \/ Refingerprinted(repo, d, stored) = stored
            \/ /\ Refingerprinted(repo, d, stored).status = "queued"
               /\ Refingerprinted(repo, d, stored).attempt = None
BY NoneIsNoAttempt DEF Refingerprinted, NewJob, Job, JobSet, Repository, Fingerprint

(* The state of a job as reconciliation leaves it. *)
LEMMA ReconciledJobOutcome ==
  ASSUME TypeOK, NEW repo \in Repository, NEW d \in Derivations, NEW stored \in Job,
         NEW job, job = ReconciledJob(repo, d, stored)
  PROVE  /\ job \in Job
         /\ job.fingerprint = Fingerprint(repo, d)
         /\ job.status = "running" => job = stored /\ job.live
         /\ job.status = "current" => ~job.rerun \/ job = stored
         /\ ~job.rerun =>
              \/ ~stored.rerun
              \/ /\ repo.pubs[d] # None
                 /\ stored.status = "running"
                 /\ repo.pubs[d].attempt = stored.attempt
<1> DEFINE mid == Refingerprinted(repo, d, stored)
<1>1. /\ mid \in Job
      /\ mid.fingerprint = Fingerprint(repo, d)
      /\ mid.rerun = stored.rerun
      /\ \/ mid = stored
         \/ mid.status = "queued" /\ mid.attempt = None
  BY RefingerprintedType
<1>2. job = IF IsCurrent(repo, d) /\ (mid.rerun => repo.pubs[d].attempt = mid.attempt)
            THEN [mid EXCEPT !.status = "current", !.attempt = None, !.rerun = FALSE]
            ELSE IF mid.status = "running" /\ ~mid.live
                 THEN [mid EXCEPT !.status = "queued", !.attempt = None]
                 ELSE mid
  BY DEF ReconciledJob
<1> HIDE DEF mid
<1>3. CASE /\ IsCurrent(repo, d)
           /\ mid.rerun => repo.pubs[d].attempt = mid.attempt
  <2>1. job = [mid EXCEPT !.status = "current", !.attempt = None, !.rerun = FALSE]
    BY <1>2, <1>3
  <2>2. job \in Job /\ job.fingerprint = mid.fingerprint /\ job.status = "current"
        /\ ~job.rerun
    BY <2>1, <1>1 DEF Job, JobSet
  <2>3. repo.pubs[d] # None /\ repo.pubs[d] \in Publication
    BY <1>3 DEF IsCurrent, Repository
  <2>4. mid.rerun => mid.attempt # None
    BY <1>3, <2>3, NoneIsNoAttempt DEF Publication
  <2>5. mid.rerun => mid = stored /\ stored.status = "running"
    BY <2>4, <1>1 DEF Job, JobSet
  <2> QED
    BY <2>2, <2>3, <2>5, <1>1, <1>3
<1>4. CASE /\ ~(/\ IsCurrent(repo, d)
                /\ mid.rerun => repo.pubs[d].attempt = mid.attempt)
           /\ mid.status = "running" /\ ~mid.live
  <2>1. job = [mid EXCEPT !.status = "queued", !.attempt = None]
    BY <1>2, <1>4
  <2> QED
    BY <2>1, <1>1 DEF Job, JobSet
<1>5. CASE /\ ~(/\ IsCurrent(repo, d)
                /\ mid.rerun => repo.pubs[d].attempt = mid.attempt)
           /\ ~(mid.status = "running" /\ ~mid.live)
  <2>1. job = mid
    BY <1>2, <1>5
  <2> QED
    BY <2>1, <1>1, <1>5 DEF Job, JobSet
<1> QED
  BY <1>3, <1>4, <1>5

(* Every stored job, as it is after reconciliation with a state, keeps its  *)
(* invariant: with HEAD, or with a snapshot that lags behind it.            *)
LEMMA ReconciledInv ==
  ASSUME Inv, NEW repo \in {head, snapshot}, NEW d \in Derivations
  PROVE  /\ Reconciled(repo)[d] \in Job \cup {None}
         /\ d \notin repo.declared => Reconciled(repo)[d] = None
         /\ d \in repo.declared =>
              /\ Reconciled(repo)[d] \in Job
              /\ Reconciled(repo)[d].fingerprint = Fingerprint(repo, d)
              /\ Reconciled(repo)[d].status = "running" =>
                   /\ jobs[d] # None
                   /\ Reconciled(repo)[d] = jobs[d]
         /\ JobInv(attempts, head.pubs[d], d, Reconciled(repo)[d],
                   IF Reconciled(repo)[d] = None THEN 0 ELSE retried[d])
<1>a. attempts \in Seq(Attempt) /\ Len(attempts) \in Nat
  BY DEF Inv, TypeOK
<1> DEFINE stored == IF jobs[d] = None THEN NewJob(repo, d) ELSE jobs[d]
           job == ReconciledJob(repo, d, stored)
<1>1. repo \in Repository /\ jobs[d] \in Job \cup {None} /\ retried[d] \in Nat
  BY DEF Inv, TypeOK
<1>2. Reconciled(repo)[d] = IF d \notin repo.declared THEN None ELSE job
  BY DEF Reconciled
<1>3. stored \in Job /\ TypeOK
  BY <1>1, NewJobType DEF Inv
<1>4. jobs[d] = None => stored.status = "queued" /\ ~stored.rerun
  BY DEF NewJob
<1>5. JobInv(attempts, head.pubs[d], d, jobs[d], retried[d])
  BY DEF Inv, Jobs
<1>6. jobs[d] # None => stored = jobs[d]
  OBVIOUS
<1> HIDE DEF stored
<1>7. /\ job \in Job
      /\ job.fingerprint = Fingerprint(repo, d)
      /\ job.status = "running" => job = stored /\ job.live
      /\ job.status = "current" => ~job.rerun \/ job = stored
      /\ ~job.rerun =>
           \/ ~stored.rerun
           \/ /\ repo.pubs[d] # None
              /\ stored.status = "running"
              /\ repo.pubs[d].attempt = stored.attempt
  BY <1>1, <1>3, ReconciledJobOutcome
<1> HIDE DEF job
<1>8. head.pubs[d] # None => /\ head.pubs[d].attempt \in Nat
                             /\ head.pubs[d].attempt > 0
  BY NoneIsNoAttempt DEF Inv, TypeOK, Repository, Publication
<1>9. JobInv(attempts, head.pubs[d], d, None, 0)
  BY <1>8, <1>a DEF JobInv
<1>10. JobInv(attempts, head.pubs[d], d, job, retried[d])
  <2>1. job.status = "running" => Leased(attempts, d, job) /\ job.attempt > retried[d]
    BY <1>4, <1>5, <1>6, <1>7 DEF JobInv
  <2>2. job.status = "current" => ~job.rerun
    BY <1>4, <1>5, <1>6, <1>7 DEF JobInv
  <2>3. ASSUME ~job.rerun, head.pubs[d] # None
        PROVE  head.pubs[d].attempt > retried[d]
    <3>1. CASE ~stored.rerun
      BY <3>1, <2>3, <1>5, <1>6 DEF JobInv
    <3>2. CASE /\ repo.pubs[d] # None
               /\ stored.status = "running"
               /\ repo.pubs[d].attempt = stored.attempt
      <4>1. jobs[d] # None /\ stored = jobs[d]
        BY <3>2, <1>4, <1>6
      <4>2. stored.attempt > retried[d] /\ stored.attempt \in Nat
        BY <4>1, <3>2, <1>5, <1>3, NoneIsNoAttempt DEF JobInv, Job, JobSet
      <4>3. stored.attempt <= head.pubs[d].attempt
        BY <3>2, <2>3, <1>8, <4>2 DEF Inv, Order
      <4> QED
        BY <4>2, <4>3, <1>1, <1>8, <2>3
    <3> QED
      BY <3>1, <3>2, <2>3, <1>7
  <2> QED
    BY <2>1, <2>2, <2>3, <1>5, <1>7, <1>3, NoneIsNoJob DEF JobInv
<1>11. job # None
  BY <1>3, <1>7, NoneIsNoJob
<1> QED
  BY <1>2, <1>4, <1>6, <1>7, <1>9, <1>10, <1>11

-----------------------------------------------------------------------------
(***************************************************************************)
(* Steps of the attempts.                                                  *)
(***************************************************************************)
(* What an attempt was given stays, and what it delivered. *)
Continues(log, later) ==
  \A b \in DOMAIN log :
    /\ b \in DOMAIN later
    /\ later[b].job = log[b].job
    /\ later[b].params = log[b].params
    /\ later[b].refs = log[b].refs
    /\ log[b].stage = "delivered" => later[b] = log[b]

LEMMA ContinuesComputed ==
  ASSUME NEW log, NEW later, Continues(log, later), NEW d,
         NEW pub, pub.attempt \in DOMAIN log, Computed(log, d, pub)
  PROVE  Computed(later, d, pub)
BY DEF Continues, Computed

LEMMA ContinuesJob ==
  ASSUME NEW log, NEW later, Continues(log, later), DOMAIN later = DOMAIN log,
         Len(later) = Len(log), NEW pub, NEW d, NEW job, NEW last,
         job # None /\ job.status = "running" => job.attempt \in DOMAIN log,
         JobInv(log, pub, d, job, last)
  PROVE  JobInv(later, pub, d, job, last)
BY DEF Continues, JobInv, Leased

(* A step of one attempt that is not delivered yet. *)
LEMMA AttemptStep ==
  ASSUME TypeOK, Fetched(attempts), NEW a \in Attempts, NEW record \in Attempt,
         NEW later, later = [attempts EXCEPT ![a] = record],
         record.job = attempts[a].job,
         record.params = attempts[a].params,
         record.refs = attempts[a].refs,
         attempts[a].stage = "delivered" => record = attempts[a],
         record.stage \in {"fetched", "sent", "delivered"}
           => record.fetched = record.params
  PROVE  /\ later \in Seq(Attempt)
         /\ DOMAIN later = Attempts
         /\ Continues(attempts, later)
         /\ Fetched(later)
<1>1. attempts \in Seq(Attempt) /\ a \in 1 .. Len(attempts)
  BY DEF TypeOK, Attempts
<1>2. later \in Seq(Attempt)
  BY <1>1, ExceptSeq
<1>3. DOMAIN later = Attempts
  BY DEF Attempts
<1>4. \A b \in Attempts : later[b] = IF b = a THEN record ELSE attempts[b]
  BY DEF Attempts
<1> QED
  BY <1>2, <1>3, <1>4 DEF Continues, Fetched, Attempts

(* Types do not depend on how far the log of attempts has grown. *)
LEMMA TypesGrow ==
  ASSUME Attempts \subseteq Attempts'
  PROVE  /\ Refs \subseteq Refs'
         /\ Publication \subseteq Publication'
         /\ Job \subseteq Job'
         /\ Repository \subseteq Repository'
<1>1. Refs \subseteq Refs'
  BY SetsGrow DEF Refs
<1>2. Publication \subseteq Publication'
  BY <1>1 DEF Publication
<1>3. Job \subseteq Job'
  <2>1. JobSet(Attempts) \subseteq JobSet(Attempts')
    BY SetsGrow
  <2> QED
    BY <2>1 DEF Job
<1>4. Repository \subseteq Repository'
  BY <1>2 DEF Repository
<1> QED
  BY <1>1, <1>2, <1>3, <1>4

(* The reconciled jobs, with one of them changed, are jobs again. *)
LEMMA SavedType ==
  ASSUME Inv, NEW repo \in {head, snapshot}
  PROVE  Reconciled(repo) \in [Derivations -> Job \cup {None}]
BY ReconciledInv DEF Reconciled

LEMMA PubFacts ==
  ASSUME Inv, NEW repo \in {head, snapshot}, NEW d \in Derivations, repo.pubs[d] # None
  PROVE  /\ repo.pubs[d] \in Publication
         /\ repo.pubs[d].attempt \in Attempts
         /\ Computed(attempts, d, repo.pubs[d])
BY DEF Inv, TypeOK, Repository, Publication, Published

LEMMA JobFacts ==
  ASSUME Inv, NEW d \in Derivations
  PROVE  /\ jobs[d] \in Job \cup {None}
         /\ jobs[d] # None /\ jobs[d].status = "running" => jobs[d].attempt \in Attempts
         /\ JobInv(attempts, head.pubs[d], d, jobs[d], retried[d])
BY DEF Inv, TypeOK, Job, JobSet, Jobs

LEMMA AttemptFacts ==
  ASSUME TypeOK, NEW a \in Attempts
  PROVE  attempts[a] \in Attempt /\ attempts[a].job \in Derivations
<1>1. attempts[a] \in Attempt
  BY DEF TypeOK, Attempts
<1> QED
  BY <1>1 DEF Attempt

(* A lease is held for the parameters of the attempt. *)
LEMMA LeaseFacts ==
  ASSUME Inv, NEW a \in Attempts, NEW repo \in {head, snapshot},
         LeaseHeld(a, Reconciled(repo))
  PROVE  LET d == attempts[a].job
         IN  /\ d \in Derivations
             /\ d \in repo.declared
             /\ jobs[d] # None
             /\ jobs[d].status = "running"
             /\ jobs[d].attempt = a
             /\ Reconciled(repo)[d] = jobs[d]
             /\ jobs[d].fingerprint = Fingerprint(repo, d)
             /\ jobs[d].fingerprint = attempts[a].params
             /\ jobs[d].refs = attempts[a].refs
<1> DEFINE d == attempts[a].job
<1>1. d \in Derivations
  BY AttemptFacts DEF Inv
<1>2. /\ Reconciled(repo)[d] # None
      /\ Reconciled(repo)[d].status = "running"
      /\ Reconciled(repo)[d].attempt = a
  BY DEF LeaseHeld
<1> HIDE DEF d
<1>3. /\ d \in repo.declared
      /\ jobs[d] # None
      /\ Reconciled(repo)[d] = jobs[d]
      /\ jobs[d].fingerprint = Fingerprint(repo, d)
  BY <1>1, <1>2, ReconciledInv
<1>4. Leased(attempts, d, jobs[d])
  BY <1>1, <1>2, <1>3, JobFacts DEF JobInv
<1> QED
  BY <1>1, <1>2, <1>3, <1>4 DEF Leased, d

-----------------------------------------------------------------------------
(***************************************************************************)
(* The steps, each with what it may disturb.                               *)
(***************************************************************************)
LEMMA InitInv == Init => Inv
<1> SUFFICES ASSUME Init PROVE Inv
  OBVIOUS
<1>1. PICK declared \in SUBSET budget.derivations, v \in Values :
        head = [rev |-> 1, value |-> [d \in Derivations |-> v],
                declared |-> declared, pubs |-> [d \in Derivations |-> None]]
  BY DEF Init
<1>2. budget \in Scenario
  BY DerivationsAssumption DEF Init
<1>3. declared \in SUBSET Derivations
  BY <1>2 DEF Scenario
<1>4. head \in Repository /\ \A d \in Derivations : head.pubs[d] = None
  BY <1>1, <1>3 DEF Repository
<1>5. TypeOK
  BY <1>2, <1>4 DEF Init, TypeOK
<1>6. DOMAIN attempts = {}
  BY DEF Init
<1> QED
  BY <1>4, <1>5, <1>6 DEF Init, Inv, Published, Fetched, Order, Pinned, Jobs, JobInv

(* A step of one attempt that has not delivered keeps what is said of the   *)
(* publications and of the jobs it leaves alone.                            *)
LEMMA AttemptKeeps ==
  ASSUME Inv, attempts' \in Seq(Attempt), Attempts' = Attempts,
         Continues(attempts, attempts')
  PROVE  /\ attempts' \in Seq(Attempt')
         /\ Job' = Job /\ Publication' = Publication /\ Repository' = Repository
         /\ \A repo \in {head, snapshot} : Published(attempts', repo)
         /\ \A d \in Derivations :
              JobInv(attempts', head.pubs[d], d, jobs[d], retried[d])
<1>1. Refs' = Refs /\ Attempt' = Attempt
  BY DEF Refs, RefsTo, Attempt
<1>2. Job' = Job /\ Publication' = Publication
  BY <1>1 DEF Job, JobSet, Publication
<1>3. Repository' = Repository
  BY <1>2 DEF Repository
<1>4. \A repo \in {head, snapshot} : Published(attempts', repo)
  BY PubFacts, ContinuesComputed DEF Published, Attempts
<1>5. ASSUME NEW d \in Derivations
      PROVE  JobInv(attempts', head.pubs[d], d, jobs[d], retried[d])
  <2>1. Len(attempts') = Len(attempts)
    BY DEF Attempts, Inv, TypeOK
  <2> QED
    BY <2>1, JobFacts, ContinuesJob DEF Attempts
<1> QED
  BY <1>1, <1>2, <1>3, <1>4, <1>5

LEMMA FetchStep == ASSUME Inv, NEW a \in Attempts, Fetch(a) PROVE Inv'
<1> DEFINE d == attempts[a].job
<1>1. publishing = None /\ attempts[a].stage = "claimed"
      /\ UNCHANGED <<head, snapshot, jobs, publishing, retried, budget>>
  BY DEF Fetch, LockFree
<1>2. attempts[a] \in Attempt /\ d \in Derivations
  BY AttemptFacts DEF Inv
<1>3. PICK record \in Attempt :
        /\ attempts' = [attempts EXCEPT ![a] = record]
        /\ record.job = attempts[a].job
        /\ record.params = attempts[a].params
        /\ record.refs = attempts[a].refs
        /\ record.stage \in {"fetched", "sent", "delivered"}
             => record.fetched = record.params
  <2>1. CASE LeaseHeld(a, Reconciled(snapshot))
    <3> DEFINE record == [attempts[a] EXCEPT !.stage = "fetched",
                                             !.fetched = snapshot.value[d]]
    <3>1. attempts' = [attempts EXCEPT ![a] = record]
      BY <2>1 DEF Fetch
    <3>2. snapshot.value[d] = attempts[a].params
      BY <2>1, LeaseFacts DEF Fingerprint
    <3>3. record \in Attempt /\ record.fetched = record.params
          /\ record.job = attempts[a].job /\ record.params = attempts[a].params
          /\ record.refs = attempts[a].refs
      BY <1>2, <3>2 DEF Attempt
    <3> QED
      BY <3>1, <3>3
  <2>2. CASE ~LeaseHeld(a, Reconciled(snapshot))
    <3> DEFINE record == [attempts[a] EXCEPT !.stage = "failed"]
    <3>1. attempts' = [attempts EXCEPT ![a] = record]
      BY <2>2 DEF Fetch
    <3>2. record \in Attempt /\ record.stage = "failed"
          /\ record.job = attempts[a].job /\ record.params = attempts[a].params
          /\ record.refs = attempts[a].refs
      BY <1>2 DEF Attempt
    <3> QED
      BY <3>1, <3>2
  <2> QED
    BY <2>1, <2>2
<1>4. /\ attempts' \in Seq(Attempt)
      /\ Attempts' = Attempts
      /\ Continues(attempts, attempts')
      /\ Fetched(attempts')
  <2>1. TypeOK /\ Fetched(attempts)
    BY DEF Inv
  <2> QED
    BY <1>1, <1>3, <2>1, AttemptStep DEF Attempts
<1> HIDE DEF d
<1>5. TypeOK'
  BY <1>1, <1>4, AttemptKeeps DEF Inv, TypeOK
<1>6. Published(attempts, head)' /\ Published(attempts, snapshot)'
  BY <1>1, <1>4, AttemptKeeps DEF Published
<1>7. Jobs'
  BY <1>1, <1>4, AttemptKeeps DEF Jobs
<1> QED
  BY <1>1, <1>4, <1>5, <1>6, <1>7 DEF Inv, Order, Pinned

(* A step of one attempt to another stage. *)
LEMMA StageStep ==
  ASSUME Inv, NEW a \in Attempts,
         NEW stage \in {"claimed", "fetched", "sent", "delivered", "failed"},
         attempts' = [attempts EXCEPT ![a].stage = stage],
         attempts[a].stage = "delivered" => stage = "delivered",
         stage \in {"fetched", "sent", "delivered"}
           => attempts[a].stage \in {"fetched", "sent", "delivered"}
  PROVE  /\ attempts' \in Seq(Attempt)
         /\ Attempts' = Attempts
         /\ Continues(attempts, attempts')
         /\ Fetched(attempts')
<1> DEFINE record == [attempts[a] EXCEPT !.stage = stage]
<1>1. attempts[a] \in Attempt /\ TypeOK /\ Fetched(attempts)
  BY AttemptFacts DEF Inv
<1>2. attempts' = [attempts EXCEPT ![a] = record]
  OBVIOUS
<1>3. /\ record \in Attempt
      /\ record.job = attempts[a].job
      /\ record.params = attempts[a].params
      /\ record.refs = attempts[a].refs
      /\ record.fetched = attempts[a].fetched
      /\ record.stage = stage
  BY <1>1 DEF Attempt
<1>4. attempts[a].stage = "delivered" => record = attempts[a]
  BY <1>1 DEF Attempt
<1>5. record.stage \in {"fetched", "sent", "delivered"} => record.fetched = record.params
  BY <1>1, <1>3 DEF Fetched, Attempts
<1> HIDE DEF record
<1> QED
  BY <1>1, <1>2, <1>3, <1>4, <1>5, AttemptStep DEF Attempts

(* Saving reconciled jobs, with one of them changed, under the lock. *)
LEMMA SaveStep ==
  ASSUME Inv, NEW repo \in {head, snapshot}, NEW d \in Derivations, NEW job,
         publishing = None, UNCHANGED <<head, publishing>>,
         snapshot' \in {head, snapshot}, budget' \in Scenario,
         attempts' \in Seq(Attempt), Attempts' = Attempts,
         Continues(attempts, attempts'), Fetched(attempts'),
         job \in Job,
         jobs' = [Reconciled(repo) EXCEPT ![d] = job],
         retried' \in [Derivations -> Nat],
         \A e \in Derivations \ {d} :
           retried'[e] = IF jobs'[e] = None THEN 0 ELSE retried[e],
         JobInv(attempts, head.pubs[d], d, job, retried'[d])
  PROVE  Inv'
<1>1. Reconciled(repo) \in [Derivations -> Job \cup {None}]
  BY SavedType
<1>2. /\ jobs' \in [Derivations -> Job \cup {None}]
      /\ jobs'[d] = job
      /\ \A e \in Derivations \ {d} : jobs'[e] = Reconciled(repo)[e]
  BY <1>1
<1>3. TypeOK'
  <2>1. head' \in Repository /\ snapshot' \in Repository
    BY DEF Inv, TypeOK
  <2>2. Repository' = Repository /\ Job' = Job /\ attempts' \in Seq(Attempt')
    BY AttemptKeeps
  <2> QED
    BY <1>2, <2>1, <2>2 DEF TypeOK
<1>4. Published(attempts, head)' /\ Published(attempts, snapshot)'
  BY AttemptKeeps DEF Published
<1>5. Order'
  <2>1. CASE snapshot' = snapshot
    BY <2>1 DEF Inv, Order
  <2>2. CASE snapshot' = head
    <3>1. \A e \in Derivations : head.pubs[e] # None => head.pubs[e].attempt \in Nat
      BY PubFacts, NoneIsNoAttempt DEF Inv
    <3> QED
      BY <2>2, <3>1 DEF Order
  <2> QED
    BY <2>1, <2>2
<1>6. ASSUME NEW e \in Derivations
      PROVE  JobInv(attempts', head.pubs[e], e, jobs'[e], retried'[e])
  <2>1. jobs'[e] # None /\ jobs'[e].status = "running" => jobs'[e].attempt \in Attempts
    <3>1. jobs'[e] \in Job \cup {None}
      BY <1>2
    <3> QED
      BY <3>1 DEF Job, JobSet
  <2>2. JobInv(attempts, head.pubs[e], e, jobs'[e], retried'[e])
    <3>1. CASE e = d
      BY <3>1, <1>2
    <3>2. CASE e # d
      <4>1. jobs'[e] = Reconciled(repo)[e]
        BY <3>2, <1>2
      <4>2. retried'[e] = IF Reconciled(repo)[e] = None THEN 0 ELSE retried[e]
        BY <3>2, <4>1
      <4> QED
        BY <4>1, <4>2, ReconciledInv
    <3> QED
      BY <3>1, <3>2
  <2> QED
    <3>1. Len(attempts') = Len(attempts)
      BY DEF Attempts, Inv, TypeOK
    <3> QED
      BY <3>1, <2>1, <2>2, ContinuesJob DEF Attempts
<1>7. Jobs'
  BY <1>6 DEF Jobs
<1> QED
  BY <1>3, <1>4, <1>5, <1>7 DEF Inv, Pinned

LEMMA SpendType == ASSUME Inv, NEW kind, Spend(kind),
         kind \in {"edits", "external", "reverts", "retries", "expiries", "failures",
                   "crashes", "faults"}
  PROVE  budget' \in Scenario
<1>1. /\ budget \in Scenario
      /\ budget[kind] > 0
      /\ budget' = [budget EXCEPT ![kind] = budget[kind] - 1]
  BY DEF Inv, TypeOK, Spend
<1>2. CASE kind = "edits"
  BY <1>1, <1>2 DEF Scenario
<1>3. CASE kind = "external"
  BY <1>1, <1>3 DEF Scenario
<1>4. CASE kind = "reverts"
  BY <1>1, <1>4 DEF Scenario
<1>5. CASE kind = "retries"
  BY <1>1, <1>5 DEF Scenario
<1>6. CASE kind = "expiries"
  BY <1>1, <1>6 DEF Scenario
<1>7. CASE kind = "failures"
  BY <1>1, <1>7 DEF Scenario
<1>8. CASE kind = "crashes"
  BY <1>1, <1>8 DEF Scenario
<1>9. CASE kind = "faults"
  BY <1>1, <1>9 DEF Scenario
<1> QED
  BY <1>2, <1>3, <1>4, <1>5, <1>6, <1>7, <1>8, <1>9

LEMMA ContinuesSelf == ASSUME Inv
  PROVE  /\ attempts \in Seq(Attempt)
         /\ Continues(attempts, attempts)
         /\ Fetched(attempts)
BY DEF Inv, TypeOK, Continues

(* What Save does to the retries of a job that is not dropped. *)
LEMMA SavedRetries ==
  ASSUME Inv, NEW saved, Save(saved)
  PROVE  /\ jobs' = saved
         /\ retried' \in [Derivations -> Nat]
         /\ \A e \in Derivations :
              retried'[e] = IF saved[e] = None THEN 0 ELSE retried[e]
BY DEF Save, Inv, TypeOK

LEMMA ListJobsStep == ASSUME Inv, ListJobs PROVE Inv'
<1>1. /\ publishing = None
      /\ UNCHANGED <<head, attempts, publishing, budget>>
      /\ snapshot' = head
      /\ Save(Reconciled(head))
  BY DEF ListJobs, LockFree
<1>2. /\ jobs' = Reconciled(head)
      /\ retried' \in [Derivations -> Nat]
      /\ \A e \in Derivations :
           retried'[e] = IF Reconciled(head)[e] = None THEN 0 ELSE retried[e]
  BY <1>1, SavedRetries
<1>3. TypeOK'
  <2>1. jobs' \in [Derivations -> Job \cup {None}]
    BY <1>2, SavedType
  <2>2. Job' = Job /\ Repository' = Repository /\ Attempt' = Attempt
    BY <1>1 DEF Job, JobSet, Repository, Attempt, Publication, Refs, RefsTo, Attempts
  <2> QED
    BY <1>1, <1>2, <2>1, <2>2 DEF Inv, TypeOK
<1>4. Jobs'
  BY <1>1, <1>2, ReconciledInv DEF Jobs
<1>5. Order'
  <2>1. \A e \in Derivations : head.pubs[e] # None => head.pubs[e].attempt \in Nat
    BY PubFacts, NoneIsNoAttempt DEF Inv
  <2> QED
    BY <1>1, <2>1 DEF Order
<1> QED
  BY <1>1, <1>3, <1>4, <1>5 DEF Inv, Published, Pinned

LEMMA RetryJobStep == ASSUME Inv, NEW d \in Derivations, RetryJob(d) PROVE Inv'
<1> DEFINE saved == Reconciled(head)
           job == [saved[d] EXCEPT !.rerun = TRUE, !.status = "queued",
                                   !.attempt = None, !.failures = 0, !.live = FALSE]
<1>1. /\ publishing = None
      /\ UNCHANGED <<head, attempts, publishing>>
      /\ snapshot' = head
      /\ d \in head.declared
      /\ Spend("retries")
  BY DEF RetryJob, LockFree
<1>2. saved \in [Derivations -> Job \cup {None}] /\ saved[d] \in Job
  BY <1>1, SavedType, ReconciledInv
<1>3. jobs' = [saved EXCEPT ![d] = job]
  BY <1>2 DEF RetryJob
<1>4. job \in Job /\ job.rerun /\ job.status = "queued"
  BY <1>2 DEF Job, JobSet
<1>5. attempts \in Seq(Attempt) /\ Len(attempts) \in Nat
  BY DEF Inv, TypeOK
<1>6. /\ retried' \in [Derivations -> Nat]
      /\ retried'[d] = Len(attempts)
      /\ \A e \in Derivations \ {d} :
           retried'[e] = IF jobs'[e] = None THEN 0 ELSE retried[e]
  BY <1>5 DEF RetryJob, Inv, TypeOK
<1> HIDE DEF job
<1>7. JobInv(attempts, head.pubs[d], d, job, retried'[d])
  <2>1. job # None
    BY <1>4, NoneIsNoJob DEF Inv
  <2> QED
    BY <1>4, <1>5, <1>6, <2>1 DEF JobInv
<1> HIDE DEF saved
<1> QED
  BY <1>1, <1>3, <1>4, <1>6, <1>7, SaveStep, SpendType, ContinuesSelf DEF Attempts, saved

(* A claim appends an attempt and gives its job the lease of it. *)
LEMMA ClaimJobStep == ASSUME Inv, NEW d \in Derivations, ClaimJob(d) PROVE Inv'
<1> DEFINE saved == Reconciled(head)
           refs  == CurrentReferences(head, d)
           a     == Len(attempts) + 1
           record == [job |-> d, params |-> head.value[d], refs |-> refs,
                      fetched |-> None, stage |-> "claimed"]
           job == [saved[d] EXCEPT !.status = "running", !.attempt = a,
                                   !.live = TRUE, !.refs = refs]
<1>1. /\ publishing = None
      /\ UNCHANGED <<head, publishing, budget>>
      /\ snapshot' = head
      /\ d \in head.declared
      /\ attempts' = Append(attempts, record)
  BY DEF ClaimJob, LockFree
<1>2. saved \in [Derivations -> Job \cup {None}] /\ saved[d] \in Job
      /\ saved[d].fingerprint = head.value[d]
  BY <1>1, SavedType, ReconciledInv DEF Fingerprint
<1>3. /\ jobs' = [saved EXCEPT ![d] = job]
      /\ Save([saved EXCEPT ![d] = job])
  BY <1>2 DEF ClaimJob, Save
<1>4. attempts \in Seq(Attempt) /\ Len(attempts) \in Nat
  BY DEF Inv, TypeOK
<1>5. refs \in Refs
  <2>1. \A s \in DOMAIN refs : s \in Derivations /\ head.pubs[s] # None
    BY DerivationsAssumption DEF CurrentReferences, IsCurrent
  <2>2. \A s \in DOMAIN refs : refs[s] = head.pubs[s].attempt
    BY DEF CurrentReferences
  <2>3. refs \in [DOMAIN refs -> Attempts]
    <3>1. \A s \in DOMAIN refs : refs[s] \in Attempts
      BY <2>1, <2>2, PubFacts
    <3>2. refs = [s \in DOMAIN refs |-> refs[s]]
      BY DEF CurrentReferences
    <3> HIDE DEF refs
    <3> QED
      BY <3>1, <3>2
  <2>4. DOMAIN refs \in SUBSET Derivations
    BY <2>1
  <2> HIDE DEF refs
  <2> QED
    BY <2>3, <2>4 DEF Refs, RefsTo
<1>6. record \in Attempt
  BY <1>5 DEF Attempt, Inv, TypeOK, Repository
<1>7. /\ attempts' \in Seq(Attempt)
      /\ Len(attempts') = a
      /\ Attempts' = Attempts \cup {a}
      /\ attempts'[a] = record
      /\ \A b \in Attempts : attempts'[b] = attempts[b] /\ b < a
  <2> HIDE DEF record
  <2> QED
    BY <1>1, <1>4, <1>6, AppendProperties DEF Attempts
<1>8. Continues(attempts, attempts')
  BY <1>7 DEF Continues, Attempts
<1>9. /\ Job \subseteq Job' /\ Repository \subseteq Repository'
      /\ Attempt \subseteq Attempt' /\ Publication \subseteq Publication'
  <2>1. Attempts \subseteq Attempts'
    BY <1>7
  <2> QED
    BY <2>1, TypesGrow DEF Attempt
<1>10. job \in Job'
  <2>1. refs \in RefsTo(Attempts')
    BY <1>5, <1>7, SetsGrow DEF Refs
  <2>2. saved[d] \in JobSet(Attempts) /\ a \in Attempts' /\ a # None
    BY <1>2, <1>4, <1>7, DerivationsAssumption DEF Job
  <2> HIDE DEF refs, saved, a
  <2> QED
    BY <2>1, <2>2 DEF Job, JobSet
<1>11. /\ job.status = "running" /\ job.attempt = a /\ job.refs = refs
       /\ job.fingerprint = head.value[d] /\ job.rerun = saved[d].rerun
  <2>1. saved[d] \in JobSet(Attempts)
    BY <1>2 DEF Job
  <2> HIDE DEF saved, refs, a
  <2> QED
    BY <1>2, <2>1 DEF JobSet, saved
<1>12. /\ job # None
       /\ saved[d] # None
  <2>1. job \in JobSet(Nat)
    <3>1. Attempts' \subseteq Nat
      BY <1>4, <1>7 DEF Attempts
    <3> HIDE DEF job
    <3> QED
      BY <1>10, <3>1, SetsGrow DEF Job
  <2> HIDE DEF job
  <2> QED
    BY <2>1, <1>2, NoneIsNoJob, DerivationsAssumption DEF Inv
<1>13. /\ jobs' \in [Derivations -> Job' \cup {None}]
       /\ jobs'[d] = job
       /\ \A e \in Derivations \ {d} : jobs'[e] = saved[e]
  <2> HIDE DEF job, saved
  <2> QED
    BY <1>2, <1>3, <1>9, <1>10
<1>14. /\ retried' \in [Derivations -> Nat]
       /\ retried'[d] = retried[d]
       /\ \A e \in Derivations \ {d} :
            retried'[e] = IF saved[e] = None THEN 0 ELSE retried[e]
  <2>1. \A e \in Derivations : [saved EXCEPT ![d] = job][e] = IF e = d THEN job ELSE saved[e]
    BY <1>2
  <2> HIDE DEF job
  <2>2. \A e \in Derivations :
          retried'[e] = IF [saved EXCEPT ![d] = job][e] = None THEN 0 ELSE retried[e]
    BY <1>3, SavedRetries
  <2>3. retried' \in [Derivations -> Nat]
    BY <1>3, SavedRetries
  <2> HIDE DEF saved
  <2> QED
    BY <2>1, <2>2, <2>3, <1>12
<1> HIDE DEF job, record
<1>15. TypeOK'
  <2>1. head' \in Repository' /\ snapshot' \in Repository'
    BY <1>1, <1>9 DEF Inv, TypeOK
  <2>2. attempts' \in Seq(Attempt')
    BY <1>7, <1>9
  <2>3. publishing' = None /\ budget' \in Scenario
    BY <1>1 DEF Inv, TypeOK
  <2> QED
    BY <2>1, <2>2, <2>3, <1>13, <1>14 DEF TypeOK
<1>16. Published(attempts, head)' /\ Published(attempts, snapshot)'
  <2>1. \A e \in Derivations : head.pubs[e] # None
           => Computed(attempts', e, head.pubs[e])
    BY <1>8, PubFacts, ContinuesComputed DEF Attempts
  <2> QED
    BY <1>1, <2>1 DEF Published
<1>17. Fetched(attempts')
  <2>1. record.stage = "claimed"
    BY DEF record
  <2> QED
    BY <1>7, <2>1 DEF Fetched, Inv, Attempts
<1>18. Order'
  <2>1. \A e \in Derivations : head.pubs[e] # None => head.pubs[e].attempt \in Nat
    BY PubFacts, NoneIsNoAttempt DEF Inv
  <2> QED
    BY <1>1, <2>1 DEF Order
<1>19. JobInv(attempts', head.pubs[d], d, job, retried[d])
  <2>1. JobInv(attempts, head.pubs[d], d, saved[d], retried[d])
    <3>1. saved[d] # None
      BY <1>12
    <3> QED
      BY <3>1, ReconciledInv
  <2>2. Leased(attempts', d, job)
    <3>1. /\ attempts'[a].job = d
          /\ attempts'[a].params = head.value[d]
          /\ attempts'[a].refs = refs
      BY <1>7 DEF record
    <3> QED
      BY <1>4, <1>7, <1>11, <3>1 DEF Leased, Attempts
  <2>3. retried[d] <= Len(attempts) /\ retried[d] \in Nat
    BY <2>1 DEF JobInv, Inv, TypeOK
  <2> QED
    BY <1>4, <1>7, <1>11, <1>12, <2>1, <2>2, <2>3 DEF JobInv
<1>20. ASSUME NEW e \in Derivations \ {d}
       PROVE  JobInv(attempts', head.pubs[e], e, jobs'[e], retried'[e])
  <2>1. JobInv(attempts, head.pubs[e], e, jobs'[e], retried'[e])
    BY <1>13, <1>14, ReconciledInv
  <2>2. jobs'[e] \in Job \cup {None}
    BY <1>2, <1>13
  <2>3. jobs'[e] # None /\ jobs'[e].status = "running" => jobs'[e].attempt \in Attempts
    BY <2>2 DEF Job, JobSet
  <2>4. attempts'[a].job = d
    BY <1>7 DEF record
  <2>5. jobs'[e] # None /\ jobs'[e].status = "running" => Leased(attempts', e, jobs'[e])
    BY <1>7, <2>1, <2>3, <2>4 DEF JobInv, Leased, Attempts
  <2>6. retried'[e] <= Len(attempts')
    BY <2>1, <1>4, <1>7, <1>14 DEF JobInv
  <2> QED
    BY <2>1, <2>5, <2>6 DEF JobInv
<1>21. Jobs'
  BY <1>1, <1>13, <1>14, <1>19, <1>20 DEF Jobs
<1> QED
  BY <1>1, <1>15, <1>16, <1>17, <1>18, <1>21 DEF Inv, Pinned

LEMMA HeartbeatStep == ASSUME Inv, NEW a \in Attempts, Heartbeat(a) PROVE Inv'
<1> DEFINE d == attempts[a].job
           saved == Reconciled(snapshot)
<1>1. /\ publishing = None /\ attempts[a].stage \in {"claimed", "fetched"}
      /\ UNCHANGED <<head, snapshot, publishing, budget>>
      /\ budget \in Scenario
  BY DEF Heartbeat, LockFree, Inv, TypeOK
<1>2. d \in Derivations
  BY AttemptFacts DEF Inv
<1>3. CASE LeaseHeld(a, saved)
  <2> DEFINE job == [saved[d] EXCEPT !.live = TRUE]
  <2>1. saved \in [Derivations -> Job \cup {None}]
    BY SavedType
  <2>2. /\ saved[d] = jobs[d] /\ jobs[d] # None /\ jobs[d] \in Job
        /\ jobs[d].status = "running"
    BY <1>2, <1>3, LeaseFacts, JobFacts
  <2>3. Save([saved EXCEPT ![d] = job]) /\ UNCHANGED attempts
    BY <1>3 DEF Heartbeat
  <2>4. /\ job \in Job /\ job.status = "running" /\ job.attempt = jobs[d].attempt
        /\ job.refs = jobs[d].refs /\ job.fingerprint = jobs[d].fingerprint
        /\ job.rerun = jobs[d].rerun
    <3> HIDE DEF saved, d
    <3> QED
      BY <2>2 DEF Job, JobSet
  <2>5. job # None
    BY <2>4, NoneIsNoJob DEF Inv
  <2>6. \A e \in Derivations :
          [saved EXCEPT ![d] = job][e] = IF e = d THEN job ELSE saved[e]
    BY <2>1
  <2> HIDE DEF job, saved
  <2>7. /\ jobs' = [saved EXCEPT ![d] = job]
        /\ retried' \in [Derivations -> Nat]
        /\ \A e \in Derivations :
             retried'[e] = IF [saved EXCEPT ![d] = job][e] = None THEN 0 ELSE retried[e]
    BY <2>3, SavedRetries
  <2>8. retried'[d] = retried[d]
    BY <1>2, <2>5, <2>6, <2>7
  <2>9. JobInv(attempts, head.pubs[d], d, job, retried[d])
    BY <1>2, <2>2, <2>4, <2>5, JobFacts DEF JobInv, Leased
  <2> QED
    BY <1>1, <1>2, <2>3, <2>4, <2>7, <2>8, <2>9, SaveStep, ContinuesSelf
       DEF Attempts, saved
<1>4. CASE ~LeaseHeld(a, saved)
  <2>1. attempts' = [attempts EXCEPT ![a].stage = "failed"] /\ UNCHANGED <<jobs, retried>>
    BY <1>4 DEF Heartbeat
  <2>2. /\ attempts' \in Seq(Attempt)
        /\ Attempts' = Attempts
        /\ Continues(attempts, attempts')
        /\ Fetched(attempts')
    BY <1>1, <2>1, StageStep
  <2>3. TypeOK'
    BY <1>1, <2>1, <2>2, AttemptKeeps DEF Inv, TypeOK
  <2>4. Published(attempts, head)' /\ Published(attempts, snapshot)'
    BY <1>1, <2>2, AttemptKeeps DEF Published
  <2>5. Jobs'
    BY <1>1, <2>1, <2>2, AttemptKeeps DEF Jobs
  <2> QED
    BY <1>1, <2>2, <2>3, <2>4, <2>5 DEF Inv, Order, Pinned
<1> QED
  BY <1>3, <1>4

LEMMA HeartbeatFailureStep ==
  ASSUME Inv, NEW a \in Attempts, HeartbeatFailure(a) PROVE Inv'
<1> DEFINE d == attempts[a].job
           saved == Reconciled(snapshot)
           count == saved[d].failures + 1
           status == IF count >= MaxFailures THEN "failed" ELSE "queued"
           job == [saved[d] EXCEPT !.failures = count, !.attempt = None, !.live = TRUE,
                                   !.status = status]
           stage == IF attempts[a].stage \in {"claimed", "fetched"}
                    THEN "failed" ELSE attempts[a].stage
<1>1. /\ publishing = None
      /\ UNCHANGED <<head, snapshot, publishing>>
      /\ Spend("failures")
      /\ LeaseHeld(a, saved)
      /\ Save([saved EXCEPT ![d] = job])
      /\ attempts' = [attempts EXCEPT ![a].stage = stage]
  BY DEF HeartbeatFailure, LockFree
<1>2. d \in Derivations /\ attempts[a] \in Attempt /\ attempts \in Seq(Attempt)
  BY AttemptFacts DEF Inv, TypeOK
<1>3. saved \in [Derivations -> Job \cup {None}]
  BY SavedType
<1>4. /\ saved[d] = jobs[d] /\ jobs[d] # None /\ jobs[d] \in Job
      /\ jobs[d].status = "running"
  BY <1>1, <1>2, LeaseFacts, JobFacts
<1>5. /\ job \in Job /\ job.status \in {"failed", "queued"}
      /\ job.rerun = jobs[d].rerun
  <2>1. status \in {"failed", "queued"}
    OBVIOUS
  <2>2. saved[d] \in Job /\ count \in Nat
    BY <1>4 DEF Job, JobSet
  <2> HIDE DEF saved, d, status, count
  <2>3. job \in JobSet(Attempts) /\ job.status = status /\ job.attempt = None
        /\ job.rerun = saved[d].rerun
    BY <2>1, <2>2 DEF Job, JobSet
  <2> QED
    BY <1>4, <2>1, <2>3 DEF Job
<1>6. job # None
  BY <1>5, NoneIsNoJob DEF Inv
<1>7. \A e \in Derivations : [saved EXCEPT ![d] = job][e] = IF e = d THEN job ELSE saved[e]
  BY <1>3
<1>8. /\ attempts' \in Seq(Attempt)
      /\ Attempts' = Attempts
      /\ Continues(attempts, attempts')
      /\ Fetched(attempts')
  <2>1. stage \in {"claimed", "fetched", "sent", "delivered", "failed"}
    BY <1>2 DEF Attempt
  <2>2. stage \in {"fetched", "sent", "delivered"}
          => attempts[a].stage \in {"fetched", "sent", "delivered"}
    OBVIOUS
  <2>3. attempts[a].stage = "delivered" => stage = "delivered"
    OBVIOUS
  <2> HIDE DEF stage
  <2> QED
    BY <1>1, <2>1, <2>2, <2>3, StageStep
<1> HIDE DEF job, saved, stage
<1>9. /\ jobs' = [saved EXCEPT ![d] = job]
      /\ retried' \in [Derivations -> Nat]
      /\ \A e \in Derivations :
           retried'[e] = IF [saved EXCEPT ![d] = job][e] = None THEN 0 ELSE retried[e]
  BY <1>1, SavedRetries
<1>10. retried'[d] = retried[d]
  BY <1>2, <1>6, <1>7, <1>9
<1>11. JobInv(attempts, head.pubs[d], d, job, retried[d])
  BY <1>2, <1>4, <1>5, <1>6, JobFacts DEF JobInv
<1>12. budget' \in Scenario
  BY <1>1, SpendType
<1> QED
  BY <1>1, <1>2, <1>5, <1>8, <1>9, <1>10, <1>11, <1>12, SaveStep DEF saved

LEMMA SendCompleteStep ==
  ASSUME Inv, NEW a \in Attempts, SendComplete(a) PROVE Inv'
<1>1. /\ attempts[a].stage = "fetched"
      /\ attempts' = [attempts EXCEPT ![a].stage = "sent"]
      /\ UNCHANGED <<head, snapshot, jobs, publishing, retried, budget>>
  BY DEF SendComplete
<1>2. /\ attempts' \in Seq(Attempt)
      /\ Attempts' = Attempts
      /\ Continues(attempts, attempts')
      /\ Fetched(attempts')
  BY <1>1, StageStep
<1>3. TypeOK'
  BY <1>1, <1>2, AttemptKeeps DEF Inv, TypeOK
<1>4. Published(attempts, head)' /\ Published(attempts, snapshot)'
  BY <1>1, <1>2, AttemptKeeps DEF Published
<1>5. Jobs'
  BY <1>1, <1>2, AttemptKeeps DEF Jobs
<1>6. Pinned'
  <2>1. publishing # None => publishing.pub.attempt \in DOMAIN attempts
    BY DEF Inv, TypeOK, Publication, Attempts
  <2>2. publishing # None => Computed(attempts', publishing.job, publishing.pub)
    BY <1>2, <2>1, ContinuesComputed DEF Inv, Pinned
  <2> QED
    BY <1>1, <2>2 DEF Inv, Pinned, Checked
<1> QED
  BY <1>1, <1>2, <1>3, <1>4, <1>5, <1>6 DEF Inv, Order

(* complete_job pins what it checked. *)
LEMMA CompleteJobStep ==
  ASSUME Inv, NEW a \in Attempts, CompleteJob(a) PROVE Inv'
<1> DEFINE d == attempts[a].job
           now == Reconciled(head)
           pub == [fingerprint |-> now[d].fingerprint, attempt |-> a, refs |-> now[d].refs]
           record == [job |-> d, base |-> head.rev, committed |-> FALSE, pub |-> pub]
<1>1. /\ attempts[a].stage \in {"sent", "delivered"}
      /\ attempts' = [attempts EXCEPT ![a].stage = "delivered"]
      /\ snapshot' = head
      /\ UNCHANGED <<head, jobs, retried, budget>>
      /\ \/ publishing' = None
         \/ /\ LeaseHeld(a, now)
            /\ ReferencesHold(now[d].refs, head)
            /\ publishing' = record
  BY DEF CompleteJob
<1>2. /\ attempts' \in Seq(Attempt)
      /\ Attempts' = Attempts
      /\ Continues(attempts, attempts')
      /\ Fetched(attempts')
  BY <1>1, StageStep
<1>3. attempts[a] \in Attempt /\ d \in Derivations /\ head \in Repository
      /\ attempts \in Seq(Attempt)
  BY AttemptFacts DEF Inv, TypeOK
<1>4. /\ attempts'[a].stage = "delivered"
      /\ attempts'[a].job = d
      /\ attempts'[a].params = attempts[a].params
      /\ attempts'[a].refs = attempts[a].refs
      /\ attempts'[a].fetched = attempts[a].params
  <2>1. attempts[a].fetched = attempts[a].params
    BY <1>1 DEF Inv, Fetched, Attempts
  <2> QED
    BY <1>1, <1>3, <2>1 DEF Attempt, Attempts
<1>5. ASSUME LeaseHeld(a, now), ReferencesHold(now[d].refs, head), publishing' = record
      PROVE  /\ publishing' \in [job : Derivations, base : Nat, committed : BOOLEAN,
                                 pub : Publication]
             /\ Pinned'
  <2>1. /\ d \in head.declared
        /\ jobs[d] # None
        /\ jobs[d].status = "running"
        /\ jobs[d].attempt = a
        /\ now[d] = jobs[d]
        /\ jobs[d].fingerprint = Fingerprint(head, d)
        /\ jobs[d].fingerprint = attempts[a].params
        /\ jobs[d].refs = attempts[a].refs
    BY <1>5, LeaseFacts
  <2>2. pub \in Publication
    <3>1. jobs[d].fingerprint \in Values /\ jobs[d].refs \in Refs
      BY <1>3, <2>1, JobFacts DEF Job, JobSet, Refs
    <3> HIDE DEF now
    <3> QED
      BY <2>1, <3>1 DEF Publication
  <2>3. record \in [job : Derivations, base : Nat, committed : BOOLEAN, pub : Publication]
    <3> HIDE DEF pub
    <3> QED
      BY <1>3, <2>2 DEF Repository
  <2>4. /\ publishing'.job = d /\ publishing'.base = head.rev
        /\ publishing'.pub.attempt = a
        /\ publishing'.pub.fingerprint = jobs[d].fingerprint
        /\ publishing'.pub.refs = jobs[d].refs
    <3> HIDE DEF now
    <3> QED
      BY <1>5, <2>1
  <2>5. Computed(attempts', d, pub)
    BY <1>4, <2>1, <2>4, <1>5 DEF Computed
  <2>6. ReferencesHold(jobs[d].refs, head)
    BY <1>5, <2>1
  <2>7. head.rev <= head.rev
    BY <1>3 DEF Repository
  <2> HIDE DEF now, pub, d
  <2> QED
    BY <1>1, <1>5, <2>1, <2>3, <2>4, <2>5, <2>6, <2>7 DEF Pinned, Checked
<1> HIDE DEF record
<1>6. TypeOK'
  <2>1. publishing' = None \/ publishing' \in
          [job : Derivations, base : Nat, committed : BOOLEAN, pub : Publication]
    BY <1>1, <1>5
  <2>2. Publication' = Publication
    BY <1>2, AttemptKeeps
  <2> QED
    BY <1>1, <1>2, <2>1, <2>2, AttemptKeeps DEF Inv, TypeOK
<1>7. Published(attempts, head)' /\ Published(attempts, snapshot)'
  BY <1>1, <1>2, AttemptKeeps DEF Published
<1>8. Jobs'
  BY <1>1, <1>2, AttemptKeeps DEF Jobs
<1>9. Order'
  <2>1. \A e \in Derivations : head.pubs[e] # None => head.pubs[e].attempt \in Nat
    BY PubFacts, NoneIsNoAttempt DEF Inv
  <2> QED
    BY <1>1, <2>1 DEF Order
<1>10. Pinned'
  BY <1>1, <1>5 DEF Pinned
<1> QED
  BY <1>1, <1>2, <1>6, <1>7, <1>8, <1>9, <1>10 DEF Inv

(* A commit on a state of the repository. *)
LEMMA RepositoryStep ==
  ASSUME NEW repo \in Repository,
         NEW value \in [Derivations -> Values], NEW declared \in SUBSET Derivations,
         NEW pubs \in [Derivations -> Publication \cup {None}]
  PROVE  [rev |-> repo.rev + 1, value |-> value, declared |-> declared, pubs |-> pubs]
           \in Repository
BY DEF Repository

LEMMA RepositoryFacts ==
  ASSUME NEW repo \in Repository
  PROVE  /\ repo.rev \in Nat
         /\ repo.value \in [Derivations -> Values]
         /\ repo.declared \in SUBSET Derivations
         /\ repo.pubs \in [Derivations -> Publication \cup {None}]
BY DEF Repository

(* The branch takes a publication only on the state complete_job checked. *)
LEMMA PublishStep == ASSUME Inv, Publish PROVE Inv'
<1>1. /\ publishing # None /\ ~publishing.committed
      /\ UNCHANGED <<snapshot, jobs, attempts, retried, budget>>
  BY DEF Publish
<1>2. publishing \in [job : Derivations, base : Nat, committed : BOOLEAN,
                      pub : Publication]
      /\ head \in Repository
  BY <1>1 DEF Inv, TypeOK
<1>3. /\ Job' = Job /\ Publication' = Publication /\ Repository' = Repository
      /\ Attempt' = Attempt
  BY <1>1 DEF Job, Repository, Attempt, Publication, Refs, Attempts
<1>4. CASE head.rev = publishing.base
  <2> DEFINE d == publishing.job
             pub == publishing.pub
  <2>1. /\ head' = [head EXCEPT !.rev = @ + 1, !.pubs[d] = pub]
        /\ publishing' = [publishing EXCEPT !.committed = TRUE]
    BY <1>1, <1>4 DEF Publish
  <2>2. /\ d \in Derivations /\ pub \in Publication /\ pub.attempt \in Attempts
        /\ pub.attempt \in Nat
    BY <1>2, NoneIsNoAttempt DEF Publication, Inv
  <2>3. /\ head' \in Repository
        /\ head'.rev = head.rev + 1
        /\ head'.pubs[d] = pub
        /\ \A e \in Derivations \ {d} : head'.pubs[e] = head.pubs[e]
    <3> DEFINE pubs == [head.pubs EXCEPT ![d] = pub]
    <3>1. head' = [rev |-> head.rev + 1, value |-> head.value,
                   declared |-> head.declared, pubs |-> pubs]
      BY <1>2, <2>1 DEF Repository
    <3>2. /\ pubs \in [Derivations -> Publication \cup {None}]
          /\ pubs[d] = pub
          /\ \A e \in Derivations \ {d} : pubs[e] = head.pubs[e]
      BY <1>2, <2>2, RepositoryFacts
    <3> HIDE DEF pubs
    <3>3. head' \in Repository
      BY <1>2, <3>1, <3>2, RepositoryStep, RepositoryFacts
    <3> QED
      BY <3>1, <3>2, <3>3
  <2>4. /\ publishing' \in [job : Derivations, base : Nat, committed : BOOLEAN,
                            pub : Publication]
        /\ publishing'.committed /\ publishing'.job = d /\ publishing'.pub = pub
        /\ publishing'.base = publishing.base
    BY <1>2, <2>1
  <2>5. /\ Computed(attempts, d, pub)
        /\ jobs[d] # None
        /\ jobs[d].status = "running"
        /\ jobs[d].attempt = pub.attempt
    BY <1>1 DEF Inv, Pinned, Checked
  <2>6. Leased(attempts, d, jobs[d]) /\ pub.attempt > retried[d]
    BY <2>2, <2>5, JobFacts DEF JobInv
  <2>7. TypeOK'
    BY <1>1, <1>3, <2>3, <2>4 DEF Inv, TypeOK
  <2> HIDE DEF d, pub
  <2>8. Published(attempts, head)' /\ Published(attempts, snapshot)'
    BY <1>1, <2>3, <2>5 DEF Inv, Published
  <2>9. Order'
    <3>1. ASSUME snapshot.pubs[d] # None
          PROVE  snapshot.pubs[d].attempt <= pub.attempt
      <4>1. /\ snapshot.pubs[d].attempt \in Attempts
            /\ attempts[snapshot.pubs[d].attempt].job = d
        BY <2>2, <3>1, PubFacts DEF Computed
      <4> QED
        BY <4>1, <2>5, <2>6 DEF Leased, Attempts
    <3> QED
      BY <1>1, <2>3, <3>1 DEF Inv, Order
  <2>10. Pinned'
    BY <1>1, <1>2, <1>4, <2>3, <2>4, <2>5 DEF Pinned, Repository
  <2>11. Jobs'
    BY <1>1, <2>3, <2>6, JobFacts DEF Jobs, JobInv
  <2> QED
    BY <1>1, <2>7, <2>8, <2>9, <2>10, <2>11 DEF Inv
<1>5. CASE head.rev # publishing.base
  <2>1. publishing' = None /\ UNCHANGED head
    BY <1>1, <1>5 DEF Publish
  <2> QED
    BY <1>1, <1>3, <2>1 DEF Inv, TypeOK, Published, Order, Pinned, Jobs
<1> QED
  BY <1>4, <1>5

(* Steps that leave the attempts, the jobs and HEAD alone. *)
LEMMA AnnounceStep ==
  ASSUME Inv, UNCHANGED <<head, jobs, attempts, retried>>,
         snapshot' \in {head, snapshot}, publishing' = None, budget' \in Scenario
  PROVE  Inv'
<1>1. /\ Job' = Job /\ Publication' = Publication /\ Repository' = Repository
      /\ Attempt' = Attempt
  BY DEF Job, Repository, Attempt, Publication, Refs, Attempts
<1>2. TypeOK'
  BY <1>1 DEF Inv, TypeOK
<1>3. Published(attempts, head)' /\ Published(attempts, snapshot)'
  BY DEF Inv, Published
<1>4. Order'
  <2>1. \A e \in Derivations : head.pubs[e] # None => head.pubs[e].attempt \in Nat
    BY PubFacts, NoneIsNoAttempt DEF Inv
  <2> QED
    BY <2>1 DEF Inv, Order
<1> QED
  BY <1>2, <1>3, <1>4 DEF Inv, Pinned, Jobs

(* A lease, or a backoff, runs out. *)
LEMMA ExpireStep ==
  ASSUME Inv, NEW d \in Derivations, jobs[d] # None, budget' \in Scenario,
         jobs' = [jobs EXCEPT ![d].live = FALSE],
         UNCHANGED <<head, snapshot, attempts, publishing, retried>>
  PROVE  Inv'
<1> DEFINE job == [jobs[d] EXCEPT !.live = FALSE]
<1>1. /\ jobs[d] \in Job
      /\ JobInv(attempts, head.pubs[d], d, jobs[d], retried[d])
  BY JobFacts
<1>2. /\ job \in Job /\ job.status = jobs[d].status /\ job.attempt = jobs[d].attempt
      /\ job.refs = jobs[d].refs /\ job.fingerprint = jobs[d].fingerprint
      /\ job.rerun = jobs[d].rerun
  BY <1>1 DEF Job, JobSet
<1>3. job # None
  BY <1>2, NoneIsNoJob DEF Inv
<1>4. /\ jobs' \in [Derivations -> Job \cup {None}]
      /\ jobs'[d] = job
      /\ \A e \in Derivations \ {d} : jobs'[e] = jobs[e]
  BY <1>2 DEF Inv, TypeOK
<1> HIDE DEF job
<1>5. /\ Job' = Job /\ Publication' = Publication /\ Repository' = Repository
      /\ Attempt' = Attempt
  BY DEF Job, Repository, Attempt, Publication, Refs, Attempts
<1>6. TypeOK'
  BY <1>4, <1>5 DEF Inv, TypeOK
<1>7. Jobs'
  <2>1. JobInv(attempts, head.pubs[d], d, job, retried[d])
    BY <1>1, <1>2, <1>3 DEF JobInv, Leased
  <2> QED
    BY <1>4, <2>1, JobFacts DEF Jobs
<1>8. Pinned'
  <2>1. ASSUME publishing # None, ~publishing.committed PROVE Checked(publishing)'
    <3>1. Checked(publishing) /\ publishing.job \in Derivations
      BY <2>1 DEF Inv, Pinned, TypeOK
    <3>2. CASE publishing.job = d
      BY <1>2, <1>3, <1>4, <3>1, <3>2 DEF Checked, Fingerprint, ReferencesHold, IsCurrent
    <3>3. CASE publishing.job # d
      BY <1>4, <3>1, <3>3 DEF Checked, Fingerprint, ReferencesHold, IsCurrent
    <3> QED
      BY <3>2, <3>3
  <2> QED
    BY <2>1 DEF Inv, Pinned
<1> QED
  BY <1>6, <1>7, <1>8 DEF Inv, Published, Order

(* Others commit: the revision moves on, and publications stay or go. *)
LEMMA CommitStep ==
  ASSUME Inv, head' \in Repository, head'.rev > head.rev, budget' \in Scenario,
         \A d \in Derivations : head'.pubs[d] \in {None, head.pubs[d]},
         snapshot' = snapshot \/ snapshot' = head',
         UNCHANGED <<jobs, attempts, publishing, retried>>
  PROVE  Inv'
<1>1. /\ Job' = Job /\ Publication' = Publication /\ Repository' = Repository
      /\ Attempt' = Attempt
  BY DEF Job, Repository, Attempt, Publication, Refs, Attempts
<1>2. TypeOK'
  BY <1>1 DEF Inv, TypeOK
<1>3. Published(attempts, head)' /\ Published(attempts, snapshot)'
  BY DEF Inv, Published
<1>4. Order'
  <2>1. \A d \in Derivations : head'.pubs[d] # None => head'.pubs[d].attempt \in Nat
    BY PubFacts, NoneIsNoAttempt DEF Inv
  <2> QED
    BY <2>1 DEF Inv, Order
<1>5. Jobs'
  BY JobFacts DEF Jobs, JobInv
<1>6. Pinned'
  <2>1. head.rev \in Nat /\ head'.rev \in Nat
    BY DEF Inv, TypeOK, Repository
  <2>2. publishing # None => publishing.base \in Nat
    BY DEF Inv, TypeOK
  <2> QED
    BY <2>1, <2>2 DEF Inv, Pinned, Checked
<1> QED
  BY <1>2, <1>3, <1>4, <1>5, <1>6 DEF Inv, Fetched

LEMMA ChangedFacts ==
  ASSUME Inv, NEW later \in Changed(head) \cup Redeclared(head)
  PROVE  /\ later \in Repository
         /\ later.rev = head.rev + 1
         /\ later.pubs = head.pubs
<1>1. head \in Repository /\ budget.derivations \subseteq Derivations
  BY DEF Inv, TypeOK, Scenario
<1>2. CASE later \in Changed(head)
  <2>1. PICK d \in budget.derivations, v \in Values :
          later = [head EXCEPT !.rev = @ + 1, !.value[d] = v]
    <3>1. PICK d \in budget.derivations :
            later \in { [head EXCEPT !.rev = @ + 1, !.value[d] = v] :
                          v \in Values \ {head.value[d]} }
      BY <1>2 DEF Changed
    <3> QED
      BY <3>1
  <2> DEFINE value == [head.value EXCEPT ![d] = v]
  <2>2. value \in [Derivations -> Values]
    BY <1>1 DEF Repository
  <2>3. later = [rev |-> head.rev + 1, value |-> value,
                 declared |-> head.declared, pubs |-> head.pubs]
    BY <1>1, <2>1 DEF Repository
  <2> HIDE DEF value
  <2>4. later \in Repository
    BY <1>1, <2>2, <2>3, RepositoryStep, RepositoryFacts
  <2> QED
    BY <2>3, <2>4
<1>3. CASE later \in Redeclared(head)
  <2>1. PICK declared \in SUBSET budget.derivations :
          later = [head EXCEPT !.rev = @ + 1, !.declared = declared]
    BY <1>3 DEF Redeclared
  <2>2. later = [rev |-> head.rev + 1, value |-> head.value,
                 declared |-> declared, pubs |-> head.pubs]
    BY <1>1, <2>1 DEF Repository
  <2>3. declared \in SUBSET Derivations
    BY <1>1
  <2>4. later \in Repository
    BY <1>1, <2>2, <2>3, RepositoryStep, RepositoryFacts
  <2> QED
    BY <2>2, <2>4
<1> QED
  BY <1>2, <1>3

LEMMA RevertFacts ==
  ASSUME Inv, NEW d \in Derivations, ExternalRevert(d)
  PROVE  /\ head' \in Repository
         /\ head'.rev = head.rev + 1
         /\ \A e \in Derivations : head'.pubs[e] \in {None, head.pubs[e]}
<1>1. head \in Repository
  BY DEF Inv, TypeOK
<1> DEFINE pubs == [head.pubs EXCEPT ![d] = None]
<1>2. head' = [rev |-> head.rev + 1, value |-> head.value,
               declared |-> head.declared, pubs |-> pubs]
  BY <1>1 DEF ExternalRevert, Repository
<1>3. /\ pubs \in [Derivations -> Publication \cup {None}]
      /\ \A e \in Derivations : pubs[e] \in {None, head.pubs[e]}
  BY <1>1, RepositoryFacts
<1> HIDE DEF pubs
<1>4. head' \in Repository
  BY <1>1, <1>2, <1>3, RepositoryStep, RepositoryFacts
<1> QED
  BY <1>2, <1>3, <1>4

-----------------------------------------------------------------------------
(***************************************************************************)
(* The theorems.                                                           *)
(***************************************************************************)
LEMMA Step == ASSUME Inv, [Next]_vars PROVE Inv'
<1>1. CASE ListJobs
  BY <1>1, ListJobsStep
<1>2. ASSUME NEW d \in Derivations,
             \/ RetryJob(d) \/ ClaimJob(d)
             \/ ExpireEarly(d) \/ Expire(d)
             \/ ExternalRevert(d)
      PROVE  Inv'
  <2>1. CASE RetryJob(d)
    BY <2>1, RetryJobStep
  <2>2. CASE ClaimJob(d)
    BY <2>2, ClaimJobStep
  <2>3. CASE ExpireEarly(d)
    BY <2>3, ExpireStep, SpendType DEF ExpireEarly
  <2>4. CASE Expire(d)
    BY <2>4, ExpireStep DEF Expire, Inv, TypeOK
  <2>5. CASE ExternalRevert(d)
    <3>1. head.rev \in Nat
      BY DEF Inv, TypeOK, Repository
    <3>2. budget' \in Scenario
      BY <2>5, SpendType DEF ExternalRevert
    <3>3. UNCHANGED <<snapshot, jobs, attempts, publishing, retried>>
      BY <2>5 DEF ExternalRevert
    <3>4. /\ head' \in Repository
          /\ head'.rev = head.rev + 1
          /\ \A e \in Derivations : head'.pubs[e] \in {None, head.pubs[e]}
      BY <2>5, RevertFacts
    <3> QED
      BY <3>1, <3>2, <3>3, <3>4, CommitStep
  <2> QED
    BY <1>2, <2>1, <2>2, <2>3, <2>4, <2>5
<1>3. ASSUME NEW a \in Attempts, WorkerStep(a) PROVE Inv'
  BY <1>3, FetchStep, HeartbeatStep, HeartbeatFailureStep, SendCompleteStep,
     CompleteJobStep DEF WorkerStep
<1>4. CASE Publish
  BY <1>4, PublishStep
<1>5. CASE Announce
  <2>1. budget \in Scenario
    BY DEF Inv, TypeOK
  <2> QED
    BY <1>5, <2>1, AnnounceStep DEF Announce
<1>6. CASE PublicationFails
  BY <1>6, AnnounceStep, SpendType DEF PublicationFails
<1>7. ASSUME head' \in Changed(head) \cup Redeclared(head), budget' \in Scenario,
             snapshot' = snapshot \/ snapshot' = head',
             UNCHANGED <<jobs, attempts, publishing, retried>>
      PROVE  Inv'
  <2>1. head.rev \in Nat
    BY DEF Inv, TypeOK, Repository
  <2>2. /\ head' \in Repository
        /\ head'.rev = head.rev + 1
        /\ head'.pubs = head.pubs
    BY <1>7, ChangedFacts
  <2> QED
    BY <1>7, <2>1, <2>2, CommitStep
<1>8. CASE Edit
  BY <1>7, <1>8, SpendType DEF Edit
<1>9. CASE ExternalCommit
  BY <1>7, <1>9, SpendType DEF ExternalCommit
<1>10. CASE Crash
  BY <1>10, AnnounceStep, SpendType DEF Crash
<1>11. CASE UNCHANGED vars
  BY <1>11 DEF vars, Inv, TypeOK, Published, Fetched, Order, Pinned, Checked, Jobs, Job,
     Refs, Publication, Repository, Attempt, Attempts, ReferencesHold, IsCurrent,
     Fingerprint
<1> QED
  BY <1>1, <1>2, <1>3, <1>4, <1>5, <1>6, <1>8, <1>9, <1>10, <1>11 DEF Next

THEOREM InvAlways == Spec => []Inv
BY InitInv, Step, PTL DEF Spec

(* The state is well typed, and an attempt is recorded while its job runs. *)
THEOREM TypesHold == Spec => []TypeOK
<1>1. Inv => TypeOK
  BY DEF Inv
<1> QED
  BY <1>1, InvAlways, PTL

(* Every manifest entry names the attempt that computed its outputs from    *)
(* the inputs and references it lists, whatever was edited, expired, sent   *)
(* late or sent twice while the worker was busy.                            *)
THEOREM ManifestsAreFaithful == Spec => []PublicationsAreFaithful
<1>1. Inv => PublicationsAreFaithful
  BY DEF Inv, Published, Computed, PublicationsAreFaithful
<1> QED
  BY <1>1, InvAlways, PTL

(* A job that was retried is current again only for an attempt claimed      *)
(* after the retry.                                                         *)
THEOREM RetriesAreNotLost == Spec => []RetriesRunAgain
<1>1. Inv => RetriesRunAgain
  BY DEF Inv, Jobs, JobInv, RetriesRunAgain
<1> QED
  BY <1>1, InvAlways, PTL

(* A publication is committed on a state it is current for, although HEAD   *)
(* moves without the lock between the check and the commit.                 *)
THEOREM PublicationsAreOnTime == Spec => PublicationsAreTimely
<1> DEFINE Timely ==
      \A d \in Derivations :
        head'.pubs[d] \notin {None, head.pubs[d]} =>
          /\ d \in head.declared
          /\ head'.pubs[d].fingerprint = Fingerprint(head, d)
          /\ ReferencesHold(head'.pubs[d].refs, head)
<1>1. ASSUME Inv, Publish PROVE Timely
  <2>1. /\ publishing # None /\ ~publishing.committed
        /\ publishing \in [job : Derivations, base : Nat, committed : BOOLEAN,
                           pub : Publication]
        /\ head \in Repository
    BY <1>1 DEF Publish, Inv, TypeOK
  <2>2. Checked(publishing)
    BY <1>1, <2>1 DEF Inv, Pinned
  <2>3. CASE head.rev = publishing.base
    <3>1. head' = [head EXCEPT !.rev = @ + 1, !.pubs[publishing.job] = publishing.pub]
      BY <1>1, <2>3 DEF Publish
    <3>2. \A d \in Derivations :
            head'.pubs[d] = IF d = publishing.job THEN publishing.pub ELSE head.pubs[d]
      BY <2>1, <3>1 DEF Repository
    <3> QED
      BY <2>2, <2>3, <3>2 DEF Checked
  <2>4. CASE head.rev # publishing.base
    BY <1>1, <2>4 DEF Publish
  <2> QED
    BY <2>3, <2>4
<1>2. ASSUME Inv, head' \in Changed(head) \cup Redeclared(head) PROVE Timely
  BY <1>2, ChangedFacts
<1>3. ASSUME Inv, NEW d \in Derivations, ExternalRevert(d) PROVE Timely
  BY <1>3, RevertFacts
<1>4. ASSUME UNCHANGED head PROVE Timely
  BY <1>4
<1>5. ASSUME Inv, [Next]_vars PROVE Timely
  <2> HIDE DEF Timely
  <2> QED
    BY <1>1, <1>2, <1>3, <1>4, <1>5 DEF Next, vars, ListJobs, RetryJob, ClaimJob,
       ExpireEarly, Expire, WorkerStep, Fetch, Heartbeat, HeartbeatFailure,
       SendComplete, CompleteJob, Announce, PublicationFails, Edit, ExternalCommit,
       Crash
<1> QED
  BY <1>5, InvAlways, PTL DEF Spec, PublicationsAreTimely
==============================================================================
