------------------------- MODULE RetrievalQueueProofs -------------------------
(***************************************************************************)
(* Safety of the retrieval queue for every set of requests, every number   *)
(* of workers, attempts, crashes and rebuilds, and the step simulation of  *)
(* DocumentRequests.                                                       *)
(*                                                                         *)
(* AnswersAreWhole is not inductive: an answer is accepted from whoever     *)
(* holds the job, so the invariant says of a job that is not complete yet   *)
(* whose attempt may hold it (Sound): one that was handed this job, after   *)
(* the last rebuild.  The two files of a request are looked at together,    *)
(* with the log of attempts, one request at a time.                         *)
(***************************************************************************)
EXTENDS RetrievalQueue, TLAPS

Stages == {"working", "sent", "delivered", "reported", "gone"}
AttemptType == [job : Requests, stage : Stages]

JobSet(log) ==
  [attempt : DOMAIN log \cup {None}, live : BOOLEAN, open : BOOLEAN,
   failures : Nat, failed : BOOLEAN, complete : BOOLEAN]

(* What an attempt may do with a request: be its own, and recent enough. *)
Belongs(id, a, log, since) ==
  /\ log[a].job = id
  /\ id \in Documents => a > since

(* The two files of a request, given the attempts so far and the number of  *)
(* those before the last rebuild.                                           *)
Sound(id, job, result, log, since) ==
  /\ result \in DOMAIN log \cup {None}
  /\ job # None =>
       /\ job \in JobSet(log)
       /\ job.attempt # None => Belongs(id, job.attempt, log, since)
       /\ job.failed => job.attempt = None
       /\ job.complete =>
            /\ result # None
            /\ Belongs(id, result, log, since)
            /\ job.attempt \in {result, None}

Files == \A id \in Requests : Sound(id, jobs[id], results[id], attempts, cleared)

Rest ==
  /\ DOMAIN jobs = Requests
  /\ DOMAIN results = Requests
  /\ attempts \in Seq(AttemptType)
  /\ recent \subseteq Recipes
  /\ polls \in 0 .. Workers
  /\ indexed \subseteq Documents
  /\ cleared \in 0 .. Len(attempts)

Inv == Rest /\ Files

-----------------------------------------------------------------------------
(* The log of attempts only grows, and an attempt stays that of its job. *)
Grows(log, longer) ==
  /\ DOMAIN log \subseteq DOMAIN longer
  /\ \A a \in DOMAIN log : longer[a].job = log[a].job

LEMMA SoundLater ==
  ASSUME NEW id, NEW job, NEW result, NEW log, NEW longer, NEW since,
         None \notin DOMAIN log,
         Grows(log, longer), Sound(id, job, result, log, since)
  PROVE  Sound(id, job, result, longer, since)
<1>1. job # None => job \in JobSet(longer)
  BY DEF Sound, JobSet, Grows
<1>2. \A a \in DOMAIN log : Belongs(id, a, log, since) => Belongs(id, a, longer, since)
  BY DEF Grows, Belongs
<1>3. job # None => job.attempt \in DOMAIN log \cup {None}
  BY DEF Sound, JobSet
<1> QED
  BY <1>1, <1>2, <1>3 DEF Sound, Grows

(* Nothing but an answer at most remains of a request that is dropped. *)
LEMMA DroppedIsSound ==
  ASSUME NEW id, NEW job, NEW result, NEW log, NEW since,
         Sound(id, job, result, log, since)
  PROVE  /\ Sound(id, None, result, log, since)
         /\ Sound(id, None, None, log, since)
BY DEF Sound

(* A job that was just submitted has no attempt. *)
LEMMA NewIsSound ==
  ASSUME NEW id, NEW result, NEW log, NEW since, result \in DOMAIN log \cup {None}
  PROVE  Sound(id, NewJob, result, log, since)
BY DEF Sound, NewJob, JobSet

LEMMA AttemptFacts ==
  ASSUME Rest
  PROVE  /\ Attempts = 1 .. Len(attempts)
         /\ Len(attempts) \in Nat
         /\ None \notin Attempts
         /\ \A a \in Attempts : attempts[a] \in AttemptType
BY QueueAssumption DEF Rest, Attempts

(* A stage of one attempt changes: the log keeps its length and its jobs. *)
LEMMA StageChanges ==
  ASSUME Rest, NEW a \in Attempts, NEW stage \in Stages,
         attempts' = [attempts EXCEPT ![a].stage = stage]
  PROVE  /\ attempts' \in Seq(AttemptType)
         /\ Len(attempts') = Len(attempts)
         /\ Grows(attempts, attempts')
<1>1. attempts[a] \in AttemptType
  BY AttemptFacts
<1>2. [attempts[a] EXCEPT !.stage = stage] \in AttemptType
  BY <1>1 DEF AttemptType
<1>3. attempts' = [attempts EXCEPT ![a] = [attempts[a] EXCEPT !.stage = stage]]
  OBVIOUS
<1>4. attempts \in Seq(AttemptType) /\ a \in 1 .. Len(attempts)
  BY AttemptFacts DEF Rest
<1>5. attempts' \in Seq(AttemptType) /\ Len(attempts') = Len(attempts)
  BY <1>2, <1>3, <1>4
<1>6. \A b \in DOMAIN attempts : attempts'[b].job = attempts[b].job
  <2> SUFFICES ASSUME NEW b \in DOMAIN attempts PROVE attempts'[b].job = attempts[b].job
    OBVIOUS
  <2>1. CASE b = a
    BY <2>1, <1>1, <1>3, <1>4 DEF AttemptType
  <2>2. CASE b # a
    BY <2>2, <1>3
  <2> QED
    BY <2>1, <2>2
<1> QED
  BY <1>3, <1>5, <1>6 DEF Grows

(* What a step may do to a request that it is not about. *)
Reduced(id) ==
  /\ jobs'[id] \in {jobs[id], None}
  /\ results'[id] \in {results[id], None}
  /\ jobs'[id] # None => results'[id] = results[id]

(* A step after which each request's files are those of before, dropped, or *)
(* sound for another reason, keeps the invariant.                           *)
LEMMA Kept ==
  ASSUME Inv, Rest', cleared' = cleared, Grows(attempts, attempts'),
         \A id \in Requests :
            \/ Reduced(id)
            \/ Sound(id, jobs'[id], results'[id], attempts', cleared)
  PROVE  Inv'
<1>1. ASSUME NEW id \in Requests, Reduced(id)
      PROVE  Sound(id, jobs'[id], results'[id], attempts', cleared)
  <2>1. Sound(id, jobs[id], results[id], attempts, cleared)
    BY DEF Inv, Files
  <2>2. Sound(id, jobs'[id], results'[id], attempts, cleared)
    BY <1>1, <2>1, DroppedIsSound DEF Reduced
  <2>3. None \notin DOMAIN attempts
    BY AttemptFacts DEF Inv, Attempts
  <2> QED
    BY <2>2, <2>3, SoundLater
<1> QED
  BY <1>1 DEF Inv, Files

LEMMA GrowsBySame == attempts' = attempts => Grows(attempts, attempts')
BY DEF Grows

LEMMA InitInv == Init => Inv
BY QueueAssumption DEF Init, Inv, Rest, Files, Sound

-----------------------------------------------------------------------------
(* Requesters. *)
LEMMA SubmitInv == ASSUME Inv, NEW id \in Requests, Submit(id) PROVE Inv'
<1>1. Rest' /\ attempts' = attempts /\ cleared' = cleared
  BY DEF Submit, Inv, Rest
<1>2. results'[id] \in {results[id], None} /\ jobs'[id] \in {NewJob, None}
  BY DEF Submit, Inv, Rest
<1>3. Sound(id, jobs'[id], results'[id], attempts, cleared)
  <2>1. Sound(id, jobs[id], results[id], attempts, cleared)
    BY DEF Inv, Files
  <2>2. results'[id] \in DOMAIN attempts \cup {None}
    BY <1>2, <2>1 DEF Sound
  <2> QED
    BY <1>2, <2>2, NewIsSound DEF Sound
<1>4. \A d \in Requests \ {id} : Reduced(d)
  BY DEF Submit, Inv, Rest, Reduced
<1> QED
  BY <1>1, <1>3, <1>4, Kept, GrowsBySame

LEMMA RetryInv == ASSUME Inv, NEW id \in Requests, Retry(id) PROVE Inv'
<1>1. Rest' /\ attempts' = attempts /\ cleared' = cleared
  BY DEF Retry, Inv, Rest
<1>2. Sound(id, jobs'[id], results'[id], attempts, cleared)
  <2>1. results[id] \in DOMAIN attempts \cup {None}
    BY DEF Inv, Files, Sound
  <2>2. jobs'[id] = NewJob /\ results'[id] = results[id]
    BY DEF Retry, Inv, Rest
  <2> QED
    BY <2>1, <2>2, NewIsSound
<1>3. \A d \in Requests \ {id} : Reduced(d)
  BY DEF Retry, Inv, Rest, Reduced
<1> QED
  BY <1>1, <1>2, <1>3, Kept, GrowsBySame

(* A pass over the directory drops jobs, and the answers without one. *)
LEMMA DroppingDrops ==
  ASSUME NEW ids \in SUBSET Requests, Dropping(ids)
  PROVE  /\ DOMAIN jobs' = Requests /\ DOMAIN results' = Requests
         /\ \A d \in Requests :
              /\ jobs'[d] = IF d \in ids THEN None ELSE jobs[d]
              /\ Reduced(d)
BY DEF Dropping, Without, Orphans, Exists, Reduced

LEMMA SummariesInv == ASSUME Inv, Summaries PROVE Inv'
<1>1. StaleJobs \in SUBSET Requests /\ Dropping(StaleJobs)
  BY DEF Summaries, StaleJobs
<1>2. Rest' /\ attempts' = attempts /\ cleared' = cleared
  BY <1>1, DroppingDrops DEF Summaries, Inv, Rest
<1> QED
  BY <1>1, <1>2, DroppingDrops, Kept, GrowsBySame

(* No document is left that an earlier attempt could answer. *)
LEMMA ClearDocumentsInv == ASSUME Inv, ClearDocuments PROVE Inv'
<1> DEFINE all == {id \in Documents : Exists(id)}
<1>1. all \in SUBSET Requests /\ Dropping(all)
  BY DEF ClearDocuments, Requests
<1>2. Rest' /\ attempts' = attempts
  BY <1>1, DroppingDrops, AttemptFacts DEF ClearDocuments, Inv, Rest
<1>3. ASSUME NEW id \in Requests
      PROVE  Sound(id, jobs'[id], results'[id], attempts, cleared')
  <2>1. Sound(id, jobs[id], results[id], attempts, cleared)
    BY DEF Inv, Files
  <2>2. /\ jobs'[id] = IF id \in all THEN None ELSE jobs[id]
        /\ results'[id] \in {results[id], None}
        /\ jobs'[id] # None => results'[id] = results[id]
    BY <1>1, DroppingDrops DEF Reduced
  <2>3. CASE jobs'[id] = None
    BY <2>1, <2>2, <2>3 DEF Sound
  <2>4. CASE jobs'[id] # None
    <3>1. id \notin Documents
      BY <2>2, <2>4 DEF Exists
    <3> QED
      BY <2>1, <2>2, <2>4, <3>1 DEF Sound, Belongs
  <2> QED
    BY <2>3, <2>4
<1> QED
  BY <1>2, <1>3 DEF Inv, Files

-----------------------------------------------------------------------------
(* Workers. *)
(* An assignment is one attempt more, the newest of all. *)
LEMMA Assigned ==
  ASSUME Rest, NEW id \in Requests,
         attempts' = Append(attempts, [job |-> id, stage |-> "working"])
  PROVE  /\ attempts' \in Seq(AttemptType)
         /\ Len(attempts') = Len(attempts) + 1
         /\ DOMAIN attempts' = 1 .. (Len(attempts) + 1)
         /\ attempts'[Len(attempts) + 1].job = id
         /\ Grows(attempts, attempts')
<1>1. [job |-> id, stage |-> "working"] \in AttemptType
  BY DEF AttemptType, Stages
<1>2. attempts \in Seq(AttemptType)
  BY DEF Rest
<1> QED
  BY <1>1, <1>2 DEF Grows

(* What a claim leaves of the files, whatever it offers. *)
LEMMA ClaimKeeps ==
  ASSUME Inv, NEW kind \in SUBSET Requests, NEW recipes \in SUBSET Recipes,
         Claim(kind, recipes), polls' \in 0 .. Workers
  PROVE  Inv'
<1> DEFINE given == Without(jobs, StaleJobs)
<1>1. /\ \A d \in Requests : /\ results'[d] \in {results[d], None}
                             /\ given[d] \in {jobs[d], None}
                             /\ given[d] # None => results'[d] = results[d]
      /\ DOMAIN results' = Requests /\ DOMAIN given = Requests
  BY DEF Claim, Without, StaleJobs, Orphans, Exists
<1>2. /\ recent' \subseteq Recipes /\ indexed' \subseteq Documents
      /\ cleared' = cleared
  BY DEF Claim, Inv, Rest
<1>3. CASE AssignNothing
  <2>1. jobs' = given /\ attempts' = attempts
    BY <1>3 DEF AssignNothing
  <2>2. Rest'
    BY <1>1, <1>2, <2>1 DEF Inv, Rest
  <2> QED
    BY <1>1, <1>2, <2>1, <2>2, Kept, GrowsBySame DEF Reduced
<1>4. ASSUME NEW id \in kind, Claimable(id), Assign(id) PROVE Inv'
  <2>0. id \in Requests
    OBVIOUS
  <2>1. /\ attempts' \in Seq(AttemptType)
        /\ Len(attempts') = Len(attempts) + 1
        /\ DOMAIN attempts' = 1 .. (Len(attempts) + 1)
        /\ attempts'[Len(attempts) + 1].job = id
        /\ Grows(attempts, attempts')
    BY <1>4, <2>0, Assigned DEF Assign, Inv
  <2>2. given[id] = jobs[id] /\ jobs[id] # None /\ ~jobs[id].complete /\ ~jobs[id].failed
    BY <1>4, <2>0 DEF Claimable, Without, StaleJobs, Stale, Exists
  <2>3. jobs[id] \in JobSet(attempts) /\ Len(attempts) \in Nat /\ cleared \in 0 .. Len(attempts)
    BY <2>2, AttemptFacts DEF Inv, Files, Sound, Rest
  <2>4. /\ DOMAIN jobs' = Requests
        /\ jobs'[id] = [jobs[id] EXCEPT !.attempt = Len(attempts) + 1, !.live = TRUE]
        /\ \A d \in Requests \ {id} : jobs'[d] = given[d]
    BY <1>1, <1>4, <2>2, <2>0 DEF Assign
  <2>5. Rest'
    BY <1>1, <1>2, <2>1, <2>3, <2>4 DEF Rest
  <2>6. Sound(id, jobs'[id], results'[id], attempts', cleared)
    <3> DEFINE job == jobs'[id]
    <3>0. Len(attempts) + 1 \in DOMAIN attempts' /\ DOMAIN attempts \subseteq DOMAIN attempts'
      BY <2>1, <2>3 DEF Grows
    <3>1. job \in JobSet(attempts')
      BY <2>3, <2>4, <3>0 DEF JobSet
    <3>2. job.attempt = Len(attempts) + 1 /\ ~job.complete /\ ~job.failed
      BY <2>2, <2>3, <2>4 DEF JobSet
    <3>3. Belongs(id, job.attempt, attempts', cleared)
      BY <3>2, <2>1, <2>3 DEF Belongs
    <3>4. results'[id] \in DOMAIN attempts' \cup {None}
      <4>1. results[id] \in DOMAIN attempts \cup {None}
        BY <2>0 DEF Inv, Files, Sound
      <4> QED
        BY <4>1, <1>1, <2>0, <2>1 DEF Grows
    <3> QED
      BY <3>1, <3>2, <3>3, <3>4 DEF Sound
  <2>7. \A d \in Requests \ {id} : Reduced(d)
    BY <1>1, <2>4 DEF Reduced
  <2> QED
    BY <1>2, <2>1, <2>5, <2>6, <2>7, Kept
<1> QED
  BY <1>3, <1>4 DEF Claim

LEMMA ClaimQueryInv ==
  ASSUME Inv, NEW recipes \in SUBSET Recipes, ClaimQuery(recipes) PROVE Inv'
<1>1. polls' \in 0 .. Workers
  BY QueueAssumption DEF ClaimQuery, Inv, Rest
<1> QED
  BY <1>1, ClaimKeeps DEF ClaimQuery, Requests

LEMMA ClaimDocumentInv ==
  ASSUME Inv, NEW recipes \in SUBSET Recipes, ClaimDocument(recipes) PROVE Inv'
<1>1. polls' \in 0 .. Workers
  BY QueueAssumption DEF ClaimDocument, Inv, Rest
<1> QED
  BY <1>1, ClaimKeeps DEF ClaimDocument, Requests

(* Steps that change the files of none and the stage of at most one attempt. *)
LEMMA StageStep ==
  ASSUME Inv, NEW a \in Attempts, NEW stage \in Stages,
         attempts' = [attempts EXCEPT ![a].stage = stage],
         UNCHANGED <<jobs, results, indexed, polls, cleared>>,
         recent' \subseteq Recipes
  PROVE  Inv'
<1>1. Rest'
  BY StageChanges DEF Inv, Rest
<1> QED
  BY <1>1, StageChanges, Kept DEF Inv, Reduced

LEMMA SameFiles ==
  ASSUME Inv, UNCHANGED <<jobs, results, attempts, cleared>>,
         recent' \subseteq Recipes, indexed' \subseteq Documents, polls' \in 0 .. Workers
  PROVE  Inv'
<1>1. Rest'
  BY DEF Inv, Rest
<1> QED
  BY <1>1, GrowsBySame, Kept DEF Reduced

LEMMA HeartbeatInv == ASSUME Inv, NEW a \in Attempts, Heartbeat(a) PROVE Inv'
<1>1. attempts[a].job \in Requests
  BY AttemptFacts DEF Inv, AttemptType
<1>2. CASE Leased(a)
  <2>1. recent' \subseteq Recipes
    BY <1>1, <1>2, QueueAssumption DEF Heartbeat, Inv, Rest
  <2> QED
    BY <1>2, <2>1, SameFiles DEF Heartbeat, Inv, Rest
<1>3. CASE ~Leased(a)
  BY <1>3, StageStep DEF Heartbeat, Inv, Rest, Stages
<1> QED
  BY <1>2, <1>3

LEMMA DieInv == ASSUME Inv, NEW a \in Attempts, Die(a) PROVE Inv'
BY StageStep DEF Die, Inv, Rest, Stages

LEMMA SendCompleteInv == ASSUME Inv, NEW a \in Attempts, SendComplete(a) PROVE Inv'
BY StageStep DEF SendComplete, Inv, Rest, Stages

(* A job that a leased attempt may change. *)
LEMMA LeasedFacts ==
  ASSUME Inv, NEW a \in Attempts, AttemptHolds(a)
  PROVE  LET id == attempts[a].job
         IN  /\ id \in Requests
             /\ jobs[id] \in JobSet(attempts)
             /\ jobs[id].attempt = a /\ a # None
             /\ ~jobs[id].failed
             /\ Belongs(id, a, attempts, cleared)
             /\ results[id] \in DOMAIN attempts \cup {None}
             /\ jobs[id].complete => results[id] = a
<1> DEFINE id == attempts[a].job
<1>1. id \in Requests /\ a # None
  BY AttemptFacts DEF Inv, AttemptType
<1>2. Sound(id, jobs[id], results[id], attempts, cleared)
  BY <1>1 DEF Inv, Files
<1>3. jobs[id] # None /\ jobs[id].attempt = a
  BY DEF AttemptHolds, Exists
<1> QED
  BY <1>1, <1>2, <1>3 DEF Sound

(* A failure releases the job and leaves its answer alone. *)
LEMMA FailedFacts ==
  ASSUME NEW log, NEW job \in JobSet(log)
  PROVE  /\ Failed(job) \in JobSet(log)
         /\ Failed(job).attempt = None
         /\ Failed(job).complete = job.complete
<1> DEFINE enough == job.failures + 1 >= MaxFailures
<1>1. enough \in BOOLEAN
  OBVIOUS
<1>2. job.failures + 1 \in Nat
  BY DEF JobSet
<1>3. Failed(job) = [job EXCEPT !.failures = job.failures + 1, !.attempt = None, !.failed = enough]
  BY DEF Failed
<1> HIDE DEF enough
<1> QED
  BY <1>1, <1>2, <1>3 DEF JobSet

LEMMA ReportFailureInv ==
  ASSUME Inv, NEW a \in Attempts, ReportFailure(a) PROVE Inv'
<1> DEFINE stage == IF attempts[a].stage = "working" THEN "gone" ELSE "reported"
           id == attempts[a].job
<1>1. attempts' = [attempts EXCEPT ![a].stage = stage] /\ stage \in Stages
  BY DEF ReportFailure, Stages
<1>2. CASE Leased(a)
  <2>1. AttemptHolds(a)
    BY <1>2 DEF Leased
  <2>2. /\ id \in Requests /\ jobs[id] \in JobSet(attempts)
        /\ Sound(id, jobs[id], results[id], attempts, cleared)
        /\ jobs[id].complete => results[id] = a
        /\ jobs[id] # None
    BY <2>1, LeasedFacts DEF Inv, Files, AttemptHolds, Exists
  <2>3. /\ DOMAIN jobs' = Requests /\ jobs'[id] = Failed(jobs[id])
        /\ results' = results
        /\ \A d \in Requests \ {id} : jobs'[d] = jobs[d]
    BY <1>2, <2>2 DEF ReportFailure, Inv, Rest
  <2>4. Rest'
    <3>1. recent' \subseteq Recipes
      BY <1>2, <2>2, QueueAssumption DEF ReportFailure, Inv, Rest
    <3>2. attempts' \in Seq(AttemptType) /\ Len(attempts') = Len(attempts)
      BY <1>1, StageChanges DEF Inv
    <3> QED
      BY <2>3, <3>1, <3>2 DEF ReportFailure, Inv, Rest
  <2>5. /\ Failed(jobs[id]) \in JobSet(attempts)
        /\ Failed(jobs[id]).attempt = None
        /\ Failed(jobs[id]).complete = jobs[id].complete
    BY <2>2, FailedFacts
  <2>6. Sound(id, Failed(jobs[id]), results[id], attempts, cleared)
    BY <2>2, <2>5 DEF Sound
  <2>7. Sound(id, jobs'[id], results'[id], attempts', cleared)
    <3>1. None \notin DOMAIN attempts
      BY AttemptFacts DEF Inv, Attempts
    <3> QED
      BY <1>1, <2>3, <2>6, <3>1, StageChanges, SoundLater DEF Inv
  <2>8. \A d \in Requests \ {id} : Reduced(d)
    BY <2>3 DEF Reduced
  <2> QED
    BY <1>1, <2>4, <2>7, <2>8, StageChanges, Kept DEF ReportFailure, Inv
<1>3. CASE ~Leased(a)
  BY <1>1, <1>3, StageStep DEF ReportFailure, Inv, Rest
<1> QED
  BY <1>2, <1>3

(* The answer of the attempt that holds the job. *)
LEMMA AnswerIsSound ==
  ASSUME Inv, NEW a \in Attempts, Accepts(a)
  PROVE  LET id == attempts[a].job
         IN  /\ id \in Requests
             /\ Sound(id, [jobs[id] EXCEPT !.complete = TRUE], a, attempts, cleared)
             /\ Sound(id, jobs[id], a, attempts, cleared)
<1> DEFINE id == attempts[a].job
           job == [jobs[id] EXCEPT !.complete = TRUE]
<1>1. /\ id \in Requests /\ jobs[id] \in JobSet(attempts)
      /\ jobs[id].attempt = a /\ a # None /\ ~jobs[id].failed
      /\ Belongs(id, a, attempts, cleared) /\ ~jobs[id].complete
      /\ a \in DOMAIN attempts
  BY LeasedFacts DEF Accepts, Leased, Attempts
<1>2. job \in JobSet(attempts) /\ job.attempt = a /\ ~job.failed
  BY <1>1 DEF JobSet
<1> QED
  BY <1>1, <1>2 DEF Sound

LEMMA CompleteInv == ASSUME Inv, NEW a \in Attempts, Complete(a) PROVE Inv'
<1> DEFINE stage == IF attempts[a].stage = "sent" THEN "delivered" ELSE attempts[a].stage
           id == attempts[a].job
<1>1. attempts' = [attempts EXCEPT ![a].stage = stage] /\ stage \in Stages
  BY AttemptFacts DEF Complete, Delivered, Stages, Inv
<1>2. CASE Accepts(a)
  <2>1. /\ id \in Requests
        /\ Sound(id, [jobs[id] EXCEPT !.complete = TRUE], a, attempts, cleared)
    BY <1>2, AnswerIsSound
  <2>2. /\ DOMAIN jobs' = Requests /\ DOMAIN results' = Requests
        /\ jobs'[id] = [jobs[id] EXCEPT !.complete = TRUE]
        /\ results'[id] = a
        /\ \A d \in Requests \ {id} : Reduced(d)
    BY <1>2, <2>1 DEF Complete, Inv, Rest, Reduced
  <2>3. Rest'
    BY <1>1, <2>2, StageChanges DEF Complete, Inv, Rest
  <2>4. Sound(id, jobs'[id], results'[id], attempts', cleared)
    <3>1. None \notin DOMAIN attempts
      BY AttemptFacts DEF Inv, Attempts
    <3> QED
      BY <1>1, <2>1, <2>2, <3>1, StageChanges, SoundLater DEF Inv
  <2> QED
    BY <1>1, <2>2, <2>3, <2>4, StageChanges, Kept DEF Complete, Inv
<1>3. CASE ~Accepts(a)
  BY <1>1, <1>3, StageStep DEF Complete, Inv, Rest
<1> QED
  BY <1>2, <1>3

LEMMA InterruptedCompleteInv ==
  ASSUME Inv, NEW a \in Attempts, InterruptedComplete(a) PROVE Inv'
<1> DEFINE id == attempts[a].job
<1>1. id \in Requests /\ Sound(id, jobs[id], a, attempts, cleared)
  BY AnswerIsSound DEF InterruptedComplete
<1>2. /\ DOMAIN results' = Requests /\ results'[id] = a
      /\ jobs' = jobs /\ attempts' = attempts /\ cleared' = cleared
      /\ \A d \in Requests \ {id} : Reduced(d)
  BY <1>1 DEF InterruptedComplete, Inv, Rest, Reduced
<1>3. Rest'
  BY <1>2, QueueAssumption DEF InterruptedComplete, Inv, Rest
<1> QED
  BY <1>1, <1>2, <1>3, GrowsBySame, Kept

-----------------------------------------------------------------------------
(* The environment. *)
(* What depends on time says nothing about the answer. *)
LEMMA TimePasses ==
  ASSUME NEW id, NEW job, NEW result, NEW log, NEW since,
         Sound(id, job, result, log, since), job # None
  PROVE  /\ Sound(id, [job EXCEPT !.live = FALSE], result, log, since)
         /\ Sound(id, [job EXCEPT !.open = FALSE], result, log, since)
<1>1. job \in JobSet(log)
  BY DEF Sound
<1> DEFINE late == [job EXCEPT !.live = FALSE]
           over == [job EXCEPT !.open = FALSE]
<1>2. /\ late \in JobSet(log) /\ late.attempt = job.attempt
      /\ late.failed = job.failed /\ late.complete = job.complete
  BY <1>1 DEF JobSet
<1>3. /\ over \in JobSet(log) /\ over.attempt = job.attempt
      /\ over.failed = job.failed /\ over.complete = job.complete
  BY <1>1 DEF JobSet
<1> HIDE DEF late, over
<1>4. Sound(id, late, result, log, since) /\ Sound(id, over, result, log, since)
  BY <1>2, <1>3 DEF Sound
<1> QED
  BY <1>4 DEF late, over

LEMMA TimeInv ==
  ASSUME Inv, NEW id \in Requests, Exists(id),
         \/ jobs' = [jobs EXCEPT ![id].live = FALSE]
         \/ jobs' = [jobs EXCEPT ![id].open = FALSE],
         UNCHANGED <<results, recent, attempts, polls, indexed, cleared>>
  PROVE  Inv'
<1>1. Sound(id, jobs[id], results[id], attempts, cleared) /\ jobs[id] # None
  BY DEF Inv, Files, Exists
<1>2. /\ DOMAIN jobs' = Requests
      /\ jobs'[id] \in {[jobs[id] EXCEPT !.live = FALSE], [jobs[id] EXCEPT !.open = FALSE]}
      /\ \A d \in Requests \ {id} : Reduced(d)
  BY DEF Inv, Rest, Reduced
<1>3. Sound(id, jobs'[id], results'[id], attempts', cleared)
  <2> DEFINE late == [jobs[id] EXCEPT !.live = FALSE]
             over == [jobs[id] EXCEPT !.open = FALSE]
  <2>1. /\ Sound(id, late, results[id], attempts, cleared)
        /\ Sound(id, over, results[id], attempts, cleared)
    BY <1>1, TimePasses
  <2>2. jobs'[id] \in {late, over}
    BY <1>2
  <2> HIDE DEF late, over
  <2> QED
    BY <2>1, <2>2
<1>4. Rest'
  BY <1>2 DEF Inv, Rest
<1> QED
  BY <1>2, <1>3, <1>4, GrowsBySame, Kept

LEMMA SilenceInv == ASSUME Inv, NEW recipe \in Recipes, Silence(recipe) PROVE Inv'
BY SameFiles DEF Silence, Inv, Rest

LEMMA EditInv == ASSUME Inv, Edit PROVE Inv'
BY SameFiles DEF Edit, Inv, Rest

LEMMA InterruptedPassInv == ASSUME Inv, InterruptedPass PROVE Inv'
<1>1. /\ DOMAIN jobs' = Requests /\ DOMAIN results' = Requests
      /\ \A d \in Requests : Reduced(d)
  BY DEF InterruptedPass, Without, Orphans, Exists, Reduced
<1>2. Rest'
  BY <1>1, QueueAssumption DEF InterruptedPass, Inv, Rest
<1> QED
  BY <1>1, <1>2, GrowsBySame, Kept DEF InterruptedPass

LEMMA InterruptedReplacementInv ==
  ASSUME Inv, NEW id \in Requests, InterruptedReplacement(id) PROVE Inv'
<1>1. DOMAIN jobs' = Requests /\ \A d \in Requests : Reduced(d)
  BY DEF InterruptedReplacement, Inv, Rest, Reduced
<1>2. Rest'
  BY <1>1, QueueAssumption DEF InterruptedReplacement, Inv, Rest
<1> QED
  BY <1>1, <1>2, GrowsBySame, Kept DEF InterruptedReplacement

LEMMA NextInv == Inv /\ [Next]_vars => Inv'
<1> SUFFICES ASSUME Inv, [Next]_vars PROVE Inv'
  OBVIOUS
<1>1. ASSUME NEW id \in Requests,
             Submit(id) \/ Retry(id) \/ Expire(id) \/ ExpireEarly(id) \/ Deadline(id)
               \/ InterruptedReplacement(id)
      PROVE  Inv'
  <2>1. CASE Expire(id) \/ ExpireEarly(id) \/ Deadline(id)
    BY <2>1, TimeInv DEF Expire, ExpireEarly, Deadline
  <2> QED
    BY <1>1, <2>1, SubmitInv, RetryInv, InterruptedReplacementInv
<1>2. ASSUME NEW recipes \in SUBSET Recipes, ClaimQuery(recipes) \/ ClaimDocument(recipes)
      PROVE  Inv'
  BY <1>2, ClaimQueryInv, ClaimDocumentInv
<1>3. ASSUME NEW a \in Attempts, WorkerStep(a) PROVE Inv'
  BY <1>3, HeartbeatInv, ReportFailureInv, DieInv, SendCompleteInv, CompleteInv,
     InterruptedCompleteInv DEF WorkerStep
<1>4. CASE UNCHANGED vars
  BY <1>4, SameFiles DEF vars, Inv, Rest
<1> QED
  BY <1>1, <1>2, <1>3, <1>4, ClearDocumentsInv, SummariesInv, SilenceInv, EditInv,
     InterruptedPassInv DEF Next

LEMMA InvAlways == Spec => []Inv
BY InitInv, NextInv, PTL DEF Spec

-----------------------------------------------------------------------------
(* Types hold, for every set of requests, recipes and scenarios. *)
THEOREM TypeCorrect == Spec => []TypeOK
<1>1. Inv => TypeOK
  <2> SUFFICES ASSUME Inv PROVE TypeOK
    OBVIOUS
  <2>1. ASSUME NEW id \in Requests
        PROVE  /\ results[id] \in Attempts \cup {None}
               /\ Exists(id) =>
                    /\ JobType(id)
                    /\ jobs[id].attempt # None => attempts[jobs[id].attempt].job = id
    <3>1. Sound(id, jobs[id], results[id], attempts, cleared)
      BY DEF Inv, Files
    <3> QED
      BY <3>1 DEF Sound, JobSet, JobType, Exists, Attempts, Belongs
  <2>2. \A a \in Attempts :
          /\ attempts[a].job \in Requests
          /\ attempts[a].stage \in {"working", "sent", "delivered", "reported", "gone"}
    BY AttemptFacts DEF Inv, AttemptType, Stages
  <2> QED
    BY <2>1, <2>2 DEF TypeOK, Inv, Rest
<1> QED
  BY <1>1, InvAlways, PTL

(* A complete job has an answer of the attempt that held it last, and no    *)
(* document is answered by an attempt from before a forced rebuild, however *)
(* often the two files of an answer are written or removed half way.        *)
THEOREM AnswersAlwaysWhole == Spec => []AnswersAreWhole
<1>1. Inv => AnswersAreWhole
  BY DEF Inv, Files, Sound, Belongs, AnswersAreWhole, Exists
<1> QED
  BY <1>1, InvAlways, PTL

-----------------------------------------------------------------------------
(* What a step does to one request: it drops it, or leaves its answer and   *)
(* its outcome alone; or it is about this request.                          *)
Stays(id) ==
  \/ jobs'[id] = None
  \/ /\ jobs[id] # None
     /\ jobs'[id].complete = jobs[id].complete
     /\ jobs'[id].failed = jobs[id].failed
     /\ results'[id] = results[id]

Changes(id) ==
  \/ /\ ~Exists(id) \/ Replaced(id)
     /\ jobs'[id] = NewJob
  \/ /\ Exists(id) /\ ~jobs[id].complete
     /\ jobs'[id] = NewJob
  \/ /\ Exists(id) /\ ~jobs[id].complete /\ ~jobs[id].failed
     /\ jobs'[id] \in JobSet(attempts)
     /\ jobs'[id].complete /\ ~jobs'[id].failed
  \/ /\ Exists(id) /\ ~jobs[id].complete
     /\ jobs'[id] = jobs[id]
  \/ /\ Exists(id) /\ ~jobs[id].failed
     /\ jobs'[id] = Failed(jobs[id]) /\ jobs[id] \in JobSet(attempts)
     /\ results'[id] = results[id]

Same(id) == jobs'[id] = jobs[id] /\ results'[id] = results[id]

Effect ==
  \/ \A id \in Requests : Stays(id)
  \/ \E id \in Requests : Changes(id) /\ \A d \in Requests \ {id} : Same(d)

LEMMA UnchangedStays ==
  ASSUME NEW id, Same(id)
  PROVE  Stays(id)
BY DEF Stays, Same

LEMMA ReducedStays == ASSUME NEW id, Reduced(id) PROVE Stays(id)
BY DEF Stays, Reduced

LEMMA RequesterEffect ==
  ASSUME Inv, NEW id \in Requests, Submit(id) \/ Retry(id) PROVE Effect
<1>1. \A d \in Requests \ {id} : Same(d) /\ Stays(d)
  BY UnchangedStays DEF Submit, Retry, Same, Inv, Rest
<1>2. CASE Submit(id)
  <2>1. jobs'[id] = None \/ Changes(id)
    BY <1>2 DEF Submit, Changes, Inv, Rest
  <2> QED
    BY <1>1, <2>1 DEF Effect, Stays
<1>3. CASE Retry(id)
  <2>1. Changes(id)
    BY <1>3 DEF Retry, Changes, Inv, Rest
  <2> QED
    BY <1>1, <2>1 DEF Effect
<1> QED
  BY <1>2, <1>3

LEMMA ClaimEffect ==
  ASSUME Inv, NEW kind \in SUBSET Requests, NEW recipes, Claim(kind, recipes)
  PROVE  Effect
<1> DEFINE given == Without(jobs, StaleJobs)
<1>1. ASSUME NEW d \in Requests
      PROVE  /\ results'[d] \in {results[d], None}
             /\ given[d] \in {jobs[d], None}
             /\ given[d] # None => results'[d] = results[d]
  BY DEF Claim, Without, StaleJobs, Orphans, Exists
<1>2. CASE AssignNothing
  BY <1>1, <1>2 DEF AssignNothing, Effect, Stays
<1>3. ASSUME NEW id \in kind, Claimable(id), Assign(id) PROVE Effect
  <2>1. id \in Requests /\ given[id] = jobs[id] /\ jobs[id] # None
    BY <1>3 DEF Claimable, Without, StaleJobs, Stale, Exists
  <2>2. jobs[id] \in JobSet(attempts) /\ DOMAIN given = Requests
    BY <2>1 DEF Inv, Files, Sound, Without
  <2>3. /\ jobs'[id] = [jobs[id] EXCEPT !.attempt = Len(attempts) + 1, !.live = TRUE]
        /\ \A d \in Requests \ {id} : jobs'[d] = given[d]
    BY <1>3, <2>1, <2>2 DEF Assign
  <2>4. Stays(id)
    BY <1>1, <2>1, <2>2, <2>3 DEF Stays, JobSet
  <2>5. \A d \in Requests \ {id} : Stays(d)
    BY <1>1, <2>3 DEF Stays
  <2> QED
    BY <2>4, <2>5 DEF Effect
<1> QED
  BY <1>2, <1>3 DEF Claim

LEMMA WorkerEffect ==
  ASSUME Inv, NEW a \in Attempts, WorkerStep(a) PROVE Effect
<1> DEFINE id == attempts[a].job
<1>1. CASE jobs' = jobs /\ results' = results
  BY <1>1, UnchangedStays DEF Effect, Same
<1>2. CASE ReportFailure(a) /\ Leased(a)
  <2>1. /\ id \in Requests /\ Exists(id) /\ ~jobs[id].failed
        /\ jobs[id] \in JobSet(attempts)
    BY <1>2, LeasedFacts DEF Leased, AttemptHolds
  <2>2. Changes(id)
    BY <1>2, <2>1 DEF ReportFailure, Changes, Inv, Rest
  <2>3. \A d \in Requests \ {id} : Same(d)
    BY <1>2 DEF ReportFailure, Same, Inv, Rest
  <2> QED
    BY <2>1, <2>2, <2>3 DEF Effect
<1>3. CASE (Complete(a) \/ InterruptedComplete(a)) /\ Accepts(a)
  <2>1. /\ id \in Requests /\ Exists(id) /\ ~jobs[id].failed /\ ~jobs[id].complete
        /\ jobs[id] \in JobSet(attempts)
    BY <1>3, LeasedFacts DEF Accepts, Leased, AttemptHolds
  <2>2. \A d \in Requests \ {id} : Same(d)
    BY <1>3 DEF Complete, InterruptedComplete, Same, Inv, Rest
  <2>3. CASE Complete(a)
    <3>1. jobs'[id] = [jobs[id] EXCEPT !.complete = TRUE]
      BY <1>3, <2>1, <2>3 DEF Complete, Inv, Rest
    <3>2. jobs'[id] \in JobSet(attempts) /\ jobs'[id].complete /\ ~jobs'[id].failed
      BY <2>1, <3>1 DEF JobSet
    <3> QED
      BY <2>1, <2>2, <3>2 DEF Effect, Changes
  <2>4. CASE InterruptedComplete(a)
    BY <2>1, <2>2, <2>4 DEF InterruptedComplete, Effect, Changes
  <2> QED
    BY <1>3, <2>3, <2>4
<1> QED
  BY <1>1, <1>2, <1>3
  DEF WorkerStep, Heartbeat, ReportFailure, Die, SendComplete, Complete, InterruptedComplete

LEMMA TimeEffect ==
  ASSUME Inv, NEW id \in Requests, Expire(id) \/ ExpireEarly(id) \/ Deadline(id)
  PROVE  Effect
<1>1. jobs[id] # None /\ jobs[id] \in JobSet(attempts)
  BY DEF Expire, ExpireEarly, Deadline, Exists, Inv, Files, Sound
<1>2. /\ results' = results
      /\ jobs'[id] \in {[jobs[id] EXCEPT !.live = FALSE], [jobs[id] EXCEPT !.open = FALSE]}
      /\ \A d \in Requests \ {id} : jobs'[d] = jobs[d]
  BY DEF Expire, ExpireEarly, Deadline, Inv, Rest
<1>3. Stays(id)
  BY <1>1, <1>2 DEF Stays, JobSet
<1>4. \A d \in Requests \ {id} : Stays(d)
  BY <1>2, UnchangedStays DEF Same
<1> QED
  BY <1>3, <1>4 DEF Effect

LEMMA NextEffect == ASSUME Inv, [Next]_vars PROVE Effect
<1>1. CASE jobs' = jobs /\ results' = results
  BY <1>1, UnchangedStays DEF Effect, Same
<1>2. CASE ClearDocuments \/ Summaries
  <2>1. PICK ids \in SUBSET Requests : Dropping(ids)
    BY <1>2 DEF ClearDocuments, Summaries, StaleJobs, Requests
  <2> QED
    BY <2>1, DroppingDrops, ReducedStays DEF Effect
<1>3. CASE InterruptedPass
  BY <1>3 DEF InterruptedPass, Without, Orphans, Exists, Effect, Stays
<1>4. ASSUME NEW id \in Requests, InterruptedReplacement(id) PROVE Effect
  BY <1>4 DEF InterruptedReplacement, Effect, Stays, Inv, Rest
<1>5. ASSUME NEW recipes \in SUBSET Recipes, ClaimQuery(recipes) \/ ClaimDocument(recipes)
      PROVE  Effect
  BY <1>5, ClaimEffect DEF ClaimQuery, ClaimDocument, Requests
<1> QED
  BY <1>1, <1>2, <1>3, <1>4, <1>5, RequesterEffect, TimeEffect, WorkerEffect
  DEF Next, vars, Silence, Edit

(* Nobody who reads the answer of a complete job reads another one later.   *)
THEOREM AnswersNeverChange == Spec => AnswersStay
<1> DEFINE Stay == \A id \in Requests :
       Exists(id) /\ jobs[id].complete /\ ~Replaced(id) /\ jobs'[id] # None
         => jobs'[id].complete /\ results'[id] = results[id]
<1>1. ASSUME Inv, [Next]_vars, NEW id \in Requests,
             Exists(id), jobs[id].complete, ~Replaced(id), jobs'[id] # None
      PROVE  jobs'[id].complete /\ results'[id] = results[id]
  <2>1. CASE Stays(id)
    BY <1>1, <2>1 DEF Stays
  <2>2. CASE Changes(id)
    BY <1>1, <2>2, FailedFacts DEF Changes
  <2> QED
    BY <1>1, <2>1, <2>2, NextEffect, UnchangedStays DEF Effect
<1>2. Inv /\ [Next]_vars => Stay
  BY <1>1
<1> QED
  BY <1>2, InvAlways, PTL DEF Spec, AnswersStay

-----------------------------------------------------------------------------
(* The step simulation: what the indexer sees of a step is one arc of one   *)
(* document's request, or that some are dropped.                            *)
LEMMA StaysSeen ==
  ASSUME NEW d \in Documents, Stays(d)
  PROVE  RequestState(d)' \in {RequestState(d), "absent"}
BY DEF Stays, RequestState, Exists

LEMMA ChangesSeen ==
  ASSUME NEW d \in Documents, Changes(d)
  PROVE  \/ RequestState(d)' = RequestState(d)
         \/ RequestState(d)' = "absent"
         \/ <<RequestState(d), RequestState(d)'>> \in Abstract!Moves
<1>1. d \notin Queries
  BY QueueAssumption
<1>2. CASE ~Exists(d) /\ jobs'[d] = NewJob
  BY <1>2 DEF RequestState, Exists, NewJob, Abstract!Moves
<1>3. CASE Exists(d) /\ ~jobs[d].complete /\ jobs'[d] = NewJob
  BY <1>3 DEF RequestState, Exists, NewJob, Abstract!Moves
<1>4. CASE /\ Exists(d) /\ ~jobs[d].complete /\ ~jobs[d].failed
           /\ jobs'[d].complete /\ ~jobs'[d].failed
  BY <1>4 DEF RequestState, Exists, Abstract!Moves
<1>5. CASE jobs'[d] = jobs[d]
  BY <1>5 DEF RequestState, Exists
<1>6. CASE /\ Exists(d) /\ ~jobs[d].failed /\ jobs[d] \in JobSet(attempts)
           /\ jobs'[d] = Failed(jobs[d])
  <2>1. jobs'[d].complete = jobs[d].complete
    BY <1>6, FailedFacts
  <2> QED
    BY <1>6, <2>1 DEF RequestState, Exists, Abstract!Moves
<1> QED
  BY <1>1, <1>2, <1>3, <1>4, <1>5, <1>6 DEF Changes, Replaced

(* The variable of the abstraction. *)
Request == [d \in Documents |-> RequestState(d)]

LEMMA DropSeen ==
  ASSUME \A d \in Documents : RequestState(d)' \in {RequestState(d), "absent"}
  PROVE  Abstract!Drop
<1> DEFINE D == {d \in Documents : RequestState(d)' = "absent"}
<1>1. Request' = [d \in Documents |-> IF d \in D THEN "absent" ELSE Request[d]]
  BY DEF Request
<1> QED
  BY <1>1 DEF Abstract!Drop, Request

LEMMA MoveSeen ==
  ASSUME NEW id \in Documents,
         <<RequestState(id), RequestState(id)'>> \in Abstract!Moves,
         \A d \in Documents \ {id} : RequestState(d)' = RequestState(d)
  PROVE  Abstract!Move
<1> DEFINE s == RequestState(id)'
<1>1. s \in Abstract!States
  BY DEF RequestState, Abstract!States
<1>2. Request' = [Request EXCEPT ![id] = s]
  BY DEF Request
<1>3. <<Request[id], s>> \in Abstract!Moves
  BY DEF Request
<1> HIDE DEF s
<1> QED
  BY <1>1, <1>2, <1>3 DEF Abstract!Move, Request

LEMMA EffectSeen ==
  ASSUME Effect
  PROVE  Abstract!Next \/ UNCHANGED Request
<1>1. CASE \A id \in Requests : Stays(id)
  <2>1. \A d \in Documents : RequestState(d)' \in {RequestState(d), "absent"}
    BY <1>1, StaysSeen DEF Requests
  <2> QED
    BY <2>1, DropSeen DEF Abstract!Next
<1>2. ASSUME NEW id \in Requests, Changes(id), \A d \in Requests \ {id} : Same(d)
      PROVE  Abstract!Next \/ UNCHANGED Request
  <2>1. \A d \in Documents \ {id} : RequestState(d)' = RequestState(d)
    BY <1>2 DEF Same, RequestState, Exists, Requests
  <2>2. CASE id \notin Documents \/ RequestState(id)' = RequestState(id)
    BY <2>1, <2>2 DEF Request
  <2>3. CASE id \in Documents /\ RequestState(id)' = "absent"
    BY <2>1, <2>3, DropSeen DEF Abstract!Next
  <2>4. CASE id \in Documents /\ <<RequestState(id), RequestState(id)'>> \in Abstract!Moves
    BY <2>1, <2>4, MoveSeen DEF Abstract!Next
  <2> QED
    BY <1>2, <2>2, <2>3, <2>4, ChangesSeen
<1> QED
  BY <1>1, <1>2 DEF Effect

(* The queue keeps what the indexer relies on: with all of its files, late  *)
(* and repeated posts, crashes and rebuilds it moves a document's request   *)
(* only along the arcs of DocumentRequests.                                 *)
THEOREM QueueImplementsRequests == Spec => ImplementsRequests
<1>1. Init => Abstract!Init
  <2> SUFFICES ASSUME Init PROVE Abstract!Init
    OBVIOUS
  <2>1. \A d \in Documents : RequestState(d) = "absent"
    BY DEF Init, RequestState, Exists, Requests
  <2> QED
    BY <2>1 DEF Abstract!Init
<1>2. Inv /\ [Next]_vars => [Abstract!Next]_([d \in Documents |-> RequestState(d)])
  BY NextEffect, EffectSeen DEF Request
<1> QED
  BY <1>1, <1>2, InvAlways, PTL DEF Spec, Abstract!Spec, ImplementsRequests
=============================================================================
