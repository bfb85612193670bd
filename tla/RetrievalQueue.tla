----------------------------- MODULE RetrievalQueue -----------------------------
(***************************************************************************)
(* The durable retrieval queue of mdstore (mdstore/src/retrieval_jobs.rs): *)
(* embeddings of documents and, ahead of them, interactive queries and     *)
(* rankings, served by the workers that also make derivations.             *)
(*                                                                         *)
(* A request is identified by the hash of its recipe, model revision and   *)
(* parameters, so that identical requests share one job.  A job is two     *)
(* files, <id>.json and <id>.result, written one after the other: a crash  *)
(* in between leaves one without the other.  Time is abstracted to what is *)
(* compared with it: live stands for expires > now, open for deadline > now *)
(* and recent for the recipes a worker asked for in the last minute.       *)
(* The bytes of an answer are identified by the attempt that computed them.*)
(***************************************************************************)
EXTENDS Naturals, Sequences, FiniteSets

CONSTANTS Documents,    \* batches of chunk texts to embed
          Queries,      \* interactive embeddings and rankings
          Recipes,
          RecipeOf(_),
          None,
          Workers,      \* polls in progress at a time
          MaxAttempts,  \* bound: assignments, in the scenarios that allow most
          MaxFailures,  \* failures after which a job is given up (3 in the code)
          Scenarios     \* bounds of assignments and of everything else

Requests == Documents \cup Queries

ASSUME QueueAssumption ==
  /\ Documents \cap Queries = {}
  /\ \A id \in Requests : RecipeOf(id) \in Recipes
  /\ None \notin Nat
  /\ Workers \in Nat \ {0} /\ MaxAttempts \in Nat /\ MaxFailures \in Nat \ {0}
  /\ \A scenario \in Scenarios : scenario.attempts <= MaxAttempts

VARIABLES
  jobs,      \* <id>.json
  results,   \* <id>.result
  recent,    \* the workers file
  attempts,  \* assignments handed to workers, and what became of them
  polls,     \* claims that found no query and have not asked for documents yet
  indexed,   \* documents whose texts are chunks of the current index
  cleared,   \* history: attempts made before the last clear_documents
  budget

vars == <<jobs, results, recent, attempts, polls, indexed, cleared, budget>>

Attempts == DOMAIN attempts

Init ==
  /\ jobs = [id \in Requests |-> None]
  /\ results = [id \in Requests |-> None]
  /\ recent = {}
  /\ attempts = <<>>
  /\ polls = 0
  /\ indexed \in SUBSET Documents
  /\ cleared = 0
  /\ budget \in Scenarios

Spend(kind) == /\ budget[kind] > 0
               /\ budget' = [budget EXCEPT ![kind] = @ - 1]

(***************************************************************************)
(* Files.                                                                  *)
(***************************************************************************)
NewJob == [attempt |-> None, live |-> FALSE, open |-> TRUE, failures |-> 0,
           failed |-> FALSE, complete |-> FALSE]

(* current: an open query, or a document that is still indexed. *)
Current(id) ==
  IF id \in Documents THEN id \in indexed ELSE jobs[id].open

Exists(id) == jobs[id] # None

Stale(id) == Exists(id) /\ ~Current(id)

(* remove: the metadata first, then the answer. *)
Without(files, ids) == [id \in Requests |-> IF id \in ids THEN None ELSE files[id]]

(* jobs() deletes the answers that an interrupted removal left behind. *)
Orphans == {id \in Requests : ~Exists(id)}

(* What a pass over the directory that drops ids leaves. *)
Dropping(ids) ==
  /\ jobs' = Without(jobs, ids)
  /\ results' = Without(results, ids \cup Orphans)

StaleJobs == {id \in Requests : Stale(id)}

(***************************************************************************)
(* Requesters.                                                             *)
(***************************************************************************)
(* An expired or failed query is replaced by a new one. *)
Replaced(id) ==
  id \in Queries /\ Exists(id) /\ (~jobs[id].open \/ jobs[id].failed)

(* Faulty variant: an answer that is found on disk is taken for the job's. *)
SubmitReusingAnswer(id) ==
  /\ ~Exists(id) \/ Replaced(id)
  /\ id \in Documents => id \in indexed
  /\ id \in Queries => Spend("queries")
  /\ id \in Documents => UNCHANGED budget
  /\ jobs' = [jobs EXCEPT ![id] = [NewJob EXCEPT !.complete = results[id] # None]]
  /\ UNCHANGED <<results, recent, attempts, polls, indexed, cleared>>

Submit(id) ==
  /\ ~Exists(id) \/ Replaced(id)
  /\ id \in Documents => id \in indexed
  /\ id \in Queries => Spend("queries")
  /\ id \in Documents => UNCHANGED budget
  /\ jobs' = [jobs EXCEPT ![id] =
                IF id \in Documents \/ RecipeOf(id) \in recent THEN NewJob ELSE None]
  /\ results' = IF Replaced(id) THEN [results EXCEPT ![id] = None] ELSE results
  /\ UNCHANGED <<recent, attempts, polls, indexed, cleared>>

(* Faulty variant: an answered job is tried again as well. *)
RetryAnswered(id) ==
  /\ Exists(id)
  /\ id \in Documents
  /\ Spend("retries")
  /\ jobs' = [jobs EXCEPT ![id] = NewJob]
  /\ UNCHANGED <<results, recent, attempts, polls, indexed, cleared>>

Retry(id) ==
  /\ Exists(id)
  /\ id \in Documents
  /\ ~jobs[id].complete
  /\ Spend("retries")
  /\ jobs' = [jobs EXCEPT ![id] = NewJob]
  /\ UNCHANGED <<results, recent, attempts, polls, indexed, cleared>>

(* Faulty variant: jobs that are being worked on are left to finish. *)
ClearIdleDocuments ==
  /\ Spend("clears")
  /\ Dropping({d \in Documents : Exists(d) /\ jobs[d].attempt = None})
  /\ cleared' = Len(attempts)
  /\ UNCHANGED <<recent, attempts, polls, indexed>>

(* A forced rebuild forgets every document, whatever its state. *)
ClearDocuments ==
  /\ Spend("clears")
  /\ Dropping({id \in Documents : Exists(id)})
  /\ cleared' = Len(attempts)
  /\ UNCHANGED <<recent, attempts, polls, indexed>>

(* The list of jobs for clients drops those that are no longer current. *)
Summaries ==
  /\ Dropping(StaleJobs)
  /\ UNCHANGED <<recent, attempts, polls, indexed, cleared, budget>>

(***************************************************************************)
(* Workers.                                                                *)
(***************************************************************************)
(* Faulty variant: an expired lease keeps its job. *)
ClaimableOnce(id) ==
  /\ Exists(id) /\ Current(id)
  /\ ~jobs[id].complete /\ ~jobs[id].failed
  /\ jobs[id].attempt = None /\ ~jobs[id].live

Claimable(id) ==
  /\ Exists(id) /\ Current(id)
  /\ ~jobs[id].complete /\ ~jobs[id].failed
  /\ ~jobs[id].live

(* The job and a fresh attempt secret, under a lease of five minutes. *)
Assign(id) ==
  /\ Len(attempts) < budget.attempts
  /\ jobs' = [Without(jobs, StaleJobs) EXCEPT
                ![id].attempt = Len(attempts) + 1, ![id].live = TRUE]
  /\ attempts' = Append(attempts, [job |-> id, stage |-> "working"])

AssignNothing == jobs' = Without(jobs, StaleJobs) /\ UNCHANGED attempts

(* claim: the queue's answer to a worker that asks for some recipes, among  *)
(* the jobs of one kind; the code takes the earliest deadline, then the     *)
(* smallest hash, the model any.                                            *)
Claim(kind, recipes) ==
  LET offered == {id \in kind : Claimable(id) /\ RecipeOf(id) \in recipes}
  IN  /\ recent' = recent \cup recipes
      /\ results' = Without(results, StaleJobs \cup Orphans)
      /\ IF offered = {} THEN AssignNothing ELSE \E id \in offered : Assign(id)
      /\ UNCHANGED <<indexed, cleared, budget>>

(* A poll asks for a query first, for a derivation next (Derivations) and,  *)
(* if it was given neither, for a document, each under the lock again.      *)
ClaimQuery(recipes) ==
  /\ polls < Workers
  /\ Claim(Queries, recipes)
  /\ polls' = IF attempts' = attempts THEN polls + 1 ELSE polls

ClaimDocument(recipes) ==
  /\ polls > 0
  /\ Claim(Documents, recipes)
  /\ polls' = polls - 1

AttemptHolds(a) ==
  LET id == attempts[a].job
  IN  Exists(id) /\ Current(id) /\ jobs[id].attempt = a

(* leased *)
Leased(a) == AttemptHolds(a) /\ jobs[attempts[a].job].live

Heartbeat(a) ==
  /\ attempts[a].stage = "working"
  /\ IF Leased(a)
     THEN /\ recent' = recent \cup {RecipeOf(attempts[a].job)}
          /\ UNCHANGED attempts
     ELSE /\ attempts' = [attempts EXCEPT ![a].stage = "gone"]
          /\ UNCHANGED recent
  /\ UNCHANGED <<jobs, results, polls, indexed, cleared, budget>>

(* The job backs off, or is given up. *)
Failed(job) ==
  [job EXCEPT !.failures = @ + 1, !.attempt = None,
              !.failed = job.failures + 1 >= MaxFailures]

(* A worker reports a failure once: when the work fails, but also when      *)
(* neither of the two requests that carry its answer was acknowledged.      *)
ReportFailure(a) ==
  /\ attempts[a].stage \in {"working", "sent", "delivered"}
  /\ Spend("failures")
  /\ IF Leased(a)
     THEN /\ jobs' = [jobs EXCEPT ![attempts[a].job] = Failed(@)]
          /\ recent' = recent \cup {RecipeOf(attempts[a].job)}
     ELSE UNCHANGED <<jobs, recent>>
  /\ attempts' = [attempts EXCEPT ![a].stage =
                    IF @ = "working" THEN "gone" ELSE "reported"]
  /\ UNCHANGED <<results, polls, indexed, cleared>>

(* A worker is killed, or loses its lease for good. *)
Die(a) ==
  /\ attempts[a].stage = "working"
  /\ Spend("failures")
  /\ attempts' = [attempts EXCEPT ![a].stage = "gone"]
  /\ UNCHANGED <<jobs, results, recent, polls, indexed, cleared>>

(* The answer is posted, and posted again when the first acknowledgement is *)
(* lost: it is processed any number of times, at any time.                  *)
SendComplete(a) ==
  /\ attempts[a].stage = "working"
  /\ attempts' = [attempts EXCEPT ![a].stage = "sent"]
  /\ UNCHANGED <<jobs, results, recent, polls, indexed, cleared, budget>>

Delivered(a) ==
  attempts' = [attempts EXCEPT ![a].stage = IF @ = "sent" THEN "delivered" ELSE @]

(* A replay of the answer that was accepted succeeds and changes nothing. *)
Accepts(a) == Leased(a) /\ ~jobs[attempts[a].job].complete

(* Faulty variant: an answer that is there already is not written again. *)
CompleteKeepingResult(a) ==
  /\ attempts[a].stage \in {"sent", "delivered", "reported"}
  /\ Delivered(a)
  /\ LET id == attempts[a].job
     IN  IF Accepts(a)
         THEN /\ results' = [results EXCEPT ![id] = IF @ = None THEN a ELSE @]
              /\ jobs' = [jobs EXCEPT ![id].complete = TRUE]
         ELSE UNCHANGED <<jobs, results>>
  /\ UNCHANGED <<recent, polls, indexed, cleared, budget>>

Complete(a) ==
  /\ attempts[a].stage \in {"sent", "delivered", "reported"}
  /\ Delivered(a)
  /\ LET id == attempts[a].job
     IN  IF Accepts(a)
         THEN /\ results' = [results EXCEPT ![id] = a]
              /\ jobs' = [jobs EXCEPT ![id].complete = TRUE]
         ELSE UNCHANGED <<jobs, results>>
  /\ UNCHANGED <<recent, polls, indexed, cleared, budget>>

(***************************************************************************)
(* The environment.                                                        *)
(***************************************************************************)
(* A backoff or a lease runs out: the lease of a worker that still          *)
(* heartbeats only if it was suspended.                                     *)
Working(id) == /\ jobs[id].attempt # None
               /\ attempts[jobs[id].attempt].stage \in {"working", "sent"}

Expire(id) ==
  /\ Exists(id)
  /\ jobs[id].live
  /\ ~Working(id)
  /\ jobs' = [jobs EXCEPT ![id].live = FALSE]
  /\ UNCHANGED <<results, recent, attempts, polls, indexed, cleared, budget>>

ExpireEarly(id) ==
  /\ Exists(id)
  /\ jobs[id].live
  /\ Working(id)
  /\ Spend("expiries")
  /\ jobs' = [jobs EXCEPT ![id].live = FALSE]
  /\ UNCHANGED <<results, recent, attempts, polls, indexed, cleared>>

(* provider.request_timeout_seconds after a query was submitted. *)
Deadline(id) ==
  /\ id \in Queries
  /\ Exists(id)
  /\ jobs[id].open
  /\ jobs' = [jobs EXCEPT ![id].open = FALSE]
  /\ UNCHANGED <<results, recent, attempts, polls, indexed, cleared, budget>>

(* No worker has asked for a recipe for a minute. *)
Silence(recipe) ==
  /\ recipe \in recent
  /\ recent' = recent \ {recipe}
  /\ UNCHANGED <<jobs, results, attempts, polls, indexed, cleared, budget>>

(* An edit, by a client or an operator, replaces chunks of the index. *)
Edit ==
  /\ Spend("edits")
  /\ \E D \in SUBSET Documents : D # indexed /\ indexed' = D
  /\ UNCHANGED <<jobs, results, recent, attempts, polls, cleared>>

(* The daemon dies between the two files of an answer ... *)
InterruptedComplete(a) ==
  /\ attempts[a].stage \in {"sent", "delivered", "reported"}
  /\ Accepts(a)
  /\ Spend("crashes")
  /\ results' = [results EXCEPT ![attempts[a].job] = a]
  /\ polls' = 0
  /\ UNCHANGED <<jobs, recent, attempts, indexed, cleared>>

(* ... or of the last removal of a pass over the directory ...              *)
InterruptedPass ==
  /\ Spend("crashes")
  /\ \E pass \in {StaleJobs, {d \in Documents : Exists(d)}} :
       \E ids \in SUBSET pass : \E last \in ids :
         /\ jobs' = Without(jobs, ids)
         /\ results' = Without(results, (ids \ {last}) \cup Orphans)
  /\ polls' = 0
  /\ UNCHANGED <<recent, attempts, indexed, cleared>>

(* ... or of the query that submit replaces.                                *)
InterruptedReplacement(id) ==
  /\ Replaced(id)
  /\ Spend("crashes")
  /\ jobs' = [jobs EXCEPT ![id] = None]
  /\ polls' = 0
  /\ UNCHANGED <<results, recent, attempts, indexed, cleared>>

WorkerStep(a) ==
  \/ Heartbeat(a)
  \/ ReportFailure(a)
  \/ Die(a)
  \/ SendComplete(a)
  \/ Complete(a)
  \/ InterruptedComplete(a)

Next ==
  \/ \E id \in Requests :
       \/ Submit(id) \/ Retry(id)
       \/ Expire(id) \/ ExpireEarly(id) \/ Deadline(id)
       \/ InterruptedReplacement(id)
  \/ ClearDocuments \/ Summaries
  \/ \E recipes \in (SUBSET Recipes) \ {{}} : ClaimQuery(recipes) \/ ClaimDocument(recipes)
  \/ \E a \in Attempts : WorkerStep(a)
  \/ \E recipe \in Recipes : Silence(recipe)
  \/ Edit \/ InterruptedPass

Spec == Init /\ [][Next]_vars

(* Workers for every recipe keep polling, finish what they were given or    *)
(* die, and leases and backoffs run out.                                    *)
Fairness ==
  /\ WF_vars(ClaimQuery(Recipes)) /\ WF_vars(ClaimDocument(Recipes))
  /\ \A id \in Requests : WF_vars(Expire(id)) /\ WF_vars(Deadline(id))
  /\ \A a \in 1 .. MaxAttempts :
       /\ WF_vars(a \in Attempts /\ SendComplete(a))
       /\ WF_vars(a \in Attempts /\ attempts[a].stage = "sent" /\ Complete(a))

FairSpec == Spec /\ Fairness

-----------------------------------------------------------------------------
(***************************************************************************)
(* Properties.                                                             *)
(***************************************************************************)
JobType(id) ==
  /\ jobs[id].attempt \in Attempts \cup {None}
  /\ {jobs[id].live, jobs[id].open, jobs[id].failed, jobs[id].complete} \subseteq BOOLEAN
  /\ jobs[id].failures \in Nat

(* Types; an attempt that holds a job was handed that job. *)
TypeOK ==
  /\ \A id \in Requests :
       /\ results[id] \in Attempts \cup {None}
       /\ Exists(id) =>
            /\ JobType(id)
            /\ jobs[id].attempt # None => attempts[jobs[id].attempt].job = id
  /\ recent \subseteq Recipes
  /\ \A a \in Attempts :
       /\ attempts[a].job \in Requests
       /\ attempts[a].stage \in {"working", "sent", "delivered", "reported", "gone"}
  /\ polls \in 0 .. Workers
  /\ indexed \subseteq Documents
  /\ cleared \in 0 .. Len(attempts)

(* A complete job has an answer, computed for it by the attempt that last   *)
(* held it, although the two files are written one after the other, removals *)
(* leave old answers behind and the same request is submitted again.  After  *)
(* a forced rebuild no document is answered by an attempt from before it,    *)
(* although its worker still runs and the request has the same id.           *)
AnswersAreWhole ==
  \A id \in Requests :
    Exists(id) /\ jobs[id].complete =>
      /\ results[id] # None
      /\ attempts[results[id]].job = id
      /\ jobs[id].attempt \in {results[id], None}
      /\ id \in Documents => results[id] > cleared

(* Whoever reads the answer of a complete job reads the same bytes until it *)
(* is dropped or its query replaced, however many workers computed it and   *)
(* however late they post.                                                  *)
AnswersStay ==
  [][\A id \in Requests :
       Exists(id) /\ jobs[id].complete /\ ~Replaced(id) /\ jobs'[id] # None
         => jobs'[id].complete /\ results'[id] = results[id]]_vars

(* However workers fail, a document that was submitted does not stay        *)
(* pending.  (Scenarios with MaxAttempts allow an assignment for everything *)
(* that can ask for one.)                                                   *)
DocumentsSettle ==
  (budget.attempts = MaxAttempts) =>
  <>[](\A d \in Documents : Exists(d) => jobs[d].complete \/ jobs[d].failed \/ Stale(d))

(* What the indexer sees of a document's request. *)
RequestState(d) ==
  IF ~Exists(d) THEN "absent"
  ELSE IF jobs[d].failed THEN "failed"
  ELSE IF jobs[d].complete THEN "answered"
  ELSE "pending"

Abstract == INSTANCE DocumentRequests
              WITH request <- [d \in Documents |-> RequestState(d)]

(* The queue implements what the indexer relies on. *)
ImplementsRequests == Abstract!Spec
=================================================================================
