# A TLA+ model of all2md

all2md is a knowledge base of Markdown documents in a Git repository, with a
daemon (`mdstore`) that edits, validates, indexes and replicates them, workers
that compute embeddings and transcripts, a web client, a meeting recorder and
three converters. This directory holds TLA+ modules of its stateful parts, the
TLC configurations that check them, and proofs about the daemon (write path,
derivations, retrieval queue, replication), its worker and doc2md.  "Tree" and "file" below are what the code stores; a *run* is one TLC
configuration.

Paths below are relative to `src/`; `store.rs` is `mdstore/src/store.rs`.

- [1. The system](#1-the-system)
- [2. The modules](#2-the-modules)
- [3. What the runs check](#3-what-the-runs-check)
- [4. What is proved](#4-what-is-proved)
- [5. Where code and documentation disagree](#5-where-code-and-documentation-disagree)
- [6. What is not modelled](#6-what-is-not-modelled)
- [7. Plan](#7-plan)

`tlc -config <cfg> <module>` checks a run, `tlapm MdStoreProofs.tla` its
proofs.
`PROJECT.json` relates every definition to the lines it models.

## 1. The system

| component | state it keeps | operations | what is hard | what makes it correct |
|---|---|---|---|---|
| **write path** (`store.rs`, `git.rs`, `store/files.rs`, `hashline.rs`) | branch, index and checkout of the Git repository; published snapshot and block in memory; receipts, pending intents and `blocked` under the state directory | `edit`, `put`, `delete`, refresh, recovery, start-up | Git takes no part in mdstore's lock: operators commit and reset at any time. A step may fail, the process may die between any two, clients resend what was not answered | a commit is exactly the request applied to its parent; a retry applies nothing twice; a failed request leaves no trace; only validated trees are served |
| **derivations** (`store/artifacts.rs`; `ml-worker`) | job files, manifests in the repository, leases; a worker's copy of an attempt | list, claim, download, heartbeat, complete, retry, reconcile | work takes minutes: inputs and reference vectors change, leases expire, workers die and come back, an answer is posted twice | outputs are recorded for the inputs they were computed from, and only while those are current; retries are not lost; every declared derivation ends up computed or given up |
| **retrieval queue** (`retrieval_jobs.rs`) | one file per job, one per answer; leases, silence of recipes in memory | submit, claim, heartbeat, fail, complete, retry, clear, deadlines | two files per answer, deterministic ids that come back, late and repeated posts | answers are whole, stay, and are no older than the last forced rebuild; no document waits for ever |
| **embedding index** (`store.rs` 770–960, `sidecar.rs`) | vectors beside the snapshot, sidecar files, requests in the queue | maintaining task, forced reindex, load, notification | passes of minutes over snapshots that edits replace; a rebuild racing the task and edits; lost wake-ups | every vector stands beside its chunk; a rebuild leaves nothing old; the index gets complete |
| **replication** (`store.rs` 960–1110, `git.rs` 560–860) | remote branch, acknowledged revision, staged restart, divergence block | rounds of fetch, decide, activate, push; restarts | network steps run without the lock; answers are lost; a candidate may need another process configuration | only fast-forwards; nothing is acknowledged that was not replicated; the branches converge |
| **web workspace** (`webui/src/lib/workspace`, `+page.svelte`) | drafts, staged deletions, pages, conflicts of a tab; all but reads in storage | edit, open, create, delete, reconcile, resolve, submit, reload | one thread, but every request is an `await` across which anything else may run; answers come in any order | what was typed survives, and nothing that was not typed is sent |
| document moves (`moves.rs`) | none: a plan for one batch | link rewriting | chains and cycles of moves | links reach the document they reached before |
| interfaces (`mcp*.rs`, `main.rs`) | transfer tokens, event subscriptions | HTTP and MCP routes | expiry, slow subscribers | each route is a call of the parts above |
| document language (`markdown.rs`, `template*.rs`, `structure.rs`, `validation.rs`) | none | parse, validate, lint | pure | – |
| search (`search.rs`, `chunk.rs`, `vectors.rs`) | none | rank, chunk | pure | – |
| **ml-worker** (`worker.py`, `client.py`, `models.py`, `recipes.py`) | per job: workspaces by fingerprint, a scratch directory, a lock; models in memory with the time of their last use | claim, download, run a recipe, upload, complete; heartbeats and eviction in threads | two attempts of one job on one machine, leases lost without notice, eviction while a recipe starts | an attempt reads and publishes its own files only; a recipe that runs has its models |
| web navigation and rest | staged tree edits | move, undo, import, apps | moves onto and back from staged paths | a batch has one operation per path |
| **meeting-capture** | segments, tracks, session journal, archive; `flock` claims | record, finalize, recover, clean up | crashes of recorder and worker; two instances | a recording ends as one archive, and raw tracks are deleted only after it |
| **speech2md** (`pipeline.py`, `moss.py`, `moss_cache.py`, `redimnet2.py`, `hints.py`) | cache of raw generations, voiceprints, transcript, all beside the recording document | windows, generation, replay, reconciliation of speakers, edits, publication | interrupted runs, changed prompts, hints and audio; generations that stop early; overlaps heard twice; labels that change from window to window | a generation is reused only for what it was made from; every utterance is published, and what a hint speaks of as its person's |
| **pages2md** (`pipeline.py`, `ocr.py`, `decoding.py`, `native.py`, …) | private workspace: progress, page files, raw reads, figures, manifest; the published file or directory | open, resume, read, reconcile, join, verify, publish | interruptions between any two files, upgrades, other options; a model that loops, repeats or invents; up to three reads that disagree | what is published is of one source and one assembly, whole and in order; a retry or a second read costs nothing that was right |
| **doc2md** (`core.py`, `cli.py`, `notion.py`, `google_drive.py`) | directory with a manifest, or a Git clone; nothing else | walk a provider, plan, write, remove, fetch, rebase, push | the provider is edited during the walk; interruptions; lost answers; foreign commits | standing documents are kept; nothing else is; a quiet sync writes nothing; one commit per sync |

Bold parts are modelled.  How they interact. Clients (web, MCP, HTTP) call the write path. A commit
publishes a new snapshot and, over a `watch` channel, wakes the index task,
derivation reconciliation and connected tabs. The index task submits requests to
the queue and reads its answers; workers poll the queue and the derivation jobs
over HTTP. Completing a derivation is itself a commit. The ml-worker runs speech2md as a
recipe in a workspace it gives it, with the cache of generations copied in and
out. pages2md and doc2md are run by hand or by cron: pages2md beside its source,
doc2md on a directory or on a clone of the repository that `mdstore`
replicates. Replication shares the
repository lock and the published snapshot with the write path, and may restart
the process.

The hazards of each part, at their lines, are in `PROJECT.json`, with the
properties that would catch them going wrong, or the reason why none does.

## 2. The modules

```
Documents ── EditHistory            promise of the write path
    └─────── MdStore ─(implements)─► EditHistory
                └─ MdStoreProofs
Derivations                          jobs, leases, ml-worker
    └─ DerivationsProofs
DocumentRequests                     promise of the queue
    ▲ (implements)        ▲ (uses)
RetrievalQueue       EmbeddingIndex
    │                    └─ EmbeddingIndexProofs
    └─ RetrievalQueueProofs
Replication
    └─ ReplicationProofs
WebWorkspace
MeetingCapture
    └─ MeetingCaptureProofs
ProviderWalks ── DocSync                                    doc2md    ┐
SpeechWindows ── SpeakerLabels ── Transcription             speech2md ├ MCSyncsAndJobs
WorkerWorkspace                                             ml-worker ┘
    SyncsAndJobsProofs, about WorkerWorkspace, DocSync and Transcription
PagesWorkspace                   workspace, publication     pages2md  ┐
PageDecoding                     one call of the model                ├ MCPageConversions
PageReads                        the reads of one page                ┘
    WorkspacesProofs, about WebWorkspace, PagesWorkspace and PageDecoding
```

`MC*` modules hold only values for constants, and the choice between parts that
share a run: a behaviour of `MCSyncsAndJobs` or `MCPageConversions` is one of a
single part, whose guard is that the others have no state; the parts do not
interact in it.

Each module of a state machine has a type invariant, `TypeOK`, or its types in the
comments of its variables; those of `MdStore`, `Derivations`, `RetrievalQueue`,
`Replication`, `MeetingCapture`, `EmbeddingIndex` and `WebWorkspace` are proved, those of `WorkerWorkspace`,
`DocSync`, `Transcription`, `PagesWorkspace` and `PageDecoding` as far as their proofs need.

### Documents

A document is a sequence of blocks or `Absent`; a tree maps paths to documents.
Blocks stand for lines. An anchor is a line with its two neighbours, as
`hashline.rs` hashes a line with the lines around it; an anchor of the model is
exact, where one byte of hash per line can collide. `EditedPage` is
`apply_edit`, `BatchEdited` applies the edits of a batch, `Moved` its moves,
`Admitted` are the checks of `stage_edit` and `Result` the tree it stages.
A `put` with an empty body deletes, as in the code.

### MdStore

One transaction at a time, as the repository lock allows. `phase` is the place
in `edit_locked` (or `put_locked`) between two effects, and each effect is one
action:

| action | code |
|---|---|
| `Begin`, `Refresh` | `lock`, `restore`, `refresh_external_commit` |
| `ReadReceipt` | look-up of the receipt, answers of repeated requests (`replay_state`) |
| `RecoverPending` | `recover_pending`: an intent without a receipt whose commit reached the branch |
| `Stage`, `WritePending` | checks, candidate validation, the intent on disk |
| `WriteChanges`, `CommitTree`, `SyncIndex` | checkout, commit and compare-and-swap of the ref, index |
| `Rollback`, `DropPending` | the error path |
| `WriteReceipt`, `RemovePending` | after the commit |
| `Succeed`, `FailKeepingTxn`, `Fail` | answers |
| `…Fails` | each effect failing, within `MaxFaults` |
| `Crash`, `Restart` | the process dies in any phase; `Store::open` |
| `ExternalCommit`, `ExternalReset` | an operator, at any time, without the lock |
| `HandlerRefresh` | a read that refreshes, or `maintain_jobs` |

`commits` is the object store, a sequence of trees with parents; `head` the
branch; `published` the snapshot; `blocked` the persisted block; `receipts` and
`pending` the files; `acks` what clients were told, a history variable. An
operator appends and resets; rewriting a commit of mdstore into another one
(amend, squash) before its receipt is written is left out, as recovery finds a
commit by its tree on the first-parent chain.

### EditHistory

What the write path promises with all of its files forgotten: a branch that
grows by atomic edits of its tip, an operator who appends or resets, and answers
that were true of the branch. `MdStore` implements it with the identity as the
mapping: `commits`, `head` and `acks` are variables of both.

### Derivations

`head` and `snapshot` are the committed and the published state: declared
derivations, the value of their inputs, and publications. `jobs` are the files.
`attempts` is the sequence of all claims, each with what the claim handed out
(`params`, `refs`), what the worker then downloaded (`fetched`) and its stage: a
worker that lost its lease goes on, so attempts overlap. An asset's revision is
fresh per commit, its bytes determined by the attempt that made it.
`CompleteJob` holds the lock from the checks to the commit, but the operator does
not: `publishing` is the candidate in between. `live` is `expires > now`; a
lease of 300 s outlasts one heartbeat period of 30 s with two timeouts of 60 s,
so a lease expires in the model when its holder died (`Expire`), or earlier, within a
budget (`ExpireEarly`), for a machine that slept.

### RetrievalQueue and DocumentRequests

`jobs` and `results` are the two files of a request; `complete` is a flag of the
job. `InterruptedComplete`, `InterruptedPass` and `InterruptedReplacement` are
crashes between the two files. Time is `live` (lease), `open` (deadline of a
query) and `recent` (recipes that polled lately). The order in which claims pick
jobs is left open. `polls` are workers waiting in a claim. A worker that does not
learn of its success reports a failure, as `mcp/worker.rs` and the worker allow.

`DocumentRequests` is what the indexer relies on: a request is absent, pending,
answered or failed and moves only along given arcs; an answer does not
disappear but by `Drop`.

### EmbeddingIndex

The maintaining task (`maintain`, `pass`) and forced rebuilds (passes with `force`)
over a queue of one request per chunk, which is `DocumentRequests`. A vector is
the chunk it was computed for and the rebuild epoch it was computed in. `sidecar`
is what is on disk, `snapshot` what is served. A batch holds one chunk. Vectors
in memory may be lost for a while when a pass publishes over a later load; they come back
from sidecars or the queue.

### Replication

A branch is its sequence of commits; a commit is its kind: server section, valid
or not, pushes enabled or not. A round takes the lock twice: `BeginRound`
(refresh, remember the tip), `Fetch` without it, `Decide` and `Activate` with it,
`Push` without it. Restarts stage `<<local, incoming>>` pairs; `StartActivate`
and `StartOpen` are the two halves of starting up. Merges, the identity of the
remote and the provider section are left out.

### WebWorkspace

A text is two regions, rim (first and last line) and core; three-way merges take a
region from the side that changed it, and anchors see only the rim. One tab runs
handlers to their next `await`: `StartSync` → `InventoryReturns` →
`MissingReturn` (`syncDrafts`), `OpenPage` → `ReadReturns`, `Create` →
`CreateReturns`, `Submit` → sync → `ServerApplies` → `Succeed` or `GiveUp`. What the server reads
and when it arrives are two steps, so answers overtake each other. Two histories
say what a draft should hold: `typed`, the last value the user typed per region, and
`blanked`, the regions that `CreateReturns` gave the text of a new document after
that. `Edited` is `edit`, which typing and `create` share. Conflicts are
resolved by keeping either side or by text. `Reload` loses everything but what
is stored.

### MeetingCapture

`app` is the pair of `AppModel` and `CaptureCoordinator` of an instance, `disk`
what exists under each base name, `workers` the `finalize` and `recover`
processes. A recording passes `Begin` → `Open` → `Started` → `Stop` →
`StopMicrophone` → `FinishStop`; a worker `Claim` → (`Load` →) `Archive` →
`WriteManifest` → `RemoveFile`… → `RemoveJournal`, and its application goes on
with `Answer`. The `flock` of a recording is not a variable: it is held while a
recorder has a session of that name or a worker of that name is at work, and goes when they die
(`Locked`). A file is whose audio it holds; `written` is the
history of audio that reached a file. Two steps are taken as one: choosing a
name and claiming it (two instances that start in the same moment may differ), and the
deletion of the temporary archive of a crashed encoder is left out. One timing
assumption is made (`Starting`): the process of a finalization starts before the next
recording, which may reuse a name no file was written for, writes audio.

### ProviderWalks and DocSync

`ProviderWalks` is an enumeration, one request at a time, over a provider that
changes between requests. `ListPages` is `/search` ascending by last edit,
`FetchPage` the Markdown of one page, which may be gone by then; `OpenFolder` and
`ExportItem` walk Drive's folders, which may hold a document twice or each other. Pages are
sorted before their paths are made, so that names of equal titles do not depend
on the order of answers.

`DocSync` is `run_sync`: `Start` → `Request`… → `Plan` → `WriteFile`… →
`RemoveFile`… → `WriteManifest`, and with a repository → `FetchRebase` → `Push`, up to
`MaxAttempts` times. `Plan` is `apply` up to the first write, all that may refuse
(`Refused`: the manifest is another provider's, a bulk deletion is not allowed). Each file
is one step, as each write is a rename of its own; the order of removals is
open. `strays` is the history of what interrupted syncs left outside the
manifest. A directory has one sync at a time, which nothing enforces. Left out:
path collisions, dry runs, a second source in one directory, asset hosts,
subtrees of Notion's Markdown, and the rendering.

### SpeechWindows, SpeakerLabels and Transcription

Time is half seconds, scaled down with the lengths of windows and overlaps.
`SpeechWindows` has windows (`PlanWindows`, with silences, energy and the hard
boundary), what a generation may be (`Generations`: all of a span, or cut at any
token), how it is parsed (`ParseTranscript`, `ParseSegments`), and how windows
are joined (`TrimOverlaps`, `DeduplicateBoundaries`). `SpeakerLabels` has the
choice of hinted segments (a hint leaves a neighbour out that its rounded start takes
in), the plan of forced labels (`PlanSpeakerForces`: one
label for each hinted speaker, the others moved out of the way), anchors, and
the clustering of windows' voices (`ReconcileSpeakerRuns`). `Transcription` is a
run over all tracks of the document, as it is at `Begin`: `Transcribe` generates a
window, twice when hints ask for other labels, and continues it when it seems
truncated; `Replay` takes generations from the cache instead; `CacheEnded` and
`CacheUnused` are the discards; `FinishTrack` stores the cache; `Reconcile`,
`Render`, `PublishVoiceprints`, `PublishTranscript`. Between runs `EditDocument`
changes audio, prompt, hints or edits.

The models are free choices: an utterance is heard as a voice, of which some
sound alike to the generator, and others to the voice embedding
(`similar`). Equal words are words of one utterance; no utterance contains another
but in a recovery overlap. Wording, codecs and YAML are left out.

### WorkerWorkspace

Processes that share a cache directory and work on one job. `disk` is the job's
directory: a workspace per fingerprint, a scratch directory, the shared cache of
generations, the lock. An attempt passes `Claim` → `Prepare` → `Download`… →
`ClearOutputs` → `StartRecipe` → `WriteOutput`… → `EndRecipe` → `Upload`… →
`Complete`. The heartbeat thread sets `lost`, which is read between these
steps only; `Evict` is the maintenance thread. A file is said by where it came
from: a document's version, an input's asset, an attempt. `lease` is all of
`mdstore`, with one lease at a time, which it may take back at any moment.

### PagesWorkspace

`convert` for one source of `PageCount` pages. `bundle` is the workspace; each
checkpoint is a step, so `Interrupt` falls between any two of them, and in the middle of
the removal of a workspace (`Remains`). `Convert` decides from progress, fingerprints and
options; `Open` records `opening`; `Resume` takes or assembles again what is there;
`ReadGroup` reads several pages by one call, whose answer may have fewer segments than pages; `AssemblePage`
gives each page its read, or one of its own; `StoreManifest` and `StorePage`
alternate; `Normalize` joins paragraphs over page ends in memory and
`RewritePage` stores the joined pages one by one; `Bind` writes book and
metadata; `Verify`; and the steps of publication. `ReviseSource` and `Upgrade` change source and code between
conversions, options change with each. A page's text is a sequence of pieces: its first paragraph,
and its rest. `joined` and `by` are histories. Footnotes, tables and links that
cross pages are other moves of the same kind and left out. A fingerprint is
what it is computed from; the source is not revised while it is opened.

### PageDecoding

One `recognize`: a greedy decode whose next token is any the hard constraints
leave (`Legal`): no n-gram again, a marker first when steered, a prefix when
replayed, another token at the fork. `Take` advances stream and guide, and ends
the stream by the end token, the budget, the guard of ungrounded starts or the
guard of loops. `FinishFirst` judges the read, and starts a rescue
(`StartRescue`, a steered call within the call) or retries from the first duplicated
block (`StartRetries`); `FinishRetry` compares by `Eligible` and `Better`; `Stuck` is a decode
without a legal token. Tokens are headers with their box, words, operators, the mark of a page and the
end; a score is one of two likelihoods. Soft steering only prefers tokens and
is left out. The boxes of two regions do not overlap, but one may stand compressed just below
another (`below`): its block can then be a duplicate of the other (`geometry_risk`).

### PageReads

A page has numbered regions of one height, with the words the file carries there. A read is a
sequence of blocks: the regions its box takes in (or no box), kind, words, certainty. Words have
lengths, as some thresholds count characters: ordinary ones 21 letters, short ones 6, misread 9. `RereadDetail`
and `RereadAlone` are `_collect_page_candidates`; `Reconcile` is
`reconcile_observations` followed by `select_candidates`, `ReadCrop`
one crop of `recover_regions`. Texts are sets of words and similarities are their shares, with the
thresholds of the code. Left out: consensus of two peers (a page has at most one peer besides the
detailed read, so `_reconcile_consensus` is not reached), retained headings,
repair of a block's boundary, equations, lists, tables.

## 3. What the runs check

Every `pass` run finishes; together they take every action. All configurations
disable the deadlock check: the operator, the budgets and the clients stop at
some point, an idle tab need not act, and a daemon does not come up
on an invalid HEAD. That the code does not wait for itself is stated as liveness
instead.

Bounds are budgets of environment actions, so that the system's own steps stay
unbounded: how often operators commit or reset, processes crash, steps fail,
users edit, leases expire. `Scenarios` is a set of budgets, one of which each
behaviour gets: a scenario with much editing and one with every other operation
cost far less than their union and together fire everything. Liveness is stated for scenarios that
have an attempt for each event that can ask for one, because a budget that runs
out is not the code's doing.

| run | instance | shows |
|---|---|---|
| `store_edits` | append, batch over two pages, move, conditional `put`; 2 transactions; 1 each of operator commit, reset, crash, fault | `RetriesApplyOnce`: nothing but receipts and recovery keeps a retried append from repeating. `CommitsAreEdits`, `PublishedIsValid`, `BlockedMeansNoCommit`, `AnswersAreCurrent`, `FailedEditLeavesNoTrace`, `RequestsEnd`, `BlockHeals`, and the refinement `ImplementsEditHistory` |
| `store_restart` | *violated*, see 5 | `RestartAppliesConfiguration` |
| `derivations` | four scenarios: one derivation with an edit, a retry, a fault and an early expiry; with a retry and a failure; with 2 failures, an expiry, a crash and 7 attempts; and a derivation reading the vectors of another, with edits and operator commits and reverts | `PublicationsAreFaithful`, `PublicationsAreTimely`, `RetriesRunAgain`, `DerivationsSettle` |
| `queue_requests` | a document and a query, rebuild, retries, deadline, crash between files; a second scenario with 5 attempts | `AnswersAreWhole` (and no older than the last rebuild), `AnswersStay`, `ImplementsRequests`, `DocumentsSettle` |
| `index_maintained` | two pages over two chunks they may share; edit, rebuild, failure, retry, crash | `VectorsBelongToTheirChunks` (and a rebuild leaves no older ones), `IndexCompletes` |
| `replication_sync` | branches of up to 4 commits, 2 local, 2 remote, of 5 kinds; crash, fault | `ServesItsConfiguration`, `NothingPendingWasReplicated`, `NothingIsLost`, `Converges` |
| `web_drafts` | one document, two values per region; three scenarios: two edits on each side, each other operation once, a document created twice | `DraftsAreWhatWasTyped`: drafts hold what was typed, but where a creation started them over |
| `capture_recovery` | two segments and a process track; one recording that two instances capture and recover with two crashes and a fault, or two recordings of one instance | `OnlyCutCleanUpsLoseAudio`; `ManifestsTellTheTruth`: archives called complete are whole, and what no process works on says what it is; `AudioCanBeRecovered`: audio on disk has a journal, and unfinished recordings are offered |
| `capture_cleanup` | *violated*, see 5 | `AudioIsKept` |
| `syncs_and_jobs` | doc2md: Notion into a directory, Drive with a document in two folders into a directory, Notion into a repository with a foreign commit; 2 documents of equal title (one in the repository), 2 syncs, 2 edits, an interruption. speech2md: six sequences of documents over six recordings (hints that ask for other labels, that take in the end of a neighbour, that a speaker sticks out of, that nobody has most of; a second track, hard and silent window boundaries, truncated generations), up to 3 transcriptions, an interruption. ml-worker: two processes, 3 attempts of one job, a speech job whose inputs are revised, an audio job with two inputs and two faults | `StandingDocumentsAreKept`, `QuietSyncsChangeNothing`, `FilesAreManaged`, `PushesAddOneCommit`; `GenerationsAreReusedForTheirInputs`, `TranscriptsAreFaithful`; `JobsAreIsolated` |
| `page_conversions` | pages2md: a source of 2 pages in 2 versions, 2 versions of the code, 3 conversions with any options, interrupted anywhere; five calls of the model, with evidence, furniture, a region just below another, an unreadable operator, and two pages in a call; six papers with 2 to 4 regions, read whole, in part, wrongly, twice or not at all, with short words that are read too long, or with blocks over several paragraphs | `PagesAreOfOneConversion`, `PublishedTextIsWhole`; `RetriesOnlyImprove`, `FaithfulReadsAreNotCut`; `SupportedTextIsKept`, `LocatedTextIsReadOnce` |
| `pages_resume` | *violated*, see 5 | `InterruptedRunsResume` |

Why the bounds are enough. *Store*: two transactions are what a retry needs, and
each hazard is one event between them (a crash between ref and receipt, an
operator between staging and compare-and-swap); a commit and a reset of the
operator take an applied edit back. A third own commit meets the same files: a
receipt and an intent belong to one request. *Derivations*: three attempts are a zombie, its
successor, and the one after a retry. *Queue*: an answer from before a rebuild, one
from after it, and one that arrives late. *Index*: a pass on an old snapshot
needs one edit during it; two shared chunks make indices shift. *Replication*: a
divergence needs one commit on each side, its repair another; four commits
leave room for both. *Web*: two edits with two foreign changes give every order of
base, local and remote text per region. *Capture*: a recording that crashes, a
recovery that crashes and a second recovery; a second name that a crashed
recording leaves taken, or one that a recording without files leaves free.
Two segments and a track are the three ways a file comes and goes.
*doc2md*: a path is taken from one document and given to another by two with one
title; what the first sync leaves, the second finds. *speech2md*: a cached generation is met by
another prompt, other hints and other audio within three transcriptions; the
long recording has two windows that part at a silence and share an utterance, too long to
count as a repeat; the noisy one parts at its quietest moment, and its second utterance
is heard twice and kept once; the dense one has a window that is continued once. In the
last one, a reply, somebody's last word stands at the start of a range that is hinted
to be the next speaker's, as in the tests of `moss.py` (`test_speech2md.py` 339–369):
a hint with a rounded start leaves it to whom it belongs; one that the reply sticks out of
takes the reply, its dominant speaker; where two have as much of the hint the run fails. *ml-worker*: an attempt without its lease, its successor, and the
one after that. *pages2md*: a first conversion, an interrupted one on top of it and one that
resumes; two pages have one end that a paragraph can cross. A decode of up to 7
tokens has room for a repetition the loop guard sees (thresholds are scaled to
3 tokens) and for both retries. A paper of three regions has a first, a middle and a last one;
four make the shares of `Reconcile` pass their thresholds, and a box over three takes in
a third of each, less than the 35% at which a block counts as read.

In `derivations` and `queue_requests` a job fails for good after two failures, three in
the code.

### Fairness

- `MdStore`: `DaemonStep` (a handler that started goes on), `Restart` (the
  service manager restarts the daemon), `HandlerRefresh` (`maintain_jobs` runs
  every 5 s). Faults, crashes, operators and clients have none. `BlockHeals` needs the last;
  `RequestsEnd` the first.
- `Derivations`, `RetrievalQueue`: workers poll and go on with a claimed job
  (`ClaimJob`, `ClaimDocument`, `Fetch`, `SendComplete`), the daemon answers
  (`CompleteJob`, `Complete`, `Publish`), leases and deadlines expire because
  time passes. A worker that died or failed does neither; nothing asks that it
  does not.
- `EmbeddingIndex`: the two loops of the task, and `Answer(c)`, which
  `RetrievalQueue!DocumentsSettle` justifies.
- `Replication`: rounds are started by a timer and run to their end; the
  supervisor restarts the process.
- `WebWorkspace`, `MeetingCapture`: none. The browser promises nothing about a
  request, and every step of a recording may be its last.
- The converters and `WorkerWorkspace`: none. Nothing promises that somebody
  runs a converter again, and a worker's progress is `Derivations`' concern.

## 4. What is proved

The theorems hold for all constants that satisfy the assumptions named in the
modules, of any size, and any number of crashes, faults, commits and retries.
The bounds of the runs are constants of the modules too, so a theorem holds
whatever they are. A run checks the same property on a small instance, where
the table names one.

| theorem | states | the run that checks it |
|---|---|---|
| `MdStoreProofs!TypeCorrect` | `Spec => []TypeOK` | – |
| `MdStoreProofs!EveryCommitIsAnEdit` | `Spec => []CommitsAreEdits`: each commit of mdstore is its request applied to the tree of its parent | `store_edits` |
| `NoCommitWhileBlocked` | `Spec => BlockedMeansNoCommit`, an action property | `store_edits` |
| `OnlyValidIsPublished` | `Spec => []PublishedIsValid` | `store_edits` |
| `RetriesAreAppliedOnce` | `Spec => []RetriesApplyOnce`: between two commits of one request every page was back at its earlier text | `store_edits` |
| `SuccessIsCurrent` | `Spec => []AnswersAreCurrent` | `store_edits` |
| `FailuresAreRolledBack` | `Spec => []FailedEditLeavesNoTrace` | `store_edits` |
| `StoreImplementsEditHistory` | `Spec => ImplementsEditHistory`: the write path implements the atomic history | `store_edits` |
| `DerivationsProofs!TypesHold` | `Spec => []TypeOK` | – |
| `ManifestsAreFaithful` | `Spec => []PublicationsAreFaithful` | `derivations` |
| `RetriesAreNotLost` | `Spec => []RetriesRunAgain` | `derivations` |
| `PublicationsAreOnTime` | `Spec => PublicationsAreTimely`, an action property | `derivations` |
| `RetrievalQueueProofs!TypeCorrect` | `Spec => []TypeOK` | – |
| `AnswersAlwaysWhole` | `Spec => []AnswersAreWhole` | `queue_requests` |
| `AnswersNeverChange` | `Spec => AnswersStay`, an action property | `queue_requests` |
| `QueueImplementsRequests` | `Spec => ImplementsRequests`: the queue implements the safety of `DocumentRequests` | `queue_requests` |
| `EmbeddingIndexProofs!IndexTypes` | `Spec => []TypeOK` | – |
| `VectorsStayWithTheirChunks` | `Spec => []VectorsBelongToTheirChunks` | `index_maintained` |
| `ReplicationProofs!TypeCorrect` | `Spec => []TypeOK`, with staged restarts being fast-forwards | – |
| `ServesOnlyItsConfiguration` | `Spec => []ServesItsConfiguration` | `replication_sync` |
| `AcknowledgedWasReplicated` | `Spec => []NothingPendingWasReplicated` | `replication_sync` |
| `CommitsAreNeverDropped` | `Spec => NothingIsLost`, an action property | `replication_sync` |
| `MeetingCaptureProofs!TypesHold` | `Spec => []TypeOK` | – |
| `OneWorksOnAName` | `Spec => []Exclusive`: one recorder or worker at a time works on a name | – |
| `AudioSurvives` | `Spec => []OnlyCutCleanUpsLoseAudio` | `capture_recovery` |
| `ManifestsAreTrue` | `Spec => []ManifestsTellTheTruth` | `capture_recovery` |
| `LeftAudioIsOffered` | `Spec => []AudioCanBeRecovered` | `capture_recovery` |
| `SyncsAndJobsProofs!WorkersAreIsolated` | `WorkerSpec => []JobsAreIsolated` | `syncs_and_jobs` |
| `SyncsManageTheirFiles` | `SyncSpec => []FilesAreManaged` | `syncs_and_jobs` |
| `SyncsCommitOnce` | `SyncSpec => []PushesAddOneCommit` | `syncs_and_jobs` |
| `GenerationsAreOfTheirInputs` | `SpeechSpec => []GenerationsAreReusedForTheirInputs` | `syncs_and_jobs` |
| `WorkspacesProofs!WebTypes` | `Spec => []TypeOK` of `WebWorkspace` | – |
| `DraftsStayWhatWasTyped` | `Spec => []DraftsAreWhatWasTyped` | `web_drafts` |
| `BooksAreOfOneConversion` | `PagesSpec => []PagesAreOfOneConversion` | `page_conversions` |
| `RetriesImprove` | `DecodingSpec => []RetriesOnlyImprove` | `page_conversions` |
| `FaithfulReadsGoOn` | `DecodingSpec => []FaithfulReadsAreNotCut` | `page_conversions` |

All proofs have one lemma per action, a lemma for what most actions have in
common, `NextInv` that combines them, and `InvAlways`, the temporal conclusion.

### The write path

Assumptions: `BlocksAssumption` (`Absent` and `Edge` are no blocks) and
`StoreAssumption` (requests are well formed, `External` and `None` are none of
them, the initial tree is a valid tree, operators commit pages). Paths, blocks,
servers, requests and `Valid` are arbitrary.

The inductive invariant is `Inv == TypeOK /\ Addressed /\ Staged /\ Committed`.
Neither `CommitsAreEdits` nor `PublishedIsValid` is inductive: `CommitTree`
commits `txn.tree`, which was computed three effects earlier from a snapshot. `Staged`
carries what `Stage` checked (the request was admitted on the tree of
`txn.base`, `txn.tree` is its result, valid, and writes were not blocked) to the
compare-and-swap, which succeeds only if `head = txn.base`: that makes the
checked base the parent. `Committed` carries validity on to `SyncIndex`, which
publishes. `Addressed` says that base and commit exist in the phases that use
them. A block is only ever set by a refresh, under the lock, so none arises
between staging and commit.

`Keeps` is what most steps have in common: older commits stay as they are, which the log
being append-only gives (`AppendKeeps`). `NewCommits` says what the one new commit of a step
is, from which `EveryCommitIsAnEdit` (with the strengthening `Exact`) and
`NoCommitWhileBlocked` follow. The module begins with lemmas about the
operators of `Documents`: an edited page is a page, the result of an admitted request is a tree,
the paths a request touches are paths.

Its last part relates the files to the history of the branch. The
invariant there, on top of `Inv` and `Exact`, is `HistInv`:

- `Intents`: an intent on disk, and the transaction from staging on, is a request
  with the images before and after it, staged on a commit that exists; the log
  only grows, so this stays true (`GrowthKeepsIntent`).
- `Remembered`: every commit of mdstore on the branch is undone page by page, or a
  receipt restores it, or an intent does that recovery can find from its base.
  `KnownByPhase` says where in a transaction of the same request which of the
  three it is: before staging the only one left is "undone", which is
  `RetriesApplyOnce`. The step that shows why the order of the effects matters
  is `RecoverPending`: it drops an intent only when it wrote the receipt, or when
  it saw the images of before.
- `Answers`: the commits that answers are about to name hold the effect of the
  request, so a success maps to `EditHistory!Answer`.
- `Current`: what a success wrote, or found again, is in the snapshot it is answered from.
- `Checkout`: in which phases the checkout is the branch's, or differs only in
  pages of the batch. A failed rollback spends a fault and counts in
  `budget.broken`, after which nothing is claimed until the next refresh.

The refinement maps variables to themselves. `CommitTree` with its compare-and-swap is
`Apply`, `Succeed` is `Answer`, the operator's steps are the others' steps; everything
else, crashes and recovery included, is a stutter.

### Derivations

Assumption: `DerivationsAssumption` (budgets are numbers, `None` is none of the
values, jobs or publications, what a derivation may read is a set of derivations). The
properties speak of a publication and of an attempt that was claimed arbitrarily long ago.
`Inv` ties them together: a running job carries the parameters and references of the
last attempt claimed for it, and nobody else's (`Leased`), because reconciliation takes
the attempt away when inputs change; so what is fetched and sent under a lease was made for
those parameters (`Fetched`). `Pinned` holds between the check of
`complete_job` and its commit, when HEAD may move: the candidate was checked for the
revision it names, and the commit needs that revision to be HEAD still. `Jobs` carries
`RetriesRunAgain`: a retry stands in the job until a publication of an
attempt claimed later.  `Order` is needed for a crash between a commit and its
announcement, after which jobs are reconciled against the older snapshot.

### The retrieval queue

Assumption: `QueueAssumption`, as in the module. `AnswersAreWhole` is
not inductive: `Complete` accepts an answer from whoever holds the job, so an
answer is whole because every holder was handed this job, and recent because a rebuild
takes jobs away from their holders. `Sound` says this of one request: its two files, given the log of
attempts and the number of those before the last rebuild. `Inv` is `Sound` for
every request with the types of the rest. A step touches one request (`Changes`),
or drops or empties many (`Stays`); `Effect` says so of every action, and both
`AnswersStay` and the step simulation follow from it, one request at a time:
`EffectSeen` maps each effect to `Drop`, `Move` or a stutter of
`DocumentRequests`.

### The vector index

Assumption: `IndexAssumption` (a text is a nonempty sequence of chunks, `None` is none of the
values). `IndexInv == TypeOK /\ SnapshotInv /\ LoadingInv /\ SidecarInv /\
PassInv`. A pass works for minutes on pages that edits replace, so `PassOK` speaks of the
generation it began with: while the snapshot has it, the pages are the same, and
`Build` publishes only then. A vector fits because it stands beside its
chunk in the pass (`Embedded`, one chunk at a time), in the sidecar it saves, and in
whatever loads that sidecar, which compares the whole text (`SidecarOK`,
`LoadChunksFacts`). That a rebuild leaves no older vector is a statement about
pages the pass is through with (`Renewed`): each has been saved with vectors of
this epoch or lost its sidecar. A failed or crashed rebuild claims nothing, as `rebuilt`
moves only at the end of a pass that went through. Of `DocumentRequests` the proof uses only its
states: that an answer is no older than the rebuild that asked is `AnswersAlwaysWhole`, and so a vector
takes the epoch of the pass.

### Replication

Assumption: `ReplicationAssumption` (the initial server section is one, operators
and other writers make commits of some kind, at least the first commit may
exist). Histories are sequences of any length. A round acts on what it read before the
network answered, so `RoundInv` says what is still true of it by then: the
remote once had what was fetched, and a candidate about to be activated extends
the tip it was compared with, is valid and has the server section of the process. `Activate` then keeps
`NothingIsLost` because it moves the branch only from that tip, and
`ServesItsConfiguration` because a process never changes its section while it
runs. `StagedInv` says the same of `restart.json`, over any number of crashes.
Each lemma shows `Inv' /\ Extends` of its action, where `Extends` is
the action of `NothingIsLost`.

### Recordings

Assumption: `CaptureAssumption` (no segment is a track, names are numbers, `None` is
neither an instance nor one of the records, scenarios are numbers). Instances, names,
parts and the numbers of launches, crashes and faults are arbitrary; nothing is assumed
of fairness, so a recording may stop at any step.

None of the three properties is inductive, as a worker acts on what it read
several steps before and several workers may wait for one name. The argument goes one
name at a time. `Exclusive` says that whoever touches the files of a name holds its lock;
a worker whose application died keeps it. So a step changes the files of one name, and
`Elsewhere` keeps the rest. Under the lock `RecordingInv` relates five things: the files
of the name, the audio that reached them (`Heard`), whether a clean-up was cut off, the
recorder, and the workers.

- `NameInv`: every file is in the journal; while no archive has been finished, all that
  was heard is in the files, afterwards it is in the archive; a settled archive is the
  one the manifest describes.
- `SessionInv`: a recorder has a name nobody used, and a part is saved in the
  journal before it can have a file, whatever failed in between.
- `WorkerInv`: what a worker knew when it decided is still so when it acts. The case
  that needs care is a finalization that starts late, after another instance
  recovered the recording and failed to remove a file: `Finalizes` says that if it
  finds all of its files, these are all that was heard and all that the archive has.
  A recovery counts as failed, so it never writes a complete manifest.

Every effect of a worker on the files is a lemma (`LoadLeaves`, `ArchiveLeaves`, …) that its
successors and those who wait find what they need; `AloneInv` makes the invariant of it.
`Claims` is there for `UnfinishedIsOffered`: a list read again leaves out only
what the instance itself is busy with (`FreshOffers`). TLC checked the invariant on
the instance of `capture_recovery` before it was proved.

### The worker and doc2md

Assumption: `WorkersAssumption` (job scenarios have an input version, outputs and a
number of faults). Nothing is assumed of the constants of `DocSync`: any source, plan
and walk will do, as the properties are about what is done with what the walk found.

*WorkerWorkspace.* The lock of a fingerprint lets one process at a time work
(`WorkersTakeTurns`), although mdstore may lease the job to several. Hence
what it has prepared stays: `OwnFiles` says, by phase, which inputs are those of the
leased version, which outputs are absent or its own, and what was uploaded;
`Accepted` keeps it for what mdstore took. That outputs are cleared before the
recipe, and inputs compared by digest, are the two facts without which it is not
inductive.

*DocSync.* `Writing` is the invariant of a plan half carried out: what is
to be written and what is there make up the files of the new manifest, nothing
of it is to be removed, and the rest is removed or was outside the manifest
before. `GitInv` follows a plan onto the branch, where `CommitsOK` gives every
commit a stamp of the sync that made it: a rebase happens only over a commit with the
stamp the sync started from, so the files it meets are those it planned for, and after a lost
answer the sync finds its own stamp and pushes nothing. `DirInv` is the same for
a directory, whose one sync at work is the last that started.

### Transcription

Nothing is assumed of the constants: any documents, recordings, windows, thresholds and
generations will do, with or without hints. What was decoded under which recording, prompt and labels
is inductive as it stands (`EntryOf`, and `KeptOf` for the cache, whose metadata has the prompt).
The span is not: an entry of the cache has none, and `Replay` takes the next entry for whichever span the pass
has come to. So the invariant says how the entries lie: `Path` is a sequence of
positions (the window, and where the submitted span starts) in which each entry was decoded at its
position, and its result leads to the next (`NextPosition`: to the next window, or back behind
what a truncated one covered). What a pass took lies on a path from the first
position to its own (`LaidTo`); what is left of the cache lies on a path from
its own position (`LaidFrom`), which `LaidTail` steps along. A window that is decoded again under
other forces still leads to where the cached result led, if neither looks truncated
(`WholeResultsGoOn`); if one does, `reguided` is set and spans are no longer claimed, of
that run, and of the cache it saves. TLC checked the invariant, with paths folded
over the entries, before it was proved.

### The workspace of a tab

Assumption: `WorkspaceAssumption` (`Absent`, `Blank` and `None` are not among the values).
`WebInv == TypeOK /\ LocalInv /\ Sent`. What a draft holds of the user and what it holds of
`create` are one function of the regions, `Held`, so that every handler is shown to
keep one relation between it and the draft, and only `Edit` and `CreateReturns` write into it
(`EditedIsOK`, `HeldClears`, `BlankedPath`; `SettlesHeld` for the others).
`DraftsAreWhatWasTyped` says nothing of what a
draft that will be dropped or moved was; `PathOK` does, for one path: regions held are
in the draft, every other region is the base's, and a region held differs from
the base. Whatever reconciles a path, with whichever text, is one of the four
cases of `Rebased` and forgets what `Lapsed` says; `RebasedKeepsPath` shows once that
such a step keeps `PathOK`, and each handler is then shown to be such a
step (`Reconciled`). What a tab reads may be stale by the time it is used and the proof does
not mind: a text of the server is used as it is, whichever it was.
`Sent` is needed for `Succeed`, which drops all local changes: edits are refused while a
submission is under way and reconciliation adds no local changes, so
every change that is dropped was in the batch.

### The workspace of a conversion

`PagesAssumption` (bounds are numbers, what continues is a page) is not needed: versions, pages,
figures and groups are arbitrary.
`PagesInv == SettingsOK /\ BundleOK /\ ConversionOK /\ TargetOK`. Nothing is remembered of
how a workspace came about, so `BundleOf(b, version)` says what its files tell of each
other: progress, metadata and every page are of one version, and guided reads are there
only if progress says so. A conversion may begin on it only if progress or metadata is compatible
(`ConversionOf`, pc `"opening"`), which makes the version the conversion's; from `"resuming"` on
progress is the conversion's own. Results are by the conversion's assembly, whether taken,
assembled again or read. `"publishing"` needs a `book`, and `TargetOK` keeps what was published.

The proof found what no run had: with a fourth and fifth conversion the property, as it stood,
was false. `shutil.rmtree` (`pipeline.py` 180) that is interrupted after it removed
`progress.json` may leave the `metadata.json` of an earlier, unguided book next
to pages that are guided reads; the next unguided conversion reads its
fingerprint from there, and takes guided reads, against the comment at
`pipeline.py` 949 ("guided OCR is not reversible"). The part of the property about
guided reads now excepts bundles that were cut so (`cut`, which the proof shows to be the
only way); version and assembly hold without exception.

### One call of the optical model

`DecodingAssumption`: thresholds are numbers, a block that can be a duplicate has at least one
word that counts (96 characters of text in the code), progress is recent for at least one token and
the source may be looked ahead for at least one word (64 characters of text, and 12
words of the source, in the code), every region is on a page of the call and its text is made of
words the scenario tells apart, and `Untold`, the end and the mark of a page are neither reads nor regions.
Vocabularies, pages, budgets, scores and the number of retries are arbitrary.
`DecodingInv` follows the two promises. That the answer has every region in which the first
read did not just repeat itself, and no more duplicates (`NoWorse`), holds of `call.best`
throughout: an eligible read has the regions of the reference, which are all it is
compared with, and a rescued read had no body, so
a rescue that works cannot lose any. A region that only repeats the block above it is not in
the reference and may be lost. That a retry takes a new way needs
first that it gets to its fork at all: that no guard stops it on the way. The guards
look at tokens, guide and loop only, not at what is replayed, and the first read passed them. The
states it went through are not kept, so the invariant says that some sequence of states (`Course`)
leads from a fresh stream to the read by its tokens, unfinished until its end; a retry is
on it until the fork (`OnCourse`, `CourseKept`; streams that are `Alike` take a token alike).
Hence a finished retry is longer than the fork (`RetriesGetThere`), and the token it has there
is none of those banned, which are those of all the ways before (`WaysGrow`). The least block and the
least place of a set are found by well-founded induction on the naturals (`Least`), from the
library's `WFMin`. TLC checked the invariant, with the course folded over the tokens, before
it was proved.

`FaithfulReadsAreNotCut` rests on `GuidedInv`, about a call for one page. While a decode is under way
the guide stands in the region of the last block, if that has text in the file, and the
cursor of a region that has not been opened is at 0 (`Guides`). Where the block is the first
of its region and has followed the text of the file so far (`Follows`), the cursor is at the
block's last word, which it has supported (`Guided`): a header turns to a region whose cursor is at 0
(`GuideTurns`), and the next word of the file is the nearest match behind the cursor, so
exactly it is consumed (`NextIsFound`, `GuideReads`). The word just read, or the one before the end,
is then recent progress, so no loop is noted, and without one the guard does not cut
(`SupportedIsNoLoop`, `TakeGuided`). A finished decode is not guided any more, as the end may
be its last token; `Uncut` keeps what is needed of it. The other steps begin a
decode with a fresh guide (`Restarts`, `FreshGuided`).

### What is only model-checked

All liveness and everything about fairness, which the
installed provers cannot handle (`RequestsEnd`, `BlockHeals`,
`DerivationsSettle`, `DocumentsSettle`, `IndexCompletes`, `Converges`);
`StandingDocumentsAreKept` and `QuietSyncsChangeNothing` of doc2md, which are about what a
whole walk over a provider finds, sorted and named, and so need induction over
sequences; `PublishedTextIsWhole` and the properties of `PageReads` of pages2md, and
`TranscriptsAreFaithful` of speech2md, which are about what recursive functions and folds
compute (joining of pages, shares of words, windows and speaker labels). The libraries' induction theorems take an operator as parameter, which the installed provers
cannot instantiate. The models avoid `RECURSIVE` operators, so that the rest stays provable.

## 5. Where code and documentation disagree

1. `store_restart`. A commit to the server section is rejected with "restart
   required" and writes are blocked in a file. After the restart the new
   configuration is loaded, HEAD equals the snapshot, so the refresh returns
   early and never clears the block (`store.rs` 1078): writes stay rejected until
   another valid commit arrives.
2. `capture_cleanup`. When a worker dies while it deletes the audio files of a
   published archive (`WorkerOperations.swift` 113–115), the journal is still there;
   recovery archives the files that are left and replaces the complete archive.
   `meeting-capture/README.md` 154–157 says files are deleted only after the archive is published.
   `OnlyCutCleanUpsLoseAudio` says this is the only way to lose audio.
3. `pages_resume`. `normalize_document` joins a paragraph that crosses a page
   end, and the joined pages are stored one by one under the assembly
   fingerprint of the unjoined ones (`pages2md/…/pipeline.py` 227, 434). A run
   interrupted between two of them, or while it assembles them again, leaves joined and
   unjoined pages that the next run resumes together: a paragraph is lost or
   published twice. `pages2md/README.md` 249 says an interrupted run can resume, the
   comment at `pipeline.py` 174 and `test_regions.py` 437 that stale page
   blocks are not resumed. `PublishedTextIsWhole` excepts these bundles and
   says that there are no others.

Noted without a run.

*mdstore.* A batch over two pages can be applied to one of them twice: its
receipt step fails after the commit, an operator takes one page back, and moves
HEAD again between the refresh of the retry and `recover_pending`, which compares
the index for one page with the snapshot for another (`store.rs` 1250) and drops
the intent of what looks undone. `RetriesApplyOnce` therefore speaks of each page.
An operator who commits and goes back to the base of a transaction before its
compare-and-swap leaves the checkout stale after a success, until the next
transaction restores it. `heartbeat` accepts a failure of a complete job (`retrieval_jobs.rs`
357): a worker whose success was accepted but not acknowledged reports a failure, the
third makes the job failed and complete, and `retry` leaves complete jobs alone
(`mdstore/README.md` 34–36: failed jobs can be retried). A forced rebuild returns
`Ok` when the generation changed while it prepared, without discarding a sidecar
(`store.rs` 824; `mdstore/README.md` 22–23). A retried `put` whose first answer was
lost gets 412. An operator's reset to before an edit and a retry apply the edit
again, which `RetriesApplyOnce` allows as the edit is undone. With `git.push`
disabled a divergence block is never cleared. An operator who reverts a
publication leaves its job "current" without a publication.

*webui.* A submitted draft replaces the whole document by anchors at its first
and last line (`api.ts` 130–158), which check only their neighbourhoods
(`hashline.rs` 369–418): a foreign change to the middle after the last check is
replaced, where `webui/README.md` 201–203 says no change is silently
overwritten. `create` at a path the server has no document at sets an existing
draft to the text of a new document (`+page.svelte` 1007–1010): who creates a
document twice before submitting it, or whose document was deleted meanwhile,
loses what was typed, which `DraftsAreWhatWasTyped` excepts region by region (`blanked`).
Creating a document where a deletion is staged leaves both, and the
next reconciliation drops the draft (`DraftsAreWhatWasTyped` excepts those
paths). A read that never returns keeps a tab reconciling until it is reloaded.

*doc2md.* A sync into a directory that is interrupted, followed by a rename at the
provider, leaves the file it wrote outside the manifest for ever (`strays`). Two
syncs on one directory at a time would lose one of the manifests; nothing prevents them.

*speech2md.* Cached generations do not say which span they are of. When a window
that was continued after a suspected truncation (14 000 tokens) is decoded again under
other hints, the cached generations behind it may be read at another offset
(`moss.py` 860–946; `speech2md/README.md` 116–126); `reguided` excepts those runs.
Such a cache may make every later run fail: a timestamp outside of its span is
a `ValueError` that does not begin with "MOSS cache", and a rerun for guidance has no
handler of its own (`pipeline.py` 141–175), where `README.md` 129 says
invalid caches are ignored. Two runs of one window may get one identity, as a run
without a confident match takes what its label stood for before. An utterance that two
windows share is kept in both pieces, the shared part twice, when the pieces are long
against it: less than 65 percent of them agree (`moss.py` 1214–1220). What a hint
does not anchor, as its start was rounded or a segment sticks out of it, may be
published as somebody else's inside the hinted range, always the lesser share of it;
`HintsAreFollowed` says so.

*ml-worker.* An attempt that finds the lock of its job held fails before its
failure reporter exists: its lease stays until it expires. One failed heartbeat
loses an attempt.

*pages2md.* A forced removal of a workspace that is interrupted can leave pages
whose figures' numbers are given again, and guided reads that an unguided conversion takes (section 4). `_publish_output` removes the old output
before the new one is whole; the next run then needs `--force`. A paragraph that
was first read without a box may be adopted again from a later read
(`native.py` 868–962), and is in the page twice: `LocatedTextIsReadOnce` speaks of
text that was located. It excepts blocks that say the text of several regions: where a later read takes
three paragraphs for one, its block is adopted although each was read, because no
single block takes in 35% of it (`native.py` 923–932; the docstring at 875 says
"otherwise uncovered text regions"), and the three are in the page twice. Segments of a merged region whose rereads fail may
lose or double text. Replacing blocks of fewer than 24 characters (`native.py` 464), and a corrupt page, is not checked
for supported text: three short words the file confirms give way to a longer misreading when
the detailed read failed and the page was read alone, which `SupportedTextIsKept` excepts. A rescue of a read that began with the marker is the same
decode again. `_reconcile_consensus` is not reached.

## 6. What is not modelled

- *Pure code*: parsing, templates, validation, lint, chunking, ranking,
  rendering. The models take verdicts and results as values. Link rewriting in
  moves has no state either.
- *Interfaces*: routes call the parts above; transfer tokens and event streams
  are planned.
- *Formats*: bytes of files, JSON, Git objects. Writes are atomic, as the code
  writes a temporary file and renames it; writes of two files are two steps.
- *Web*: moves, undo, imports, app actions, local validation, several tabs (each
  has its own storage).
- *Recorder*: detection and countdown (a recording starts at any moment), the
  accessibility probe and its artifact, HUD, menus, sample conversion.
- *Models and codecs*: what a model answers is a free choice within what its
  caller can get; audio, images and PDF drawing are left out.
- *doc2md*: path collisions beyond equal titles, dry runs, a second source in one
  directory, asset hosts, subtrees of Notion's Markdown.
- *speech2md*: wording, the voiceprint file's contents, progress, diarization
  without hints beyond the clustering.
- *ml-worker*: retrieval jobs, the protocol of the DeepFilterNet helper, text models.
- *pages2md*: footnotes, tables and links over page ends, lists, equations and
  captions within a page, the reconciliation of two peers, the wording of
  Markdown. Their code is long (`lists.py`, `markdown.py`, `reconciliation.py`) and
  almost all of it is text rewriting without state.

## 7. Plan

Done, in the order of importance: `Documents`, `MdStore`, `EditHistory` and
proofs; `Derivations`; `DocumentRequests`, `RetrievalQueue`, `EmbeddingIndex`;
`Replication`; `WebWorkspace`; `MeetingCapture`; the converters: `ProviderWalks`,
`DocSync`, `SpeechWindows`, `SpeakerLabels`, `Transcription`, `PagesWorkspace`,
`PageDecoding`, `PageReads`; `WorkerWorkspace`.

Next modules:

| module | question | bounds |
|---|---|---|
| `TreeEdits` | staged moves on top of `WebWorkspace`, against an abstract map from documents to their current and base paths | three paths |
| `DocumentMoves` | rewritten links reach the same documents, against a reference definition, over all small batches | three paths |
| `Transfers` | tokens and events of the interfaces | two tokens |

Compositions: `WebWorkspace` on `EditHistory` in place of its own server;
`Derivations` on `EditHistory` for publication; `WorkerWorkspace` as the worker
of `Derivations`.

Next proofs: `DocSync`
(`StandingDocumentsAreKept`, with an invariant of `ProviderWalks`), `PagesWorkspace` (`PublishedTextIsWhole`).
