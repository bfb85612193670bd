------------------------------ MODULE DocSync ------------------------------
(***************************************************************************)
(* `doc2md sync`: a provider is enumerated, the documents are applied to a   *)
(* directory, or to a fresh clone that is then rebased and pushed.           *)
(*                                                                          *)
(* A tree is the files below the output root by path, the manifest, the      *)
(* time of the sync that wrote it, and `other`, all a repository holds       *)
(* besides.  A file is [revision, text, at]: the revision in its front       *)
(* matter, its body, and ingested_at.  A text is the time of its last edit;  *)
(* a text with an odd time has one asset.                                    *)
(***************************************************************************)
EXTENDS ProviderWalks

CONSTANTS Syncs,        \* processes
          SyncScenarios,\* [mode, source, edits, runs, faults, foreign]
          MaxAttempts   \* of a push: 3

VARIABLES
    mode,      \* "directory" or "git"
    source,    \* the provider
    clock,     \* time of the last edit at the provider
    dir,       \* the local directory, a tree
    remote,    \* the remote branch: a sequence of [tree, by]
    sync,      \* what each process is doing
    count,     \* syncs started
    strays,    \* history: paths an interrupted sync left outside the manifest
    settled,   \* history: [source, files] of the last complete sync, or Gone
    budget     \* what the environment may still do

syncVars == <<mode, source, clock, dir, remote, sync, count, strays, settled, budget>>
Operator == 0

EmptyTree == [files |-> <<>>, manifest |-> <<>>, stamp |-> 0, other |-> 0]

(***************************************************************************)
(* Documents, the paths they take, and what a sync would do with them.       *)
(***************************************************************************)
FilePath(doc) == Append(doc.path, doc.id)
AssetPaths(doc) == IF doc.text % 2 = 1 THEN { <<0, doc.id>> } ELSE {}
Entry(doc, at) == [path |-> FilePath(doc), revision |-> doc.revision, at |-> at,
                   assets |-> AssetPaths(doc)]
EntryPaths(entry) == {entry.path} \cup entry.assets
Managed(tree) == UNION {EntryPaths(tree.manifest[d]) : d \in DOMAIN tree.manifest}

(* Faulty variant: ingested_at is the time of the sync. *)
IngestedNow(manifest, doc, now) == now

(* ingested_at is kept while the revision is.                                *)
IngestedAt(manifest, doc, now) ==
    IF doc.id \in DOMAIN manifest /\ manifest[doc.id].revision = doc.revision
    THEN manifest[doc.id].at ELSE now

Rendered(doc, at) == [revision |-> doc.revision, text |-> doc.text, at |-> at]
AssetContent(doc) == [revision |-> 0, text |-> doc.text, at |-> 0]

(* All or more than a quarter of four and more; 10 and more are out of the   *)
(* model's size.                                                             *)
IsBulkDelete(existing, removed) ==
    /\ removed # 0
    /\ \/ removed = existing
       \/ removed > 10
       \/ existing >= 4 /\ removed > (existing + 3) \div 4

Put(files, path, content) ==
    [p \in DOMAIN files \cup {path} |-> IF p = path THEN content ELSE files[p]]
Without(files, path) == [p \in DOMAIN files \ {path} |-> files[p]]

(* The files a plan writes, and when: the assets of a document before it.    *)
Writes(tree, docs, now) ==
    LET of(n) ==
            {[nth |-> 2 * n - 1, path |-> a, content |-> AssetContent(docs[n])] :
                a \in AssetPaths(docs[n])} \cup
            {[nth |-> 2 * n, path |-> FilePath(docs[n]),
              content |-> Rendered(docs[n], IngestedAt(tree.manifest, docs[n], now))]}
    IN  {w \in UNION {of(n) : n \in DOMAIN docs} :
            w.path \notin DOMAIN tree.files \/ tree.files[w.path] # w.content}

NewManifest(tree, docs, now) ==
    [d \in {docs[n].id : n \in DOMAIN docs} |->
        LET doc == docs[CHOOSE n \in DOMAIN docs : docs[n].id = d]
        IN  Entry(doc, IngestedAt(tree.manifest, doc, now))]

Dropped(tree, docs) == DOMAIN tree.manifest \ {docs[n].id : n \in DOMAIN docs}

(* Faulty variant: a document that moved leaves its old file. *)
RemovalsOfDropped(tree, docs) ==
    UNION {EntryPaths(tree.manifest[d]) : d \in Dropped(tree, docs)}

Removals(tree, docs) ==
    Managed(tree) \ UNION {EntryPaths(Entry(docs[n], 0)) : n \in DOMAIN docs}

(***************************************************************************)
(* A process.                                                                *)
(***************************************************************************)
IdleSync == [phase |-> "idle", n |-> 0]
AtWork(p) == sync[p].phase \notin {"idle", "done", "failed"}
TreeOf(p) == IF mode = "git" THEN sync[p].tree ELSE dir

(* The process goes on with `s`, its tree becoming `tree`.                   *)
Goes(p, s, tree) ==
    /\ sync' = [sync EXCEPT ![p] = IF mode = "git" THEN [s EXCEPT !.tree = tree] ELSE s]
    /\ dir' = IF mode = "git" THEN dir ELSE tree
    /\ UNCHANGED <<mode, source, clock, count>>

(* Nothing locks a directory; whoever runs doc2md runs one sync on it at a   *)
(* time.  Clones are private.                                                *)
Start(p, allow) ==
    /\ ~AtWork(p)
    /\ mode = "directory" => \A q \in Syncs : ~AtWork(q)
    /\ count < budget.runs
    /\ count' = count + 1
    /\ sync' = [sync EXCEPT ![p] =
         [phase |-> "walk", n |-> count + 1, allow |-> allow, walk |-> NewWalk(source),
          tree |-> IF mode = "git" THEN Last(remote).tree ELSE EmptyTree,
          base |-> IF mode = "git" THEN Last(remote).tree ELSE dir,
          onto |-> Len(remote), writes |-> {}, removes |-> {}, manifest |-> <<>>,
          attempt |-> 1, answer |-> "none",
          began |-> source.page, stood |-> Standing(source), quiet |-> TRUE]]
    /\ UNCHANGED <<mode, source, clock, dir, remote, strays, settled, budget>>

(* A request of the enumeration is answered ...                              *)
Request(p) ==
    /\ sync[p].phase = "walk"
    /\ sync[p].walk.step \in {"list", "fetch"}
    /\ LET walk == Walked(sync[p].walk, source) IN
       Goes(p, [sync[p] EXCEPT !.walk = walk,
                               !.phase = IF walk.step = "failed" THEN "failed" ELSE @],
            TreeOf(p))
    /\ UNCHANGED <<remote, strays, settled, budget>>

(* ... or fails for good, after the retries of the session.                  *)
RequestFails(p) ==
    /\ sync[p].phase = "walk"
    /\ sync[p].walk.step \in {"list", "fetch"}
    /\ budget.faults > 0
    /\ budget' = [budget EXCEPT !.faults = @ - 1]
    /\ Goes(p, [sync[p] EXCEPT !.phase = "failed", !.walk = Gone], TreeOf(p))
    /\ UNCHANGED <<remote, strays, settled>>

(* The checks of `apply`, all before the first write.                        *)
Refused(tree, docs, allow) ==
    \/ ~IsInjective([n \in DOMAIN docs |-> docs[n].id])
    \/ /\ IsBulkDelete(Cardinality(DOMAIN tree.manifest), Cardinality(Dropped(tree, docs)))
       /\ ~allow

Plan(p) ==
    LET docs == sync[p].walk.docs
        tree == TreeOf(p)
    IN  /\ sync[p].phase = "walk"
        /\ sync[p].walk.step = "done"
        /\ IF Refused(tree, docs, sync[p].allow)
           THEN Goes(p, [sync[p] EXCEPT !.phase = "failed", !.walk = Gone], tree)
           ELSE Goes(p, [sync[p] EXCEPT !.phase = "write", !.walk = Gone,
                           !.writes = Writes(tree, docs, sync[p].n),
                           !.removes = Removals(tree, docs),
                           !.manifest = NewManifest(tree, docs, sync[p].n)], tree)
        /\ UNCHANGED <<remote, strays, settled, budget>>

WriteFile(p) ==
    /\ sync[p].phase = "write"
    /\ \E w \in sync[p].writes :
         /\ \A v \in sync[p].writes : w.nth <= v.nth
         /\ Goes(p, [sync[p] EXCEPT !.writes = @ \ {w}],
                 [TreeOf(p) EXCEPT !.files = Put(@, w.path, w.content)])
    /\ UNCHANGED <<remote, strays, settled, budget>>

(* Stale files go after every write succeeded, here in any order.            *)
RemoveFile(p) ==
    /\ sync[p].phase = "write"
    /\ sync[p].writes = {}
    /\ \E path \in sync[p].removes :
         Goes(p, [sync[p] EXCEPT !.removes = @ \ {path}],
              [TreeOf(p) EXCEPT !.files = Without(@, path)])
    /\ UNCHANGED <<remote, strays, settled, budget>>

(* The manifest is the last file; with a clone the commit follows: the time  *)
(* in the manifest is new, so there is always something to commit.           *)
WriteManifest(p) ==
    /\ sync[p].phase = "write"
    /\ sync[p].writes = {} /\ sync[p].removes = {}
    /\ Goes(p, [sync[p] EXCEPT !.phase = IF mode = "git" THEN "fetch" ELSE "done"],
            [TreeOf(p) EXCEPT !.manifest = sync[p].manifest, !.stamp = sync[p].n])
    /\ settled' = IF mode = "git" THEN settled
                  ELSE LET files == Restrict(dir.files, UNION {EntryPaths(sync[p].manifest[d]) :
                                                            d \in DOMAIN sync[p].manifest})
                           quiet == sync[p].quiet
                       IN  [source |-> source, files |-> files, quiet |-> quiet,
                            kept |-> settled # Gone /\ quiet /\ settled.quiet
                                     /\ settled.source = source => settled.files = files]
    /\ UNCHANGED <<remote, strays, budget>>

(***************************************************************************)
(* Git: fetch, rebase, push, three times.                                    *)
(***************************************************************************)
Changed(from, to) ==
    {path \in DOMAIN from.files \cup DOMAIN to.files :
        \/ path \in DOMAIN from.files \ DOMAIN to.files
        \/ path \in DOMAIN to.files \ DOMAIN from.files
        \/ from.files[path] # to.files[path]}

(* A file both sides changed conflicts, and so does the manifest, whose time *)
(* both sides changed.                                                       *)
Conflict(base, ours, theirs) ==
    \/ Changed(base, ours) \cap Changed(base, theirs) # {}
    \/ theirs.stamp # base.stamp

Merged(base, ours, theirs) ==
    LET mine == Changed(base, ours)
        files == (DOMAIN theirs.files \ mine) \cup (DOMAIN ours.files \cap mine)
    IN  [ours EXCEPT !.other = theirs.other,
                     !.files = [path \in files |-> IF path \in mine THEN ours.files[path]
                                                   ELSE theirs.files[path]]]

HasCommitOf(log, n) == \E k \in DOMAIN log : log[k].by = n

(* The next attempt, or the end after the last.                              *)
AttemptFailed(s) == IF s.attempt = MaxAttempts THEN [s EXCEPT !.phase = "failed"]
                    ELSE [s EXCEPT !.phase = "fetch", !.attempt = @ + 1]

(* A commit that is already in the branch is not rebased again.              *)
FetchRebase(p) ==
    LET s == sync[p]
        tip == Last(remote).tree
    IN  /\ s.phase = "fetch"
        /\ IF HasCommitOf(remote, s.n)
           THEN Goes(p, [s EXCEPT !.phase = "push", !.onto = Len(remote)], s.tree)
           ELSE IF Conflict(s.base, s.tree, tip)
           THEN Goes(p, AttemptFailed(s), s.tree)
           ELSE Goes(p, [s EXCEPT !.phase = "push", !.onto = Len(remote), !.base = tip],
                     Merged(s.base, s.tree, tip))
        /\ UNCHANGED <<remote, strays, settled, budget>>

(* A fetch without an answer.                                                *)
FetchFails(p) ==
    /\ sync[p].phase = "fetch"
    /\ budget.faults > 0
    /\ budget' = [budget EXCEPT !.faults = @ - 1]
    /\ Goes(p, AttemptFailed(sync[p]), TreeOf(p))
    /\ UNCHANGED <<remote, strays, settled>>

(* Faulty variant: the push is forced. *)
AnyPush(s, log) == s.onto <= Len(log)

(* The remote takes only fast-forwards, the rest is another attempt.         *)
FastForward(s, log) == s.onto = Len(log)

Pushed(s, log) == IF HasCommitOf(log, s.n) THEN log
                  ELSE Append(log, [tree |-> s.tree, by |-> s.n])

Push(p) ==
    LET s == sync[p] IN
    /\ s.phase = "push"
    /\ IF FastForward(s, remote)
       THEN /\ remote' = Pushed(s, remote)
            /\ Goes(p, [s EXCEPT !.phase = "done", !.answer = "pushed"], s.tree)
       ELSE /\ Goes(p, AttemptFailed(s), s.tree)
            /\ UNCHANGED remote
    /\ UNCHANGED <<strays, settled, budget>>

(* The remote takes the push and its answer is lost.                         *)
PushAnswerLost(p) ==
    LET s == sync[p] IN
    /\ s.phase = "push"
    /\ FastForward(s, remote)
    /\ budget.faults > 0
    /\ budget' = [budget EXCEPT !.faults = @ - 1]
    /\ remote' = Pushed(s, remote)
    /\ Goes(p, AttemptFailed(s), s.tree)
    /\ UNCHANGED <<strays, settled>>

(***************************************************************************)
(* The environment: interruptions, an operator of the remote, and the users  *)
(* of the provider.                                                          *)
(***************************************************************************)
(* A clone goes with its process, a directory stays as it is.                *)
Interrupt(p) ==
    /\ AtWork(p)
    /\ budget.faults > 0
    /\ budget' = [budget EXCEPT !.faults = @ - 1]
    /\ sync' = [sync EXCEPT ![p] = IdleSync]
    /\ strays' = strays \cup (DOMAIN dir.files \ Managed(dir))
    /\ UNCHANGED <<mode, source, clock, dir, remote, count, settled>>

(* An operator commits elsewhere, or edits a generated file.                 *)
ForeignCommit ==
    LET tip == Last(remote).tree IN
    /\ mode = "git"
    /\ budget.foreign > 0
    /\ budget' = [budget EXCEPT !.foreign = @ - 1]
    /\ \/ remote' = Append(remote, [tree |-> [tip EXCEPT !.other = @ + 1], by |-> Operator])
       \/ \E path \in DOMAIN tip.files :
            /\ tip.files[path].text # 0
            /\ remote' = Append(remote, [tree |-> [tip EXCEPT !.files[path].text = 0],
                                         by |-> Operator])
    /\ UNCHANGED <<mode, source, clock, dir, sync, count, strays, settled>>

(* A change at the provider.  `moved` are the documents a walk under way may *)
(* miss: those that went or were put elsewhere.                              *)
Edited(new, moved) ==
    /\ budget.edits > 0
    /\ budget' = [budget EXCEPT !.edits = @ - 1]
    /\ source' = new
    /\ sync' = [p \in Syncs |-> IF AtWork(p) THEN [sync[p] EXCEPT !.stood = @ \ moved, !.quiet = FALSE]
                                ELSE sync[p]]
    /\ UNCHANGED <<mode, dir, remote, count, strays, settled>>

EditPage == \E d \in Ids, t \in Titles :
    /\ clock' = clock + 1
    /\ Edited([source EXCEPT !.page[d] = [title |-> t, edited |-> clock + 1]], {})

Trash == \E d \in Standing(source) :
    /\ UNCHANGED clock
    /\ Edited([source EXCEPT !.page[d] = Gone], {d})

MoveItem == \E d \in Ids, f \in Folders :
    /\ source.kind = "google-docs"
    /\ UNCHANGED clock
    /\ Edited([source EXCEPT !.holds = [g \in Folders |-> IF g = f THEN @[g] \cup {d}
                                                          ELSE @[g] \ {d}]], {d})

(***************************************************************************)
SyncInit ==
    \E s \in SyncScenarios :
      /\ mode = s.mode
      /\ source = s.source
      /\ clock = Cardinality(Ids)
      /\ dir = EmptyTree
      /\ remote = << [tree |-> EmptyTree, by |-> Operator] >>
      /\ sync = [p \in Syncs |-> IdleSync]
      /\ count = 0
      /\ strays = {}
      /\ settled = Gone
      /\ budget = [edits |-> s.edits, runs |-> s.runs, faults |-> s.faults,
                   foreign |-> s.foreign]

SyncStep(p) ==
    \/ \E allow \in BOOLEAN : Start(p, allow)
    \/ Request(p) \/ RequestFails(p) \/ Plan(p)
    \/ WriteFile(p) \/ RemoveFile(p) \/ WriteManifest(p)
    \/ FetchRebase(p) \/ FetchFails(p) \/ Push(p) \/ PushAnswerLost(p)
    \/ Interrupt(p)

SyncNext == \/ \E p \in Syncs : SyncStep(p)
            \/ ForeignCommit \/ EditPage \/ Trash \/ MoveItem

SyncSpec == SyncInit /\ [][SyncNext]_syncVars

(***************************************************************************)
(* Properties.                                                               *)
(***************************************************************************)
Ended(p) == sync[p].phase = "done"

(* A document that stood at the provider while a sync walked it is there     *)
(* when the sync into a directory ends, with a text at least as new as when  *)
(* the sync began: edits that reorder the listing, two places that lead to   *)
(* one document and files an earlier sync left behind lose nothing.          *)
StandingDocumentsAreKept ==
    \A p \in Syncs : (mode = "directory" /\ Ended(p) /\ sync[p].n = count) =>
        \A d \in sync[p].stood :
            /\ d \in DOMAIN dir.manifest
            /\ dir.manifest[d].path \in DOMAIN dir.files
            /\ dir.files[dir.manifest[d].path].text >= sync[p].began[d].edited

(* Two syncs in a row that saw one unchanging source leave the same files:   *)
(* the times in them stay, and the paths do not depend on the order of an    *)
(* answer.                                                                   *)
QuietSyncsChangeNothing == settled # Gone => settled.kept

(* Files and manifest belong together.  In the commits of a repository they  *)
(* always do, whoever commits in between; in a directory a file outside the  *)
(* manifest was left by an interrupted sync, and a sync that refuses or      *)
(* fails to enumerate leaves everything as it was.                           *)
FilesAreManaged ==
    /\ \A n \in DOMAIN remote : DOMAIN remote[n].tree.files = Managed(remote[n].tree)
    /\ (mode = "directory" /\ \A p \in Syncs : ~AtWork(p)) =>
         DOMAIN dir.files \ Managed(dir) \subseteq strays
    /\ \A p \in Syncs : (mode = "directory" /\ sync[p].phase = "failed" /\ sync[p].n = count)
         => dir = sync[p].base

(* A sync adds at most one commit to the remote branch, and has done so when *)
(* it reports success, although pushes are repeated after lost answers; the  *)
(* commit keeps what others committed below it.                              *)
PushesAddOneCommit ==
    /\ \A k, n \in DOMAIN remote :
         k # n /\ remote[k].by = remote[n].by => remote[k].by = Operator
    /\ \A p \in Syncs : sync[p].phase = "done" /\ mode = "git" => HasCommitOf(remote, sync[p].n)
    /\ \A n \in DOMAIN remote : remote[n].by # Operator =>
         remote[n].tree.other = remote[n - 1].tree.other
============================================================================
