----------------------------- MODULE EmbeddingIndex -----------------------------
(***************************************************************************)
(* The vector index of mdstore (mdstore/src/store.rs, sidecar.rs): one     *)
(* task maintains the vectors of the published snapshot, another may force *)
(* a rebuild, and both walk the pages without the repository lock, asking  *)
(* the retrieval queue for one chunk after the other and comparing the     *)
(* snapshot's generation in between.                                       *)
(*                                                                         *)
(* The queue is what DocumentRequests promises.  A vector is identified by *)
(* the chunk it embeds and the forced rebuild it was made for; the list of *)
(* chunks of a page stands for its text.  provider.batch_size is 1, its    *)
(* default.                                                                *)
(***************************************************************************)
EXTENDS Naturals, Sequences

CONSTANTS Pages,
          Chunks,
          Texts,    \* lists of chunks
          None,
          Budget    \* bounds of edits, rebuilds, failures, retries and crashes

(* Vectors of a page, and what the tasks keep. *)
VectorSet == [of : Chunks, epoch : Nat]
Vectors == Seq(VectorSet \cup {None})
PagesSet == [Pages -> Texts \cup {None}]
StateSet == [gen : Nat, pages : PagesSet, index : [Pages -> Vectors]]
SidecarSet == [text : Texts, vectors : Vectors]
PassSet ==
  [force : BOOLEAN, gen : Nat, pages : PagesSet,
   stage : {"prepare", "choose", "remove", "embed", "save"},
   todo : SUBSET Pages, ready : [Pages -> Vectors] \cup {<<>>}, page : Pages \cup {None},
   vectors : Vectors, pending : BOOLEAN, incomplete : BOOLEAN]

ASSUME IndexAssumption ==
  /\ Texts \subseteq Seq(Chunks) \ {<<>>}
  /\ None \notin Texts \cup StateSet \cup SidecarSet \cup PassSet

VARIABLES
  snapshot,  \* the StoreState: generation, pages and index
  loading,   \* the StoreState a handler has loaded and not published yet
  sidecar,   \* the .mdstore files: text and vectors
  request,   \* the retrieval queue, as DocumentRequests sees it
  notice,    \* a notify_one is about to happen
  permit,    \* the permit stored in reindex_notify
  maintain,  \* where maintain_embeddings is
  pass,      \* the pass of reindex_all that holds the reindex lock
  epoch,     \* history: forced rebuilds so far
  rebuilt,   \* history: the last one that went through all pages
  budget

vars == <<snapshot, loading, sidecar, request, notice, permit, maintain, pass,
          epoch, rebuilt, budget>>

Queue == INSTANCE DocumentRequests WITH Documents <- Chunks

Spend(kind) == /\ budget[kind] > 0
               /\ budget' = [budget EXCEPT ![kind] = @ - 1]

(***************************************************************************)
(* Snapshots and sidecars.                                                 *)
(***************************************************************************)
Missing(text) == [i \in DOMAIN text |-> None]

(* vectors_for: the vectors of a sidecar are good for the text they embed. *)
VectorsFor(stored, text) ==
  IF stored # None /\ stored.text = text THEN stored.vectors ELSE Missing(text)

LoadChunks(pages, force) ==
  [p \in Pages |-> IF pages[p] = None THEN <<>>
                   ELSE IF force THEN Missing(pages[p])
                   ELSE VectorsFor(sidecar[p], pages[p])]

Complete(vectors) == \A i \in DOMAIN vectors : vectors[i] # None

PageChunks(p) ==
  IF snapshot.pages[p] = None THEN {}
  ELSE {snapshot.pages[p][i] : i \in DOMAIN snapshot.pages[p]}

Indexed == UNION {PageChunks(p) : p \in Pages}

Init ==
  /\ \E pages \in [Pages -> Texts \cup {None}] :
       snapshot = [gen |-> 0, pages |-> pages,
                   index |-> [p \in Pages |->
                               IF pages[p] = None THEN <<>> ELSE Missing(pages[p])]]
  /\ loading = None
  /\ sidecar = [p \in Pages |-> None]
  /\ Queue!Init
  /\ notice = FALSE
  /\ permit = FALSE
  /\ maintain = "wanting"
  /\ pass = None
  /\ epoch = 0 /\ rebuilt = 0
  /\ budget = Budget

(* A client's edit, or a commit of an operator that a handler found, loads  *)
(* the state of the new commit, sidecars included ...                       *)
Load ==
  /\ loading = None
  /\ Spend("edits")
  /\ \E p \in Pages : \E text \in (Texts \cup {None}) \ {snapshot.pages[p]} :
       LET pages == [snapshot.pages EXCEPT ![p] = text]
       IN  loading' = [gen |-> snapshot.gen + 1, pages |-> pages,
                       index |-> LoadChunks(pages, FALSE)]
  /\ UNCHANGED <<snapshot, sidecar, request, notice, permit, maintain, pass,
                 epoch, rebuilt>>

(* Faulty variant: the reindexer is notified before the state is replaced. *)
PublishAfterNotice ==
  /\ loading # None
  /\ snapshot' = loading
  /\ loading' = None
  /\ UNCHANGED <<sidecar, request, notice, permit, maintain, pass, epoch, rebuilt, budget>>

(* ... and publish_snapshot replaces the state, then notifies.              *)
Publish ==
  /\ loading # None
  /\ snapshot' = loading
  /\ loading' = None
  /\ notice' = TRUE
  /\ UNCHANGED <<sidecar, request, permit, maintain, pass, epoch, rebuilt, budget>>

Notify ==
  /\ notice
  /\ notice' = FALSE
  /\ permit' = TRUE
  /\ UNCHANGED <<snapshot, loading, sidecar, request, maintain, pass, epoch,
                 rebuilt, budget>>

(***************************************************************************)
(* One pass of reindex_all.                                                *)
(***************************************************************************)
Outdated == snapshot.gen # pass.gen

(* The pass ends and releases the lock. *)
Finish(ok, walked) ==
  /\ pass' = None
  /\ IF pass.force
     THEN /\ rebuilt' = IF walked THEN epoch ELSE rebuilt
          /\ UNCHANGED maintain
     ELSE /\ maintain' = IF ok THEN "waiting" ELSE "backoff"
          /\ UNCHANGED rebuilt

(* A pass whose snapshot was replaced returns Ok: whoever replaced it has   *)
(* notified, or is about to.                                                *)
Abandon == Finish(TRUE, FALSE)

NewPass(force) ==
  [force |-> force, gen |-> snapshot.gen, pages |-> snapshot.pages,
   stage |-> "prepare", todo |-> {}, ready |-> <<>>, page |-> None,
   vectors |-> <<>>, pending |-> FALSE, incomplete |-> FALSE]

Start ==
  /\ pass = None
  /\ maintain = "wanting"
  /\ maintain' = "running"
  /\ pass' = NewPass(FALSE)
  /\ UNCHANGED <<snapshot, loading, sidecar, request, notice, permit, epoch,
                 rebuilt, budget>>

(* reindex: the requests of documents are dropped before the snapshot is    *)
(* taken.                                                                   *)
StartForced ==
  /\ pass = None
  /\ Spend("rebuilds")
  /\ epoch' = epoch + 1
  /\ request' = [c \in Chunks |-> "absent"]
  /\ pass' = NewPass(TRUE)
  /\ UNCHANGED <<snapshot, loading, sidecar, notice, permit, maintain, rebuilt>>

(* The pages to work on: new or changed ones, those whose sidecar is an     *)
(* orphan, and all of them in a forced pass.                                *)
Todo(ready) ==
  {p \in Pages : IF pass.pages[p] = None THEN sidecar[p] # None
                 ELSE pass.force \/ ~Complete(ready[p])}

Prepare ==
  /\ pass # None
  /\ pass.stage = "prepare"
  /\ IF Outdated THEN Abandon
     ELSE LET ready == LoadChunks(pass.pages, pass.force)
          IN  /\ pass' = [pass EXCEPT !.stage = "choose", !.ready = ready,
                                      !.todo = Todo(ready)]
              /\ UNCHANGED <<maintain, rebuilt>>
  /\ UNCHANGED <<snapshot, loading, sidecar, request, notice, permit, epoch, budget>>

(* Faulty variant: a forced pass leaves the old sidecar to be replaced. *)
RemovesOrphans(p) == pass.pages[p] = None

Removes(p) == pass.force \/ pass.pages[p] = None

(* The next page, in any order. *)
Choose(p) ==
  /\ pass # None
  /\ pass.stage = "choose"
  /\ p \in pass.todo
  /\ IF Removes(p) /\ Outdated THEN Abandon
     ELSE /\ pass' = [pass EXCEPT
                        !.stage = IF Removes(p) THEN "remove" ELSE "embed",
                        !.todo = @ \ {p}, !.page = p, !.vectors = <<>>,
                        !.pending = FALSE]
          /\ UNCHANGED <<maintain, rebuilt>>
  /\ UNCHANGED <<snapshot, loading, sidecar, request, notice, permit, epoch, budget>>

RemoveSidecar ==
  /\ pass # None
  /\ pass.stage = "remove"
  /\ sidecar' = [sidecar EXCEPT ![pass.page] = None]
  /\ pass' = [pass EXCEPT !.stage = IF pass.pages[pass.page] = None
                                    THEN "choose" ELSE "embed"]
  /\ UNCHANGED <<snapshot, loading, request, notice, permit, maintain, epoch,
                 rebuilt, budget>>

(* One chunk: its request is submitted unless it is there, and its answer   *)
(* taken if it is there.                                                    *)
EmbedChunk ==
  /\ pass # None
  /\ pass.stage = "embed"
  /\ Len(pass.vectors) < Len(pass.pages[pass.page])
  /\ LET chunk  == pass.pages[pass.page][Len(pass.vectors) + 1]
         vector == IF request[chunk] = "answered"
                   THEN [of |-> chunk, epoch |-> epoch] ELSE None
     IN  /\ request' = IF request[chunk] = "absent"
                       THEN [request EXCEPT ![chunk] = "pending"] ELSE request
         /\ IF Outdated THEN Abandon
            ELSE /\ pass' = [pass EXCEPT !.vectors = Append(@, vector),
                                         !.pending = @ \/ vector = None]
                 /\ UNCHANGED <<maintain, rebuilt>>
  /\ UNCHANGED <<snapshot, loading, sidecar, notice, permit, epoch, budget>>

(* All chunks were tried; a page with missing vectors is indexed with those *)
(* it has, and not saved.                                                   *)
EmbeddedPage ==
  /\ pass # None
  /\ pass.stage = "embed"
  /\ Len(pass.vectors) = Len(pass.pages[pass.page])
  /\ IF Outdated THEN Abandon
     ELSE /\ pass' = IF pass.pending
                     THEN [pass EXCEPT !.stage = "choose", !.incomplete = TRUE,
                                       !.ready[pass.page] = pass.vectors]
                     ELSE [pass EXCEPT !.stage = "save"]
          /\ UNCHANGED <<maintain, rebuilt>>
  /\ UNCHANGED <<snapshot, loading, sidecar, request, notice, permit, epoch, budget>>

SaveSidecar ==
  /\ pass # None
  /\ pass.stage = "save"
  /\ sidecar' = [sidecar EXCEPT ![pass.page] =
                   [text |-> pass.pages[pass.page], vectors |-> pass.vectors]]
  /\ pass' = [pass EXCEPT !.stage = "choose", !.ready[pass.page] = pass.vectors]
  /\ UNCHANGED <<snapshot, loading, request, notice, permit, maintain, epoch,
                 rebuilt, budget>>

(* Faulty variant: the index is replaced whatever the snapshot is by now. *)
BuildUnchecked ==
  /\ pass # None
  /\ pass.stage = "choose" /\ pass.todo = {}
  /\ snapshot' = [snapshot EXCEPT !.index = pass.ready]
  /\ Finish(~pass.incomplete, TRUE)
  /\ UNCHANGED <<loading, sidecar, request, notice, permit, epoch, budget>>

(* The index is built and, if the snapshot is still the same, replaced; the *)
(* pass fails if vectors are missing.                                       *)
Build ==
  /\ pass # None
  /\ pass.stage = "choose" /\ pass.todo = {}
  /\ \/ ~Outdated /\ snapshot' = [snapshot EXCEPT !.index = pass.ready]
                  /\ Finish(~pass.incomplete, TRUE)
     \/ Outdated /\ UNCHANGED snapshot /\ Finish(~pass.incomplete, TRUE)
     \/ Outdated /\ UNCHANGED snapshot /\ Abandon
  /\ UNCHANGED <<loading, sidecar, request, notice, permit, epoch, budget>>

(***************************************************************************)
(* maintain_embeddings.                                                    *)
(***************************************************************************)
Wake ==
  /\ maintain \in {"waiting", "backoff"}
  /\ permit
  /\ permit' = FALSE
  /\ maintain' = "wanting"
  /\ UNCHANGED <<snapshot, loading, sidecar, request, notice, pass, epoch, rebuilt, budget>>

BackoffEnds ==
  /\ maintain = "backoff"
  /\ maintain' = "wanting"
  /\ UNCHANGED <<snapshot, loading, sidecar, request, notice, permit, pass, epoch,
                 rebuilt, budget>>

(***************************************************************************)
(* The queue and its workers.                                              *)
(***************************************************************************)
(* A worker's answer notifies the reindexer. *)
Answer(c) ==
  /\ request[c] = "pending"
  /\ request' = [request EXCEPT ![c] = "answered"]
  /\ notice' = TRUE
  /\ UNCHANGED <<snapshot, loading, sidecar, permit, maintain, pass, epoch,
                 rebuilt, budget>>

GiveUp(c) ==
  /\ request[c] \in {"pending", "answered"}
  /\ Spend("failures")
  /\ request' = [request EXCEPT ![c] = "failed"]
  /\ UNCHANGED <<snapshot, loading, sidecar, notice, permit, maintain, pass, epoch,
                 rebuilt>>

Retry(c) ==
  /\ request[c] = "failed"
  /\ Spend("retries")
  /\ request' = [request EXCEPT ![c] = "pending"]
  /\ notice' = TRUE
  /\ UNCHANGED <<snapshot, loading, sidecar, permit, maintain, pass, epoch,
                 rebuilt>>

(* The queue drops the requests of chunks that are no longer indexed. *)
DropStale ==
  /\ \E c \in Chunks \ Indexed : request[c] # "absent"
  /\ request' = [c \in Chunks |-> IF c \in Indexed THEN request[c] ELSE "absent"]
  /\ UNCHANGED <<snapshot, loading, sidecar, notice, permit, maintain, pass, epoch,
                 rebuilt, budget>>

(* The daemon dies and is started again: sidecars and queue survive. *)
Crash ==
  /\ Spend("crashes")
  /\ LET pages == IF loading = None THEN snapshot.pages ELSE loading.pages
     IN  snapshot' = [gen |-> snapshot.gen + 1, pages |-> pages,
                      index |-> LoadChunks(pages, FALSE)]
  /\ loading' = None
  /\ notice' = FALSE /\ permit' = FALSE
  /\ maintain' = "wanting"
  /\ pass' = None
  /\ UNCHANGED <<sidecar, request, epoch, rebuilt>>

PassStep ==
  \/ Prepare
  \/ \E p \in Pages : Choose(p)
  \/ RemoveSidecar
  \/ EmbedChunk
  \/ EmbeddedPage
  \/ SaveSidecar
  \/ Build

Next ==
  \/ Load \/ Publish \/ Notify
  \/ Start \/ StartForced
  \/ PassStep
  \/ Wake \/ BackoffEnds
  \/ \E c \in Chunks : Answer(c) \/ GiveUp(c) \/ Retry(c)
  \/ DropStale
  \/ Crash

Spec == Init /\ [][Next]_vars

(* Tasks are scheduled, the backoff ends, and the queue settles every       *)
(* request (RetrievalQueue!DocumentsSettle).                                *)
Fairness ==
  /\ WF_vars(Publish) /\ WF_vars(Notify)
  /\ WF_vars(Start) /\ WF_vars(PassStep)
  /\ WF_vars(Wake) /\ WF_vars(BackoffEnds)
  /\ \A c \in Chunks : WF_vars(Answer(c))

FairSpec == Spec /\ Fairness

-----------------------------------------------------------------------------
(***************************************************************************)
(* Properties.                                                             *)
(***************************************************************************)
(* Types; the reindex lock and the maintaining task agree. *)
TypeOK ==
  /\ snapshot \in StateSet
  /\ loading \in StateSet \cup {None}
  /\ sidecar \in [Pages -> SidecarSet \cup {None}]
  /\ Queue!TypeOK
  /\ notice \in BOOLEAN /\ permit \in BOOLEAN
  /\ pass \in PassSet \cup {None}
  /\ pass # None => /\ pass.stage # "prepare" => pass.ready \in [Pages -> Vectors]
                    /\ pass.stage \in {"remove", "embed", "save"} => pass.page \in Pages
  /\ epoch \in Nat /\ rebuilt \in Nat
  /\ maintain \in {"waiting", "backoff", "wanting", "running"}
  /\ (maintain = "running") <=> (pass # None /\ ~pass.force)
  /\ rebuilt <= epoch

(* Searches never compare a query with the vector of something else: every  *)
(* vector of the index is that of the chunk it stands beside, although      *)
(* pages change, shrink and come back while passes walk older snapshots and *)
(* sidecars of older texts stay on disk; and a forced rebuild that went      *)
(* through the pages leaves no sidecar with older vectors for later passes   *)
(* and restarts to load.                                                     *)
VectorsBelongToTheirChunks ==
  \A p \in Pages :
    LET text == snapshot.pages[p]
    IN  /\ IF text = None THEN snapshot.index[p] = <<>>
           ELSE /\ DOMAIN snapshot.index[p] = DOMAIN text
                /\ \A i \in DOMAIN text :
                     snapshot.index[p][i] # None => snapshot.index[p][i].of = text[i]
        /\ sidecar[p] # None /\ sidecar[p].text = text =>
             \A i \in DOMAIN sidecar[p].vectors : sidecar[p].vectors[i].epoch >= rebuilt

(* Once edits stop, the whole corpus becomes searchable by vector, but for  *)
(* the chunks the queue gave up.                                            *)
IndexCompletes ==
  <>[](\A p \in Pages : \A i \in DOMAIN snapshot.index[p] :
         snapshot.index[p][i] = None => request[snapshot.pages[p][i]] = "failed")
=================================================================================
