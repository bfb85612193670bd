---------------------------- MODULE WebWorkspace ----------------------------
(***************************************************************************)
(* The workspace of one browser tab (webui/src/lib/workspace, and the      *)
(* handlers of webui/src/routes/+page.svelte): pages read from the server, *)
(* local drafts and deletions with the server text they are based on, the  *)
(* three-way merge that moves them to newer server texts, and submission.  *)
(* Every await is a point where the user, the server's other clients and   *)
(* other handlers of the tab act.                                          *)
(*                                                                         *)
(* A text is a function from regions to values.  The two lines at each end *)
(* of a document are the region "rim", which the anchors of a whole-file   *)
(* replacement read; the lines between them, of which clients change the   *)
(* wording but not the number, are the region "core".                      *)
(***************************************************************************)
EXTENDS Naturals, FiniteSets

CONSTANTS Paths,
          Values,      \* what a region can hold
          Blank,       \* what the regions of a new document hold
          Absent,      \* no document at a path
          None,
          Scenarios    \* bounds, one of which each behaviour has

Regions == {"rim", "core"}
Text == [Regions -> Values \cup {Blank}]
Doc == Text \cup {Absent}

(* Local changes, and what the tab and the server exchange. *)
DraftSet == [base : Doc, text : Text]
ConflictSet == [base : Doc, local : Doc, server : Doc]
WorkspaceSet ==
  [pages : [Paths -> Doc \cup {None}], drafts : [Paths -> DraftSet \cup {None}],
   deletions : [Paths -> Text \cup {None}], conflicts : [Paths -> ConflictSet \cup {None}]]
ReadSet == [path : Paths, page : Doc \cup {None}]
SyncSet ==
  [stage : {"inventory", "listed", "missing", "fetched"}, for : {"refresh", "submit", "end"},
   tree : [Paths -> Doc], fetched : UNION {[S -> Doc \cup {None}] : S \in SUBSET Paths}]
BatchSet == [Paths -> [delete : Text \cup {None}, draft : DraftSet \cup {None}]]
SubmissionSet == [stage : {"sync", "sent", "applied", "ending"}, batch : BatchSet]

ASSUME WorkspaceAssumption ==
  /\ Blank \notin Values
  /\ Absent \notin Text
  /\ None \notin Doc \cup Paths \cup Values \cup {Blank}
  /\ None \notin DraftSet \cup ConflictSet \cup ReadSet \cup [path : Paths, page : Doc]
  /\ None \notin SyncSet \cup SubmissionSet \cup BatchSet

VARIABLES
  server,     \* the documents mdstore holds
  ws,         \* the workspace: pages, drafts, deletions, conflicts
  selected,   \* the document shown
  reading,    \* the read openPage waits for
  creating,   \* the read create waits for
  sync,       \* the syncDrafts in progress
  submission, \* the submit in progress; the tab is busy until it ends
  late,       \* a request the tab gave up on, which mdstore may still apply
  typed,      \* history: what the user put into each region of a draft
  blanked,    \* history: the regions create has put the blank of a new document
              \* into since, whatever was typed there
  budget

vars == <<server, ws, selected, reading, creating, sync, submission, late,
          typed, blanked, budget>>

Nothing == [r \in Regions |-> None]

Init ==
  /\ server \in [Paths -> {[r \in Regions |-> v] : v \in Values} \cup {Absent}]
  /\ ws = [pages     |-> [p \in Paths |-> None],
           drafts    |-> [p \in Paths |-> None],
           deletions |-> [p \in Paths |-> None],
           conflicts |-> [p \in Paths |-> None]]
  /\ selected = None
  /\ reading = None
  /\ creating = None
  /\ sync = None
  /\ submission = None
  /\ late = None
  /\ typed = [p \in Paths |-> Nothing]
  /\ blanked = [p \in Paths |-> {}]
  /\ budget \in Scenarios

Spend(kind) == /\ budget[kind] > 0
               /\ budget' = [budget EXCEPT ![kind] = @ - 1]

Busy == submission # None

------------------------------------------------------------------------------
(* reconcile.ts. *)

(* localVersion: a staged deletion hides a draft. *)
LocalVersion(w, p) ==
  IF w.deletions[p] # None THEN Absent
  ELSE IF w.drafts[p] # None THEN w.drafts[p].text
  ELSE None

Conflicts(w) == {p \in Paths : w.conflicts[p] # None /\ LocalVersion(w, p) # None}

(* mergeParts: a region both sides changed, differently, is a conflict. *)
Merges(base, local, remote, r) ==
  local[r] = base[r] \/ remote[r] = base[r] \/ local[r] = remote[r]
Mergeable(base, local, remote) ==
  /\ Absent \notin {base, local, remote}
  /\ \A r \in Regions : Merges(base, local, remote, r)
Merged(base, local, remote) ==
  [r \in Regions |-> IF local[r] = base[r] THEN remote[r] ELSE local[r]]

(* resolvePage: the local change becomes a change of the fetched text. *)
ResolvePage(w, p, page, text) ==
  [w EXCEPT !.pages[p] = page, !.conflicts[p] = None,
            !.drafts[p] = IF text \notin {Absent, page}
                          THEN [base |-> page, text |-> text] ELSE None,
            !.deletions[p] = IF text = Absent /\ page # Absent THEN page ELSE None]

(* Faulty variant: a region the server changed wins over the draft. *)
ReconcilePageForServer(w, p, page) ==
  LET local == LocalVersion(w, p)
      base  == IF local = Absent THEN w.deletions[p] ELSE w.drafts[p].base
      next  == [w EXCEPT !.pages[p] = page, !.conflicts[p] = None]
  IN  IF local = None \/ base = page THEN next
      ELSE IF Absent \notin {base, local, page}
      THEN ResolvePage(next, p, page,
             [r \in Regions |-> IF page[r] = base[r] THEN local[r] ELSE page[r]])
      ELSE IF local = page THEN ResolvePage(next, p, page, page)
      ELSE [next EXCEPT !.conflicts[p] =
              [base |-> base, local |-> local, server |-> page]]

ReconcilePage(w, p, page) ==
  LET local == LocalVersion(w, p)
      base  == IF local = Absent THEN w.deletions[p] ELSE w.drafts[p].base
      next  == [w EXCEPT !.pages[p] = page, !.conflicts[p] = None]
  IN  IF local = None \/ base = page THEN next
      ELSE IF local = page THEN ResolvePage(next, p, page, page)
      ELSE IF Mergeable(base, local, page)
      THEN ResolvePage(next, p, page, Merged(base, local, page))
      ELSE [next EXCEPT !.conflicts[p] =
              [base |-> base, local |-> local, server |-> page]]

(* Pages are reconciled one after the other, each for its own path. *)
ReconcileAll(w, fetched) ==
  LET at == [p \in Paths |-> IF p \in DOMAIN fetched
                             THEN ReconcilePage(w, p, fetched[p]) ELSE w]
  IN  [pages     |-> [p \in Paths |-> at[p].pages[p]],
       drafts    |-> [p \in Paths |-> at[p].drafts[p]],
       deletions |-> [p \in Paths |-> at[p].deletions[p]],
       conflicts |-> [p \in Paths |-> at[p].conflicts[p]]]

(* History: what was typed is settled once the server is known to hold it. *)
StillTyped(old, w) ==
  [p \in Paths |-> [r \in Regions |->
     LET known == IF w.drafts[p] # None THEN w.drafts[p].base ELSE w.pages[p]
     IN  IF known \notin {None, Absent} /\ known[r] = old[p][r]
         THEN None ELSE old[p][r]]]

(* History: what the user or create put into each region last. *)
Written(t, b) ==
  [p \in Paths |-> [r \in Regions |-> IF r \in b[p] THEN Blank ELSE t[p][r]]]

Settle(t, b, w) ==
  LET still == StillTyped(Written(t, b), w) IN
  /\ typed' = [p \in Paths |-> [r \in Regions |->
                 IF still[p][r] = None THEN None ELSE t[p][r]]]
  /\ blanked' = [p \in Paths |-> {r \in b[p] : still[p][r] # None}]

(* acceptReconciliation *)
Accept(w) == ws' = w /\ Settle(typed, blanked, w)

------------------------------------------------------------------------------
(* syncDrafts: an inventory of one revision, then the pages of local       *)
(* changes that the inventory does not have, then one reconciliation.      *)
SyncFor(purpose) ==
  [stage |-> "inventory", for |-> purpose, tree |-> server, fetched |-> <<>>]

(* syncDrafts returns at once while another one is in progress. *)
SyncAndEnd ==
  IF sync = None
    THEN /\ sync' = SyncFor("end")
         /\ submission' = [submission EXCEPT !.stage = "ending"]
    ELSE submission' = None /\ UNCHANGED sync

(* An announced revision, the Connect and Check buttons, or the Submit     *)
(* view, which also opens while the tab is busy.                           *)
StartSync ==
  /\ sync = None
  /\ Spend("syncs")
  /\ sync' = SyncFor("refresh")
  /\ UNCHANGED <<server, ws, selected, reading, creating, submission, late,
                 typed, blanked>>

(* readInventory: the answers it accepts belong to one revision. *)
InventoryServed ==
  /\ sync # None /\ sync.stage = "inventory"
  /\ sync' = [sync EXCEPT !.stage = "listed", !.tree = server]
  /\ UNCHANGED <<server, ws, selected, reading, creating, submission, late,
                 typed, blanked, budget>>

(* editRequest *)
Batch(w) ==
  [p \in Paths |-> [delete |-> w.deletions[p], draft |-> w.drafts[p]]]

(* What submit does when its syncDrafts returns. *)
Continue(w) ==
  IF sync.for = "submit"
    THEN submission' = IF Conflicts(w) # {} \/ Batch(w) # submission.batch
                       THEN None ELSE [submission EXCEPT !.stage = "sent"]
    ELSE submission' = IF sync.for = "end" THEN None ELSE submission

Reconcile(w, fetched) ==
  /\ Accept(ReconcileAll(w, fetched))
  /\ sync' = None
  /\ Continue(ReconcileAll(w, fetched))

InventoryReturns ==
  /\ sync # None /\ sync.stage = "listed"
  /\ LET w == [ws EXCEPT !.pages =
                 [p \in Paths |-> IF sync.tree[p] = Absent
                                  THEN None ELSE sync.tree[p]]]
         local == {p \in Paths : LocalVersion(w, p) # None}
     IN  IF \A p \in local : w.pages[p] # None
           THEN Reconcile(w, [p \in local |-> w.pages[p]])
           ELSE /\ Accept(w)
                /\ sync' = [sync EXCEPT !.stage = "missing",
                                        !.fetched = [p \in local |-> w.pages[p]]]
                /\ UNCHANGED submission
  /\ UNCHANGED <<server, selected, reading, creating, late, budget>>

MissingServed ==
  /\ sync # None /\ sync.stage = "missing"
  /\ sync' = [sync EXCEPT !.stage = "fetched",
               !.fetched = [p \in DOMAIN @ |-> IF @[p] = None THEN server[p] ELSE @[p]]]
  /\ UNCHANGED <<server, ws, selected, reading, creating, submission, late,
                 typed, blanked, budget>>

MissingReturn ==
  /\ sync # None /\ sync.stage = "fetched"
  /\ Reconcile(ws, sync.fetched)
  /\ UNCHANGED <<server, selected, reading, creating, late, budget>>

(* A request fails; submit tries once more before it ends. *)
SyncFails ==
  /\ sync # None
  /\ Spend("losses")
  /\ IF sync.for = "submit"
       THEN /\ sync' = SyncFor("end")
            /\ submission' = [submission EXCEPT !.stage = "ending"]
       ELSE /\ sync' = None
            /\ submission' = IF sync.for = "end" THEN None ELSE submission
  /\ UNCHANGED <<server, ws, selected, reading, creating, late, typed, blanked>>

------------------------------------------------------------------------------
(* openPage shows what is loaded, and reads.  Only the last read counts.   *)
(* Browser history opens documents while the tab is busy.                  *)
OpenPage(p) ==
  /\ ws.deletions[p] = None
  /\ Spend("opens")
  /\ reading' = [path |-> p, page |-> None]
  /\ selected' = IF ws.drafts[p] # None \/ ws.pages[p] # None THEN p ELSE selected
  /\ UNCHANGED <<server, ws, creating, sync, submission, late, typed, blanked>>

ReadServed ==
  /\ reading # None /\ reading.page = None
  /\ reading' = [reading EXCEPT !.page = server[reading.path]]
  /\ UNCHANGED <<server, ws, selected, creating, sync, submission, late,
                 typed, blanked, budget>>

ReadReturns ==
  /\ reading # None /\ reading.page # None
  /\ LET p == reading.path
         w == ReconcilePage(ws, p, reading.page)
     IN  /\ Accept(w)
         /\ selected' = IF w.conflicts[p] = None /\ w.drafts[p] = None
                        THEN p ELSE selected
  /\ reading' = None
  /\ UNCHANGED <<server, creating, sync, submission, late, budget>>

(* edit, which typing and create share: the draft keeps its base,          *)
(* disappears when it equals it, and meets the server text of an open      *)
(* conflict again.                                                         *)
NewText == [r \in Regions |-> Blank]
BaseAt(w, p) == IF w.drafts[p] # None THEN w.drafts[p].base ELSE w.pages[p]
TextAt(w, p) == IF w.drafts[p] # None THEN w.drafts[p].text
                ELSE IF w.pages[p] = Absent THEN NewText ELSE w.pages[p]

Edited(w, p, text) ==
  LET base == BaseAt(w, p)
      drafted == [w EXCEPT !.drafts[p] = IF text = base THEN None
                                         ELSE [base |-> base, text |-> text]]
  IN  IF w.conflicts[p] = None THEN drafted
      ELSE ReconcilePage(drafted, p, w.conflicts[p].server)

Edit(r, v) ==
  /\ ~ Busy
  /\ selected # None
  /\ LET p == selected
         base == BaseAt(ws, p)
         w == Edited(ws, p, [TextAt(ws, p) EXCEPT ![r] = v])
     IN  /\ base # None
         /\ Spend("edits")
         /\ ws' = w
         /\ IF ws.deletions[p] = None
            THEN Settle([typed EXCEPT ![p][r] =
                           IF base # Absent /\ base[r] = v THEN None ELSE v],
                        [blanked EXCEPT ![p] = @ \ {r}], w)
            ELSE UNCHANGED <<typed, blanked>>
  /\ UNCHANGED <<server, selected, reading, creating, sync, submission, late>>

(* create reads the path, shows the document or its draft, and, if the     *)
(* server has no document there, edits it to the text of a new one: an     *)
(* existing draft too starts over, on the base it has.  Unlike openPage it *)
(* does not look at staged deletions.                                      *)
Create(p) ==
  /\ creating = None
  /\ Spend("creates")
  /\ creating' = [path |-> p, page |-> server[p]]
  /\ UNCHANGED <<server, ws, selected, reading, sync, submission, late, typed, blanked>>

CreateReturns ==
  /\ creating # None
  /\ LET p == creating.path
         shown == IF ws.drafts[p] # None THEN ws
                  ELSE [ws EXCEPT !.pages[p] = creating.page]
         begins == creating.page = Absent /\ ~ Busy
         w == IF begins THEN Edited(shown, p, NewText) ELSE shown
         base == BaseAt(shown, p)
         over == {r \in Regions : base = Absent \/ base[r] # Blank}
     IN  /\ ws' = w
         /\ selected' = p
         /\ IF begins /\ ws.deletions[p] = None
            THEN Settle([typed EXCEPT ![p] =
                           [r \in Regions |-> IF r \in over THEN @[r] ELSE None]],
                        [blanked EXCEPT ![p] = over], w)
            ELSE Settle(typed, blanked, w)
  /\ creating' = None
  /\ UNCHANGED <<server, reading, sync, submission, late, budget>>

(* stageDelete and deleteTree, for one loaded document; it drops the read  *)
(* openPage waits for.                                                     *)
StageDelete(p) ==
  /\ ~ Busy
  /\ ws.deletions[p] = None \/ ws.drafts[p] # None
  /\ ws.drafts[p] # None \/ ws.pages[p] \notin {None, Absent}
  /\ Spend("deletes")
  /\ LET base == IF ws.drafts[p] # None THEN ws.drafts[p].base ELSE ws.pages[p]
     IN  ws' = [ws EXCEPT !.drafts[p] = None,
                          !.deletions[p] = IF base = Absent THEN @ ELSE base]
  /\ typed' = [typed EXCEPT ![p] = Nothing]
  /\ blanked' = [blanked EXCEPT ![p] = {}]
  /\ selected' = IF selected = p THEN None ELSE selected
  /\ reading' = None
  /\ UNCHANGED <<server, creating, sync, submission, late>>

(* ConflictResolver: each conflicting passage is taken from one side or    *)
(* written anew; a document one side does not have is kept or dropped.     *)
Resolutions(c) ==
  IF Absent \in {c.base, c.local, c.server} THEN {c.local, c.server}
  ELSE {t \in Text : \A r \in Regions :
          IF Merges(c.base, c.local, c.server, r)
          THEN t[r] = Merged(c.base, c.local, c.server)[r]
          ELSE t[r] \in Values \cup {c.local[r], c.server[r]}}

Resolve(p) ==
  /\ ~ Busy /\ sync = None
  /\ ws.conflicts[p] # None
  /\ LocalVersion(ws, p) = ws.conflicts[p].local
  /\ \E text \in Resolutions(ws.conflicts[p]) :
       LET page == ws.conflicts[p].server IN
       /\ ws' = ResolvePage(ws, p, page, text)
       /\ typed' = [typed EXCEPT ![p] =
                      [r \in Regions |->
                         IF text = Absent THEN None
                         ELSE IF page # Absent /\ page[r] = text[r] THEN None
                         ELSE text[r]]]
       /\ blanked' = [blanked EXCEPT ![p] = {}]
  /\ UNCHANGED <<server, selected, reading, creating, sync, submission, late,
                 budget>>

Discard ==
  /\ ~ Busy
  /\ Spend("discards")
  /\ ws' = [ws EXCEPT !.drafts = [p \in Paths |-> None],
                      !.deletions = [p \in Paths |-> None],
                      !.conflicts = [p \in Paths |-> None]]
  /\ typed' = [p \in Paths |-> Nothing]
  /\ blanked' = [p \in Paths |-> {}]
  /\ UNCHANGED <<server, selected, reading, creating, sync, submission, late>>

------------------------------------------------------------------------------
(* submit, once the changes are validated: sync, compare, send.            *)
Submit ==
  /\ ~ Busy /\ sync = None
  /\ Conflicts(ws) = {}
  /\ \E p \in Paths : LocalVersion(ws, p) # None
  /\ Spend("submits")
  /\ submission' = [stage |-> "sync", batch |-> Batch(ws)]
  /\ sync' = SyncFor("submit")
  /\ UNCHANGED <<server, ws, selected, reading, creating, late, typed, blanked>>

(* completeAnchor: what the server compares of the base. *)
AnchorsHold(base, text) == text # Absent /\ text["rim"] = base["rim"]

(* apply_edits on one path of the batch; two operations overlap. *)
Admitted(change, text) ==
  \/ change.delete = None /\ change.draft = None
  \/ /\ change.delete # None /\ change.draft = None
     /\ AnchorsHold(change.delete, text)
  \/ /\ change.delete = None /\ change.draft # None
     /\ IF change.draft.base = Absent THEN text = Absent
        ELSE AnchorsHold(change.draft.base, text)

Outcome(change, text) == IF change.delete # None THEN Absent
                         ELSE IF change.draft # None THEN change.draft.text
                         ELSE text

Apply(batch) ==
  /\ \A p \in Paths : Admitted(batch[p], server[p])
  /\ server' = [p \in Paths |-> Outcome(batch[p], server[p])]

ServerApplies ==
  /\ Busy /\ submission.stage = "sent"
  /\ Apply(submission.batch)
  /\ submission' = [submission EXCEPT !.stage = "applied"]
  /\ UNCHANGED <<ws, selected, reading, creating, sync, late, typed, blanked, budget>>

(* The answer: stale anchors, or the corpus would not validate. *)
ServerRejects ==
  /\ Busy /\ submission.stage = "sent"
  /\ SyncAndEnd
  /\ UNCHANGED <<server, ws, selected, reading, creating, late, typed, blanked, budget>>

Succeed ==
  /\ Busy /\ submission.stage = "applied"
  /\ LET batch == submission.batch
         sent(p) == batch[p].delete # None \/ batch[p].draft # None
     IN  /\ ws' = [pages |-> [p \in Paths |->
                       IF batch[p].draft # None THEN batch[p].draft.text
                       ELSE IF batch[p].delete # None THEN None ELSE ws.pages[p]],
                   drafts    |-> [p \in Paths |-> None],
                   deletions |-> [p \in Paths |-> None],
                   conflicts |-> [p \in Paths |-> None]]
         /\ typed' = [p \in Paths |-> IF sent(p) THEN Nothing ELSE typed[p]]
         /\ blanked' = [p \in Paths |-> IF sent(p) THEN {} ELSE blanked[p]]
  /\ SyncAndEnd
  /\ UNCHANGED <<server, selected, reading, creating, late, budget>>

(* Both attempts time out; mdstore may have the request, or get it later. *)
GiveUp ==
  /\ Busy /\ submission.stage \in {"sent", "applied"}
  /\ Spend("losses")
  /\ late' = IF submission.stage = "sent" THEN submission.batch ELSE late
  /\ SyncAndEnd
  /\ UNCHANGED <<server, ws, selected, reading, creating, typed, blanked>>

LateApplies ==
  /\ late # None
  /\ late' = None
  /\ Apply(late)
  /\ UNCHANGED <<ws, selected, reading, creating, sync, submission, typed, blanked, budget>>

(* The tab reloads: local changes come back from sessionStorage. *)
Reload ==
  /\ Spend("reloads")
  /\ ws' = [ws EXCEPT !.pages = [p \in Paths |-> None]]
  /\ late' = IF Busy /\ submission.stage = "sent" THEN submission.batch ELSE late
  /\ reading' = None /\ creating' = None /\ sync' = None /\ submission' = None
  /\ UNCHANGED <<server, selected, typed, blanked>>

(* Other clients of mdstore change a region, add or remove a document. *)
OtherClient(p) ==
  /\ Spend("others")
  /\ \/ /\ server[p] # Absent
        /\ \E r \in Regions, v \in Values :
             /\ v # server[p][r]
             /\ server' = [server EXCEPT ![p][r] = v]
     \/ /\ server[p] # Absent
        /\ server' = [server EXCEPT ![p] = Absent]
     \/ /\ server[p] = Absent
        /\ \E v \in Values : server' = [server EXCEPT ![p] = [r \in Regions |-> v]]
  /\ UNCHANGED <<ws, selected, reading, creating, sync, submission, late, typed, blanked>>

Next ==
  \/ StartSync \/ InventoryServed \/ InventoryReturns
  \/ MissingServed \/ MissingReturn \/ SyncFails
  \/ \E p \in Paths : OpenPage(p) \/ Create(p) \/ StageDelete(p) \/ Resolve(p)
                      \/ OtherClient(p)
  \/ ReadServed \/ ReadReturns \/ CreateReturns
  \/ \E r \in Regions, v \in Values : Edit(r, v)
  \/ Discard
  \/ Submit \/ ServerApplies \/ ServerRejects \/ Succeed \/ GiveUp
  \/ LateApplies \/ Reload

Spec == Init /\ [][Next]_vars

------------------------------------------------------------------------------
(* Types; a draft differs from its base; a submission that waits for a sync *)
(* is the one the sync works for.                                          *)
TypeOK ==
  /\ server \in [Paths -> Doc]
  /\ ws \in WorkspaceSet
  /\ \A p \in Paths : ws.drafts[p] # None => ws.drafts[p].text # ws.drafts[p].base
  /\ selected \in Paths \cup {None}
  /\ reading \in ReadSet \cup {None}
  /\ creating \in [path : Paths, page : Doc] \cup {None}
  /\ sync \in SyncSet \cup {None}
  /\ sync # None /\ sync.stage = "fetched" =>
       \A p \in DOMAIN sync.fetched : sync.fetched[p] # None
  /\ submission \in SubmissionSet \cup {None}
  /\ late \in BatchSet \cup {None}
  /\ typed \in [Paths -> [Regions -> Values \cup {Blank, None}]]
  /\ blanked \in [Paths -> SUBSET Regions]
  /\ (Busy /\ submission.stage = "sync") <=> (sync # None /\ sync.for = "submit")
  /\ (Busy /\ submission.stage = "ending") <=> (sync # None /\ sync.for = "end")

(* A draft is exactly what the user typed, over the text of the server it  *)
(* is based on: no merge, stale read, retry, reload or late application    *)
(* loses a typed region, and none turns somebody else's change, or its     *)
(* absence from an older text, into a change of the user's.  One handler   *)
(* is excepted: create, at a path the server has no document at, starts a  *)
(* draft over, and the regions it did that to (blanked) hold what create   *)
(* put there until the user writes them again.  Drafts of documents that   *)
(* are also staged for deletion are excepted too: there the next           *)
(* reconciliation drops the draft.                                         *)
DraftsAreWhatWasTyped ==
  \A p \in Paths : ws.deletions[p] = None =>
    \A r \in Regions :
      /\ typed[p][r] # None /\ r \notin blanked[p] =>
           /\ ws.drafts[p] # None
           /\ ws.drafts[p].text[r] = typed[p][r]
      /\ r \in blanked[p] =>
           /\ ws.drafts[p] # None
           /\ ws.drafts[p].text[r] = Blank
      /\ /\ ws.drafts[p] # None /\ ws.drafts[p].base # Absent
         /\ r \notin blanked[p]
         => ws.drafts[p].text[r] \in {ws.drafts[p].base[r], typed[p][r]}

==============================================================================
