------------------------------- MODULE MdStore -------------------------------
(***************************************************************************)
(* The write path of mdstore (mdstore/src/store.rs, git.rs, store/files.rs)*)
(* over one Git repository: an edit transaction runs under the repository  *)
(* lock in many durable steps, the daemon may crash between any two of     *)
(* them, any file or Git step may fail, and an operator who does not take  *)
(* the lock commits to and resets the same branch at any moment.           *)
(*                                                                         *)
(* Only the holder of write.lock runs a transaction, so one transaction    *)
(* record is enough; the requests waiting for the lock have no state.      *)
(***************************************************************************)
EXTENDS Documents

CONSTANTS Requests,     \* the requests clients send, and send again
          External,     \* the author of commits mdstore did not make
          None,
          Valid(_),     \* validate_corpus on the tree of a commit
          InitialTree,
          Servers,      \* values of the server section of config.yaml
          InitialServer,
          ExternalPages,\* pages an operator commits by hand
          MaxOwn,       \* bound: commits made by mdstore
          MaxExternal,  \* bound: commits made by the operator
          MaxResets,    \* bound: branch resets by the operator
          MaxCrashes,   \* bound: daemon crashes
          MaxFaults     \* bound: failing file or Git steps

(* The files a transaction keeps: the pages before and after the edit. *)
ImageSet   == UNION {[paths -> Page \cup {Absent}] : paths \in SUBSET Paths}
ReceiptSet == [commit : Nat, pre : ImageSet, post : ImageSet]
PendingSet == [base : Nat, tree : Tree, pre : ImageSet, post : ImageSet]

ASSUME StoreAssumption ==
  /\ InitialTree \in Tree
  /\ Valid(InitialTree)
  /\ External \notin Requests
  /\ None \notin Requests
  /\ None \notin ReceiptSet
  /\ None \notin PendingSet
  /\ \A r \in Requests : IsRequest(r)
  /\ InitialServer \in Servers
  /\ ExternalPages \subseteq Page \cup {Absent}
  /\ {MaxOwn, MaxExternal, MaxResets, MaxCrashes, MaxFaults} \subseteq Nat

VARIABLES
  commits,    \* every commit ever made: tree, server section, parent, author
  head,       \* the commit HEAD names
  worktree,   \* the checked-out documents
  published,  \* head of the snapshot readers see (StoreState.head)
  blocked,    \* the persisted WriteBlock::ExternalCommit is present
  receipts,   \* mdstore/receipts/<digest>.json
  pending,    \* mdstore/pending/<digest>.json
  phase,      \* the step the lock holder takes next; "idle", or "down"
  txn,        \* what the lock holder has computed so far
  acks,       \* history: successful responses
  budget      \* what is left of the bounds; broken counts failed rollbacks

gitVars  == <<commits, head, worktree>>
diskVars == <<receipts, pending>>
vars == <<commits, head, worktree, published, blocked, receipts, pending,
          phase, txn, acks, budget>>

CommitIds  == DOMAIN commits
TreeOf(c)  == commits[c].tree
ServerOf(c) == commits[c].server

Ancestors(c) == AncestorsIn(commits, c)

NoTxn == [req |-> None, base |-> 0, tree |-> InitialTree, commit |-> 0,
          pre |-> <<>>, post |-> <<>>]

Init ==
  /\ commits = << [tree |-> InitialTree, server |-> InitialServer,
                  parent |-> 0, by |-> External] >>
  /\ head = 1
  /\ worktree = InitialTree
  /\ published = 1
  /\ blocked = FALSE
  /\ receipts = [r \in Requests |-> None]
  /\ pending = [r \in Requests |-> None]
  /\ phase = "idle"
  /\ txn = NoTxn
  /\ acks = {}
  /\ budget = [own |-> MaxOwn, external |-> MaxExternal, resets |-> MaxResets,
               crashes |-> MaxCrashes, faults |-> MaxFaults,
               broken |-> 0]

Spend(kind) == /\ budget[kind] > 0
               /\ budget' = [budget EXCEPT ![kind] = @ - 1]

Goto(next) == phase' = next

(***************************************************************************)
(* Every transaction starts by restoring the worktree from HEAD and by     *)
(* taking in a HEAD someone else moved.                                    *)
(***************************************************************************)
Begin(r) ==
  /\ phase = "idle"
  /\ budget.own > 0
  /\ txn' = [NoTxn EXCEPT !.req = r]
  /\ worktree' = TreeOf(head)
  /\ Goto("refresh")
  /\ UNCHANGED <<commits, head, published, blocked, diskVars, acks, budget>>

(* Faulty variant: the candidate is not validated. *)
LoadsUnvalidated(c) == ServerOf(c) = ServerOf(published)

(* load_candidate: a running daemon takes in a valid tree that leaves its   *)
(* server settings alone.                                                   *)
Loads(c) == Valid(TreeOf(c)) /\ ServerOf(c) = ServerOf(published)

(* Faulty variant: a loaded commit does not clear the block. *)
RefreshKeepsBlock ==
  IF head = published
  THEN UNCHANGED <<published, blocked>>
  ELSE IF Loads(head)
       THEN published' = head /\ UNCHANGED blocked
       ELSE blocked' = TRUE /\ UNCHANGED published

(* refresh_external_commit: an unchanged HEAD returns before the block is   *)
(* looked at; a HEAD that does not load blocks writes.                      *)
RefreshExternalCommit ==
  IF head = published
  THEN UNCHANGED <<published, blocked>>
  ELSE IF Loads(head)
       THEN published' = head /\ blocked' = FALSE
       ELSE blocked' = TRUE /\ UNCHANGED published

(* Faulty variant: a commit that does not load is tried again at once. *)
RefreshUntilLoaded ==
  /\ phase = "refresh"
  /\ RefreshExternalCommit
  /\ Goto(IF published' = head THEN "receipt" ELSE "refresh")
  /\ UNCHANGED <<gitVars, diskVars, txn, acks, budget>>

Refresh ==
  /\ phase = "refresh"
  /\ RefreshExternalCommit
  /\ Goto(IF published' = head THEN "receipt" ELSE "failed")
  /\ UNCHANGED <<gitVars, diskVars, txn, acks, budget>>

(* Other handlers of the daemon (with_retrieval, worker polls) refresh too. *)
HandlerRefresh ==
  /\ phase = "idle"
  /\ head # published
  /\ RefreshExternalCommit
  /\ UNCHANGED <<gitVars, diskVars, phase, txn, acks, budget>>

(***************************************************************************)
(* Replays.  A path Git does not track reads as absent, any other from the *)
(* published snapshot, where reading it fails if it is not there.          *)
(***************************************************************************)
CurrentImage(p) == IF TreeOf(head)[p] = Absent THEN Absent
                                               ELSE TreeOf(published)[p]

Unreadable(p) == TreeOf(head)[p] # Absent /\ TreeOf(published)[p] = Absent

(* Faulty variant: a half undone batch counts as applied. *)
ReplayStateAnyPage(pre, post) ==
  IF \E p \in DOMAIN pre : Unreadable(p) THEN "unreadable"
  ELSE IF \E p \in DOMAIN post : CurrentImage(p) = post[p] THEN "applied"
  ELSE IF \A p \in DOMAIN pre : CurrentImage(p) = pre[p] THEN "reverted"
  ELSE "partial"

ReplayState(pre, post) ==
  IF \E p \in DOMAIN pre : Unreadable(p) THEN "unreadable"
  ELSE IF \A p \in DOMAIN post : CurrentImage(p) = post[p] THEN "applied"
  ELSE IF \A p \in DOMAIN pre : CurrentImage(p) = pre[p] THEN "reverted"
  ELSE "partial"

PreconditionHolds(r) ==
  r.kind = "put" => TreeOf(published)[r.path] = r.expected

ReadReceipt ==
  /\ phase = "receipt"
  /\ LET stored == receipts[txn.req]
         replay == IF stored = None THEN "reverted"
                                    ELSE ReplayState(stored.pre, stored.post)
     IN  IF ~PreconditionHolds(txn.req) \/ replay \in {"partial", "unreadable"}
         THEN Goto("failed") /\ UNCHANGED txn
         ELSE IF replay = "applied"
              THEN /\ txn' = [txn EXCEPT !.commit = stored.commit]
                   /\ Goto("succeeded")
              ELSE Goto("pending") /\ UNCHANGED txn
  /\ UNCHANGED <<gitVars, published, blocked, diskVars, acks, budget>>

(* Faulty variant: only the tip of the branch is looked at. *)
CommitsForTreeAtTip(base, tree) ==
  {c \in {head} : base \in Ancestors(head) /\ TreeOf(c) = tree}

(* history_commit_for_tree: the commits of base..HEAD with exactly the tree,*)
(* the oldest of which is taken.                                            *)
CommitsForTree(base, tree) ==
  {c \in CommitIds : /\ base \in Ancestors(head)
                     /\ c \in Ancestors(head) \ Ancestors(base)
                     /\ TreeOf(c) = tree}

RecoverPending ==
  /\ phase = "pending"
  /\ LET stored == pending[txn.req]
         found  == IF stored = None THEN {}
                                    ELSE CommitsForTree(stored.base, stored.tree)
         replay == IF found = {} THEN "reverted"
                                 ELSE ReplayState(stored.pre, stored.post)
     IN  \/ /\ replay \in {"partial", "unreadable"}
            /\ Goto("failed")
            /\ UNCHANGED <<txn, pending>>
         \/ /\ replay = "applied"
            /\ \E c \in found :
                 /\ \A d \in found : c <= d
                 /\ txn' = [txn EXCEPT !.commit = c, !.pre = stored.pre,
                                       !.post = stored.post]
            /\ Goto("write_receipt")
            /\ UNCHANGED pending
         \/ /\ replay = "reverted"
            /\ pending' = [pending EXCEPT ![txn.req] = None]
            /\ Goto("stage")
            /\ UNCHANGED txn
  /\ UNCHANGED <<gitVars, published, blocked, receipts, acks, budget>>

(***************************************************************************)
(* The batch is checked and applied against the published snapshot, and    *)
(* its tree is built in an isolated index.  A batch that changes nothing   *)
(* republishes the same head.                                              *)
(***************************************************************************)
Fresh(r) == r.kind = "edit" => r.expected \in {0, published}

(* Faulty variant: the block is not looked at. *)
AcceptableUnblocked(r) ==
  /\ Fresh(r)
  /\ Admitted(r, TreeOf(published))
  /\ Valid(Result(r, TreeOf(published)))

Acceptable(r) ==
  /\ ~blocked
  /\ Fresh(r)
  /\ Admitted(r, TreeOf(published))
  /\ Valid(Result(r, TreeOf(published)))

Stage ==
  /\ phase = "stage"
  /\ LET r     == txn.req
         base  == TreeOf(published)
         paths == Touched(r, base)
     IN  IF Acceptable(r)
         THEN /\ txn' = [txn EXCEPT !.base = published,
                                    !.tree = Result(r, base),
                                    !.commit = published,
                                    !.pre  = Images(base, paths),
                                    !.post = Images(Result(r, base), paths)]
              /\ Goto(IF Result(r, base) = base THEN "write_receipt"
                                                ELSE "write_pending")
         ELSE Goto("failed") /\ UNCHANGED txn
  /\ UNCHANGED <<gitVars, published, blocked, diskVars, acks, budget>>

WritePending ==
  /\ phase = "write_pending"
  /\ pending' = [pending EXCEPT ![txn.req] =
                   [base |-> txn.base, tree |-> txn.tree,
                    pre |-> txn.pre, post |-> txn.post]]
  /\ Goto("write_changes")
  /\ UNCHANGED <<gitVars, published, blocked, receipts, txn, acks, budget>>

Materialized(paths, tree) ==
  [p \in Paths |-> IF p \in paths THEN tree[p] ELSE worktree[p]]

WriteChanges ==
  /\ phase = "write_changes"
  /\ worktree' = Materialized(DOMAIN txn.post, txn.tree)
  /\ Goto("commit")
  /\ UNCHANGED <<commits, head, published, blocked, diskVars, txn, acks, budget>>

(* One file of the batch cannot be written; earlier ones already are. *)
WriteChangesFails ==
  /\ phase = "write_changes"
  /\ Spend("faults")
  /\ \E written \in SUBSET DOMAIN txn.post :
       /\ written # DOMAIN txn.post
       /\ worktree' = Materialized(written, txn.tree)
  /\ Goto("rollback")
  /\ UNCHANGED <<commits, head, published, blocked, diskVars, txn, acks>>

(* Faulty variant: the commit is made on whatever HEAD is. *)
CommitTreeOnHead ==
  /\ phase = "commit"
  /\ commits' = Append(commits,
                [tree |-> txn.tree, server |-> ServerOf(txn.base),
                 parent |-> head, by |-> txn.req])
  /\ head' = Len(commits')
  /\ txn' = [txn EXCEPT !.commit = Len(commits')]
  /\ Spend("own")
  /\ Goto("sync_index")
  /\ UNCHANGED <<worktree, published, blocked, diskVars, acks>>

(* commit_tree: the branch advances only if it still names the base. *)
CommitTree ==
  /\ phase = "commit"
  /\ IF head = txn.base
     THEN /\ commits' = Append(commits,
                [tree |-> txn.tree, server |-> ServerOf(txn.base),
                 parent |-> txn.base, by |-> txn.req])
          /\ head' = Len(commits')
          /\ txn' = [txn EXCEPT !.commit = Len(commits')]
          /\ Spend("own")
          /\ Goto("sync_index")
     ELSE /\ Goto("rollback")
          /\ UNCHANGED <<commits, head, txn, budget>>
  /\ UNCHANGED <<worktree, published, blocked, diskVars, acks>>

CommitTreeFails ==
  /\ phase = "commit"
  /\ Spend("faults")
  /\ Goto("rollback")
  /\ UNCHANGED <<gitVars, published, blocked, diskVars, txn, acks>>

(* sync_index, the check that HEAD is still the new commit, and             *)
(* publish_snapshot.                                                        *)
SyncIndex ==
  /\ phase = "sync_index"
  /\ IF head = txn.commit
     THEN published' = txn.commit /\ Goto("write_receipt")
     ELSE UNCHANGED published /\ Goto("rollback")
  /\ UNCHANGED <<gitVars, blocked, diskVars, txn, acks, budget>>

SyncIndexFails ==
  /\ phase = "sync_index"
  /\ Spend("faults")
  /\ Goto("rollback")
  /\ UNCHANGED <<gitVars, published, blocked, diskVars, txn, acks>>

(* Faulty variant: the paths are restored from the base of the edit. *)
RollbackToBase ==
  /\ phase = "rollback"
  /\ worktree' = Materialized(DOMAIN txn.post, TreeOf(txn.base))
  /\ Goto("drop_pending")
  /\ UNCHANGED <<commits, head, published, blocked, diskVars, txn, acks, budget>>

(* Restores the touched paths from whatever HEAD is now. *)
Rollback ==
  /\ phase = "rollback"
  /\ worktree' = Materialized(DOMAIN txn.post, TreeOf(head))
  /\ Goto("drop_pending")
  /\ UNCHANGED <<commits, head, published, blocked, diskVars, txn, acks, budget>>

RollbackFails ==
  /\ phase = "rollback"
  /\ budget.faults > 0
  /\ budget' = [budget EXCEPT !.faults = @ - 1, !.broken = @ + 1]
  /\ Goto("drop_pending")
  /\ UNCHANGED <<gitVars, published, blocked, diskVars, txn, acks>>

(* Faulty variant: the pending receipt of a commit that exists is dropped. *)
DropPendingAlways ==
  /\ phase = "drop_pending"
  /\ pending' = [pending EXCEPT ![txn.req] = None]
  /\ Goto("failed")
  /\ UNCHANGED <<gitVars, published, blocked, receipts, txn, acks, budget>>

(* The pending receipt survives when HEAD moved: the commit may exist. *)
DropPending ==
  /\ phase = "drop_pending"
  /\ pending' = IF head = txn.base THEN [pending EXCEPT ![txn.req] = None]
                                   ELSE pending
  /\ Goto("failed")
  /\ UNCHANGED <<gitVars, published, blocked, receipts, txn, acks, budget>>

WriteReceipt ==
  /\ phase = "write_receipt"
  /\ receipts' = [receipts EXCEPT ![txn.req] =
                    [commit |-> txn.commit, pre |-> txn.pre, post |-> txn.post]]
  /\ Goto("remove_pending")
  /\ UNCHANGED <<gitVars, published, blocked, pending, txn, acks, budget>>

RemovePending ==
  /\ phase = "remove_pending"
  /\ pending' = [pending EXCEPT ![txn.req] = None]
  /\ Goto("succeeded")
  /\ UNCHANGED <<gitVars, published, blocked, receipts, txn, acks, budget>>

(* Either file operation may fail after the commit: the caller sees an      *)
(* error for an edit that is in the history.                                *)
ReceiptStepFails ==
  /\ phase \in {"write_pending", "write_receipt", "remove_pending"}
  /\ Spend("faults")
  /\ Goto("failed")
  /\ UNCHANGED <<gitVars, published, blocked, diskVars, txn, acks>>

Succeed ==
  /\ phase = "succeeded"
  /\ acks' = acks \cup {[req |-> txn.req, commit |-> txn.commit]}
  /\ Goto("idle")
  /\ txn' = NoTxn
  /\ UNCHANGED <<gitVars, published, blocked, diskVars, budget>>

Fail ==
  /\ phase = "failed"
  /\ Goto("idle")
  /\ txn' = NoTxn
  /\ UNCHANGED <<gitVars, published, blocked, diskVars, acks, budget>>

(***************************************************************************)
(* Crash and restart.  write.lock is a flock, so a crash releases it; the  *)
(* snapshot and the transaction are lost, every file stays.                *)
(***************************************************************************)
Crash ==
  /\ phase # "down"
  /\ Spend("crashes")
  /\ Goto("down")
  /\ txn' = NoTxn
  /\ published' = 0
  /\ UNCHANGED <<gitVars, blocked, diskVars, acks>>

(* Opening an invalid HEAD fails: the daemon stays down until it is fixed.  *)
Restart ==
  /\ phase = "down"
  /\ Valid(TreeOf(head))
  /\ worktree' = TreeOf(head)
  /\ published' = head
  /\ Goto("idle")
  /\ UNCHANGED <<commits, head, blocked, diskVars, txn, acks, budget>>

(***************************************************************************)
(* The operator, who holds no lock.                                        *)
(***************************************************************************)
AppendExternal(tree, server) ==
  /\ commits' = Append(commits, [tree |-> tree, server |-> server,
                                 parent |-> head, by |-> External])
  /\ head' = Len(commits')

ExternalCommit ==
  /\ Spend("external")
  /\ \/ \E p \in Paths, page \in ExternalPages :
          /\ TreeOf(head)[p] # page
          /\ AppendExternal([TreeOf(head) EXCEPT ![p] = page], ServerOf(head))
          /\ worktree' = [worktree EXCEPT ![p] = page]
     \/ \E server \in Servers \ {ServerOf(head)} :
          /\ AppendExternal(TreeOf(head), server)
          /\ UNCHANGED worktree
  /\ UNCHANGED <<published, blocked, diskVars, phase, txn, acks>>

ExternalReset ==
  /\ Spend("resets")
  /\ \E c \in CommitIds \cap (Ancestors(head) \ {head}) :
       head' = c /\ worktree' = TreeOf(c)
  /\ UNCHANGED <<commits, published, blocked, diskVars, phase, txn, acks>>

DaemonStep ==
  \/ Refresh \/ ReadReceipt \/ RecoverPending \/ Stage \/ WritePending
  \/ WriteChanges \/ CommitTree \/ SyncIndex \/ Rollback \/ DropPending
  \/ WriteReceipt \/ RemovePending \/ Succeed \/ Fail

Fault ==
  \/ WriteChangesFails \/ CommitTreeFails \/ SyncIndexFails \/ RollbackFails
  \/ ReceiptStepFails

Next ==
  \/ \E r \in Requests : Begin(r)
  \/ DaemonStep
  \/ HandlerRefresh
  \/ Fault
  \/ Crash
  \/ Restart
  \/ ExternalCommit
  \/ ExternalReset

Spec == Init /\ [][Next]_vars

(* A handler that holds the lock runs to its end on a blocking thread, the  *)
(* supervisor restarts the daemon, and idle workers poll (with_retrieval).  *)
Fairness == /\ WF_vars(DaemonStep)
            /\ WF_vars(Restart)
            /\ WF_vars(HandlerRefresh)

FairSpec == Spec /\ Fairness

-----------------------------------------------------------------------------
(***************************************************************************)
(* Properties.                                                             *)
(***************************************************************************)
Phases == {"down", "idle", "refresh", "receipt", "pending", "stage",
           "write_pending", "write_changes", "commit", "sync_index",
           "rollback", "drop_pending", "write_receipt", "remove_pending",
           "succeeded", "failed"}

CommitType ==
  [tree : Tree, server : Servers, parent : Nat, by : Requests \cup {External}]

IsImages(f) ==
  /\ f \in [DOMAIN f -> Page \cup {Absent}]
  /\ DOMAIN f \subseteq Paths

IsReceipt(s) == s.commit \in CommitIds /\ IsImages(s.pre) /\ IsImages(s.post)

IsPending(s) == /\ s.base \in CommitIds
                /\ s.tree \in Tree
                /\ IsImages(s.pre) /\ IsImages(s.post)

IsTxn(t) == /\ t.req \in Requests \cup {None}
            /\ t.base \in CommitIds \cup {0}
            /\ t.tree \in Tree
            /\ t.commit \in CommitIds \cup {0}
            /\ IsImages(t.pre) /\ IsImages(t.post)

(* The types of the variables; a parent is older than its child, and the    *)
(* snapshot, the receipts and the answers name commits that exist.          *)
TypeOK ==
  /\ commits \in Seq(CommitType)
  /\ \A c \in CommitIds : commits[c].parent < c
  /\ head \in CommitIds
  /\ worktree \in Tree
  /\ published \in CommitIds \cup {0}
  /\ published = 0 <=> phase = "down"
  /\ blocked \in BOOLEAN
  /\ DOMAIN receipts = Requests
  /\ \A r \in Requests : receipts[r] = None \/ IsReceipt(receipts[r])
  /\ DOMAIN pending = Requests
  /\ \A r \in Requests : pending[r] = None \/ IsPending(pending[r])
  /\ phase \in Phases
  /\ IsTxn(txn)
  /\ txn.req = None <=> phase \in {"idle", "down"}
  /\ acks \subseteq [req : Requests, commit : CommitIds]

(* Whatever the operator commits or resets while a transaction runs, every  *)
(* commit mdstore makes is its request applied to the tree of its own       *)
(* parent, where the request was admissible: no concurrent change is lost   *)
(* and no If-Match precondition is checked against a tree that is not the   *)
(* one replaced (store.rs stages from the snapshot and advances the branch  *)
(* by compare-and-swap).                                                    *)
CommitsAreEdits ==
  \A c \in CommitIds :
    commits[c].by # External =>
      LET r == commits[c].by
          base == TreeOf(commits[c].parent)
      IN  /\ Admitted(r, base)
          /\ TreeOf(c) = Result(r, base)
          /\ TreeOf(c) # base

(* A request sent again, after a lost answer, a crash or an error reported  *)
(* for an edit that was committed, is not applied a second time while its   *)
(* effect is still there: between two commits of one request on one branch  *)
(* each page the first one changed was back at its original text (receipts  *)
(* and pending receipts, read_receipt and recover_pending).                 *)
RetriesApplyOnce ==
  \A c, d \in CommitIds :
    /\ c < d
    /\ commits[c].by # External
    /\ commits[d].by = commits[c].by
    /\ c \in Ancestors(d)
    => LET before == TreeOf(commits[c].parent)
       IN  \A p \in Paths : TreeOf(c)[p] # before[p] =>
             \E e \in c + 1 .. d - 1 : TreeOf(e)[p] = before[p]

(* A successful answer is current: the snapshot readers see has every page  *)
(* the batch wrote with the text the batch gave it, also when the answer is *)
(* replayed from a receipt or recovered after a crash; a replay of a batch  *)
(* that is half undone is an error, not a success.                          *)
AnswersAreCurrent ==
  phase = "succeeded" =>
    \A p \in DOMAIN receipts[txn.req].post :
      LET written == receipts[txn.req].post[p]
      IN  written # Absent => TreeOf(published)[p] = written

(* Readers only ever see a tree that passed validation, whatever the        *)
(* operator commits, also across a restart.                                 *)
PublishedIsValid == phase # "down" => Valid(TreeOf(published))

(* An edit that fails leaves the checkout as the branch has it, whatever it *)
(* had written and even when the branch moved under it (commit_candidate    *)
(* rolls back from the winning HEAD).  Only a failing rollback leaves a     *)
(* changed page, or a receipt step that fails after a commit whose base the *)
(* operator left and came back to; the next transaction repairs both.       *)
FailedEditLeavesNoTrace ==
  /\ budget.broken = 0
  /\ \/ phase = "drop_pending"
     \/ phase = "failed" /\ budget.faults = MaxFaults
  => worktree = TreeOf(head)

(* mdstore never advances the branch while an invalid external commit has   *)
(* it blocked, not even with a request that was staged before.              *)
BlockedMeansNoCommit ==
  [][blocked => \A c \in DOMAIN commits' \ DOMAIN commits :
                  commits'[c].by = External]_vars

(* A transaction never holds the repository lock for ever: every request    *)
(* ends in an answer or in a crash.                                         *)
RequestsEnd == \A r \in Requests : txn.req = r ~> txn.req # r

(* While the daemon runs, a block by an external commit ends once the       *)
(* operator has put a commit that loads on top: some handler refreshes,     *)
(* publishes it and clears the block.                                       *)
BlockHeals ==
  LET Healing == blocked /\ head # published /\ phase # "down" /\ Loads(head)
  IN  Healing ~> ~Healing /\ (blocked => phase = "down" \/ ~Loads(head))

(* store.rs:1097 rejects a commit that changes the server section with     *)
(* "restart required": a daemon that was restarted and serves that commit   *)
(* accepts writes again.                                                    *)
RestartAppliesConfiguration == phase = "idle" /\ published = head => ~blocked

(* The write path implements the promise of EditHistory: forget the        *)
(* checkout, the snapshot, the receipts, crashes and faults, and what is    *)
(* left is a branch of atomic edits and honest answers.                     *)
History == INSTANCE EditHistory
ImplementsEditHistory == History!Spec
==============================================================================
