---------------------------- MODULE MdStoreProofs ----------------------------
(***************************************************************************)
(* Safety of the write path for every set of requests, every validator and *)
(* every number of crashes, faults, external commits and resets.           *)
(*                                                                         *)
(* None of the properties is inductive by itself.  A commit is an exact    *)
(* edit of its parent because the staged tree was computed from the base   *)
(* the compare-and-swap then insists on, so the first invariant says what  *)
(* each step of the transaction may rely on (Staged, Committed).           *)
(*                                                                         *)
(* The write path keeps the promise of EditHistory: an edit sent again is  *)
(* not applied again while its effect lasts, and an answer names a commit  *)
(* that holds the effect of the request.  What carries that argument is    *)
(* that each commit of mdstore on the branch is, at every moment, undone,  *)
(* or remembered by the receipt or by the pending receipt of its request   *)
(* (Remembered), and that those files say what the commit did (Intents).   *)
(***************************************************************************)
EXTENDS MdStore, SequenceTheorems, TLAPS

(***************************************************************************)
(* Documents: an admitted batch turns a tree into a tree and keeps what it *)
(* does not touch; the ancestors of a commit.                              *)
(***************************************************************************)
(* An admitted edit of a page leaves a page or deletes it. *)
LEMMA EditedPageIsPage ==
  ASSUME NEW page \in Page \cup {Absent}, NEW edit \in EditType,
         EditAdmitted(edit, page)
  PROVE  EditedPage(edit, page) \in Page \cup {Absent}
<1>1. CASE edit.op = "create"
  <2>1. edit.block \in Blocks
    BY <1>1 DEF EditType
  <2> QED
    BY <1>1, <2>1 DEF EditedPage, Page
<1>2. CASE edit.op = "extend"
  <2>1. edit.block \in Blocks /\ page \in Seq(Blocks)
    BY <1>2 DEF EditType, EditAdmitted, Page
  <2> QED
    BY <1>2, <2>1 DEF EditedPage, Page
<1>3. ASSUME edit.op \in {"append", "replace", "delete"}
      PROVE  /\ page \in Seq(Blocks)
             /\ edit.anchor.line \in 1 .. Len(page)
  BY <1>3, LenProperties DEF EditAdmitted, Resolves, Page, EditType, AnchorType
<1>4. CASE edit.op = "append"
  <2>1. edit.block \in Blocks
    BY <1>4 DEF EditType
  <2>2. /\ SubSeq(page, 1, edit.anchor.line) \in Seq(Blocks)
        /\ SubSeq(page, edit.anchor.line + 1, Len(page)) \in Seq(Blocks)
    BY <1>3, <1>4, SubSeqProperties, ElementOfSeq, LenProperties
  <2>3. <<edit.block>> \in Seq(Blocks)
    BY <2>1
  <2>4. SubSeq(page, 1, edit.anchor.line) \o <<edit.block>> \in Seq(Blocks)
    BY <2>2, <2>3, ConcatProperties
  <2>5. (SubSeq(page, 1, edit.anchor.line) \o <<edit.block>>)
          \o SubSeq(page, edit.anchor.line + 1, Len(page)) \in Seq(Blocks)
    BY <2>2, <2>4, ConcatProperties
  <2> QED
    BY <1>4, <2>5 DEF EditedPage, Page
<1>5. CASE edit.op = "replace"
  <2>1. edit.block \in Blocks
    BY <1>5 DEF EditType
  <2>2. [page EXCEPT ![edit.anchor.line] = edit.block] \in Seq(Blocks)
    BY <1>3, <1>5, <2>1, ExceptSeq
  <2> QED
    BY <1>5, <2>2 DEF EditedPage, Page
<1>6. CASE edit.op = "delete"
  <2>1. /\ SubSeq(page, 1, edit.anchor.line - 1) \in Seq(Blocks)
        /\ SubSeq(page, edit.anchor.line + 1, Len(page)) \in Seq(Blocks)
    BY <1>3, <1>6, SubSeqProperties, ElementOfSeq, LenProperties
  <2>2. SubSeq(page, 1, edit.anchor.line - 1)
          \o SubSeq(page, edit.anchor.line + 1, Len(page)) \in Seq(Blocks)
    BY <2>1, ConcatProperties
  <2> QED
    BY <1>6, <2>2 DEF EditedPage, Page
<1> QED
  BY <1>1, <1>2, <1>4, <1>5, <1>6 DEF EditType

(* The edits of an admitted batch, before its moves, yield a tree. *)
LEMMA BatchEditedIsTree ==
  ASSUME NEW r, IsRequest(r), r.kind = "edit", NEW tree \in Tree,
         \A p \in DOMAIN r.edits : EditAdmitted(r.edits[p], tree[p])
  PROVE  BatchEdited(r, tree) \in Tree
<1>1. \A p \in DOMAIN r.edits :
        EditedPage(r.edits[p], tree[p]) \in Page \cup {Absent}
  BY EditedPageIsPage DEF IsRequest, Tree
<1> QED
  BY <1>1 DEF BatchEdited, Tree

(* An admitted batch turns a tree into a tree. *)
LEMMA ResultIsTree ==
  ASSUME NEW r, IsRequest(r), NEW tree \in Tree, Admitted(r, tree)
  PROVE  Result(r, tree) \in Tree
<1>1. CASE r.kind = "put"
  BY <1>1 DEF IsRequest, Result, Tree
<1>2. CASE r.kind # "put"
  <2>1. r.kind = "edit" /\ \A m \in r.moves : m.from \in Paths /\ m.to \in Paths
    BY <1>2 DEF IsRequest
  <2>2. BatchEdited(r, tree) \in Tree
    BY <1>2, <2>1, BatchEditedIsTree DEF Admitted
  <2>3. Moved(r.moves, BatchEdited(r, tree)) \in Tree
    BY <2>1, <2>2 DEF Moved, Tree
  <2> QED
    BY <1>2, <2>3 DEF Result
<1> QED
  BY <1>1, <1>2

(* A batch touches repository paths only. *)
LEMMA TouchedArePaths ==
  ASSUME NEW r, IsRequest(r), NEW tree
  PROVE  Touched(r, tree) \subseteq Paths
BY DEF IsRequest, Touched

(* A page the batch does not touch keeps its text. *)
LEMMA UntouchedKeep ==
  ASSUME NEW r, IsRequest(r), NEW tree \in Tree, NEW p \in Paths,
         p \notin Touched(r, tree)
  PROVE  Result(r, tree)[p] = tree[p]
<1>1. CASE r.kind = "put"
  BY <1>1 DEF Touched, Result, Tree
<1>2. CASE r.kind # "put"
  <2>1. p \notin DOMAIN r.edits /\ Result(r, tree)[p] = BatchEdited(r, tree)[p]
    BY <1>2 DEF Touched
  <2> QED
    BY <2>1 DEF BatchEdited
<1> QED
  BY <1>1, <1>2

-----------------------------------------------------------------------------
(***************************************************************************)
(* The ancestors of a commit.                                              *)
(***************************************************************************)

(* Every commit up to n has an older parent, or none. *)
ParentsAreOlder(log, n) == \A d \in 1 .. n : log[d].parent \in 0 .. d - 1

LEMMA AncestorSelf ==
  ASSUME NEW log, NEW c \in Nat \ {0}
  PROVE  c \in AncestorsIn(log, c)
BY DEF AncestorsIn

(* Only the commits up to c decide about the ancestors of c. *)
LEMMA AncestorsOfPrefix ==
  ASSUME NEW log, NEW longer, NEW c \in Nat,
         \A d \in 1 .. c : longer[d].parent = log[d].parent
  PROVE  AncestorsIn(longer, c) = AncestorsIn(log, c)
BY DEF AncestorsIn, HoldsParents

(* With a commit its parent is an ancestor. *)
LEMMA AncestorParent ==
  ASSUME NEW log, NEW c \in Nat, NEW a \in AncestorsIn(log, c),
         log[a].parent \in 1 .. a
  PROVE  log[a].parent \in AncestorsIn(log, c)
<1>1. a \in 1 .. c /\ log[a].parent \in 1 .. c
  BY DEF AncestorsIn
<1>2. ASSUME NEW S \in SUBSET (1 .. c), c \in S, HoldsParents(log, S)
      PROVE  log[a].parent \in S
  BY <1>1, <1>2 DEF AncestorsIn, HoldsParents
<1> QED
  BY <1>1, <1>2 DEF AncestorsIn

LEMMA AncestorTransitive ==
  ASSUME NEW log, NEW c \in Nat, NEW b \in AncestorsIn(log, c),
         ParentsAreOlder(log, c), NEW a \in AncestorsIn(log, b)
  PROVE  a \in AncestorsIn(log, c)
<1>1. b \in 1 .. c /\ a \in 1 .. b /\ a \in 1 .. c
  BY DEF AncestorsIn
<1>2. ASSUME NEW S \in SUBSET (1 .. c), c \in S, HoldsParents(log, S)
      PROVE  a \in S
  <2> DEFINE T == S \cap (1 .. b)
  <2>1. b \in S
    BY <1>2 DEF AncestorsIn
  <2>2. \A d \in T : log[d].parent \in T \cup {0}
    BY <1>1, <1>2 DEF HoldsParents, ParentsAreOlder
  <2>3. T \in SUBSET (1 .. b) /\ b \in T /\ HoldsParents(log, T)
    BY <1>1, <2>1, <2>2 DEF HoldsParents
  <2>4. a \in T
    BY <2>3 DEF AncestorsIn
  <2> QED
    BY <2>4
<1> QED
  BY <1>1, <1>2 DEF AncestorsIn

(* An ancestor is the commit itself or an ancestor of its parent. *)
LEMMA AncestorUnfolds ==
  ASSUME NEW log, NEW c \in Nat, ParentsAreOlder(log, c),
         NEW a \in AncestorsIn(log, c), a # c
  PROVE  /\ log[c].parent \in 1 .. c - 1
         /\ a \in AncestorsIn(log, log[c].parent)
<1> DEFINE b == log[c].parent
<1>1. a \in 1 .. c /\ c \in 1 .. c /\ b \in 0 .. c - 1
  BY DEF AncestorsIn, ParentsAreOlder
<1>2. b # 0
  <2>1. SUFFICES ASSUME b = 0 PROVE FALSE
    OBVIOUS
  <2>2. {c} \in SUBSET (1 .. c) /\ HoldsParents(log, {c})
    BY <1>1, <2>1 DEF HoldsParents
  <2> QED
    BY <2>2 DEF AncestorsIn
<1>3. ASSUME NEW S \in SUBSET (1 .. b), b \in S, HoldsParents(log, S)
      PROVE  a \in S
  <2>1. S \cup {c} \in SUBSET (1 .. c)
    BY <1>1, <1>3
  <2>2. \A d \in S \cup {c} : log[d].parent \in (S \cup {c}) \cup {0}
    BY <1>3 DEF HoldsParents
  <2> QED
    BY <2>1, <2>2 DEF AncestorsIn, HoldsParents
<1>4. HoldsParents(log, 1 .. b) /\ b \in 1 .. b
  BY <1>1, <1>2 DEF HoldsParents, ParentsAreOlder
<1> QED
  BY <1>1, <1>2, <1>3, <1>4 DEF AncestorsIn

(* A branch does not fork: of two of its commits the older is an ancestor   *)
(* of the newer.                                                            *)
LEMMA AncestorsAreLinear ==
  ASSUME NEW log, NEW h \in Nat, ParentsAreOlder(log, h),
         NEW a \in AncestorsIn(log, h), NEW b \in AncestorsIn(log, h), a <= b
  PROVE  a \in AncestorsIn(log, b)
<1> DEFINE S == {x \in AncestorsIn(log, h) :
                   \A y \in AncestorsIn(log, h) :
                     y <= x => y \in AncestorsIn(log, x)}
<1>1. S \in SUBSET (1 .. h) /\ AncestorsIn(log, h) \subseteq 1 .. h
  BY DEF AncestorsIn
<1>2. h \in S
  BY <1>1, AncestorSelf
<1>3. ASSUME NEW x \in S, log[x].parent # 0
      PROVE  log[x].parent \in S
  <2>1. x \in 1 .. h /\ log[x].parent \in 1 .. x - 1
    BY <1>1, <1>3 DEF ParentsAreOlder
  <2>2. log[x].parent \in AncestorsIn(log, h)
    BY <2>1, AncestorParent
  <2>3. ASSUME NEW y \in AncestorsIn(log, h), y <= log[x].parent
        PROVE  y \in AncestorsIn(log, log[x].parent)
    <3>1. y \in 1 .. h /\ y < x
      BY <1>1, <2>1, <2>3
    <3>2. y \in AncestorsIn(log, x) /\ y # x
      BY <1>1, <2>1, <3>1
    <3>3. ParentsAreOlder(log, x)
      BY <2>1 DEF ParentsAreOlder
    <3> QED
      BY <2>1, <3>2, <3>3, AncestorUnfolds
  <2> QED
    BY <2>2, <2>3
<1>4. HoldsParents(log, S)
  BY <1>3 DEF HoldsParents
<1>5. b \in S
  BY <1>1, <1>2, <1>4 DEF AncestorsIn
<1> QED
  BY <1>5

-----------------------------------------------------------------------------
(***************************************************************************)
(* The transaction.                                                        *)
(***************************************************************************)
(* What the transaction has computed is real in the steps that use it. *)
Addressed ==
  /\ phase \in {"write_pending", "write_changes", "commit", "sync_index",
                "rollback", "drop_pending"} => txn.base \in CommitIds
  /\ phase \in {"sync_index", "write_receipt", "remove_pending", "succeeded"}
       => txn.commit \in CommitIds

(* From staging to the compare-and-swap the staged tree is the valid result *)
(* of the request on the tree of the base, and writes are not blocked.      *)
Staged ==
  phase \in {"write_pending", "write_changes", "commit"} =>
    /\ Admitted(txn.req, TreeOf(txn.base))
    /\ txn.tree = Result(txn.req, TreeOf(txn.base))
    /\ txn.tree # TreeOf(txn.base)
    /\ Valid(txn.tree)
    /\ ~blocked

(* The commit about to be published is valid. *)
Committed == phase = "sync_index" => Valid(TreeOf(txn.commit))

Inv == TypeOK /\ Addressed /\ Staged /\ Committed

-----------------------------------------------------------------------------
(* Commits are only ever added: an existing commit keeps its contents. *)
Keeps == /\ CommitIds \subseteq DOMAIN commits'
         /\ \A c \in CommitIds : commits'[c] = commits[c]

(* Appending a commit of the right type keeps the log well formed. *)
LEMMA AppendKeeps ==
  ASSUME commits \in Seq(CommitType), \A c \in CommitIds : commits[c].parent < c,
         NEW record \in CommitType, record.parent \in CommitIds,
         commits' = Append(commits, record)
  PROVE  /\ Keeps
         /\ commits' \in Seq(CommitType)
         /\ DOMAIN commits' = 1 .. Len(commits) + 1
         /\ Len(commits') = Len(commits) + 1
         /\ Len(commits') \in DOMAIN commits'
         /\ \A c \in DOMAIN commits' : commits'[c].parent < c
         /\ commits'[Len(commits')] = record
         /\ \A c \in DOMAIN commits' \ CommitIds : c = Len(commits')
<1>1. /\ commits' \in Seq(CommitType)
      /\ Len(commits') = Len(commits) + 1
      /\ \A c \in 1 .. Len(commits) : commits'[c] = commits[c]
      /\ commits'[Len(commits) + 1] = record
  BY AppendProperties
<1>2. CommitIds = 1 .. Len(commits) /\ Len(commits) \in Nat
  BY LenProperties DEF CommitIds
<1>3. DOMAIN commits' = 1 .. Len(commits) + 1
  BY <1>1, <1>2, LenProperties
<1>4. \A c \in DOMAIN commits' : commits'[c].parent < c
  <2>1. \A c \in CommitIds : commits[c].parent < c
    OBVIOUS
  <2>2. record.parent < Len(commits) + 1
    BY <1>2
  <2> QED
    BY <1>1, <1>2, <1>3, <2>1, <2>2
<1> QED
  BY <1>1, <1>2, <1>3, <1>4 DEF Keeps

(* The commits of the branch stay in it, and what one holds stays typed. *)
LEMMA CommitFacts ==
  ASSUME TypeOK
  PROVE  /\ CommitIds = 1 .. Len(commits)
         /\ Len(commits) \in Nat
         /\ 0 \notin CommitIds
         /\ \A c \in CommitIds : /\ commits[c] \in CommitType
                                 /\ TreeOf(c) \in Tree
                                 /\ ServerOf(c) \in Servers
<1>1. CommitIds = 1 .. Len(commits) /\ Len(commits) \in Nat
  BY LenProperties DEF TypeOK, CommitIds
<1>2. \A c \in 1 .. Len(commits) : commits[c] \in CommitType
  BY ElementOfSeq DEF TypeOK
<1> QED
  BY <1>1, <1>2 DEF CommitType, TreeOf, ServerOf

(* Images of a tree on paths are images; so are the empty ones. *)
LEMMA ImagesAreImages ==
  ASSUME NEW tree \in Tree, NEW paths \in SUBSET Paths
  PROVE  IsImages(Images(tree, paths))
BY DEF Images, IsImages, Tree

LEMMA NoTxnIsTxn == IsTxn(NoTxn)
<1>1. InitialTree \in Tree
  BY StoreAssumption
<1>2. IsImages(<<>>)
  BY DEF IsImages
<1> QED
  BY <1>1, <1>2 DEF NoTxn, IsTxn

LEMMA InitInv == Init => Inv
<1> SUFFICES ASSUME Init PROVE Inv
  OBVIOUS
<1>1. InitialTree \in Tree /\ InitialServer \in Servers /\ Valid(InitialTree)
  BY StoreAssumption
<1>2. commits \in Seq(CommitType) /\ DOMAIN commits = {1} /\ commits[1].parent = 0
  BY <1>1 DEF Init, CommitType
<1>3. /\ \A r \in Requests : receipts[r] = None /\ pending[r] = None
      /\ DOMAIN receipts = Requests /\ DOMAIN pending = Requests
  BY DEF Init
<1>4. IsTxn(txn) /\ txn.req = None
  <2>1. CommitIds = {1} /\ txn = NoTxn
    BY <1>2 DEF CommitIds, Init
  <2> QED
    BY <2>1, NoTxnIsTxn DEF NoTxn
<1>5. CommitIds = {1} /\ \A c \in CommitIds : commits[c].parent < c
  BY <1>2 DEF CommitIds
<1>6. head \in CommitIds /\ worktree \in Tree /\ acks = {}
  BY <1>1, <1>5 DEF Init
<1>7. /\ published \in CommitIds \cup {0}
      /\ (published = 0) <=> (phase = "down")
      /\ (txn.req = None) <=> (phase \in {"idle", "down"})
      /\ blocked \in BOOLEAN /\ phase \in Phases
  <2>1. published \in CommitIds \cup {0}
    BY <1>5 DEF Init
  <2>2. (published = 0) <=> (phase = "down")
    BY DEF Init
  <2>3. (txn.req = None) <=> (phase \in {"idle", "down"})
    BY <1>4 DEF Init
  <2>4. blocked \in BOOLEAN
    BY DEF Init
  <2>5. phase \in Phases
    BY DEF Init, Phases
  <2> QED
    BY <2>1, <2>2, <2>3, <2>4, <2>5
<1>8. TypeOK
  BY <1>2, <1>3, <1>4, <1>5, <1>6, <1>7 DEF TypeOK
<1> QED
  BY <1>8 DEF Init, Inv, Addressed, Staged, Committed

LEMMA BeginInv ==
  ASSUME Inv, NEW r \in Requests, Begin(r)
  PROVE  Inv'
<1> USE DEF Begin, Goto, Spend, diskVars, gitVars
<1>1. TreeOf(head) \in Tree
  BY CommitFacts DEF Inv, TypeOK
<1>2. IsTxn(txn')
  BY NoTxnIsTxn DEF NoTxn, IsTxn
<1>types. TypeOK'
  BY <1>1, <1>2, StoreAssumption DEF Inv, TypeOK, Phases, CommitIds, TreeOf, ServerOf, IsTxn, IsReceipt, IsPending, NoTxn
<1> QED
  BY <1>types DEF Inv, Addressed, Staged, Committed, CommitIds, TreeOf, NoTxn

LEMMA RefreshInv ==
  ASSUME Inv, Refresh
  PROVE  Inv'
<1> USE DEF Refresh, Goto, Spend, diskVars, gitVars
<1>1. /\ published' \in CommitIds \cup {0}
      /\ published' # 0
  BY DEF Inv, TypeOK, CommitIds, RefreshExternalCommit
<1>2. blocked' \in BOOLEAN
  BY DEF Inv, TypeOK, RefreshExternalCommit
<1>types. TypeOK'
  BY <1>1, <1>2, StoreAssumption DEF Inv, TypeOK, Phases, CommitIds, TreeOf, ServerOf, IsTxn, IsReceipt, IsPending
<1> QED
  BY <1>types DEF Inv, Addressed, Staged, Committed, CommitIds, TreeOf

LEMMA HandlerRefreshInv ==
  ASSUME Inv, HandlerRefresh
  PROVE  Inv'
<1> USE DEF HandlerRefresh, Goto, Spend, diskVars, gitVars
<1>1. /\ published' \in CommitIds \cup {0}
      /\ published' # 0
  BY DEF Inv, TypeOK, CommitIds, RefreshExternalCommit
<1>2. blocked' \in BOOLEAN
  BY DEF Inv, TypeOK, RefreshExternalCommit
<1>types. TypeOK'
  BY <1>1, <1>2, StoreAssumption DEF Inv, TypeOK, Phases, CommitIds, TreeOf, ServerOf, IsTxn, IsReceipt, IsPending
<1> QED
  BY <1>types DEF Inv, Addressed, Staged, Committed, CommitIds, TreeOf

LEMMA ReadReceiptInv ==
  ASSUME Inv, ReadReceipt
  PROVE  Inv'
<1> USE DEF gitVars, diskVars
<1>1. txn.req \in Requests
  BY DEF ReadReceipt, Inv, TypeOK, IsTxn
<1>2. \/ /\ phase' \in {"failed", "pending"}
         /\ UNCHANGED txn
      \/ /\ phase' = "succeeded"
         /\ receipts[txn.req] # None
         /\ txn' = [txn EXCEPT !.commit = receipts[txn.req].commit]
  BY DEF ReadReceipt, Goto
<1>3. CASE phase' \in {"failed", "pending"} /\ UNCHANGED txn
  <2>1. TypeOK'
    BY <1>3 DEF ReadReceipt, Inv, TypeOK, Phases, CommitIds, TreeOf, ServerOf, IsTxn, IsReceipt, IsPending
  <2> QED
    BY <1>3, <2>1 DEF ReadReceipt, Inv, Addressed, Staged, Committed, CommitIds, TreeOf
<1>4. CASE /\ phase' = "succeeded"
           /\ receipts[txn.req] # None
           /\ txn' = [txn EXCEPT !.commit = receipts[txn.req].commit]
  <2>1. receipts[txn.req].commit \in CommitIds
    BY <1>1, <1>4 DEF Inv, TypeOK, IsReceipt
  <2>2. IsTxn(txn') /\ txn'.req = txn.req /\ txn'.commit \in CommitIds
    BY <1>4, <2>1 DEF Inv, TypeOK, IsTxn
  <2>3. TypeOK'
    BY <1>1, <1>4, <2>2 DEF ReadReceipt, Inv, TypeOK, Phases, CommitIds, TreeOf, ServerOf, IsTxn, IsReceipt, IsPending
  <2> QED
    BY <1>4, <2>2, <2>3 DEF ReadReceipt, Inv, Addressed, Staged, Committed, CommitIds, TreeOf
<1> QED
  BY <1>2, <1>3, <1>4

LEMMA WriteChangesFailsInv ==
  ASSUME Inv, WriteChangesFails
  PROVE  Inv'
<1> USE DEF WriteChangesFails, Goto, Spend, diskVars, gitVars
<1>1. \A paths \in SUBSET Paths, tree \in Tree : Materialized(paths, tree) \in Tree
  BY DEF Materialized, Inv, TypeOK, Tree
<1>2. DOMAIN txn.post \subseteq Paths /\ txn.tree \in Tree /\ TreeOf(head) \in Tree
  BY CommitFacts DEF Inv, TypeOK, IsTxn, IsImages
<1>types. TypeOK'
  BY <1>1, <1>2, StoreAssumption DEF Inv, TypeOK, Phases, CommitIds, TreeOf, ServerOf, IsTxn, IsReceipt, IsPending
<1> QED
  BY <1>types DEF Inv, Addressed, Staged, Committed, CommitIds, TreeOf

LEMMA CommitTreeFailsInv ==
  ASSUME Inv, CommitTreeFails
  PROVE  Inv'
<1> USE DEF CommitTreeFails, Goto, Spend, diskVars, gitVars
<1>types. TypeOK'
  BY StoreAssumption DEF Inv, TypeOK, Phases, CommitIds, TreeOf, ServerOf, IsTxn, IsReceipt, IsPending
<1> QED
  BY <1>types DEF Inv, Addressed, Staged, Committed, CommitIds, TreeOf

LEMMA SyncIndexFailsInv ==
  ASSUME Inv, SyncIndexFails
  PROVE  Inv'
<1> USE DEF SyncIndexFails, Goto, Spend, diskVars, gitVars
<1>types. TypeOK'
  BY StoreAssumption DEF Inv, TypeOK, Phases, CommitIds, TreeOf, ServerOf, IsTxn, IsReceipt, IsPending
<1> QED
  BY <1>types DEF Inv, Addressed, Staged, Committed, CommitIds, TreeOf

LEMMA RollbackFailsInv ==
  ASSUME Inv, RollbackFails
  PROVE  Inv'
<1> USE DEF RollbackFails, Goto, Spend, diskVars, gitVars
<1>types. TypeOK'
  BY StoreAssumption DEF Inv, TypeOK, Phases, CommitIds, TreeOf, ServerOf, IsTxn, IsReceipt, IsPending
<1> QED
  BY <1>types DEF Inv, Addressed, Staged, Committed, CommitIds, TreeOf

LEMMA ReceiptStepFailsInv ==
  ASSUME Inv, ReceiptStepFails
  PROVE  Inv'
<1> USE DEF ReceiptStepFails, Goto, Spend, diskVars, gitVars
<1>types. TypeOK'
  BY StoreAssumption DEF Inv, TypeOK, Phases, CommitIds, TreeOf, ServerOf, IsTxn, IsReceipt, IsPending
<1> QED
  BY <1>types DEF Inv, Addressed, Staged, Committed, CommitIds, TreeOf

LEMMA SyncIndexInv ==
  ASSUME Inv, SyncIndex
  PROVE  Inv'
<1> USE DEF SyncIndex, Goto, Spend, diskVars, gitVars
<1>types. TypeOK'
  BY StoreAssumption DEF Inv, TypeOK, Phases, CommitIds, TreeOf, ServerOf, IsTxn, IsReceipt, IsPending
<1> QED
  BY <1>types DEF Inv, Addressed, Staged, Committed, CommitIds, TreeOf

LEMMA WriteChangesInv ==
  ASSUME Inv, WriteChanges
  PROVE  Inv'
<1> USE DEF WriteChanges, Goto, Spend, diskVars, gitVars
<1>1. \A paths \in SUBSET Paths, tree \in Tree : Materialized(paths, tree) \in Tree
  BY DEF Materialized, Inv, TypeOK, Tree
<1>2. DOMAIN txn.post \subseteq Paths /\ txn.tree \in Tree /\ TreeOf(head) \in Tree
  BY CommitFacts DEF Inv, TypeOK, IsTxn, IsImages
<1>types. TypeOK'
  BY <1>1, <1>2, StoreAssumption DEF Inv, TypeOK, Phases, CommitIds, TreeOf, ServerOf, IsTxn, IsReceipt, IsPending
<1> QED
  BY <1>types DEF Inv, Addressed, Staged, Committed, CommitIds, TreeOf

LEMMA RollbackInv ==
  ASSUME Inv, Rollback
  PROVE  Inv'
<1> USE DEF Rollback, Goto, Spend, diskVars, gitVars
<1>1. \A paths \in SUBSET Paths, tree \in Tree : Materialized(paths, tree) \in Tree
  BY DEF Materialized, Inv, TypeOK, Tree
<1>2. DOMAIN txn.post \subseteq Paths /\ txn.tree \in Tree /\ TreeOf(head) \in Tree
  BY CommitFacts DEF Inv, TypeOK, IsTxn, IsImages
<1>types. TypeOK'
  BY <1>1, <1>2, StoreAssumption DEF Inv, TypeOK, Phases, CommitIds, TreeOf, ServerOf, IsTxn, IsReceipt, IsPending
<1> QED
  BY <1>types DEF Inv, Addressed, Staged, Committed, CommitIds, TreeOf

LEMMA DropPendingInv ==
  ASSUME Inv, DropPending
  PROVE  Inv'
<1> USE DEF DropPending, Goto, Spend, diskVars, gitVars
<1>types. TypeOK'
  BY StoreAssumption DEF Inv, TypeOK, Phases, CommitIds, TreeOf, ServerOf, IsTxn, IsReceipt, IsPending
<1> QED
  BY <1>types DEF Inv, Addressed, Staged, Committed, CommitIds, TreeOf

LEMMA WriteReceiptInv ==
  ASSUME Inv, WriteReceipt
  PROVE  Inv'
<1> USE DEF WriteReceipt, Goto, diskVars, gitVars
<1>1. txn.req \in Requests /\ IsTxn(txn)
  BY DEF Inv, TypeOK, IsTxn
<1>2. txn.commit \in CommitIds
  BY DEF Inv, Addressed
<1>3. IsReceipt(receipts'[txn.req])
  BY <1>1, <1>2 DEF Inv, TypeOK, IsTxn, IsReceipt
<1>4. DOMAIN receipts' = Requests /\ \A r \in Requests : receipts'[r] = None \/ IsReceipt(receipts'[r])
  BY <1>1, <1>3 DEF Inv, TypeOK
<1>types. TypeOK'
  BY <1>4, StoreAssumption DEF Inv, TypeOK, Phases, CommitIds, TreeOf, ServerOf, IsTxn, IsReceipt, IsPending
<1> QED
  BY <1>types DEF Inv, Addressed, Staged, Committed, CommitIds, TreeOf

LEMMA RemovePendingInv ==
  ASSUME Inv, RemovePending
  PROVE  Inv'
<1> USE DEF RemovePending, Goto, Spend, diskVars, gitVars
<1>types. TypeOK'
  BY StoreAssumption DEF Inv, TypeOK, Phases, CommitIds, TreeOf, ServerOf, IsTxn, IsReceipt, IsPending
<1> QED
  BY <1>types DEF Inv, Addressed, Staged, Committed, CommitIds, TreeOf

LEMMA WritePendingInv ==
  ASSUME Inv, WritePending
  PROVE  Inv'
<1> USE DEF WritePending, Goto, diskVars, gitVars
<1>1. txn.req \in Requests /\ IsTxn(txn)
  BY DEF Inv, TypeOK, IsTxn
<1>2. txn.base \in CommitIds
  BY DEF Inv, Addressed
<1>3. IsPending(pending'[txn.req])
  BY <1>1, <1>2 DEF Inv, TypeOK, IsTxn, IsPending
<1>4. DOMAIN pending' = Requests /\ \A r \in Requests : pending'[r] = None \/ IsPending(pending'[r])
  BY <1>1, <1>3 DEF Inv, TypeOK
<1>types. TypeOK'
  BY <1>4, StoreAssumption DEF Inv, TypeOK, Phases, CommitIds, TreeOf, ServerOf, IsTxn, IsReceipt, IsPending
<1> QED
  BY <1>types DEF Inv, Addressed, Staged, Committed, CommitIds, TreeOf

LEMMA SucceedInv ==
  ASSUME Inv, Succeed
  PROVE  Inv'
<1> USE DEF Succeed, Goto, diskVars, gitVars
<1>1. IsTxn(txn')
  BY NoTxnIsTxn DEF NoTxn, IsTxn
<1>2. txn.req \in Requests /\ txn.commit \in CommitIds
  BY DEF Inv, TypeOK, IsTxn, Addressed
<1>3. acks' \subseteq [req : Requests, commit : CommitIds]
  BY <1>2 DEF Inv, TypeOK
<1>types. TypeOK'
  BY <1>1, <1>3, StoreAssumption DEF Inv, TypeOK, Phases, CommitIds, TreeOf, ServerOf, IsTxn, IsReceipt, IsPending, NoTxn
<1> QED
  BY <1>types DEF Inv, Addressed, Staged, Committed, CommitIds, TreeOf, NoTxn

LEMMA FailInv ==
  ASSUME Inv, Fail
  PROVE  Inv'
<1> USE DEF Fail, Goto, Spend, diskVars, gitVars
<1>1. IsTxn(txn')
  BY NoTxnIsTxn DEF NoTxn, IsTxn
<1>types. TypeOK'
  BY <1>1, StoreAssumption DEF Inv, TypeOK, Phases, CommitIds, TreeOf, ServerOf, IsTxn, IsReceipt, IsPending, NoTxn
<1> QED
  BY <1>types DEF Inv, Addressed, Staged, Committed, CommitIds, TreeOf, NoTxn

LEMMA CrashInv ==
  ASSUME Inv, Crash
  PROVE  Inv'
<1> USE DEF Crash, Goto, Spend, diskVars, gitVars
<1>1. IsTxn(txn')
  BY NoTxnIsTxn DEF NoTxn, IsTxn
<1>types. TypeOK'
  BY <1>1, StoreAssumption DEF Inv, TypeOK, Phases, CommitIds, TreeOf, ServerOf, IsTxn, IsReceipt, IsPending, NoTxn
<1> QED
  BY <1>types DEF Inv, Addressed, Staged, Committed, CommitIds, TreeOf, NoTxn

LEMMA RestartInv ==
  ASSUME Inv, Restart
  PROVE  Inv'
<1> USE DEF Restart, Goto, Spend, diskVars, gitVars
<1>1. TreeOf(head) \in Tree
  BY CommitFacts DEF Inv, TypeOK
<1>types. TypeOK'
  BY <1>1, StoreAssumption DEF Inv, TypeOK, Phases, CommitIds, TreeOf, ServerOf, IsTxn, IsReceipt, IsPending
<1> QED
  BY <1>types DEF Inv, Addressed, Staged, Committed, CommitIds, TreeOf

LEMMA RecoverPendingInv ==
  ASSUME Inv, RecoverPending
  PROVE  Inv'
<1> USE DEF gitVars, diskVars
<1>1. txn.req \in Requests
  BY DEF RecoverPending, Inv, TypeOK, IsTxn
<1> DEFINE stored == pending[txn.req]
           found  == IF stored = None THEN {}
                     ELSE CommitsForTree(stored.base, stored.tree)
<1>2. found \subseteq CommitIds /\ (found # {} => stored # None)
  BY DEF CommitsForTree
<1>3. \/ /\ phase' = "failed"
         /\ UNCHANGED <<txn, pending>>
      \/ /\ found # {}
         /\ \E c \in found : txn' = [txn EXCEPT !.commit = c, !.pre = stored.pre,
                                               !.post = stored.post]
         /\ phase' = "write_receipt"
         /\ UNCHANGED pending
      \/ /\ phase' = "stage"
         /\ UNCHANGED txn
         /\ pending' = [pending EXCEPT ![txn.req] = None]
  BY DEF RecoverPending, Goto
<1>4. CASE phase' = "failed" /\ UNCHANGED <<txn, pending>>
  <2>1. TypeOK'
    BY <1>4 DEF RecoverPending, Inv, TypeOK, Phases, CommitIds, TreeOf, ServerOf, IsTxn, IsReceipt, IsPending
  <2> QED
    BY <1>4, <2>1 DEF RecoverPending, Inv, Addressed, Staged, Committed, CommitIds, TreeOf
<1>5. CASE /\ found # {}
           /\ \E c \in found : txn' = [txn EXCEPT !.commit = c, !.pre = stored.pre,
                                                 !.post = stored.post]
           /\ phase' = "write_receipt"
           /\ UNCHANGED pending
  <2>1. IsPending(stored)
    BY <1>1, <1>2, <1>5 DEF Inv, TypeOK
  <2>2. IsTxn(txn') /\ txn'.req = txn.req /\ txn'.commit \in CommitIds
    BY <1>2, <1>5, <2>1 DEF Inv, TypeOK, IsTxn, IsPending
  <2>3. TypeOK'
    BY <1>1, <1>5, <2>2 DEF RecoverPending, Inv, TypeOK, Phases, CommitIds, TreeOf, ServerOf, IsTxn, IsReceipt, IsPending
  <2> QED
    BY <1>5, <2>2, <2>3 DEF RecoverPending, Inv, Addressed, Staged, Committed, CommitIds, TreeOf
<1>6. CASE /\ phase' = "stage"
           /\ UNCHANGED txn
           /\ pending' = [pending EXCEPT ![txn.req] = None]
  <2>1. TypeOK'
    BY <1>1, <1>6 DEF RecoverPending, Inv, TypeOK, Phases, CommitIds, TreeOf, ServerOf, IsTxn, IsReceipt, IsPending
  <2> QED
    BY <1>6, <2>1 DEF RecoverPending, Inv, Addressed, Staged, Committed, CommitIds, TreeOf
<1> QED
  BY <1>3, <1>4, <1>5, <1>6

LEMMA StageInv ==
  ASSUME Inv, Stage
  PROVE  Inv'
<1> USE DEF gitVars, diskVars
<1> DEFINE r     == txn.req
           base  == TreeOf(published)
           paths == Touched(r, base)
           next  == Result(r, base)
<1>1. r \in Requests /\ IsRequest(r) /\ published \in CommitIds /\ base \in Tree
  BY StoreAssumption, CommitFacts DEF Stage, Inv, TypeOK, IsTxn
<1>2. CASE ~Acceptable(r)
  <2>1. phase' = "failed" /\ UNCHANGED txn
    BY <1>2 DEF Stage, Goto
  <2>2. TypeOK'
    BY <2>1 DEF Stage, Inv, TypeOK, Phases, CommitIds, TreeOf, ServerOf, IsTxn, IsReceipt, IsPending
  <2> QED
    BY <2>1, <2>2 DEF Stage, Inv, Addressed, Staged, Committed, CommitIds, TreeOf
<1>3. CASE Acceptable(r)
  <2>1. /\ txn' = [txn EXCEPT !.base = published, !.tree = next,
                              !.commit = published,
                              !.pre = Images(base, paths),
                              !.post = Images(next, paths)]
        /\ phase' = IF next = base THEN "write_receipt" ELSE "write_pending"
    BY <1>3 DEF Stage, Goto
  <2>2. next \in Tree /\ paths \subseteq Paths
    BY <1>1, <1>3, ResultIsTree, TouchedArePaths DEF Acceptable
  <2>3. IsImages(Images(base, paths)) /\ IsImages(Images(next, paths))
    BY <1>1, <2>2, ImagesAreImages
  <2> HIDE DEF base, paths, next
  <2>4. /\ IsTxn(txn') /\ txn'.req = r /\ txn'.commit = published
        /\ txn'.base = published /\ txn'.tree = next
    BY <1>1, <2>1, <2>2, <2>3 DEF Inv, TypeOK, IsTxn
  <2>5. TypeOK'
    BY <1>1, <2>1, <2>4 DEF Stage, Inv, TypeOK, Phases, CommitIds, TreeOf, ServerOf, IsTxn, IsReceipt, IsPending
  <2>6. Addressed' /\ Committed'
    BY <1>1, <2>1, <2>4 DEF Stage, Addressed, Committed, CommitIds
  <2>7. Staged'
    BY <1>3, <2>1, <2>4 DEF Stage, Staged, Acceptable, TreeOf, base, next
  <2> QED
    BY <2>5, <2>6, <2>7 DEF Inv
<1> QED
  BY <1>2, <1>3

(* What the rest of the invariant says survives a longer log. *)
LEMMA KeepsTypes ==
  ASSUME Inv, Keeps
  PROVE  /\ \A s : IsReceipt(s) => IsReceipt(s)'
         /\ \A s : IsPending(s) => IsPending(s)'
         /\ \A c \in CommitIds : TreeOf(c)' = TreeOf(c)
BY DEF Keeps, IsReceipt, IsPending, CommitIds, TreeOf

LEMMA CommitTreeInv ==
  ASSUME Inv, CommitTree
  PROVE  Inv'
<1> USE DEF diskVars
<1> DEFINE record == [tree |-> txn.tree, server |-> ServerOf(txn.base),
                      parent |-> txn.base, by |-> txn.req]
<1>1. CASE head # txn.base
  <2>1. TypeOK'
    BY <1>1 DEF CommitTree, Goto, Inv, TypeOK, Phases, CommitIds, TreeOf, ServerOf, IsTxn, IsReceipt, IsPending
  <2> QED
    BY <1>1, <2>1 DEF CommitTree, Goto, Inv, Addressed, Staged, Committed, CommitIds, TreeOf
<1>2. CASE head = txn.base
  <2>1. /\ commits' = Append(commits, record)
        /\ head' = Len(commits')
        /\ txn' = [txn EXCEPT !.commit = Len(commits')]
        /\ phase' = "sync_index"
        /\ UNCHANGED <<worktree, published, blocked, receipts, pending, acks>>
    BY <1>2 DEF CommitTree, Goto
  <2>2. /\ txn.base \in CommitIds /\ txn.tree \in Tree /\ Valid(txn.tree)
        /\ txn.req \in Requests /\ txn.base \in Nat
    BY CommitFacts DEF CommitTree, Inv, TypeOK, IsTxn, Addressed, Staged
  <2>3. record \in CommitType /\ record.parent \in CommitIds
    BY <2>2, CommitFacts DEF CommitType, Inv
  <2>4. commits \in Seq(CommitType) /\ \A c \in CommitIds : commits[c].parent < c
    BY DEF Inv, TypeOK
  <2> HIDE DEF record
  <2>5. /\ Keeps
        /\ commits' \in Seq(CommitType)
        /\ Len(commits') \in DOMAIN commits'
        /\ \A c \in DOMAIN commits' : commits'[c].parent < c
        /\ commits'[Len(commits')] = record
    BY <2>1, <2>3, <2>4, AppendKeeps
  <2>6. /\ \A s : IsReceipt(s) => IsReceipt(s)'
        /\ \A s : IsPending(s) => IsPending(s)'
    BY <2>5, KeepsTypes
  <2>7. IsTxn(txn)' /\ txn'.req = txn.req /\ txn'.commit \in CommitIds'
    BY <2>1, <2>5 DEF Inv, TypeOK, IsTxn, CommitIds, Keeps
  <2>8. acks' \subseteq [req : Requests, commit : CommitIds']
    BY <2>1, <2>5 DEF Inv, TypeOK, CommitIds, Keeps
  <2>9. TypeOK'
    BY <2>1, <2>2, <2>5, <2>6, <2>7, <2>8 DEF CommitTree, Inv, TypeOK, Phases, CommitIds, Keeps
  <2>10. Valid(TreeOf(txn.commit))'
    BY <2>1, <2>2, <2>5, <2>7 DEF TreeOf, Inv, TypeOK, IsTxn, record
  <2>11. txn'.base = txn.base /\ txn.base \in CommitIds'
    BY <2>1, <2>2, <2>5 DEF Inv, TypeOK, IsTxn, Keeps, CommitIds
  <2>12. Addressed' /\ Staged' /\ Committed'
    BY <2>1, <2>7, <2>10, <2>11 DEF Addressed, Staged, Committed
  <2> QED
    BY <2>9, <2>12 DEF Inv
<1> QED
  BY <1>1, <1>2

LEMMA ExternalCommitInv ==
  ASSUME Inv, ExternalCommit
  PROVE  Inv'
<1> USE DEF diskVars
<1>1. PICK tree \in Tree, server \in Servers :
        /\ AppendExternal(tree, server)
        /\ worktree' \in Tree
  BY StoreAssumption, CommitFacts DEF ExternalCommit, Inv, TypeOK, Tree
<1> DEFINE record == [tree |-> tree, server |-> server,
                      parent |-> head, by |-> External]
<1>2. /\ commits' = Append(commits, record)
      /\ head' = Len(commits')
      /\ UNCHANGED <<published, blocked, receipts, pending, phase, txn, acks>>
  BY <1>1 DEF ExternalCommit, AppendExternal
<1>3. record \in CommitType /\ record.parent \in CommitIds
  BY CommitFacts DEF CommitType, Inv, TypeOK
<1>4. commits \in Seq(CommitType) /\ \A c \in CommitIds : commits[c].parent < c
  BY DEF Inv, TypeOK
<1> HIDE DEF record
<1>5. /\ Keeps
      /\ commits' \in Seq(CommitType)
      /\ Len(commits') \in DOMAIN commits'
      /\ \A c \in DOMAIN commits' : commits'[c].parent < c
  BY <1>2, <1>3, <1>4, AppendKeeps
<1>6. /\ \A s : IsReceipt(s) => IsReceipt(s)'
      /\ \A s : IsPending(s) => IsPending(s)'
      /\ \A c \in CommitIds : TreeOf(c)' = TreeOf(c)
  BY <1>5, KeepsTypes
<1>7. IsTxn(txn)'
  BY <1>2, <1>5 DEF Inv, TypeOK, IsTxn, CommitIds, Keeps
<1>8. acks' \subseteq [req : Requests, commit : CommitIds']
  BY <1>2, <1>5 DEF Inv, TypeOK, CommitIds, Keeps
<1>9. TypeOK'
  BY <1>1, <1>2, <1>5, <1>6, <1>7, <1>8 DEF Inv, TypeOK, CommitIds, Keeps
<1>10. Addressed' /\ Staged' /\ Committed'
  BY <1>2, <1>5, <1>6 DEF Inv, Addressed, Staged, Committed, CommitIds, Keeps, TreeOf
<1> QED
  BY <1>9, <1>10 DEF Inv

LEMMA ExternalResetInv ==
  ASSUME Inv, ExternalReset
  PROVE  Inv'
<1> USE DEF diskVars
<1>1. PICK c \in CommitIds : head' = c /\ worktree' = TreeOf(c)
  BY DEF ExternalReset
<1>2. TreeOf(c) \in Tree
  BY CommitFacts DEF Inv
<1>3. TypeOK'
  BY <1>1, <1>2 DEF ExternalReset, Inv, TypeOK, Phases, CommitIds, TreeOf, ServerOf, IsTxn, IsReceipt, IsPending
<1> QED
  BY <1>3 DEF ExternalReset, Inv, Addressed, Staged, Committed, CommitIds, TreeOf

LEMMA NextInv == Inv /\ [Next]_vars => Inv'
<1> SUFFICES ASSUME Inv, [Next]_vars PROVE Inv'
  OBVIOUS
<1>1. CASE UNCHANGED vars
  BY <1>1 DEF vars, Inv, TypeOK, Addressed, Staged, Committed, CommitIds, TreeOf,
              IsTxn, IsReceipt, IsPending
<1>2. CASE \E r \in Requests : Begin(r)
  BY <1>2, BeginInv
<1>3. CASE DaemonStep
  BY <1>3, RefreshInv, ReadReceiptInv, RecoverPendingInv, StageInv,
     WritePendingInv, WriteChangesInv, CommitTreeInv, SyncIndexInv, RollbackInv,
     DropPendingInv, WriteReceiptInv, RemovePendingInv, SucceedInv, FailInv
     DEF DaemonStep
<1>4. CASE Fault
  BY <1>4, WriteChangesFailsInv, CommitTreeFailsInv, SyncIndexFailsInv,
     RollbackFailsInv, ReceiptStepFailsInv DEF Fault
<1>5. CASE HandlerRefresh \/ Crash \/ Restart
  BY <1>5, HandlerRefreshInv, CrashInv, RestartInv
<1>6. CASE ExternalCommit \/ ExternalReset
  BY <1>6, ExternalCommitInv, ExternalResetInv
<1> QED
  BY <1>1, <1>2, <1>3, <1>4, <1>5, <1>6 DEF Next

(* The invariant holds in every reachable state. *)
THEOREM InvAlways == Spec => []Inv
BY InitInv, NextInv, PTL DEF Spec

(* Every variable keeps its type, whatever crashes, fails or is committed   *)
(* by others.                                                               *)
THEOREM TypeCorrect == Spec => []TypeOK
<1>1. Inv => TypeOK
  BY DEF Inv
<1> QED
  BY <1>1, InvAlways, PTL

-----------------------------------------------------------------------------
(***************************************************************************)
(* Which commits a step can add.                                           *)
(***************************************************************************)
IsExactEdit(commit) ==
  /\ commit.by \in Requests
  /\ commit.parent \in CommitIds
  /\ Admitted(commit.by, TreeOf(commit.parent))
  /\ commit.tree = Result(commit.by, TreeOf(commit.parent))
  /\ commit.tree # TreeOf(commit.parent)

(* A step adds a commit of the operator or, unblocked, an exact edit. *)
LEMMA NewCommits ==
  ASSUME Inv, [Next]_vars
  PROVE  /\ Keeps
         /\ \A c \in DOMAIN commits' \ CommitIds :
              commits'[c].by = External \/ (~blocked /\ IsExactEdit(commits'[c]))
<1>1. CASE UNCHANGED commits
  BY <1>1 DEF Keeps, CommitIds
<1>2. CASE CommitTree /\ commits' # commits
  <2> DEFINE record == [tree |-> txn.tree, server |-> ServerOf(txn.base),
                        parent |-> txn.base, by |-> txn.req]
  <2>1. commits' = Append(commits, record)
    BY <1>2 DEF CommitTree
  <2>2. /\ txn.base \in CommitIds /\ txn.tree \in Tree
        /\ txn.req \in Requests /\ txn.base \in Nat
    BY <1>2, CommitFacts DEF CommitTree, Inv, TypeOK, IsTxn, Addressed, Staged
  <2>3. record \in CommitType /\ record.parent \in CommitIds
    BY <2>2, CommitFacts DEF CommitType, Inv
  <2>4. commits \in Seq(CommitType) /\ \A c \in CommitIds : commits[c].parent < c
    BY DEF Inv, TypeOK
  <2>5. ~blocked /\ IsExactEdit(record)
    BY <1>2, <2>2 DEF CommitTree, Inv, Staged, IsExactEdit, TreeOf
  <2> HIDE DEF record
  <2>6. /\ Keeps
        /\ \A c \in DOMAIN commits' \ CommitIds : commits'[c] = record
    BY <2>1, <2>3, <2>4, AppendKeeps
  <2> QED
    BY <2>5, <2>6
<1>3. CASE ExternalCommit
  <2>1. PICK tree \in Tree, server \in Servers : AppendExternal(tree, server)
    BY <1>3, StoreAssumption, CommitFacts DEF ExternalCommit, Inv, TypeOK, Tree
  <2> DEFINE record == [tree |-> tree, server |-> server,
                        parent |-> head, by |-> External]
  <2>2. commits' = Append(commits, record) /\ record.by = External
    BY <2>1 DEF AppendExternal
  <2>3. record \in CommitType /\ record.parent \in CommitIds
    BY CommitFacts DEF CommitType, Inv, TypeOK
  <2>4. commits \in Seq(CommitType) /\ \A c \in CommitIds : commits[c].parent < c
    BY DEF Inv, TypeOK
  <2> HIDE DEF record
  <2>5. /\ Keeps
        /\ \A c \in DOMAIN commits' \ CommitIds : commits'[c] = record
    BY <2>2, <2>3, <2>4, AppendKeeps
  <2> QED
    BY <2>2, <2>5
<1> QED
  BY <1>1, <1>2, <1>3 DEF Next, vars, gitVars, DaemonStep, Fault, Begin, Refresh,
     ReadReceipt, RecoverPending, Stage, WritePending, WriteChanges, SyncIndex,
     Rollback, DropPending, WriteReceipt, RemovePending, Succeed, Fail,
     HandlerRefresh, Crash, Restart, ExternalReset, WriteChangesFails,
     CommitTreeFails, SyncIndexFails, RollbackFails, ReceiptStepFails

(* No step of mdstore, nor any staged request, advances the branch while an *)
(* external commit has writes blocked: an edit is staged unblocked, and the *)
(* handlers that could block it meanwhile need the repository lock.         *)
THEOREM NoCommitWhileBlocked == Spec => BlockedMeansNoCommit
<1>1. Inv /\ [Next]_vars =>
        (blocked => \A c \in DOMAIN commits' \ DOMAIN commits :
                      commits'[c].by = External)
  BY NewCommits DEF CommitIds
<1> QED
  BY <1>1, InvAlways, PTL DEF Spec, BlockedMeansNoCommit

-----------------------------------------------------------------------------
(* Every commit of mdstore has a parent and is an exact edit of its tree. *)
Exact == \A c \in CommitIds : commits[c].by # External => IsExactEdit(commits[c])

LEMMA ExactStep == Inv /\ Exact /\ [Next]_vars => Exact'
<1> SUFFICES ASSUME Inv, Exact, [Next]_vars,
                    NEW c \in CommitIds', commits'[c].by # External
             PROVE  IsExactEdit(commits[c])'
  BY DEF Exact
<1>1. Keeps /\ IsExactEdit(commits'[c])
  <2>1. CASE c \in CommitIds
    BY <2>1, NewCommits DEF Keeps, Exact
  <2>2. CASE c \notin CommitIds
    BY <2>2, NewCommits DEF CommitIds
  <2> QED
    BY <2>1, <2>2
<1>2. \A d \in CommitIds : d \in CommitIds' /\ TreeOf(d)' = TreeOf(d)
  BY <1>1 DEF Keeps, CommitIds, TreeOf
<1> QED
  BY <1>1, <1>2 DEF IsExactEdit

(* In every reachable state the commits of mdstore are exact edits. *)
THEOREM ExactAlways == Spec => []Exact
<1>1. Init => Exact
  <2>1. Init => DOMAIN commits = {1} /\ commits[1].by = External
    BY DEF Init
  <2> QED
    BY <2>1 DEF Exact, CommitIds
<1> QED
  BY <1>1, ExactStep, InvAlways, PTL DEF Spec

(* No concurrent commit is ever lost: whatever the operator commits or      *)
(* resets between two steps of a transaction, each commit of mdstore is its *)
(* request applied to the tree of its own parent.  The compare-and-swap of  *)
(* commit_tree is what carries the proof: it makes the base that the batch  *)
(* was checked against the parent of the commit.                            *)
THEOREM EveryCommitIsAnEdit == Spec => []CommitsAreEdits
<1>1. Exact => CommitsAreEdits
  BY DEF Exact, CommitsAreEdits, IsExactEdit, TreeOf
<1> QED
  BY <1>1, ExactAlways, PTL

-----------------------------------------------------------------------------
(* What readers see is valid, in the states that have a snapshot. *)
LEMMA PublishedStep == Inv /\ PublishedIsValid /\ [Next]_vars => PublishedIsValid'
<1> SUFFICES ASSUME Inv, PublishedIsValid, [Next]_vars, phase' # "down"
             PROVE  Valid(TreeOf(published))'
  BY DEF PublishedIsValid
<1>1. \A c \in CommitIds : TreeOf(c)' = TreeOf(c)
  BY NewCommits DEF Keeps, TreeOf
<1>2. published' \in CommitIds /\ Valid(TreeOf(published'))
  <2>1. CASE UNCHANGED published /\ phase # "down"
    BY <2>1 DEF PublishedIsValid, Inv, TypeOK
  <2>2. CASE published' = head /\ Valid(TreeOf(head))
    BY <2>2 DEF Inv, TypeOK
  <2>3. CASE SyncIndex
    BY <2>3, <2>1 DEF SyncIndex, Inv, Addressed, Committed
  <2>4. CASE Refresh \/ HandlerRefresh
    BY <2>4, <2>1, <2>2 DEF Refresh, HandlerRefresh, RefreshExternalCommit, Loads
  <2>5. CASE Restart
    BY <2>5, <2>2 DEF Restart
  <2>6. CASE UNCHANGED vars
    BY <2>6, <2>1 DEF vars
  <2> QED
    BY <2>1, <2>3, <2>4, <2>5, <2>6 DEF Next, gitVars, DaemonStep, Fault, Begin,
       ReadReceipt, RecoverPending, Stage, WritePending, WriteChanges, CommitTree,
       Rollback, DropPending, WriteReceipt, RemovePending, Succeed, Fail,
       Crash, ExternalCommit, ExternalReset, WriteChangesFails, Goto,
       CommitTreeFails, SyncIndexFails, RollbackFails, ReceiptStepFails
<1> QED
  BY <1>1, <1>2 DEF TreeOf

(* Readers only ever see a valid tree, whatever the operator commits: each  *)
(* way of publishing a head validates it or publishes a staged valid tree.  *)
THEOREM OnlyValidIsPublished == Spec => []PublishedIsValid
<1>1. Init => PublishedIsValid
  BY StoreAssumption DEF Init, PublishedIsValid, TreeOf
<1> QED
  BY <1>1, PublishedStep, InvAlways, PTL DEF Spec

-----------------------------------------------------------------------------
(***************************************************************************)
(* The files and the history of the branch.                                *)
(***************************************************************************)
(* What a transaction intends: the request on the tree of the base. *)
IsIntent(log, s, r) ==
  /\ s.base \in DOMAIN log
  /\ Admitted(r, log[s.base].tree)
  /\ s.tree = Result(r, log[s.base].tree)
  /\ s.pre = Images(log[s.base].tree, Touched(r, log[s.base].tree))
  /\ s.post = Images(s.tree, Touched(r, log[s.base].tree))

StagedPhases == {"write_pending", "write_changes", "commit", "sync_index",
                 "rollback", "drop_pending"}

(* Pending receipts, and the transaction from staging on, record intents;   *)
(* once the checkout may change the pending receipt is that of the          *)
(* transaction.                                                             *)
Intents ==
  /\ \A r \in Requests : pending[r] # None => IsIntent(commits, pending[r], r)
  /\ phase \in StagedPhases => IsIntent(commits, txn, txn.req)
  /\ phase \in StagedPhases \ {"write_pending"} =>
       pending[txn.req] # None /\ pending[txn.req].base = txn.base

-----------------------------------------------------------------------------
Before(log, c) == log[log[c].parent].tree

(* Each page c changed had its earlier text again in a later commit. *)
Undone(log, c) ==
  \A p \in Paths : log[c].tree[p] # Before(log, c)[p] =>
    \E e \in DOMAIN log : e > c /\ log[e].tree[p] = Before(log, c)[p]

(* The images hold the earlier text of each page c changed. *)
Restores(log, images, c) ==
  \A p \in Paths : log[c].tree[p] # Before(log, c)[p] =>
    p \in DOMAIN images /\ images[p] = Before(log, c)[p]

ByReceipt(c) == /\ receipts[commits[c].by] # None
                /\ Restores(commits, receipts[commits[c].by].pre, c)

ByPending(c) == /\ pending[commits[c].by] # None
                /\ pending[commits[c].by].base = commits[c].parent

OwnCommits == {c \in Ancestors(head) : commits[c].by # External}

(* What the steps of the transaction know of earlier commits of its request.*)
KnownByPhase(c) ==
  /\ phase \in {"receipt", "pending"} => c <= published
  /\ phase \in {"pending", "sync_index", "rollback", "drop_pending"} =>
       Undone(commits, c) \/ ByPending(c)
  /\ phase \in {"stage", "write_pending", "write_changes", "commit"} =>
       Undone(commits, c)
  /\ phase = "write_receipt" =>
       Undone(commits, c) \/ Restores(commits, txn.pre, c)
  /\ phase = "remove_pending" => Undone(commits, c) \/ ByReceipt(c)

Remembered ==
  \A c \in OwnCommits :
    /\ Undone(commits, c) \/ ByReceipt(c) \/ ByPending(c)
    /\ commits[c].by = txn.req => KnownByPhase(c)

-----------------------------------------------------------------------------
(* The branch up to c has applied r, and c still holds the effect. *)
HoldsEffect(log, c, r) ==
  \E base \in AncestorsIn(log, c) :
    /\ Admitted(r, log[base].tree)
    /\ \A p \in Touched(r, log[base].tree) :
         log[c].tree[p] = Result(r, log[base].tree)[p]

(* The commits answers are about to name hold the effect of the request. *)
Answers ==
  /\ \A r \in Requests :
       receipts[r] # None => HoldsEffect(commits, receipts[r].commit, r)
  /\ phase = "sync_index" => /\ commits[txn.commit].parent = txn.base
                             /\ commits[txn.commit].tree = txn.tree
  /\ phase \in {"write_receipt", "remove_pending", "succeeded"} =>
       HoldsEffect(commits, txn.commit, txn.req)

(* The snapshot shows the pages of these images. *)
Shown(images) ==
  \A p \in DOMAIN images :
    images[p] # Absent => commits[published].tree[p] = images[p]

Current ==
  /\ phase = "write_receipt" => Shown(txn.post)
  /\ phase \in {"remove_pending", "succeeded"} =>
       receipts[txn.req] # None /\ Shown(receipts[txn.req].post)

-----------------------------------------------------------------------------
(* The bound on faults is never exceeded. *)
FaultsLeft == /\ "faults" \in DOMAIN budget /\ budget.faults \in Nat
              /\ "broken" \in DOMAIN budget /\ budget.broken \in Nat
              /\ budget.faults <= MaxFaults

(* Where the checkout is that of the branch, and where only outside the     *)
(* paths of the batch.                                                      *)
Checkout ==
  /\ FaultsLeft
  /\ phase \in {"refresh", "receipt", "pending", "stage", "write_pending",
                "write_changes"} => worktree = TreeOf(head)
  /\ phase \in {"commit", "rollback", "sync_index"} =>
       \A p \in Paths \ DOMAIN txn.post : worktree[p] = TreeOf(head)[p]
  /\ phase = "drop_pending" /\ budget.broken = 0 => worktree = TreeOf(head)
  /\ phase = "failed" /\ budget.broken = 0 /\ budget.faults = MaxFaults =>
       worktree = TreeOf(head)

HistInv == Intents /\ Remembered /\ Answers /\ Current /\ Checkout

-----------------------------------------------------------------------------
(***************************************************************************)
(* A log that only grows keeps what was said of its commits.               *)
(***************************************************************************)
Grows(log, longer) == /\ DOMAIN log \subseteq DOMAIN longer
                      /\ \A c \in DOMAIN log : longer[c] = log[c]

IsLog(log) == /\ DOMAIN log = 1 .. Len(log)
              /\ Len(log) \in Nat
              /\ ParentsAreOlder(log, Len(log))

LEMMA GrowthKeepsIntent ==
  ASSUME NEW log, NEW longer, Grows(log, longer), NEW s, NEW r,
         IsIntent(log, s, r)
  PROVE  IsIntent(longer, s, r)
BY DEF Grows, IsIntent

LEMMA GrowthKeepsCommit ==
  ASSUME NEW log, NEW longer, Grows(log, longer),
         NEW c \in DOMAIN log, log[c].parent \in DOMAIN log
  PROVE  /\ longer[c] = log[c]
         /\ Undone(log, c) => Undone(longer, c)
         /\ \A images : Restores(log, images, c) <=> Restores(longer, images, c)
<1>1. longer[c] = log[c] /\ Before(longer, c) = Before(log, c)
  BY DEF Grows, Before
<1>2. Undone(log, c) => Undone(longer, c)
  BY <1>1 DEF Grows, Undone
<1>3. \A images : Restores(log, images, c) <=> Restores(longer, images, c)
  BY <1>1 DEF Restores
<1> QED
  BY <1>1, <1>2, <1>3

LEMMA GrowthKeepsAncestors ==
  ASSUME NEW log, NEW longer, Grows(log, longer), IsLog(log), NEW c \in DOMAIN log
  PROVE  /\ AncestorsIn(longer, c) = AncestorsIn(log, c)
         /\ AncestorsIn(log, c) \subseteq DOMAIN log
<1>1. c \in Nat /\ \A d \in 1 .. c : d \in DOMAIN log
  BY DEF IsLog
<1>2. \A d \in 1 .. c : longer[d].parent = log[d].parent
  BY <1>1 DEF Grows
<1>3. AncestorsIn(longer, c) = AncestorsIn(log, c)
  BY <1>1, <1>2, AncestorsOfPrefix
<1> QED
  BY <1>1, <1>3 DEF AncestorsIn

LEMMA GrowthKeepsEffect ==
  ASSUME NEW log, NEW longer, Grows(log, longer), IsLog(log),
         NEW c \in DOMAIN log, NEW r, HoldsEffect(log, c, r)
  PROVE  HoldsEffect(longer, c, r)
<1>1. PICK base \in AncestorsIn(log, c) :
        /\ Admitted(r, log[base].tree)
        /\ \A p \in Touched(r, log[base].tree) :
             log[c].tree[p] = Result(r, log[base].tree)[p]
  BY DEF HoldsEffect
<1>2. base \in AncestorsIn(longer, c) /\ longer[base] = log[base]
      /\ longer[c] = log[c]
  BY GrowthKeepsAncestors DEF Grows
<1> QED
  BY <1>1, <1>2 DEF HoldsEffect

-----------------------------------------------------------------------------
(* The log of a reachable state, and what a step does to it. *)
LEMMA LogFacts ==
  ASSUME Inv
  PROVE  /\ IsLog(commits)
         /\ head \in CommitIds
         /\ \A c \in CommitIds : /\ c \in Nat \ {0}
                                 /\ ParentsAreOlder(commits, c)
                                 /\ Ancestors(c) \subseteq 1 .. c
                                 /\ Ancestors(c) \subseteq CommitIds
                                 /\ c \in Ancestors(c)
<1>1. CommitIds = 1 .. Len(commits) /\ Len(commits) \in Nat
  BY CommitFacts DEF Inv
<1>2. \A d \in CommitIds : commits[d].parent \in 0 .. d - 1
  <2>1. \A d \in CommitIds : commits[d].parent \in Nat /\ commits[d].parent < d
    BY CommitFacts DEF Inv, TypeOK, CommitType
  <2> QED
    BY <1>1, <2>1
<1>3. \A c \in CommitIds : ParentsAreOlder(commits, c)
  BY <1>1, <1>2 DEF ParentsAreOlder
<1>4. IsLog(commits)
  BY <1>1, <1>2 DEF IsLog, ParentsAreOlder, CommitIds
<1>5. \A c \in CommitIds : c \in Nat \ {0} /\ c \in Ancestors(c)
  BY <1>1, AncestorSelf DEF Ancestors
<1>6. \A c \in CommitIds : /\ Ancestors(c) \subseteq 1 .. c
                           /\ Ancestors(c) \subseteq CommitIds
  BY <1>1 DEF Ancestors, AncestorsIn
<1>7. head \in CommitIds
  BY DEF Inv, TypeOK
<1> QED
  BY <1>3, <1>4, <1>5, <1>6, <1>7

LEMMA StepGrows ==
  ASSUME Inv, [Next]_vars
  PROVE  /\ Grows(commits, commits')
         /\ CommitIds = DOMAIN commits
         /\ CommitIds' = DOMAIN commits'
         /\ \A c \in CommitIds : Ancestors(c)' = Ancestors(c)
<1>1. Grows(commits, commits')
  BY NewCommits DEF Keeps, Grows, CommitIds
<1> QED
  BY <1>1, LogFacts, GrowthKeepsAncestors DEF CommitIds, Ancestors

(* An own commit on the branch is an exact edit by a request. *)
LEMMA OwnCommitFacts ==
  ASSUME Inv, Exact, NEW c \in OwnCommits
  PROVE  /\ c \in CommitIds /\ c <= head
         /\ commits[c].by \in Requests
         /\ IsRequest(commits[c].by)
         /\ commits[c].parent \in CommitIds
         /\ Before(commits, c) \in Tree
         /\ commits[c].tree \in Tree
         /\ Admitted(commits[c].by, Before(commits, c))
         /\ commits[c].tree = Result(commits[c].by, Before(commits, c))
<1>1. c \in CommitIds /\ c \in 1 .. head /\ commits[c].by # External
  BY LogFacts DEF OwnCommits
<1>2. IsExactEdit(commits[c])
  BY <1>1 DEF Exact
<1>3. Before(commits, c) \in Tree /\ commits[c].tree \in Tree
  BY <1>1, <1>2, CommitFacts DEF Inv, IsExactEdit, Before, TreeOf
<1> QED
  BY <1>1, <1>2, <1>3, StoreAssumption, LogFacts DEF IsExactEdit, Before, TreeOf

(* The own commits after a step: those before it, and the new commit of a   *)
(* successful CommitTree.                                                   *)
LEMMA OwnCommitsStep ==
  ASSUME Inv, Exact, [Next]_vars, NEW c \in OwnCommits'
  PROVE  \/ c \in OwnCommits /\ commits'[c] = commits[c]
         \/ /\ CommitTree /\ head = txn.base /\ c = head'
            /\ commits'[c].by = txn.req /\ commits'[c].parent = txn.base
<1>1. c \in AncestorsIn(commits', head') /\ commits'[c].by # External
  BY DEF OwnCommits, Ancestors
<1>2. \A d \in CommitIds : commits'[d] = commits[d] /\ Ancestors(d)' = Ancestors(d)
  BY StepGrows DEF Grows
<1>3. CASE head' \in CommitIds /\ Ancestors(head') \subseteq Ancestors(head)
  <2>1. c \in Ancestors(head)
    BY <1>1, <1>2, <1>3 DEF Ancestors
  <2> QED
    BY <1>1, <1>2, <2>1, LogFacts DEF OwnCommits
<1>4. ASSUME NEW record \in CommitType, record.parent = head,
             commits' = Append(commits, record), head' = Len(commits')
      PROVE  /\ c \in Ancestors(head) \/ c = head'
             /\ commits'[head'] = record
  <2>1. commits \in Seq(CommitType) /\ \A d \in CommitIds : commits[d].parent < d
    BY DEF Inv, TypeOK
  <2>2. /\ commits'[head'] = record
        /\ DOMAIN commits' = 1 .. Len(commits) + 1
        /\ head' = Len(commits) + 1
        /\ head' \in DOMAIN commits'
    BY <1>4, <2>1, LogFacts, AppendKeeps
  <2>3. Len(commits) \in Nat /\ head \in 1 .. Len(commits)
    BY LogFacts DEF IsLog, CommitIds
  <2>4. ParentsAreOlder(commits', head')
    <3>1. \A d \in 1 .. Len(commits) :
            d \in CommitIds /\ commits'[d] = commits[d]
      BY <1>2, LogFacts DEF IsLog, CommitIds
    <3>2. \A d \in 1 .. Len(commits) : commits'[d].parent \in 0 .. d - 1
      BY <3>1, LogFacts DEF IsLog, ParentsAreOlder
    <3>3. commits'[head'].parent = head /\ head \in 0 .. head' - 1
      BY <1>4, <2>2, <2>3
    <3>4. \A d \in 1 .. head' : d \in 1 .. Len(commits) \/ d = head'
      BY <2>2, <2>3
    <3> QED
      BY <3>2, <3>3, <3>4 DEF ParentsAreOlder
  <2>5. c = head' \/ c \in AncestorsIn(commits', head)
    <3>1. head' \in Nat /\ commits'[head'].parent = head
      BY <1>4, <2>2, <2>3
    <3> QED
      BY <1>1, <2>4, <3>1, AncestorUnfolds
  <2> QED
    BY <1>2, <2>2, <2>5, LogFacts DEF Ancestors
<1>5. CASE CommitTree /\ head = txn.base
  <2> DEFINE record == [tree |-> txn.tree, server |-> ServerOf(txn.base),
                        parent |-> txn.base, by |-> txn.req]
  <2>1. commits' = Append(commits, record) /\ head' = Len(commits')
    BY <1>5 DEF CommitTree
  <2>2. record \in CommitType /\ record.parent = head
    <3>1. /\ txn.tree \in Tree /\ txn.req \in Requests /\ head \in Nat
          /\ ServerOf(txn.base) \in Servers
      BY <1>5, CommitFacts, LogFacts DEF CommitTree, Inv, TypeOK, IsTxn
    <3> QED
      BY <1>5, <3>1 DEF CommitType
  <2>3. record.by = txn.req /\ record.parent = txn.base
    OBVIOUS
  <2> HIDE DEF record
  <2>4. (c \in Ancestors(head) \/ c = head') /\ commits'[head'] = record
    BY <1>4, <2>1, <2>2
  <2> QED
    BY <1>1, <1>2, <1>5, <2>3, <2>4, LogFacts DEF OwnCommits
<1>6. CASE ExternalCommit
  <2>1. PICK tree \in Tree, server \in Servers : AppendExternal(tree, server)
    BY <1>6, StoreAssumption, CommitFacts DEF ExternalCommit, Inv, TypeOK, Tree
  <2> DEFINE record == [tree |-> tree, server |-> server,
                        parent |-> head, by |-> External]
  <2>2. commits' = Append(commits, record) /\ head' = Len(commits')
    BY <2>1 DEF AppendExternal
  <2>3. record \in CommitType /\ record.parent = head /\ record.by = External
    BY LogFacts DEF CommitType
  <2> HIDE DEF record
  <2>4. (c \in Ancestors(head) \/ c = head') /\ commits'[head'] = record
    BY <1>4, <2>2, <2>3
  <2> QED
    BY <1>1, <1>2, <2>3, <2>4, LogFacts DEF OwnCommits
<1>7. CASE ExternalReset
  <2>1. head' \in CommitIds /\ head' \in Ancestors(head) /\ head' \in Nat
    BY <1>7, LogFacts DEF ExternalReset
  <2>2. \A a \in Ancestors(head') : a \in Ancestors(head)
    BY <2>1, LogFacts, AncestorTransitive DEF Ancestors
  <2> QED
    BY <1>3, <2>1, <2>2
<1>8. CASE UNCHANGED head
  BY <1>3, <1>8, LogFacts
<1> QED
  BY <1>5, <1>6, <1>7, <1>8 DEF Next, vars, gitVars, DaemonStep, Fault, Begin,
     Refresh, ReadReceipt, RecoverPending, Stage, WritePending, WriteChanges,
     CommitTree, SyncIndex, Rollback, DropPending, WriteReceipt, RemovePending,
     Succeed, Fail, HandlerRefresh, Crash, Restart, WriteChangesFails,
     CommitTreeFails, SyncIndexFails, RollbackFails, ReceiptStepFails

-----------------------------------------------------------------------------
(***************************************************************************)
(* Intents.                                                                *)
(***************************************************************************)
(* A receipt in a file is not the absence of one. *)
LEMMA IntentIsNoNone ==
  ASSUME NEW base \in Nat, NEW tree \in Tree, NEW pre, NEW post,
         IsImages(pre), IsImages(post)
  PROVE  /\ [base |-> base, tree |-> tree, pre |-> pre, post |-> post] # None
         /\ [commit |-> base, pre |-> pre, post |-> post] # None
<1>1. pre \in ImageSet /\ post \in ImageSet
  BY DEF IsImages, ImageSet
<1>2. /\ [base |-> base, tree |-> tree, pre |-> pre, post |-> post] \in PendingSet
      /\ [commit |-> base, pre |-> pre, post |-> post] \in ReceiptSet
  BY <1>1 DEF PendingSet, ReceiptSet
<1> QED
  BY <1>2, StoreAssumption

LEMMA IntentsInit == Init => Intents
BY DEF Init, Intents, StagedPhases

LEMMA IntentsStep ==
  ASSUME Inv, Intents, [Next]_vars
  PROVE  Intents'
<1>1. \A s, r : IsIntent(commits, s, r) => IsIntent(commits', s, r)
  BY StepGrows, GrowthKeepsIntent
<1>2. CASE Stage
  <2>1. CASE Acceptable(txn.req)
    <3> DEFINE base == TreeOf(published)
               paths == Touched(txn.req, base)
    <3>1. /\ txn' = [txn EXCEPT !.base = published, !.tree = Result(txn.req, base),
                                !.commit = published,
                                !.pre = Images(base, paths),
                                !.post = Images(Result(txn.req, base), paths)]
          /\ phase' \in {"write_receipt", "write_pending"}
          /\ UNCHANGED <<commits, pending>>
      BY <1>2, <2>1 DEF Stage, Goto, gitVars, diskVars
    <3>2. published \in CommitIds /\ Admitted(txn.req, base)
      BY <1>2, <2>1 DEF Stage, Acceptable, Inv, TypeOK
    <3> HIDE DEF base, paths
    <3>3. /\ txn'.req = txn.req /\ txn'.base = published
          /\ txn'.tree = Result(txn.req, base)
          /\ txn'.pre = Images(base, paths)
          /\ txn'.post = Images(txn'.tree, paths)
      BY <3>1 DEF Inv, TypeOK, IsTxn
    <3>4. IsIntent(commits, txn', txn'.req)
      BY <3>2, <3>3 DEF IsIntent, base, paths, TreeOf, CommitIds
    <3> QED
      BY <3>1, <3>4 DEF Intents, StagedPhases
  <2>2. CASE ~Acceptable(txn.req)
    BY <1>2, <2>2 DEF Stage, Goto, gitVars, diskVars, Intents, StagedPhases
  <2> QED
    BY <2>1, <2>2
<1>3. CASE WritePending
  <2> DEFINE record == [base |-> txn.base, tree |-> txn.tree,
                        pre |-> txn.pre, post |-> txn.post]
  <2>1. /\ pending' = [pending EXCEPT ![txn.req] = record]
        /\ phase' = "write_changes"
        /\ UNCHANGED <<commits, txn>>
    BY <1>3 DEF WritePending, Goto, gitVars
  <2>2. IsIntent(commits, txn, txn.req)
    BY <1>3 DEF WritePending, Intents, StagedPhases
  <2>3. IsIntent(commits, record, txn.req) /\ record # None /\ record.base = txn.base
    <3>1. record # None
      <4>1. IsImages(txn.pre) /\ IsImages(txn.post) /\ txn.tree \in Tree
        BY DEF Inv, TypeOK, IsTxn
      <4>2. txn.base \in Nat
        BY <1>3, LogFacts DEF WritePending, Inv, Addressed
      <4> QED
        BY <4>1, <4>2, IntentIsNoNone
    <3> QED
      BY <2>2, <3>1 DEF IsIntent
  <2>4. txn.req \in Requests /\ DOMAIN pending = Requests
    BY <1>3 DEF WritePending, Inv, TypeOK, IsTxn
  <2> HIDE DEF record
  <2> QED
    BY <2>1, <2>2, <2>3, <2>4 DEF Intents
<1>4. CASE RecoverPending \/ RemovePending \/ DropPending
  <2>1. /\ \A r \in Requests : pending'[r] # None => pending'[r] = pending[r]
        /\ phase' \notin StagedPhases
        /\ UNCHANGED commits
    BY <1>4 DEF RecoverPending, RemovePending, DropPending, Goto, StagedPhases,
                gitVars, Inv, TypeOK
  <2> QED
    BY <2>1 DEF Intents
<1>5. ASSUME UNCHANGED pending, ~Stage, ~WritePending,
             ~(RecoverPending \/ RemovePending \/ DropPending)
      PROVE  Intents'
  <2>1. CASE CommitTree
    <3>1. /\ phase = "commit" /\ phase' \in {"sync_index", "rollback"}
          /\ txn' = txn \/ txn' = [txn EXCEPT !.commit = Len(commits')]
      BY <2>1 DEF CommitTree, Goto
    <3>2. /\ txn'.req = txn.req /\ txn'.base = txn.base /\ txn'.tree = txn.tree
          /\ txn'.pre = txn.pre /\ txn'.post = txn.post
      <4>1. CASE txn' = txn
        BY <4>1
      <4>2. CASE txn' = [txn EXCEPT !.commit = Len(commits')]
        BY <4>2
      <4> QED
        BY <3>1, <4>1, <4>2
    <3>3. IsIntent(commits, txn', txn'.req)
      BY <3>1, <3>2 DEF Intents, IsIntent, StagedPhases
    <3> QED
      BY <1>1, <1>5, <3>1, <3>2, <3>3 DEF Intents, StagedPhases
  <2>2. CASE ~CommitTree
    <3>1. phase' \in StagedPhases =>
            /\ phase \in StagedPhases
            /\ phase' # "write_pending" => phase # "write_pending"
            /\ txn' = txn
      BY <1>5, <2>2 DEF Next, vars, gitVars, DaemonStep, Fault, Begin, Goto,
         StagedPhases, Refresh, ReadReceipt, WriteChanges, SyncIndex, Rollback,
         WriteReceipt, Succeed, Fail, HandlerRefresh, Crash, Restart,
         WriteChangesFails, CommitTreeFails, SyncIndexFails, RollbackFails,
         ReceiptStepFails, ExternalCommit, ExternalReset
    <3> QED
      BY <1>1, <1>5, <3>1 DEF Intents
  <2> QED
    BY <2>1, <2>2
<1> QED
  BY <1>2, <1>3, <1>4, <1>5 DEF Next, vars, gitVars, diskVars, DaemonStep, Fault,
     Begin, Refresh, ReadReceipt, Stage, WriteChanges, CommitTree, SyncIndex,
     Rollback, WriteReceipt, Succeed, Fail, HandlerRefresh, Crash, Restart,
     WriteChangesFails, CommitTreeFails, SyncIndexFails, RollbackFails,
     ReceiptStepFails, ExternalCommit, ExternalReset

-----------------------------------------------------------------------------
(***************************************************************************)
(* Remembered.                                                             *)
(***************************************************************************)

(* The images of an intent restore the commit made of it. *)
LEMMA IntentOfCommit ==
  ASSUME Inv, Exact, NEW c \in OwnCommits, NEW s,
         IsIntent(commits, s, commits[c].by), s.base = commits[c].parent
  PROVE  /\ Restores(commits, s.pre, c)
         /\ commits[c].tree = s.tree
<1> DEFINE r == commits[c].by
           base == Before(commits, c)
<1>1. /\ IsRequest(r) /\ base \in Tree
      /\ commits[c].tree = Result(r, base)
  BY OwnCommitFacts
<1>2. /\ s.tree = Result(r, base)
      /\ s.pre = Images(base, Touched(r, base))
  BY DEF IsIntent, Before
<1>3. ASSUME NEW p \in Paths, commits[c].tree[p] # base[p]
      PROVE  p \in DOMAIN s.pre /\ s.pre[p] = base[p]
  <2>1. p \in Touched(r, base)
    BY <1>1, <1>3, UntouchedKeep
  <2> QED
    BY <1>2, <2>1 DEF Images
<1> QED
  BY <1>1, <1>2, <1>3 DEF Restores

(* A replay that finds every page reverted sees an undone commit: the pages *)
(* it reads are of commits made after it.                                   *)
LEMMA RevertedIsUndone ==
  ASSUME Inv, Exact, NEW c \in OwnCommits, phase # "down", c <= published,
         NEW images, Restores(commits, images, c),
         \A p \in DOMAIN images : CurrentImage(p) = images[p]
  PROVE  Undone(commits, c)
<1>1. /\ head \in CommitIds /\ published \in CommitIds
      /\ c \in Nat /\ head \in Nat /\ published \in Nat
      /\ c <= head /\ c <= published
  BY OwnCommitFacts, LogFacts DEF Inv, TypeOK
<1>2. ASSUME NEW p \in Paths, commits[c].tree[p] # Before(commits, c)[p]
      PROVE  \E e \in CommitIds : e > c /\ commits[e].tree[p] = Before(commits, c)[p]
  <2>1. CurrentImage(p) = Before(commits, c)[p]
    BY <1>2 DEF Restores
  <2>2. PICK e \in {head, published} : commits[e].tree[p] = Before(commits, c)[p]
    BY <2>1 DEF CurrentImage, TreeOf
  <2>3. e \in CommitIds /\ c <= e /\ e # c
    BY <1>1, <1>2, <2>2
  <2> QED
    BY <1>1, <2>2, <2>3
<1> QED
  BY <1>2 DEF Undone, CommitIds

(* The commit of a pending receipt is found on the branch by its tree. *)
LEMMA CommitIsFound ==
  ASSUME Inv, Exact, NEW c \in OwnCommits, NEW s,
         IsIntent(commits, s, commits[c].by), s.base = commits[c].parent
  PROVE  c \in CommitsForTree(s.base, s.tree)
<1>1. /\ c \in CommitIds /\ c \in Ancestors(head) /\ s.base \in CommitIds
      /\ c \in Nat /\ s.base \in Nat /\ s.base < c /\ s.base \in 1 .. c
  BY OwnCommitFacts, LogFacts DEF OwnCommits, Inv, TypeOK
<1>2. s.base \in Ancestors(head)
  BY <1>1, LogFacts, AncestorParent DEF Ancestors
<1>3. c \notin Ancestors(s.base)
  BY <1>1, LogFacts
<1>4. TreeOf(c) = s.tree
  BY IntentOfCommit DEF TreeOf
<1> QED
  BY <1>1, <1>2, <1>3, <1>4 DEF CommitsForTree

LEMMA RememberedInit == Init => Remembered
<1> SUFFICES ASSUME Init, NEW c \in OwnCommits PROVE FALSE
  BY DEF Remembered
<1>1. head = 1 /\ commits[1].by = External
  BY DEF Init
<1>2. c = 1
  BY <1>1 DEF OwnCommits, Ancestors, AncestorsIn
<1> QED
  BY <1>1, <1>2 DEF OwnCommits

(* The new commit of a successful CommitTree is remembered by the pending   *)
(* receipt.                                                                 *)
LEMMA NewCommitRemembered ==
  ASSUME Inv, Exact, Intents, CommitTree, head = txn.base, NEW c,
         commits'[c].by = txn.req, commits'[c].parent = txn.base
  PROVE  ByPending(c)' /\ KnownByPhase(c)'
<1>1. /\ phase = "commit" /\ phase' = "sync_index" /\ UNCHANGED <<pending, receipts>>
      /\ txn' = [txn EXCEPT !.commit = Len(commits')]
  BY DEF CommitTree, Goto, diskVars
<1>2. pending[txn.req] # None /\ pending[txn.req].base = txn.base
  BY <1>1 DEF Intents, StagedPhases
<1>3. ByPending(c)'
  BY <1>1, <1>2 DEF ByPending
<1> QED
  BY <1>1, <1>3 DEF KnownByPhase

(* What staging computes, and what it leaves. *)
LEMMA StageOutcomes ==
  ASSUME Inv, Stage
  PROVE  /\ phase = "stage" /\ txn'.req = txn.req
         /\ UNCHANGED <<commits, head, worktree, published, receipts, pending,
                        acks, budget>>
         /\ LET base == TreeOf(published)
                next == Result(txn.req, base)
            IN  \/ phase' = "failed" /\ UNCHANGED txn
                \/ /\ phase' = IF next = base THEN "write_receipt"
                                              ELSE "write_pending"
                   /\ Admitted(txn.req, base)
                   /\ txn'.base = published /\ txn'.commit = published
                   /\ txn'.tree = next
                   /\ txn'.pre = Images(base, Touched(txn.req, base))
                   /\ txn'.post = Images(next, Touched(txn.req, base))
<1> DEFINE base == TreeOf(published)
           next == Result(txn.req, base)
           paths == Touched(txn.req, base)
<1>1. /\ phase = "stage"
      /\ UNCHANGED <<commits, head, worktree, published, receipts, pending,
                     acks, budget>>
  BY DEF Stage, gitVars, diskVars
<1>2. CASE Acceptable(txn.req)
  <2>1. /\ txn' = [txn EXCEPT !.base = published, !.tree = next,
                              !.commit = published,
                              !.pre = Images(base, paths),
                              !.post = Images(next, paths)]
        /\ phase' = IF next = base THEN "write_receipt" ELSE "write_pending"
        /\ Admitted(txn.req, base)
    BY <1>2 DEF Stage, Goto, Acceptable
  <2> HIDE DEF base, next, paths
  <2>2. /\ txn'.req = txn.req /\ txn'.base = published /\ txn'.commit = published
        /\ txn'.tree = next /\ txn'.pre = Images(base, paths)
        /\ txn'.post = Images(next, paths)
    BY <2>1 DEF Inv, TypeOK, IsTxn
  <2> QED
    BY <1>1, <2>1, <2>2 DEF base, next, paths
<1>3. CASE ~Acceptable(txn.req)
  BY <1>1, <1>3 DEF Stage, Goto
<1> QED
  BY <1>2, <1>3

(* What recover_pending does with the pending receipt. *)
LEMMA RecoverOutcomes ==
  ASSUME Inv, RecoverPending
  PROVE  /\ phase = "pending" /\ txn.req \in Requests
         /\ UNCHANGED <<commits, head, published, receipts, acks>>
         /\ LET stored == pending[txn.req]
                found  == CommitsForTree(stored.base, stored.tree)
                replay == ReplayState(stored.pre, stored.post)
            IN  \/ phase' = "failed" /\ UNCHANGED <<txn, pending>>
                \/ /\ phase' = "write_receipt" /\ UNCHANGED pending
                   /\ stored # None /\ replay = "applied"
                   /\ txn'.commit \in found /\ txn'.req = txn.req
                   /\ txn'.pre = stored.pre /\ txn'.post = stored.post
                \/ /\ phase' = "stage" /\ UNCHANGED txn
                   /\ pending' = [pending EXCEPT ![txn.req] = None]
                   /\ stored = None \/ found = {} \/ replay = "reverted"
<1> DEFINE stored == pending[txn.req]
           found  == IF stored = None THEN {}
                                      ELSE CommitsForTree(stored.base, stored.tree)
           replay == IF found = {} THEN "reverted"
                                   ELSE ReplayState(stored.pre, stored.post)
<1>1. /\ phase = "pending" /\ txn.req \in Requests
      /\ UNCHANGED <<commits, head, published, receipts, acks>>
  BY DEF RecoverPending, gitVars, Inv, TypeOK, IsTxn
<1>2. \/ phase' = "failed" /\ UNCHANGED <<txn, pending>>
      \/ /\ phase' = "write_receipt" /\ UNCHANGED pending /\ replay = "applied"
         /\ \E c \in found : txn' = [txn EXCEPT !.commit = c, !.pre = stored.pre,
                                                !.post = stored.post]
      \/ /\ phase' = "stage" /\ UNCHANGED txn
         /\ pending' = [pending EXCEPT ![txn.req] = None]
         /\ replay = "reverted"
  BY DEF RecoverPending, Goto
<1>3. CASE /\ phase' = "write_receipt" /\ UNCHANGED pending /\ replay = "applied"
           /\ \E c \in found : txn' = [txn EXCEPT !.commit = c, !.pre = stored.pre,
                                                  !.post = stored.post]
  <2>1. PICK c \in found : txn' = [txn EXCEPT !.commit = c, !.pre = stored.pre,
                                              !.post = stored.post]
    BY <1>3
  <2>2. /\ txn'.commit = c /\ txn'.req = txn.req
        /\ txn'.pre = stored.pre /\ txn'.post = stored.post
    BY <2>1 DEF Inv, TypeOK, IsTxn
  <2> QED
    BY <1>1, <1>3, <2>2
<1> QED
  BY <1>1, <1>2, <1>3

(* What a replay has found of the pages of the batch. *)
LEMMA ReplayMeans ==
  ASSUME NEW pre, NEW post
  PROVE  /\ ReplayState(pre, post) = "applied" =>
              \A p \in DOMAIN post : CurrentImage(p) = post[p]
         /\ ReplayState(pre, post) = "reverted" =>
              \A p \in DOMAIN pre : CurrentImage(p) = pre[p]
BY DEF ReplayState

(* An earlier commit stays undone or remembered. *)
LEMMA OldCommitRemembered ==
  ASSUME Inv, Exact, Intents, Remembered, [Next]_vars,
         NEW c \in OwnCommits, commits'[c] = commits[c]
  PROVE  /\ Undone(commits', c) \/ ByReceipt(c)' \/ ByPending(c)'
         /\ commits'[c].by = txn'.req => KnownByPhase(c)'
<1> DEFINE r == commits[c].by
<1>1. /\ c \in CommitIds /\ c <= head /\ r \in Requests /\ commits'[c].by = r
      /\ commits[c].parent \in CommitIds
  BY OwnCommitFacts
<1>2. /\ Undone(commits, c) => Undone(commits', c)
      /\ \A images : Restores(commits, images, c) <=> Restores(commits', images, c)
  BY <1>1, StepGrows, GrowthKeepsCommit
<1>3. /\ Undone(commits, c) \/ ByReceipt(c) \/ ByPending(c)
      /\ r = txn.req => KnownByPhase(c)
  BY DEF Remembered
<1>4. DOMAIN receipts = Requests /\ DOMAIN pending = Requests
  BY DEF Inv, TypeOK
<1>5. /\ receipts'[r] = receipts[r] => (ByReceipt(c) <=> ByReceipt(c)')
      /\ pending'[r] = pending[r] => (ByPending(c) <=> ByPending(c)')
  BY <1>2 DEF ByReceipt, ByPending
<1>6. ByPending(c) => /\ pending[r] # None
                      /\ Restores(commits, pending[r].pre, c)
                      /\ CommitsForTree(pending[r].base, pending[r].tree) # {}
  <2>1. ByPending(c) => /\ pending[r] # None
                        /\ IsIntent(commits, pending[r], r)
                        /\ pending[r].base = commits[c].parent
    BY <1>1 DEF ByPending, Intents
  <2> QED
    BY <2>1, IntentOfCommit, CommitIsFound
<1>7. ASSUME ByPending(c), txn.req = r, phase \in StagedPhases \ {"write_pending"}
      PROVE  Restores(commits, txn.pre, c) /\ txn.base = commits[c].parent
  <2>1. IsIntent(commits, txn, r) /\ txn.base = commits[c].parent
    BY <1>7 DEF Intents, ByPending
  <2> QED
    BY <2>1, IntentOfCommit
<1> HIDE DEF r
<1>8. CASE ReadReceipt
  <2>1. /\ phase = "receipt" /\ txn'.req = txn.req
        /\ UNCHANGED <<commits, published, receipts, pending>>
        /\ \/ phase' \in {"failed", "succeeded"}
           \/ /\ phase' = "pending"
              /\ \/ receipts[txn.req] = None
                 \/ ReplayState(receipts[txn.req].pre, receipts[txn.req].post)
                      = "reverted"
    <3>1. ReplayState(receipts[txn.req].pre, receipts[txn.req].post)
            \in {"applied", "reverted", "partial", "unreadable"}
      BY DEF ReplayState
    <3>2. /\ phase = "receipt" /\ UNCHANGED <<commits, published, receipts, pending>>
          /\ txn' = txn \/ txn' = [txn EXCEPT !.commit = receipts[txn.req].commit]
      BY <1>8 DEF ReadReceipt, Goto, gitVars, diskVars
    <3>3. txn'.req = txn.req
      <4>1. CASE txn' = txn
        BY <4>1
      <4>2. CASE txn' = [txn EXCEPT !.commit = receipts[txn.req].commit]
        BY <4>2
      <4> QED
        BY <3>2, <4>1, <4>2
    <3> QED
      BY <1>8, <3>1, <3>2, <3>3 DEF ReadReceipt, Goto
  <2>2. ASSUME r = txn.req, phase' = "pending"
        PROVE  c <= published /\ (Undone(commits, c) \/ ByPending(c))
    <3>1. c <= published /\ phase # "down"
      BY <1>3, <2>1, <2>2 DEF KnownByPhase
    <3>2. ByReceipt(c) => Undone(commits, c)
      BY <2>1, <2>2, <3>1, ReplayMeans, RevertedIsUndone DEF ByReceipt, r
    <3> QED
      BY <1>3, <3>1, <3>2
  <2> QED
    BY <1>1, <1>2, <1>3, <1>5, <2>1, <2>2 DEF KnownByPhase
<1>9. CASE RecoverPending
  <2>1. phase = "pending" /\ UNCHANGED <<commits, published, receipts>>
    BY <1>9, RecoverOutcomes
  <2>2. CASE phase' = "failed" /\ UNCHANGED <<txn, pending>>
    BY <1>1, <1>2, <1>3, <1>5, <2>1, <2>2 DEF KnownByPhase
  <2>3. CASE /\ phase' = "write_receipt" /\ UNCHANGED pending
             /\ txn'.req = txn.req /\ txn'.pre = pending[txn.req].pre
    <3>1. r = txn.req => Undone(commits, c) \/ Restores(commits, txn'.pre, c)
      BY <1>3, <1>6, <2>1, <2>3 DEF KnownByPhase
    <3> QED
      BY <1>1, <1>2, <1>3, <1>5, <2>1, <2>3, <3>1 DEF KnownByPhase
  <2>4. CASE /\ phase' = "stage" /\ UNCHANGED txn
             /\ pending' = [pending EXCEPT ![txn.req] = None]
             /\ \/ pending[txn.req] = None
                \/ CommitsForTree(pending[txn.req].base, pending[txn.req].tree) = {}
                \/ ReplayState(pending[txn.req].pre, pending[txn.req].post)
                     = "reverted"
    <3>1. ASSUME r = txn.req PROVE Undone(commits, c)
      <4>1. c <= published /\ (Undone(commits, c) \/ ByPending(c))
        BY <1>3, <2>1, <3>1 DEF KnownByPhase
      <4>2. ByPending(c) => Undone(commits, c)
        BY <1>6, <2>1, <2>4, <3>1, <4>1, ReplayMeans, RevertedIsUndone
      <4> QED
        BY <4>1, <4>2
    <3>2. r # txn.req => pending'[r] = pending[r]
      BY <1>1, <1>4, <2>4
    <3> QED
      BY <1>1, <1>2, <1>3, <1>5, <2>1, <2>4, <3>1, <3>2 DEF KnownByPhase
  <2> QED
    BY <1>9, <2>2, <2>3, <2>4, RecoverOutcomes
<1>10. CASE WritePending \/ RemovePending \/ DropPending
  <2>1. /\ UNCHANGED <<commits, head, published, receipts, txn>>
        /\ \A s \in Requests : s # txn.req => pending'[s] = pending[s]
    BY <1>4, <1>10 DEF WritePending, RemovePending, DropPending, gitVars
  <2>2. CASE r # txn.req
    BY <1>1, <1>2, <1>3, <1>5, <2>1, <2>2
  <2>3. CASE r = txn.req /\ WritePending
    <3>1. phase = "write_pending" /\ phase' = "write_changes"
      BY <2>3 DEF WritePending, Goto
    <3>2. Undone(commits, c)
      BY <1>3, <2>3, <3>1 DEF KnownByPhase
    <3> QED
      BY <1>2, <3>1, <3>2 DEF KnownByPhase
  <2>4. CASE r = txn.req /\ RemovePending
    <3>1. phase = "remove_pending" /\ phase' = "succeeded"
      BY <2>4 DEF RemovePending, Goto
    <3>2. Undone(commits, c) \/ ByReceipt(c)
      BY <1>3, <2>4, <3>1 DEF KnownByPhase
    <3> QED
      BY <1>2, <1>5, <2>1, <3>1, <3>2 DEF KnownByPhase
  <2>5. CASE r = txn.req /\ DropPending
    <3>1. /\ phase = "drop_pending" /\ phase' = "failed"
          /\ head = txn.base \/ UNCHANGED pending
      BY <2>5 DEF DropPending, Goto
    <3>2. Undone(commits, c) \/ ByPending(c)
      BY <1>3, <2>5, <3>1 DEF KnownByPhase
    <3>3. head = txn.base => ~ByPending(c)
      <4>1. commits[c].parent < c /\ c \in Nat /\ head \in Nat
            /\ commits[c].parent \in Nat
        BY <1>1, LogFacts DEF Inv, TypeOK
      <4> QED
        BY <1>1, <1>7, <2>5, <3>1, <4>1 DEF StagedPhases
    <3> QED
      BY <1>2, <1>5, <2>1, <3>1, <3>2, <3>3 DEF KnownByPhase
  <2> QED
    BY <1>10, <2>2, <2>3, <2>4, <2>5
<1>11. CASE WriteReceipt
  <2> DEFINE record == [commit |-> txn.commit, pre |-> txn.pre, post |-> txn.post]
  <2>1. /\ phase = "write_receipt" /\ phase' = "remove_pending"
        /\ receipts' = [receipts EXCEPT ![txn.req] = record]
        /\ UNCHANGED <<commits, published, pending, txn>>
    BY <1>11 DEF WriteReceipt, Goto, gitVars
  <2>2. record # None /\ record.pre = txn.pre
    <3>1. txn.commit \in Nat /\ IsImages(txn.pre) /\ IsImages(txn.post)
      BY <2>1, LogFacts DEF Inv, Addressed, TypeOK, IsTxn
    <3> QED
      BY <3>1, IntentIsNoNone, StoreAssumption
  <2> HIDE DEF record
  <2>3. CASE r # txn.req
    BY <1>1, <1>2, <1>3, <1>4, <1>5, <2>1, <2>3
  <2>4. CASE r = txn.req
    <3>1. Undone(commits, c) \/ Restores(commits, txn.pre, c)
      BY <1>3, <2>1, <2>4 DEF KnownByPhase
    <3>2. receipts'[r] = record
      BY <1>1, <1>4, <2>1, <2>4
    <3>3. Restores(commits, txn.pre, c) => ByReceipt(c)'
      BY <1>1, <1>2, <2>2, <3>2 DEF ByReceipt
    <3> QED
      BY <1>2, <2>1, <3>1, <3>3 DEF KnownByPhase
  <2> QED
    BY <2>3, <2>4
<1>12. CASE Refresh
  <2>1. /\ phase' \in {"receipt", "failed"}
        /\ phase' = "receipt" => published' = head
        /\ UNCHANGED <<commits, receipts, pending>>
    BY <1>12 DEF Refresh, Goto, gitVars, diskVars
  <2> QED
    BY <1>1, <1>2, <1>3, <1>5, <2>1 DEF KnownByPhase
<1>13. CASE Stage \/ WriteChanges \/ WriteChangesFails \/ CommitTree \/ CommitTreeFails
  <2>1. /\ phase \in {"stage", "write_changes", "commit"}
        /\ phase' \notin {"receipt", "pending"}
        /\ UNCHANGED <<receipts, pending>>
    BY <1>13 DEF Stage, WriteChanges, WriteChangesFails, CommitTree,
       CommitTreeFails, Goto, diskVars
  <2>2. txn'.req = txn.req
    <3>1. CASE WriteChanges \/ WriteChangesFails \/ CommitTreeFails
      BY <3>1 DEF WriteChanges, WriteChangesFails, CommitTreeFails
    <3>2. CASE CommitTree
      <4>1. txn' = txn \/ txn' = [txn EXCEPT !.commit = Len(commits')]
        BY <3>2 DEF CommitTree
      <4>2. CASE txn' = txn
        BY <4>2
      <4>3. CASE txn' = [txn EXCEPT !.commit = Len(commits')]
        BY <4>3
      <4> QED
        BY <4>1, <4>2, <4>3
    <3>3. CASE Stage
      BY <3>3, StageOutcomes
    <3> QED
      BY <1>13, <3>1, <3>2, <3>3
  <2>3. r = txn.req => Undone(commits, c)
    BY <1>3, <2>1 DEF KnownByPhase
  <2> QED
    BY <1>1, <1>2, <1>3, <1>5, <2>1, <2>2, <2>3 DEF KnownByPhase
<1>14. CASE SyncIndex \/ SyncIndexFails \/ Rollback \/ RollbackFails
  <2>1. /\ phase \in {"sync_index", "rollback"}
        /\ phase' \in {"write_receipt", "rollback", "drop_pending"}
        /\ UNCHANGED <<commits, receipts, pending, txn>>
    BY <1>14 DEF SyncIndex, SyncIndexFails, Rollback, RollbackFails, Goto,
       gitVars, diskVars
  <2>2. r = txn.req => Undone(commits, c) \/ ByPending(c)
    BY <1>3, <2>1 DEF KnownByPhase
  <2>3. r = txn.req => Undone(commits, c) \/ Restores(commits, txn.pre, c)
    BY <1>7, <2>1, <2>2 DEF StagedPhases
  <2> QED
    BY <1>1, <1>2, <1>3, <1>5, <2>1, <2>2, <2>3 DEF KnownByPhase
<1>15. CASE \/ ReceiptStepFails \/ Succeed \/ Fail \/ Crash \/ Restart
            \/ HandlerRefresh \/ \E s \in Requests : Begin(s)
  <2>1. /\ phase' \in {"failed", "idle", "down", "refresh"}
        /\ UNCHANGED <<commits, receipts, pending>>
    BY <1>15 DEF ReceiptStepFails, Succeed, Fail, Crash, Restart, HandlerRefresh,
       Begin, Goto, gitVars, diskVars
  <2> QED
    BY <1>2, <1>3, <1>5, <2>1 DEF KnownByPhase
<1>16. CASE ExternalCommit \/ ExternalReset \/ UNCHANGED vars
  <2>1. UNCHANGED <<published, receipts, pending, phase, txn>>
    BY <1>16 DEF ExternalCommit, ExternalReset, vars, diskVars
  <2> QED
    BY <1>1, <1>2, <1>3, <1>5, <2>1 DEF KnownByPhase
<1> QED
  BY <1>8, <1>9, <1>10, <1>11, <1>12, <1>13, <1>14, <1>15, <1>16
     DEF Next, DaemonStep, Fault

LEMMA RememberedStep ==
  ASSUME Inv, Exact, Intents, Remembered, [Next]_vars
  PROVE  Remembered'
<1> SUFFICES ASSUME NEW c \in OwnCommits'
             PROVE  /\ Undone(commits', c) \/ ByReceipt(c)' \/ ByPending(c)'
                    /\ commits'[c].by = txn'.req => KnownByPhase(c)'
  BY DEF Remembered
<1> QED
  BY OwnCommitsStep, OldCommitRemembered, NewCommitRemembered

-----------------------------------------------------------------------------
(***************************************************************************)
(* Answers.                                                                *)
(***************************************************************************)

(* A commit found for a pending receipt holds the effect of its request:    *)
(* the base is on the same branch, before it.                               *)
LEMMA FoundHoldsEffect ==
  ASSUME Inv, NEW s, NEW r, IsIntent(commits, s, r),
         NEW c \in CommitsForTree(s.base, s.tree)
  PROVE  HoldsEffect(commits, c, r)
<1>1. /\ c \in CommitIds /\ s.base \in CommitIds /\ head \in CommitIds
      /\ s.base \in Ancestors(head) /\ c \in Ancestors(head)
      /\ c \notin Ancestors(s.base)
      /\ commits[c].tree = s.tree
      /\ c \in Nat /\ s.base \in Nat /\ head \in Nat
  BY LogFacts DEF CommitsForTree, TreeOf, IsIntent, CommitIds
<1>2. s.base \in Ancestors(c)
  <2>1. CASE s.base <= c
    BY <1>1, <2>1, LogFacts, AncestorsAreLinear DEF Ancestors
  <2>2. CASE c <= s.base
    BY <1>1, <2>2, LogFacts, AncestorsAreLinear DEF Ancestors
  <2> QED
    BY <1>1, <2>1, <2>2
<1> QED
  BY <1>1, <1>2 DEF HoldsEffect, IsIntent, Ancestors

LEMMA AnswersInit == Init => Answers
BY DEF Init, Answers

LEMMA AnswersStep ==
  ASSUME Inv, Intents, Answers, [Next]_vars
  PROVE  Answers'
<1>1. \A c \in CommitIds : \A r :
        HoldsEffect(commits, c, r) => HoldsEffect(commits', c, r)
  BY StepGrows, LogFacts, GrowthKeepsEffect
<1>2. \A c \in CommitIds : commits'[c] = commits[c]
  BY StepGrows DEF Grows
<1>3. \A r \in Requests : receipts[r] # None => receipts[r].commit \in CommitIds
  BY DEF Inv, TypeOK, IsReceipt
<1>4. /\ phase = "sync_index" => txn.commit \in CommitIds
      /\ phase \in {"write_receipt", "remove_pending", "succeeded"} =>
           txn.commit \in CommitIds
      /\ phase \notin {"idle", "down"} => txn.req \in Requests
  BY DEF Inv, Addressed, TypeOK, IsTxn
<1>5. \A r \in Requests :
        receipts[r] # None => HoldsEffect(commits', receipts[r].commit, r)
  BY <1>1, <1>3 DEF Answers
<1>6. CASE WriteReceipt
  <2> DEFINE record == [commit |-> txn.commit, pre |-> txn.pre, post |-> txn.post]
  <2>1. /\ phase = "write_receipt" /\ phase' = "remove_pending"
        /\ receipts' = [receipts EXCEPT ![txn.req] = record]
        /\ UNCHANGED <<commits, txn>>
    BY <1>6 DEF WriteReceipt, Goto, gitVars
  <2>2. HoldsEffect(commits, txn.commit, txn.req) /\ record.commit = txn.commit
    BY <2>1 DEF Answers
  <2>3. txn.req \in Requests /\ DOMAIN receipts = Requests
    BY <1>4, <2>1 DEF Inv, TypeOK
  <2> HIDE DEF record
  <2> QED
    BY <1>5, <2>1, <2>2, <2>3 DEF Answers
<1>7. CASE CommitTree
  <2> DEFINE record == [tree |-> txn.tree, server |-> ServerOf(txn.base),
                        parent |-> txn.base, by |-> txn.req]
  <2>1. CASE head # txn.base
    BY <1>5, <1>7, <2>1 DEF CommitTree, Goto, Answers, diskVars
  <2>2. CASE head = txn.base
    <3>1. /\ commits' = Append(commits, record)
          /\ txn' = [txn EXCEPT !.commit = Len(commits')]
          /\ phase' = "sync_index" /\ UNCHANGED receipts
      BY <1>7, <2>2 DEF CommitTree, Goto, diskVars
    <3>2. commits'[Len(commits')] = record
      <4>1. commits \in Seq(CommitType)
        BY DEF Inv, TypeOK
      <4> QED
        BY <3>1, <4>1, AppendProperties
    <3>3. /\ txn'.commit = Len(commits') /\ txn'.base = txn.base
          /\ txn'.tree = txn.tree
      BY <3>1 DEF Inv, TypeOK, IsTxn
    <3> QED
      BY <1>5, <3>1, <3>2, <3>3 DEF Answers
  <2> QED
    BY <2>1, <2>2
<1>8. CASE SyncIndex
  <2>1. /\ phase = "sync_index" /\ phase' \in {"write_receipt", "rollback"}
        /\ UNCHANGED <<commits, receipts, txn>>
    BY <1>8 DEF SyncIndex, Goto, gitVars, diskVars
  <2>2. HoldsEffect(commits, txn.commit, txn.req)
    <3>1. /\ txn.commit \in CommitIds /\ commits[txn.commit].parent = txn.base
          /\ commits[txn.commit].tree = txn.tree
          /\ IsIntent(commits, txn, txn.req)
      BY <1>4, <2>1 DEF Answers, Intents, StagedPhases
    <3>2. txn.base \in CommitIds /\ txn.base < txn.commit
      BY <3>1 DEF IsIntent, CommitIds, Inv, TypeOK
    <3>3. txn.base \in 1 .. txn.commit /\ txn.commit \in Nat
      BY <3>1, <3>2, LogFacts
    <3>4. txn.base \in AncestorsIn(commits, txn.commit)
      BY <3>1, <3>3, LogFacts, AncestorParent DEF Ancestors
    <3> QED
      BY <3>1, <3>4 DEF HoldsEffect, IsIntent
  <2> QED
    BY <1>5, <2>1, <2>2 DEF Answers
<1>9. CASE Stage
  <2>1. phase' \in {"failed", "write_pending"} \/ phase' = "write_receipt"
    BY <1>9, StageOutcomes
  <2>2. ASSUME phase' = "write_receipt"
        PROVE  HoldsEffect(commits, txn'.commit, txn'.req)
    <3>1. /\ Result(txn.req, TreeOf(published)) = TreeOf(published)
          /\ Admitted(txn.req, TreeOf(published))
          /\ txn'.commit = published /\ txn'.req = txn.req
      BY <1>9, <2>2, StageOutcomes
    <3>2. published \in CommitIds
      BY <1>9, StageOutcomes DEF Inv, TypeOK
    <3> QED
      BY <3>1, <3>2, LogFacts DEF HoldsEffect, Ancestors, TreeOf
  <2> QED
    BY <1>5, <1>9, <2>1, <2>2, StageOutcomes DEF Answers
<1>10. CASE RecoverPending
  <2>1. /\ UNCHANGED <<commits, receipts>> /\ txn.req \in Requests
        /\ phase' \in {"failed", "stage"} \/ phase' = "write_receipt"
    BY <1>10, RecoverOutcomes
  <2>2. ASSUME phase' = "write_receipt"
        PROVE  HoldsEffect(commits, txn'.commit, txn'.req)
    <3>1. /\ pending[txn.req] # None /\ txn'.req = txn.req
          /\ txn'.commit \in CommitsForTree(pending[txn.req].base,
                                            pending[txn.req].tree)
      BY <1>10, <2>2, RecoverOutcomes
    <3> QED
      BY <2>1, <3>1, FoundHoldsEffect DEF Intents
  <2> QED
    BY <1>5, <2>1, <2>2 DEF Answers
<1>11. CASE ReadReceipt
  <2>1. /\ UNCHANGED <<commits, receipts>> /\ phase = "receipt"
        /\ \/ phase' \in {"failed", "pending"}
           \/ /\ phase' = "succeeded" /\ receipts[txn.req] # None
              /\ txn' = [txn EXCEPT !.commit = receipts[txn.req].commit]
    BY <1>11 DEF ReadReceipt, Goto, gitVars, diskVars
  <2>2. CASE /\ phase' = "succeeded" /\ receipts[txn.req] # None
             /\ txn' = [txn EXCEPT !.commit = receipts[txn.req].commit]
    <3>1. txn'.req = txn.req /\ txn'.commit = receipts[txn.req].commit
      BY <2>2 DEF Inv, TypeOK, IsTxn
    <3>2. HoldsEffect(commits, txn'.commit, txn'.req)
      BY <1>4, <2>1, <2>2, <3>1 DEF Answers
    <3> QED
      BY <1>5, <2>1, <2>2, <3>2 DEF Answers
  <2> QED
    BY <1>5, <2>1, <2>2 DEF Answers
<1>12. CASE RemovePending
  <2>1. /\ phase = "remove_pending" /\ phase' = "succeeded"
        /\ UNCHANGED <<commits, receipts, txn>>
    BY <1>12 DEF RemovePending, Goto, gitVars
  <2> QED
    BY <1>5, <2>1 DEF Answers
<1>13. CASE ExternalCommit \/ ExternalReset \/ UNCHANGED vars
  <2>1. UNCHANGED <<receipts, phase, txn>>
    BY <1>13 DEF ExternalCommit, ExternalReset, vars, diskVars
  <2> QED
    BY <1>1, <1>2, <1>4, <1>5, <2>1 DEF Answers
<1>14. CASE \/ Refresh \/ WritePending \/ WriteChanges \/ Rollback \/ DropPending
            \/ Succeed \/ Fail \/ Fault \/ HandlerRefresh \/ Crash \/ Restart
            \/ \E r \in Requests : Begin(r)
  <2>1. /\ UNCHANGED receipts
        /\ phase' \notin {"sync_index", "write_receipt", "remove_pending",
                          "succeeded"}
    BY <1>14 DEF Refresh, WritePending, WriteChanges, Rollback, DropPending,
       Succeed, Fail, Fault, WriteChangesFails, CommitTreeFails, SyncIndexFails,
       RollbackFails, ReceiptStepFails, HandlerRefresh, Crash, Restart, Begin,
       Goto, diskVars
  <2> QED
    BY <1>5, <2>1 DEF Answers
<1> QED
  BY <1>6, <1>7, <1>8, <1>9, <1>10, <1>11, <1>12, <1>13, <1>14
     DEF Next, DaemonStep

-----------------------------------------------------------------------------
(***************************************************************************)
(* Current.                                                                *)
(***************************************************************************)

(* A replay found applied shows the pages of the batch. *)
LEMMA AppliedIsShown ==
  ASSUME NEW pre, NEW post, ReplayState(pre, post) = "applied"
  PROVE  Shown(post)
BY ReplayMeans DEF Shown, CurrentImage, TreeOf

LEMMA CurrentInit == Init => Current
BY DEF Init, Current

LEMMA CurrentStep ==
  ASSUME Inv, Intents, Answers, Current, [Next]_vars
  PROVE  Current'
<1>1. \A c \in CommitIds : commits'[c] = commits[c]
  BY StepGrows DEF Grows
<1>2. phase # "down" => published \in CommitIds
  BY DEF Inv, TypeOK
<1>3. \A images : phase # "down" /\ UNCHANGED published /\ Shown(images)
                    => Shown(images)'
  BY <1>1, <1>2 DEF Shown
<1>4. CASE WriteReceipt
  <2> DEFINE record == [commit |-> txn.commit, pre |-> txn.pre, post |-> txn.post]
  <2>1. /\ phase = "write_receipt" /\ phase' = "remove_pending"
        /\ receipts' = [receipts EXCEPT ![txn.req] = record]
        /\ UNCHANGED <<commits, published, txn>>
    BY <1>4 DEF WriteReceipt, Goto, gitVars
  <2>2. record # None /\ record.post = txn.post
    <3>1. txn.commit \in Nat /\ IsImages(txn.pre) /\ IsImages(txn.post)
      BY <2>1, LogFacts DEF Inv, Addressed, TypeOK, IsTxn
    <3> QED
      BY <3>1, IntentIsNoNone, StoreAssumption
  <2>3. txn.req \in Requests /\ DOMAIN receipts = Requests
    BY <2>1 DEF Inv, TypeOK, IsTxn
  <2> HIDE DEF record
  <2>4. receipts'[txn'.req] = record
    BY <2>1, <2>3
  <2> QED
    BY <2>1, <2>2, <2>4 DEF Current, Shown
<1>5. CASE SyncIndex
  <2>1. /\ phase = "sync_index" /\ UNCHANGED <<commits, txn>>
        /\ \/ phase' = "rollback"
           \/ phase' = "write_receipt" /\ published' = txn.commit
    BY <1>5 DEF SyncIndex, Goto, gitVars
  <2>2. /\ commits[txn.commit].tree = txn.tree
        /\ \E paths : txn.post = Images(txn.tree, paths)
    BY <2>1 DEF Answers, Intents, IsIntent, StagedPhases
  <2> QED
    BY <2>1, <2>2 DEF Current, Shown, Images
<1>6. CASE Stage
  <2>1. /\ UNCHANGED <<commits, published>>
        /\ phase' \in {"failed", "write_pending"} \/ phase' = "write_receipt"
    BY <1>6, StageOutcomes
  <2>2. ASSUME phase' = "write_receipt"
        PROVE  \E paths : txn'.post = Images(TreeOf(published), paths)
    BY <1>6, <2>2, StageOutcomes
  <2> QED
    BY <2>1, <2>2 DEF Current, Shown, Images, TreeOf
<1>7. CASE RecoverPending
  <2>1. /\ UNCHANGED <<commits, published>> /\ phase = "pending"
        /\ phase' \in {"failed", "stage"} \/ phase' = "write_receipt"
    BY <1>7, RecoverOutcomes
  <2>2. ASSUME phase' = "write_receipt" PROVE Shown(txn'.post)
    BY <1>7, <2>2, RecoverOutcomes, AppliedIsShown
  <2> QED
    BY <2>1, <2>2 DEF Current, Shown
<1>8. CASE ReadReceipt
  <2>1. /\ UNCHANGED <<commits, published, receipts>>
        /\ \/ phase' \in {"failed", "pending"}
           \/ /\ phase' = "succeeded" /\ receipts[txn.req] # None
              /\ ReplayState(receipts[txn.req].pre, receipts[txn.req].post)
                   = "applied"
              /\ txn' = [txn EXCEPT !.commit = receipts[txn.req].commit]
    BY <1>8 DEF ReadReceipt, Goto, gitVars, diskVars
  <2>2. CASE /\ phase' = "succeeded" /\ receipts[txn.req] # None
             /\ ReplayState(receipts[txn.req].pre, receipts[txn.req].post)
                  = "applied"
             /\ txn' = [txn EXCEPT !.commit = receipts[txn.req].commit]
    <3>1. txn'.req = txn.req
      BY <2>2 DEF Inv, TypeOK, IsTxn
    <3>2. Shown(receipts[txn.req].post)
      BY <2>2, AppliedIsShown
    <3> QED
      BY <2>1, <2>2, <3>1, <3>2 DEF Current, Shown
  <2> QED
    BY <2>1, <2>2 DEF Current
<1>9. CASE RemovePending
  <2>1. /\ phase = "remove_pending" /\ phase' = "succeeded"
        /\ UNCHANGED <<commits, published, receipts, txn>>
    BY <1>9 DEF RemovePending, Goto, gitVars
  <2> QED
    BY <2>1 DEF Current, Shown
<1>10. CASE ExternalCommit \/ ExternalReset \/ UNCHANGED vars
  <2>1. UNCHANGED <<published, receipts, phase, txn>>
    BY <1>10 DEF ExternalCommit, ExternalReset, vars, diskVars
  <2>2. CASE phase \in {"write_receipt", "remove_pending", "succeeded"}
    BY <1>1, <1>2, <2>1, <2>2 DEF Current, Shown
  <2> QED
    BY <2>1, <2>2 DEF Current
<1>11. CASE \/ Refresh \/ WritePending \/ WriteChanges \/ CommitTree \/ Rollback
            \/ DropPending \/ Succeed \/ Fail \/ Fault \/ HandlerRefresh \/ Crash
            \/ Restart \/ \E r \in Requests : Begin(r)
  <2>1. phase' \notin {"write_receipt", "remove_pending", "succeeded"}
    BY <1>11 DEF Refresh, WritePending, WriteChanges, CommitTree, Rollback,
       DropPending, Succeed, Fail, Fault, WriteChangesFails, CommitTreeFails,
       SyncIndexFails, RollbackFails, ReceiptStepFails, HandlerRefresh, Crash,
       Restart, Begin, Goto
  <2> QED
    BY <2>1 DEF Current
<1> QED
  BY <1>4, <1>5, <1>6, <1>7, <1>8, <1>9, <1>10, <1>11 DEF Next, DaemonStep

-----------------------------------------------------------------------------
(***************************************************************************)
(* Checkout.                                                               *)
(***************************************************************************)
(* Restoring the paths of the batch from a tree that the rest of the        *)
(* checkout agrees with restores the tree.                                  *)
LEMMA MaterializedIsTree ==
  ASSUME NEW tree \in Tree, NEW paths,
         \A p \in Paths \ paths : worktree[p] = tree[p]
  PROVE  Materialized(paths, tree) = tree
BY DEF Materialized, Tree

(* What is written outside the paths of the batch. *)
LEMMA MaterializedElsewhere ==
  ASSUME NEW tree, NEW written, NEW paths, written \subseteq paths
  PROVE  \A p \in Paths \ paths : Materialized(written, tree)[p] = worktree[p]
BY DEF Materialized

LEMMA CheckoutInit == Init => Checkout
BY StoreAssumption DEF Init, Checkout, FaultsLeft

(* Whoever moves the branch moves the checkout with it. *)
LEMMA ExternalKeepsCheckout ==
  ASSUME Inv, [Next]_vars, ExternalCommit \/ ExternalReset
  PROVE  \A p \in Paths : worktree[p] = TreeOf(head)[p] =>
                            worktree'[p] = TreeOf(head)'[p]
<1>1. /\ worktree \in Tree /\ TreeOf(head) \in Tree
      /\ \A c \in CommitIds : commits'[c] = commits[c]
  BY CommitFacts, StepGrows DEF Inv, TypeOK, Grows
<1>2. CASE ExternalReset
  <2>1. PICK c \in CommitIds : head' = c /\ worktree' = TreeOf(c)
    BY <1>2 DEF ExternalReset
  <2> QED
    BY <1>1, <2>1 DEF TreeOf
<1>3. ASSUME NEW tree \in Tree, NEW server \in Servers, AppendExternal(tree, server)
      PROVE  TreeOf(head)' = tree
  <2> DEFINE record == [tree |-> tree, server |-> server,
                        parent |-> head, by |-> External]
  <2>1. commits' = Append(commits, record) /\ head' = Len(commits')
    BY <1>3 DEF AppendExternal
  <2>2. commits \in Seq(CommitType) /\ record \in CommitType
    BY LogFacts DEF CommitType, Inv, TypeOK
  <2>3. record.tree = tree
    OBVIOUS
  <2> HIDE DEF record
  <2>4. commits'[Len(commits')] = record
    BY <2>1, <2>2, AppendProperties
  <2> QED
    BY <2>1, <2>3, <2>4 DEF TreeOf
<1>4. ServerOf(head) \in Servers
  BY CommitFacts DEF Inv, TypeOK
<1>5. CASE ExternalCommit
  <2>1. CASE \E q \in Paths, page \in ExternalPages :
               /\ AppendExternal([TreeOf(head) EXCEPT ![q] = page], ServerOf(head))
               /\ worktree' = [worktree EXCEPT ![q] = page]
    <3>1. PICK q \in Paths, page \in ExternalPages :
               /\ AppendExternal([TreeOf(head) EXCEPT ![q] = page], ServerOf(head))
               /\ worktree' = [worktree EXCEPT ![q] = page]
      BY <2>1
    <3> DEFINE tree == [TreeOf(head) EXCEPT ![q] = page]
    <3>2. tree \in Tree
      BY <1>1, StoreAssumption DEF Tree
    <3>3. \A p \in Paths : tree[p] = IF p = q THEN page ELSE TreeOf(head)[p]
      BY <1>1 DEF Tree
    <3>4. \A p \in Paths : worktree'[p] = IF p = q THEN page ELSE worktree[p]
      BY <1>1, <3>1 DEF Tree
    <3>5. AppendExternal(tree, ServerOf(head))
      BY <3>1
    <3> HIDE DEF tree
    <3>6. TreeOf(head)' = tree
      BY <1>3, <1>4, <3>2, <3>5
    <3> QED
      BY <3>3, <3>4, <3>6
  <2>2. CASE \E server \in Servers : /\ AppendExternal(TreeOf(head), server)
                                     /\ UNCHANGED worktree
    BY <1>1, <1>3, <2>2
  <2> QED
    BY <1>5, <2>1, <2>2 DEF ExternalCommit
<1> QED
  BY <1>2, <1>5

LEMMA TreesAgree ==
  ASSUME NEW t \in Tree, NEW u \in Tree, \A p \in Paths : t[p] = u[p]
  PROVE  t = u
BY DEF Tree

LEMMA SpendElsewhere ==
  ASSUME NEW kind \in {"own", "external", "resets", "crashes"}, Spend(kind)
  PROVE  budget'.faults = budget.faults /\ budget'.broken = budget.broken
BY DEF Spend

LEMMA SpendFault ==
  ASSUME FaultsLeft, Spend("faults")
  PROVE  budget'.faults < MaxFaults
BY StoreAssumption DEF Spend, FaultsLeft

LEMMA FaultsLeftStep ==
  ASSUME FaultsLeft, [Next]_vars
  PROVE  FaultsLeft'
<1>1. CASE UNCHANGED budget
  BY <1>1 DEF FaultsLeft
<1>2. ASSUME NEW kind \in {"own", "external", "resets", "crashes"}, Spend(kind)
      PROVE  FaultsLeft'
  BY <1>2 DEF Spend, FaultsLeft
<1>3. CASE Spend("faults")
  BY <1>3, StoreAssumption DEF Spend, FaultsLeft
<1>4. CASE RollbackFails
  BY <1>4, StoreAssumption DEF RollbackFails, FaultsLeft
<1> QED
  BY <1>1, <1>2, <1>3, <1>4 DEF Next, vars, DaemonStep, Fault, Begin, Refresh,
     ReadReceipt, RecoverPending, Stage, WritePending, WriteChanges, CommitTree,
     SyncIndex, Rollback, DropPending, WriteReceipt, RemovePending, Succeed, Fail,
     HandlerRefresh, Crash, Restart, WriteChangesFails, CommitTreeFails,
     SyncIndexFails, ReceiptStepFails, ExternalCommit, ExternalReset

LEMMA CheckoutStep ==
  ASSUME Inv, Intents, Checkout, [Next]_vars
  PROVE  Checkout'
<1>1. FaultsLeft'
  BY FaultsLeftStep DEF Checkout, FaultsLeft
<1>2. /\ worktree \in Tree /\ TreeOf(head) \in Tree
      /\ worktree' \in Tree /\ TreeOf(head)' \in Tree
  <2>1. Inv'
    BY NextInv
  <2>2. worktree \in Tree /\ TreeOf(head) \in Tree
    BY CommitFacts DEF Inv, TypeOK
  <2>3. worktree' \in Tree /\ commits' \in Seq(CommitType) /\ head' \in DOMAIN commits'
    BY <2>1 DEF Inv, TypeOK, CommitIds
  <2>4. commits'[head'] \in CommitType
    BY <2>3, ElementOfSeq, LenProperties
  <2> QED
    BY <2>2, <2>3, <2>4 DEF TreeOf, CommitType
<1>3. worktree' = TreeOf(head)' => Checkout'
  BY <1>1 DEF Checkout, FaultsLeft
<1>4. UNCHANGED <<commits, head>> => TreeOf(head)' = TreeOf(head)
  BY DEF TreeOf
<1>5. CASE Restart
  BY <1>3, <1>4, <1>5 DEF Restart
<1>6. CASE Refresh \/ ReadReceipt \/ RecoverPending \/ Stage \/ WritePending
  <2>1. /\ phase \in {"refresh", "receipt", "pending", "stage", "write_pending"}
        /\ UNCHANGED <<commits, head, worktree>>
    BY <1>6 DEF Refresh, ReadReceipt, RecoverPending, Stage, WritePending, gitVars
  <2> QED
    BY <1>3, <1>4, <2>1 DEF Checkout
<1>7. CASE WriteChanges \/ WriteChangesFails
  <2>1. /\ phase = "write_changes" /\ phase' \in {"commit", "rollback"}
        /\ UNCHANGED <<commits, head, txn>>
        /\ \E written \in SUBSET DOMAIN txn.post :
             worktree' = Materialized(written, txn.tree)
    BY <1>7 DEF WriteChanges, WriteChangesFails, Goto
  <2>2. \A p \in Paths \ DOMAIN txn.post : worktree'[p] = worktree[p]
    BY <2>1, MaterializedElsewhere
  <2> QED
    BY <1>1, <1>4, <2>1, <2>2 DEF Checkout, FaultsLeft
<1>8. CASE CommitTree /\ head = txn.base
  <2> DEFINE record == [tree |-> txn.tree, server |-> ServerOf(txn.base),
                        parent |-> txn.base, by |-> txn.req]
  <2>1. /\ phase = "commit" /\ phase' = "sync_index"
        /\ commits' = Append(commits, record) /\ head' = Len(commits')
        /\ txn' = [txn EXCEPT !.commit = Len(commits')]
        /\ UNCHANGED worktree
    BY <1>8 DEF CommitTree, Goto
  <2>2. txn'.post = txn.post
    BY <2>1 DEF Inv, TypeOK, IsTxn
  <2>3. TreeOf(head)' = txn.tree
    <3>1. commits \in Seq(CommitType) /\ record.tree = txn.tree
      BY DEF Inv, TypeOK
    <3> HIDE DEF record
    <3>2. commits'[Len(commits')] = record
      BY <2>1, <3>1, AppendProperties
    <3> QED
      BY <2>1, <3>1, <3>2 DEF TreeOf
  <2>4. /\ txn.tree = Result(txn.req, TreeOf(head))
        /\ txn.post = Images(txn.tree, Touched(txn.req, TreeOf(head)))
        /\ IsRequest(txn.req)
    BY <1>8, <2>1, StoreAssumption DEF Intents, IsIntent, StagedPhases, TreeOf,
       Inv, TypeOK, IsTxn
  <2>5. \A p \in Paths \ DOMAIN txn.post : txn.tree[p] = TreeOf(head)[p]
    BY <1>2, <2>4, UntouchedKeep DEF Images
  <2>6. \A p \in Paths \ DOMAIN txn.post : worktree[p] = TreeOf(head)[p]
    BY <2>1 DEF Checkout
  <2> QED
    BY <1>1, <2>1, <2>2, <2>3, <2>5, <2>6 DEF Checkout, FaultsLeft
<1>9. CASE \/ CommitTree /\ head # txn.base
           \/ CommitTreeFails \/ SyncIndex \/ SyncIndexFails
  <2>1. /\ phase \in {"commit", "sync_index"}
        /\ phase' \in {"rollback", "write_receipt"}
        /\ UNCHANGED <<commits, head, worktree, txn>>
    BY <1>9 DEF CommitTree, CommitTreeFails, SyncIndex, SyncIndexFails, Goto, gitVars
  <2> QED
    BY <1>1, <1>4, <2>1 DEF Checkout, FaultsLeft
<1>10. CASE Rollback
  <2>1. /\ phase = "rollback" /\ UNCHANGED <<commits, head>>
        /\ worktree' = Materialized(DOMAIN txn.post, TreeOf(head))
    BY <1>10 DEF Rollback
  <2>2. worktree' = TreeOf(head)
    BY <1>2, <2>1, MaterializedIsTree DEF Checkout
  <2> QED
    BY <1>3, <1>4, <2>1, <2>2
<1>11. CASE RollbackFails
  <2>1. phase' = "drop_pending" /\ budget' = [budget EXCEPT !.faults = @ - 1,
                                                            !.broken = @ + 1]
    BY <1>11 DEF RollbackFails, Goto
  <2>2. budget'.broken # 0
    BY <2>1 DEF Checkout, FaultsLeft
  <2> QED
    BY <1>1, <2>1, <2>2 DEF Checkout, FaultsLeft
<1>12. CASE DropPending
  <2>1. /\ phase = "drop_pending" /\ phase' = "failed"
        /\ UNCHANGED <<commits, head, worktree, budget>>
    BY <1>12 DEF DropPending, Goto, gitVars
  <2> QED
    BY <1>1, <1>4, <2>1 DEF Checkout, FaultsLeft
<1>13. CASE ReceiptStepFails
  <2>1. phase' = "failed" /\ Spend("faults")
    BY <1>13 DEF ReceiptStepFails, Goto
  <2>2. budget'.faults # MaxFaults
    BY <1>1, <2>1, SpendFault, StoreAssumption DEF Checkout, FaultsLeft
  <2> QED
    BY <1>1, <2>1, <2>2 DEF Checkout, FaultsLeft
<1>14. CASE WriteReceipt \/ RemovePending \/ Succeed \/ Fail \/ Crash
            \/ HandlerRefresh
  <2>1. phase' \in {"remove_pending", "succeeded", "idle", "down"}
    BY <1>14 DEF WriteReceipt, RemovePending, Succeed, Fail, Crash,
       HandlerRefresh, Goto
  <2> QED
    BY <1>1, <2>1 DEF Checkout, FaultsLeft
<1>15. CASE ExternalCommit \/ ExternalReset
  <2>1. UNCHANGED <<phase, txn>> /\ (Spend("external") \/ Spend("resets"))
    BY <1>15 DEF ExternalCommit, ExternalReset
  <2>2. budget'.faults = budget.faults /\ budget'.broken = budget.broken
    BY <2>1, SpendElsewhere
  <2>3. \A p \in Paths : worktree[p] = TreeOf(head)[p] =>
                            worktree'[p] = TreeOf(head)'[p]
    BY <1>15, ExternalKeepsCheckout
  <2>4. worktree = TreeOf(head) => worktree' = TreeOf(head)'
    BY <1>2, <2>3, TreesAgree
  <2> QED
    BY <1>1, <2>1, <2>2, <2>3, <2>4 DEF Checkout, FaultsLeft
<1>16. CASE UNCHANGED vars
  BY <1>1, <1>4, <1>16 DEF vars, Checkout, FaultsLeft
<1>17. CASE \E r \in Requests : Begin(r)
  BY <1>3, <1>4, <1>17 DEF Begin
<1> QED
  BY <1>5, <1>6, <1>7, <1>8, <1>9, <1>10, <1>11, <1>12, <1>13, <1>14, <1>15,
     <1>16, <1>17 DEF Next, DaemonStep, Fault

-----------------------------------------------------------------------------
(***************************************************************************)
(* The theorems.                                                           *)
(***************************************************************************)

(* What the store remembers, answers and leaves in the checkout is right in *)
(* every reachable state.                                                   *)
THEOREM HistAlways == Spec => []HistInv
<1>1. Init => HistInv
  BY IntentsInit, RememberedInit, AnswersInit, CurrentInit, CheckoutInit DEF HistInv
<1>2. Inv /\ Exact /\ HistInv /\ [Next]_vars => HistInv'
  BY IntentsStep, RememberedStep, AnswersStep, CurrentStep, CheckoutStep DEF HistInv
<1> QED
  BY <1>1, <1>2, InvAlways, ExactAlways, PTL DEF Spec

(* A success is never answered from what was undone: the snapshot readers   *)
(* see has every page the batch wrote, also when a receipt is replayed.     *)
THEOREM SuccessIsCurrent == Spec => []AnswersAreCurrent
<1>1. HistInv => AnswersAreCurrent
  BY DEF HistInv, Current, Shown, AnswersAreCurrent, TreeOf
<1> QED
  BY <1>1, HistAlways, PTL

(* A failed edit leaves the checkout as the branch has it, even when the    *)
(* branch moved under the rollback or only some files had been written.     *)
THEOREM FailuresAreRolledBack == Spec => []FailedEditLeavesNoTrace
<1>1. HistInv => FailedEditLeavesNoTrace
  BY DEF HistInv, Checkout, FailedEditLeavesNoTrace
<1> QED
  BY <1>1, HistAlways, PTL

(* When a request is committed, its earlier commits on the branch are       *)
(* undone.                                                                  *)
LEMMA CommitsOfRequestUndone ==
  ASSUME Inv, Exact, Remembered, CommitTree, NEW c \in Ancestors(head),
         commits[c].by = txn.req
  PROVE  Undone(commits, c)
<1>1. phase = "commit" /\ txn.req \in Requests
  BY DEF CommitTree, Inv, TypeOK, IsTxn
<1>2. c \in OwnCommits
  BY <1>1, StoreAssumption DEF OwnCommits
<1> QED
  BY <1>1, <1>2 DEF Remembered, KnownByPhase

LEMMA RetriesStep ==
  ASSUME Inv, Exact, HistInv, RetriesApplyOnce, [Next]_vars
  PROVE  RetriesApplyOnce'
<1>1. /\ \A e \in CommitIds : e \in CommitIds' /\ commits'[e] = commits[e]
      /\ \A e \in CommitIds : Ancestors(e)' = Ancestors(e)
      /\ CommitIds' = DOMAIN commits' /\ CommitIds = DOMAIN commits
  BY StepGrows DEF Grows
<1> SUFFICES ASSUME NEW c \in CommitIds', NEW d \in CommitIds', c < d,
                    commits'[c].by # External, commits'[d].by = commits'[c].by,
                    c \in Ancestors(d)',
                    NEW p \in Paths,
                    commits'[c].tree[p] # commits'[commits'[c].parent].tree[p]
             PROVE  \E e \in c + 1 .. d - 1 :
                      commits'[e].tree[p] = commits'[commits'[c].parent].tree[p]
  BY DEF RetriesApplyOnce, TreeOf
<1>2. ASSUME NEW a \in CommitIds, commits[a].by # External
      PROVE  commits[a].parent \in CommitIds
  BY <1>2 DEF Exact, IsExactEdit
<1>3. CASE d \in CommitIds
  <2>1. c \in Ancestors(d) /\ c \in CommitIds
    BY <1>1, <1>3, LogFacts
  <2>2. commits[c].by # External /\ commits[d].by = commits[c].by
    BY <1>1, <1>3, <2>1
  <2>3. commits'[commits'[c].parent] = commits[commits[c].parent]
    BY <1>1, <1>2, <2>1, <2>2
  <2>4. PICK e \in c + 1 .. d - 1 :
          commits[e].tree[p] = commits[commits[c].parent].tree[p]
    BY <1>1, <1>3, <2>1, <2>2, <2>3 DEF RetriesApplyOnce, TreeOf
  <2>5. e \in CommitIds
    BY <1>3, <2>1, <2>4, LogFacts DEF IsLog, CommitIds
  <2> QED
    BY <1>1, <2>3, <2>4, <2>5
<1>4. CASE d \notin CommitIds
  <2>1. ~UNCHANGED commits
    BY <1>1, <1>4
  <2>2. CommitTree /\ head = txn.base
    <3>1. CommitTree \/ ExternalCommit
      BY <2>1 DEF Next, vars, gitVars, DaemonStep, Fault, Begin, Refresh,
         ReadReceipt, RecoverPending, Stage, WritePending, WriteChanges,
         SyncIndex, Rollback, DropPending, WriteReceipt, RemovePending, Succeed,
         Fail, HandlerRefresh, Crash, Restart, WriteChangesFails,
         CommitTreeFails, SyncIndexFails, RollbackFails, ReceiptStepFails,
         ExternalReset
    <3>2. ~ExternalCommit
      <4> SUFFICES ASSUME ExternalCommit PROVE FALSE
        OBVIOUS
      <4>1. PICK tree \in Tree, server \in Servers : AppendExternal(tree, server)
        BY StoreAssumption, CommitFacts DEF ExternalCommit, Inv, TypeOK, Tree
      <4>2. commits \in Seq(CommitType) /\ \A a \in CommitIds : commits[a].parent < a
        BY DEF Inv, TypeOK
      <4> DEFINE record == [tree |-> tree, server |-> server,
                            parent |-> head, by |-> External]
      <4>3. commits' = Append(commits, record) /\ record.by = External
        BY <4>1 DEF AppendExternal
      <4>4. record \in CommitType /\ record.parent \in CommitIds
        BY LogFacts DEF CommitType
      <4> HIDE DEF record
      <4>5. commits'[d] = record
        BY <1>1, <1>4, <4>2, <4>3, <4>4, AppendKeeps
      <4> QED
        BY <4>3, <4>5
    <3> QED
      BY <2>1, <3>1, <3>2 DEF CommitTree
  <2>3. /\ d = Len(commits') /\ head' = d /\ commits'[d].by = txn.req
        /\ d = Len(commits) + 1 /\ Len(commits) \in Nat
    <3> DEFINE record == [tree |-> txn.tree, server |-> ServerOf(txn.base),
                          parent |-> txn.base, by |-> txn.req]
    <3>1. commits' = Append(commits, record) /\ head' = Len(commits')
      BY <2>2 DEF CommitTree
    <3>2. commits \in Seq(CommitType) /\ \A a \in CommitIds : commits[a].parent < a
      BY DEF Inv, TypeOK
    <3>3. record \in CommitType /\ record.parent \in CommitIds
      <4>1. /\ txn.tree \in Tree /\ txn.req \in Requests /\ head \in Nat
            /\ ServerOf(txn.base) \in Servers
        BY <2>2, CommitFacts, LogFacts DEF CommitTree, Inv, TypeOK, IsTxn
      <4> QED
        BY <2>2, <4>1, LogFacts DEF CommitType
    <3>4. record.by = txn.req
      OBVIOUS
    <3> HIDE DEF record
    <3> QED
      BY <1>1, <1>4, <3>1, <3>2, <3>3, <3>4, AppendKeeps, LogFacts DEF IsLog
  <2>4. c \in OwnCommits' /\ c # head'
    <3>1. c # head'
      BY <2>3, <1>1
    <3> QED
      BY <2>3, <3>1 DEF OwnCommits
  <2>5. c \in OwnCommits /\ commits'[c] = commits[c]
    BY <2>4, OwnCommitsStep
  <2>6. Undone(commits, c) /\ c \in CommitIds /\ commits[c].parent \in CommitIds
    BY <2>2, <2>3, <2>5, CommitsOfRequestUndone, OwnCommitFacts DEF OwnCommits, HistInv
  <2>7. PICK e \in CommitIds : /\ e > c
                               /\ commits[e].tree[p] = Before(commits, c)[p]
    BY <1>1, <2>5, <2>6 DEF Undone, Before
  <2>8. e \in c + 1 .. d - 1
    BY <2>3, <2>6, <2>7, LogFacts DEF IsLog, CommitIds
  <2> QED
    BY <1>1, <2>5, <2>6, <2>7, <2>8 DEF Before
<1> QED
  BY <1>3, <1>4

(* An edit sent again is not applied again while its effect lasts: each     *)
(* page its first commit changed was back at its earlier text in between.   *)
THEOREM RetriesAreAppliedOnce == Spec => []RetriesApplyOnce
<1>1. Init => RetriesApplyOnce
  BY DEF Init, RetriesApplyOnce, CommitIds
<1> QED
  BY <1>1, RetriesStep, InvAlways, ExactAlways, HistAlways, PTL DEF Spec

-----------------------------------------------------------------------------
(***************************************************************************)
(* The write path implements EditHistory.                                  *)
(***************************************************************************)

(* The operators of Documents that EditHistory uses are the ones MdStore    *)
(* uses: the instance only names them apart.                                *)
LEMMA SameEdits ==
  ASSUME NEW r, NEW tree
  PROVE  /\ History!Admitted(r, tree) <=> Admitted(r, tree)
         /\ History!Result(r, tree) = Result(r, tree)
         /\ History!Touched(r, tree) = Touched(r, tree)
<1>1. \A edit, page : /\ History!EditedPage(edit, page) = EditedPage(edit, page)
                      /\ History!EditAdmitted(edit, page) <=> EditAdmitted(edit, page)
  BY DEF History!EditedPage, EditedPage, History!EditAdmitted, EditAdmitted,
         History!Resolves, Resolves, History!Anchor, Anchor, History!BlockAt, BlockAt
<1>2. History!BatchEdited(r, tree) = BatchEdited(r, tree)
  BY <1>1 DEF History!BatchEdited, BatchEdited
<1>3. \A moves, before, edited :
        /\ History!MovesAdmitted(moves, before, edited)
             <=> MovesAdmitted(moves, before, edited)
        /\ History!Moved(moves, edited) = Moved(moves, edited)
  BY DEF History!MovesAdmitted, MovesAdmitted, History!Moved, Moved
<1>4. History!Result(r, tree) = Result(r, tree)
  BY <1>2, <1>3 DEF History!Result, Result
<1>5. History!Admitted(r, tree) <=> Admitted(r, tree)
  BY <1>1, <1>2, <1>3 DEF History!Admitted, Admitted
<1>6. History!Touched(r, tree) = Touched(r, tree)
  BY <1>2, <1>4 DEF History!Touched, Touched
<1> QED
  BY <1>4, <1>5, <1>6

LEMMA SameBranch ==
  /\ \A c : History!Ancestors(c) = Ancestors(c)
  /\ \A c : History!TreeOf(c) = TreeOf(c)
  /\ History!CommitIds = CommitIds
  /\ History!Tree = Tree
BY DEF History!Ancestors, Ancestors, History!AncestorsIn, AncestorsIn,
       History!HoldsParents, HoldsParents, History!TreeOf, TreeOf,
       History!CommitIds, CommitIds, History!Tree, Tree, History!Page, Page

(* The guards EditHistory puts on an edit hold when the commit is made.     *)
LEMMA CommitTreeApplies ==
  ASSUME Inv, Exact, HistInv, CommitTree, head = txn.base
  PROVE  History!Apply(txn.req) /\ txn.req \in Requests
<1>1. /\ phase = "commit" /\ txn.req \in Requests
      /\ commits' = Append(commits, [tree |-> txn.tree, server |-> ServerOf(head),
                                     parent |-> head, by |-> txn.req])
      /\ head' = Len(commits')
      /\ UNCHANGED acks
  BY DEF CommitTree, Inv, TypeOK, IsTxn
<1>2. /\ Admitted(txn.req, TreeOf(head))
      /\ txn.tree = Result(txn.req, TreeOf(head))
      /\ txn.tree # TreeOf(head)
      /\ Valid(txn.tree)
  BY <1>1 DEF Inv, Staged
<1>3. \A c \in Ancestors(head) :
        commits[c].by = txn.req => Undone(commits, c)
  BY CommitsOfRequestUndone DEF HistInv
<1>4. \A c \in History!Ancestors(head) :
        commits[c].by = txn.req => History!Undone(c)
  <2> SUFFICES ASSUME NEW c \in Ancestors(head), commits[c].by = txn.req
               PROVE  History!Undone(c)
    BY SameBranch
  <2>1. Undone(commits, c)
    BY <1>3
  <2> QED
    BY <2>1 DEF Undone, Before, History!Undone, History!TreeOf, History!CommitIds
<1>5. History!Extend(Result(txn.req, TreeOf(head)), commits[head].server, txn.req)
  BY <1>1, <1>2 DEF History!Extend, ServerOf
<1>6. /\ History!Admitted(txn.req, TreeOf(head))
      /\ History!Result(txn.req, TreeOf(head)) = Result(txn.req, TreeOf(head))
  BY <1>2, SameEdits
<1> QED
  BY <1>1, <1>2, <1>4, <1>5, <1>6, SameBranch DEF History!Apply

(* An operator's commit is a commit of others. *)
LEMMA ExternalCommitIsOthers ==
  ASSUME Inv, ExternalCommit
  PROVE  History!OthersCommit
<1>1. PICK tree \in Tree, server \in Servers : AppendExternal(tree, server)
  BY StoreAssumption, CommitFacts DEF ExternalCommit, Inv, TypeOK, Tree
<1> DEFINE record == [tree |-> tree, server |-> server,
                      parent |-> head, by |-> External]
<1>2. commits' = Append(commits, record) /\ head' = Len(commits')
  BY <1>1 DEF AppendExternal
<1>3. commits \in Seq(CommitType) /\ record \in CommitType
  BY LogFacts DEF CommitType, Inv, TypeOK
<1>4. record.tree = tree /\ record.server = server
  OBVIOUS
<1>5. commits'[Len(commits')] = record
  <2> HIDE DEF record
  <2> QED
    BY <1>2, <1>3, AppendProperties
<1>6. History!Newest = record
  BY <1>5 DEF History!Newest
<1>7. UNCHANGED acks
  BY DEF ExternalCommit
<1> QED
  BY <1>2, <1>4, <1>6, <1>7, SameBranch DEF History!OthersCommit, History!Extend

(* An answer names a commit that holds the effect of the request. *)
LEMMA SucceedAnswers ==
  ASSUME Inv, HistInv, Succeed
  PROVE  History!Answer(txn.req) /\ txn.req \in Requests
<1>1. /\ phase = "succeeded" /\ txn.req \in Requests /\ txn.commit \in DOMAIN commits
      /\ acks' = acks \cup {[req |-> txn.req, commit |-> txn.commit]}
      /\ UNCHANGED <<commits, head>>
  BY DEF Succeed, gitVars, Inv, TypeOK, IsTxn, Addressed, CommitIds
<1>2. HoldsEffect(commits, txn.commit, txn.req)
  BY <1>1 DEF HistInv, Answers
<1>3. History!HoldsEffect(txn.commit, txn.req)
  BY <1>2, SameBranch, SameEdits
     DEF HoldsEffect, History!HoldsEffect, Ancestors, TreeOf
<1> QED
  BY <1>1, <1>3, SameBranch DEF History!Answer, CommitIds

LEMMA StepImplements ==
  ASSUME Inv, Exact, HistInv, [Next]_vars
  PROVE  [History!Next]_(History!vars)
<1>1. CASE CommitTree /\ head = txn.base
  BY <1>1, CommitTreeApplies DEF History!Next
<1>2. CASE ExternalCommit
  BY <1>2, ExternalCommitIsOthers DEF History!Next
<1>3. CASE ExternalReset
  BY <1>3, SameBranch DEF ExternalReset, History!Next, History!OthersReset
<1>4. CASE Succeed
  BY <1>4, SucceedAnswers DEF History!Next
<1>5. CASE UNCHANGED <<commits, head, acks>>
  BY <1>5 DEF History!vars
<1> QED
  BY <1>1, <1>2, <1>3, <1>4, <1>5 DEF Next, vars, gitVars, DaemonStep, Fault, Begin,
     Refresh, ReadReceipt, RecoverPending, Stage, WritePending, WriteChanges,
     CommitTree, SyncIndex, Rollback, DropPending, WriteReceipt, RemovePending,
     Fail, HandlerRefresh, Crash, Restart, WriteChangesFails, CommitTreeFails,
     SyncIndexFails, RollbackFails, ReceiptStepFails

(* The write path implements EditHistory: with the checkout, the snapshot,  *)
(* the receipts, crashes and faults forgotten, what is left is a branch of  *)
(* atomic edits, each applied at most once while its effect lasts, and      *)
(* answers that name commits holding the effect of their request.           *)
THEOREM StoreImplementsEditHistory == Spec => ImplementsEditHistory
<1>1. Init => History!Init
  BY DEF Init, History!Init
<1>2. Inv /\ Exact /\ HistInv /\ [Next]_vars => [History!Next]_(History!vars)
  BY StepImplements
<1> QED
  BY <1>1, <1>2, InvAlways, ExactAlways, HistAlways, PTL
     DEF Spec, ImplementsEditHistory, History!Spec
==============================================================================
