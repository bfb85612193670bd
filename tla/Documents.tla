------------------------------ MODULE Documents ------------------------------
(***************************************************************************)
(* The pure part of an edit transaction of mdstore: what a batch of       *)
(* hashline edits and moves does to the document tree of a commit         *)
(* (mdstore/src/hashline.rs, moves.rs, store/files.rs).                    *)
(*                                                                         *)
(* A page is the sequence of its blocks of text; a tree gives every path   *)
(* its page or Absent.  A hashline anchor names a line and the hash of the *)
(* line with its two neighbours, so it is modelled by the neighbours       *)
(* themselves: the one-byte collisions of short_hash are the subject of    *)
(* WebWorkspace, not of this module.                                       *)
(***************************************************************************)
EXTENDS Naturals, Sequences, FiniteSets

CONSTANTS Paths,      \* repository-relative document paths
          Blocks,     \* the units of text pages are made of
          Absent,     \* "no such file"
          Edge        \* the missing neighbour of a first or last line

ASSUME BlocksAssumption ==
  /\ Edge \notin Blocks
  /\ Absent \notin Seq(Blocks)

Page == Seq(Blocks)
Tree == [Paths -> Page \cup {Absent}]

(***************************************************************************)
(* Anchors.                                                                *)
(***************************************************************************)
BlockAt(page, line) == IF line \in DOMAIN page THEN page[line] ELSE Edge

Anchor(page, line) ==
  [line |-> line,
   hash |-> <<BlockAt(page, line - 1), page[line], BlockAt(page, line + 1)>>]

Resolves(anchor, page) ==
  /\ anchor.line \in DOMAIN page
  /\ Anchor(page, anchor.line) = anchor

(***************************************************************************)
(* One edit of one page.  op is "create" (Replace without an anchor),      *)
(* "replace" and "delete" (Replace with an anchor, with and without        *)
(* content), "append" (after the anchored line) or "extend" (Append        *)
(* without an anchor, at the end of the file).                             *)
(***************************************************************************)
EditAdmitted(edit, page) ==
  CASE edit.op = "create" -> page = Absent
    [] edit.op = "extend" -> page # Absent
    [] OTHER              -> page # Absent /\ Resolves(edit.anchor, page)

EditedPage(edit, page) ==
  CASE edit.op = "create" -> <<edit.block>>
    [] edit.op = "extend" -> Append(page, edit.block)
    [] edit.op = "append" -> SubSeq(page, 1, edit.anchor.line)
                               \o <<edit.block>>
                               \o SubSeq(page, edit.anchor.line + 1, Len(page))
    [] edit.op = "replace" -> [page EXCEPT ![edit.anchor.line] = edit.block]
    [] edit.op = "delete" ->
         IF Len(page) = 1
         THEN Absent
         ELSE SubSeq(page, 1, edit.anchor.line - 1)
                \o SubSeq(page, edit.anchor.line + 1, Len(page))

(***************************************************************************)
(* A batch: [kind |-> "edit", edits |-> partial function from Paths to     *)
(* edits, moves |-> set of [from, to], expected |-> commit or 0] is an     *)
(* apply_edits request; [kind |-> "put", path, expected, content] is the   *)
(* conditional write of one file (edit_file), whose precondition is the    *)
(* whole page it expects to replace.                                       *)
(***************************************************************************)
AnchorType == [line : Nat \ {0},
               hash : (Blocks \cup {Edge}) \X Blocks \X (Blocks \cup {Edge})]

EditType == [op : {"create", "extend"}, block : Blocks]
              \cup [op : {"append", "replace"}, anchor : AnchorType,
                    block : Blocks]
              \cup [op : {"delete"}, anchor : AnchorType]

IsRequest(r) ==
  \/ /\ r.kind = "put"
     /\ r.path \in Paths
     /\ r.expected \in Page \cup {Absent}
     /\ r.content \in Page \cup {Absent}
  \/ /\ r.kind = "edit"
     /\ DOMAIN r.edits \subseteq Paths
     /\ \A p \in DOMAIN r.edits : r.edits[p] \in EditType
     /\ \A m \in r.moves : m.from \in Paths /\ m.to \in Paths
     /\ r.expected \in Nat
     /\ r.moves # {} => r.expected # 0

BatchEdited(r, tree) ==
  [p \in Paths |-> IF p \in DOMAIN r.edits THEN EditedPage(r.edits[p], tree[p])
                                           ELSE tree[p]]

MovesAdmitted(moves, before, edited) ==
  /\ \A m \in moves : /\ m.from # m.to
                      /\ before[m.from] # Absent
                      /\ edited[m.from] # Absent
                      /\ edited[m.to] # Absent => \E n \in moves : n.from = m.to
  /\ \A m, n \in moves : m # n => m.from # n.from /\ m.to # n.to

Moved(moves, edited) ==
  [p \in Paths |->
     IF \E m \in moves : m.to = p
     THEN edited[(CHOOSE m \in moves : m.to = p).from]
     ELSE IF \E m \in moves : m.from = p THEN Absent ELSE edited[p]]

Admitted(r, tree) ==
  IF r.kind = "put"
  THEN /\ tree[r.path] = r.expected
       /\ tree[r.path] = Absent => r.content # Absent
  ELSE /\ \A p \in DOMAIN r.edits : EditAdmitted(r.edits[p], tree[p])
       /\ MovesAdmitted(r.moves, tree, BatchEdited(r, tree))

Result(r, tree) ==
  IF r.kind = "put" THEN [tree EXCEPT ![r.path] = r.content]
                    ELSE Moved(r.moves, BatchEdited(r, tree))

(* The paths whose images the receipt of a batch records: those it names    *)
(* and those its moves change.                                              *)
Touched(r, tree) ==
  IF r.kind = "put"
  THEN {r.path}
  ELSE DOMAIN r.edits
         \cup {p \in Paths : Result(r, tree)[p] # BatchEdited(r, tree)[p]}

Images(tree, paths) == [p \in paths |-> tree[p]]

(***************************************************************************)
(* The branch.  A log numbers the commits in the order they were made, so  *)
(* a parent is an older number, or 0 for the first commit.  The ancestors  *)
(* of a commit are the least set that holds it and its members' parents.   *)
(***************************************************************************)
HoldsParents(log, S) == \A d \in S : log[d].parent \in S \cup {0}

AncestorsIn(log, c) ==
  {a \in 1 .. c :
     \A S \in SUBSET (1 .. c) : c \in S /\ HoldsParents(log, S) => a \in S}
==============================================================================
