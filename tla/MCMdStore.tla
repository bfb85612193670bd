----------------------------- MODULE MCMdStore -----------------------------
(***************************************************************************)
(* Two pages, an end-of-file append that a retry could duplicate, a batch  *)
(* with an anchor over both pages, a conditional write, and a move.        *)
(***************************************************************************)
EXTENDS MdStore

CONSTANTS p, q

MCInitialTree == [x \in {p, q} |-> IF x = p THEN <<"a">> ELSE Absent]

BlocksOf(page) == IF page = Absent THEN {} ELSE {page[i] : i \in DOMAIN page}

MCValid(tree) == \A x \in {p, q} : "bad" \notin BlocksOf(tree[x])

Extend(block)       == [op |-> "extend", block |-> block]
Create(block)       == [op |-> "create", block |-> block]
AppendAfter(page, line, block) ==
  [op |-> "append", anchor |-> Anchor(page, line), block |-> block]
Replace(page, line, block) ==
  [op |-> "replace", anchor |-> Anchor(page, line), block |-> block]

EditBatch(edits, moves, expected) ==
  [kind |-> "edit", edits |-> edits, moves |-> moves, expected |-> expected]

NoEdits == [x \in {} |-> 0]

(* Appends "x" to p: nothing but the receipt keeps a retry from appending   *)
(* it twice.                                                                *)
ExtendP == EditBatch([x \in {p} |-> Extend("x")], {}, 0)

(* One batch over two pages: an anchored replacement and a creation. *)
ReplaceAndCreate ==
  EditBatch([x \in {p, q} |-> IF x = p THEN Replace(<<"a">>, 1, "b")
                                        ELSE Create("b")], {}, 0)

MoveP == EditBatch(NoEdits, {[from |-> p, to |-> q]}, 1)

PutP == [kind |-> "put", path |-> p, expected |-> <<"a">>, content |-> <<"y">>]

(* Deletes p once it holds what PutP wrote. *)
DeleteP == [kind |-> "put", path |-> p, expected |-> <<"y">>,
            content |-> Absent]

EditRequests == {ExtendP, ReplaceAndCreate, MoveP, PutP}
PutRequests  == {PutP, DeleteP}

NoPages == {}
MCExternalPages == {<<"a">>, <<"bad">>}
=============================================================================
