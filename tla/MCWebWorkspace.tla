--------------------------- MODULE MCWebWorkspace ---------------------------
(***************************************************************************)
(* Documents that other clients and the user change in both regions.       *)
(***************************************************************************)
EXTENDS WebWorkspace

Readings ==
  [others |-> 0, edits |-> 0, syncs |-> 1, opens |-> 1, creates |-> 0,
   deletes |-> 0, discards |-> 0, submits |-> 1, losses |-> 0, reloads |-> 0]

(* Much editing on both sides; each of the other operations once; or a     *)
(* document that is created again while its draft is there.                *)
DraftScenarios ==
  {[Readings EXCEPT !.others = 2, !.edits = 2, !.creates = 1, !.losses = 1,
                 !.reloads = 1],
   [Readings EXCEPT !.others = 1, !.edits = 1, !.creates = 1, !.deletes = 1,
                 !.discards = 1, !.losses = 1, !.reloads = 1],
   [Readings EXCEPT !.others = 1, !.edits = 1, !.creates = 2, !.opens = 0]}

=============================================================================
