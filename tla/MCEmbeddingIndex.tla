--------------------------- MODULE MCEmbeddingIndex ---------------------------
(***************************************************************************)
(* Two pages over two chunks, which they may share.                        *)
(***************************************************************************)
EXTENDS EmbeddingIndex

SingleTexts == {<<"a">>, <<"b">>}
LongTexts == {<<"a">>, <<"b", "a">>}

MaintainBudget ==
  [edits |-> 1, rebuilds |-> 1, failures |-> 1, retries |-> 1, crashes |-> 1]
===============================================================================
