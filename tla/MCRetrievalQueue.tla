--------------------------- MODULE MCRetrievalQueue ---------------------------
(***************************************************************************)
(* A document and a query, embedded by one recipe.                         *)
(***************************************************************************)
EXTENDS RetrievalQueue

MCRecipeOf(id) == "embed"

(* Late, repeated and lost answers around a forced rebuild, a retry and a  *)
(* crash between two files.                                                *)
AnswerBudget ==
  [attempts |-> 3, queries |-> 2, retries |-> 1, clears |-> 1, failures |-> 0, expiries |-> 0,
   edits |-> 0, crashes |-> 1]

LiveBudget ==
  [attempts |-> 5, queries |-> 0, retries |-> 0, clears |-> 0, failures |-> 2, expiries |-> 1,
   edits |-> 1, crashes |-> 1]

RequestScenarios == {AnswerBudget, LiveBudget}
===============================================================================
