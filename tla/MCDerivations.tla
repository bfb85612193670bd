--------------------------- MODULE MCDerivations ---------------------------
(***************************************************************************)
(* A transcription t that uses the voiceprints of a derivation s as        *)
(* reference vectors, or one derivation by itself.                         *)
(***************************************************************************)
EXTENDS Derivations

CONSTANTS s, t

MCReferences(d) == IF d = t THEN {s} ELSE {}

(* Zombies, late and repeated completions around edits and a retry. *)
FenceBudget ==
  [derivations |-> {t}, attempts |-> 3, edits |-> 1, external |-> 1, reverts |-> 0,
   retries |-> 1, expiries |-> 1, failures |-> 0, crashes |-> 0, faults |-> 1]

(* A retry around failures and an edit. *)
RetryBudget ==
  [derivations |-> {t}, attempts |-> 3, edits |-> 1, external |-> 0, reverts |-> 0,
   retries |-> 1, expiries |-> 0, failures |-> 1, crashes |-> 0, faults |-> 0]

(* Reference vectors that change and go while they are used. *)
ReferenceBudget ==
  [derivations |-> {s, t}, attempts |-> 3, edits |-> 1, external |-> 1, reverts |-> 1,
   retries |-> 0, expiries |-> 0, failures |-> 0, crashes |-> 0, faults |-> 0]

(* As many claims as anything can ask for. *)
LiveBudget ==
  [derivations |-> {t}, attempts |-> 7, edits |-> 0, external |-> 1, reverts |-> 0,
   retries |-> 0, expiries |-> 1, failures |-> 2, crashes |-> 1, faults |-> 0]

MCScenarios == {FenceBudget, RetryBudget, ReferenceBudget, LiveBudget}
============================================================================
