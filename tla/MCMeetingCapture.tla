-------------------------- MODULE MCMeetingCapture --------------------------
(***************************************************************************)
(* Recordings of up to two microphone segments and one process.            *)
(***************************************************************************)
EXTENDS MeetingCapture, TLC

CONSTANTS a1, a2, m1, m2

(* One recording, that two instances capture and recover; or two           *)
(* recordings of one instance.                                             *)
Shared == [recordings |-> 1, launches |-> 3, recoveries |-> 2, crashes |-> 2, faults |-> 1]
Repeated == [recordings |-> 2, launches |-> 1, recoveries |-> 1, crashes |-> 1, faults |-> 1]

Symmetry == Permutations(Instances) \cup Permutations(Segments)

RecordingScenarios == {Shared, Repeated}
CleanUpScenarios == {[Shared EXCEPT !.faults = 0]}
=============================================================================
