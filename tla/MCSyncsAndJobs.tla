--------------------------- MODULE MCSyncsAndJobs ---------------------------
(* A sync of doc2md, a transcription of speech2md, or the worker's handling  *)
(* of one job: one of the three moves in a behaviour.                        *)
EXTENDS MCTranscription, WorkerWorkspace, MCDocSync

MCAudio(a) == [i \in {"audio"} |-> a]
MCTwoInputs == [i \in {"audio", "manifest"} |-> i]
MCJobs ==
    { [inputs |-> << MCAudio("a"), MCAudio("b") >>, recipe |-> "speech",
       outputs |-> {"transcript", "voiceprints"}, attempts |-> 3, faults |-> 1],
      [inputs |-> << MCTwoInputs >>, recipe |-> "audio",
       outputs |-> {"enhanced"}, attempts |-> 3, faults |-> 2] }

MCNoSync ==
    /\ mode = Gone /\ source = Gone /\ clock = 0 /\ dir = Gone /\ remote = <<>>
    /\ sync = [p \in Syncs |-> IdleSync] /\ count = 0 /\ strays = {} /\ settled = Gone
    /\ budget = Gone
MCNoSpeech ==
    /\ spoken = Missing /\ version = 1 /\ cache = Missing /\ transcript = Missing
    /\ voiceprints = Missing /\ run = NoRun /\ reguided = FALSE /\ speechBudget = Missing
MCNoJobs ==
    /\ jobs = Absent /\ lease = Absent /\ disk = Absent /\ resident = Absent
    /\ attempts = [p \in WorkerProcesses |-> Idle] /\ accepted = {} /\ workerFaults = 0

MCSymmetry == Permutations(WorkerProcesses) \union Permutations(Syncs)

MCInit ==
    \/ SyncInit /\ MCNoSpeech /\ MCNoJobs
    \/ SpeechInit /\ MCNoSync /\ MCNoJobs
    \/ WorkerInit /\ MCNoSync /\ MCNoSpeech
MCNext ==
    \/ mode # Gone /\ SyncNext /\ UNCHANGED <<speechVars, workerVars>>
    \/ spoken # Missing /\ SpeechNext /\ UNCHANGED <<syncVars, workerVars>>
    \/ jobs # Absent /\ WorkerNext /\ UNCHANGED <<syncVars, speechVars>>
=============================================================================
