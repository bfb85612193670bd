CONSTANTS
    Second = 2
    TargetPart = 40
    WindowOverlap = 2
    HardOverlap = 4
    SilenceSearch = 4
    TimestampTolerance = 2
    TokenThreshold = 13
    RecoveryOverlap = 8
    MinProgress = 3
    MaxRecoveries = 2
    MinSample = 4
    MaxSample = 12
    MaxSamples = 1
    SimilarityThreshold = 65
    SimilarityMargin = 8
    Missing = Missing
    Tracks <- MCTracks
    SpeechScenarios <- MCScenarios
    NoProcess = NoProcess
    Absent = Absent
    WorkerProcesses = {w1, w2}
    JobScenarios <- MCJobs
    Ids = {1, 2}
    Titles = {1, 2}
    Folders = {8, 9}
    Root = 9
    Parent <- MCParent
    Syncs = {s1, s2}
    SyncScenarios <- MCSyncs
    MaxAttempts = 3
    Gone = Gone
SYMMETRY MCSymmetry
INIT MCInit
NEXT MCNext
CHECK_DEADLOCK FALSE
INVARIANTS
    StandingDocumentsAreKept
    QuietSyncsChangeNothing
    FilesAreManaged
    PushesAddOneCommit
    GenerationsAreReusedForTheirInputs
    TranscriptsAreFaithful
    JobsAreIsolated
