INIT MCInit
NEXT MCNext
CONSTANTS
    v1 = v1
    v2 = v2
    c1 = c1
    c2 = c2
    PageCount = 2
    Versions = {v1, v2}
    Codes = {c1, c2}
    Continuing = {2}
    Lengthy = {}
    BlankPages = {}
    Figured <- MCFigured
    GroupSize = 2
    MaxConversions = 3
    Untold = Untold
    NgramSize = 5
    NgramWindow = 8
    StartupGuard = 3
    LoopGuard = 3
    LoopSustained = 2
    LoopRepeats = 3
    RecentProgress = 1
    SourceReach = 2
    ShortText = 1
    LongBlock = 1
    DuplicateReach = 2
    Reserve = 0
    MaxRetries = 2
    ScoreTolerance = 1
    DecodingScenarios <- MCPages
    Unread = Unread
    Papers <- MCPapers
    Readings <- MCReadings
CHECK_DEADLOCK FALSE
INVARIANTS
    PagesAreOfOneConversion
    PublishedTextIsWhole
    RetriesOnlyImprove
    FaithfulReadsAreNotCut
    SupportedTextIsKept
    LocatedTextIsReadOnce
