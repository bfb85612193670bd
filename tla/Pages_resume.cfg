INIT MCPagesInit
NEXT MCPagesNext
CONSTANTS
    v1 = v1
    v2 = v2
    c1 = c1
    c2 = c2
    PageCount = 2
    Versions = {v1, v2}
    Codes = {c1, c2}
    Continuing = {2}
    Lengthy = {}
    BlankPages = {}
    Figured <- MCFigured
    GroupSize = 2
    MaxConversions = 3
INVARIANTS
    InterruptedRunsResume
CHECK_DEADLOCK FALSE
