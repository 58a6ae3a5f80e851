SPECIFICATION FairSpec
CONSTANTS
    w = w
    r = r
    Task = {w, r}
    Writes = {w}
    MaxRuns = 2
    Faults = {}
INVARIANTS OutstandingIsFlagged  ThreadIsOnTheBooks
PROPERTIES OverIsOver 
CHECK_DEADLOCK FALSE
