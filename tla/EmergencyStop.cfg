SPECIFICATION FairSpec
CONSTANTS
    a = a
    b = b
    Operator = {a, b}
    None = None
    Faults = {"save_error", "snapshot_error"}
    MaxCrashes = 2
INVARIANTS StopCovers ReleaseCovers
PROPERTIES  TransitionEnds
CHECK_DEADLOCK FALSE
