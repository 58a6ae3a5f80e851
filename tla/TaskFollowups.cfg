SPECIFICATION FairSpec
CONSTANTS
    f1 = f1
    Intent = {f1}
    Faults = {"bind_source_error", "late_error", "submit_error", "mark_error", "pass_error"}
    MaxAttempts = 3
    MaxCrashes = 2
    MaxSyncs = 2
INVARIANTS CompensatedOnce SubmittedIsWatched
PROPERTIES CompensatesEndedSource OutcomeStands IntentSettles
CHECK_DEADLOCK FALSE
