SPECIFICATION FairSpec
CONSTANTS
    c1 = c1
    c2 = c2
    c3 = c3
    x = x
    y = y
    Call = {c1, c3}
    Command = {x, y}
    CommandOf <- MCCommandOf
    Batch = {c3}
    Parts <- MCParts
    MaxParts = 2
    NoCall = NoCall
    Faults = {"row_lost", "store_error"}
    MaxRestarts = 1
INVARIANTS AtMostOnce SuccessIsComplete
PROPERTIES OutcomeIsFinal SavedIsLearned KeepsPromise
CHECK_DEADLOCK FALSE
