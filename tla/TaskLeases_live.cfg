SPECIFICATION FairSpec
CONSTANTS
    r1 = r1
    r2 = r2
    r3 = r3
    alice = alice
    bob = bob
    orderA = orderA
    scan = scan
    Request = {r1, r2}
    Operator = {alice, bob}
    Resource = {orderA, scan}
    Lockable = {orderA}
    Writes = {r1, r2}
    NoRequest = NoRequest
    Faults = {"slow_submit", "bind_error", "late_leave", "crash_unbound", "crash_recovery", "close"}
    MaxHalts = 2
    OwnerOf <- MCOwnerOf2
    Needs <- MCNeeds2

PROPERTIES LiveTaskKeepsLease LeaseIsReturned
CHECK_DEADLOCK FALSE
