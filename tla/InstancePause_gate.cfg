SPECIFICATION FairSpec
CONSTANTS
    r1 = r1
    r2 = r2
    d1 = d1
    Instance = {d1}
    Request = {r1, r2}
    OwnerOf <- OneOwner
    Writes = {r1, r2}
    Monitor = Monitor
    None = None
    Faults = {}
    MaxLosses = 1
 
PROPERTIES PauseCompletes 
CHECK_DEADLOCK FALSE
