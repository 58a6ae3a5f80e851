SPECIFICATION LeaderFairSpec
CONSTANTS
    a = a
    b = b
    scan = scan
    ta = ta
    tb = tb
    Client = {a, b}
    Job = {scan}
    Automatic = {}
    Call = {ta, tb}
    ClientOf <- MCClientOf
    JobOf <- MCJobOf
    Capable = {a}
    NoClient = NoClient
    SlotTTL = 2
    InstanceTTL = 2
    PollEvery = 1
    Interval = 2
    Retry = 1
    MaxRestarts = 1

PROPERTIES NoEarlyClaim YieldsToCapable 
CHECK_DEADLOCK FALSE
