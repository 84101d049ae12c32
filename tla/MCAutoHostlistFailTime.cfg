CONSTANTS
    Flows = {f1, f2}
    Hosts = {h}
    Excluded = {}
    RetransThreshold = 2
    FailThreshold = 3
    FailTime = 2
    UdpOut = 2
    UdpIn = 1
    MaxTime = 4
    MaxEdits = 0
SPECIFICATION Spec
INVARIANT ListedAsDocumented
CHECK_DEADLOCK FALSE
