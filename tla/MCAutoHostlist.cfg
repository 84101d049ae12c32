CONSTANTS
    Flows = {f1, f2}
    Hosts = {h, x}
    Excluded = {x}
    RetransThreshold = 2
    FailThreshold = 2
    FailTime = 2
    UdpOut = 2
    UdpIn = 0
    MaxTime = 3
    MaxEdits = 1
SPECIFICATION Spec
INVARIANTS  OneVerdictPerFlow NoDuplicateLines 
SYMMETRY Symmetry
CHECK_DEADLOCK FALSE
