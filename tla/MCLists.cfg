SPECIFICATION Spec
CONSTANTS
    W = 4
    ZctMin = 1
    ZctMax = 2
    PctMult = 3
    PctDiv = 4
    V6Threshold = 3
    Threads = {t1, t2}
    t1 = t1
    t2 = t2
    Inputs <- MCInputs
    AddrsOf <- MCAddrsOf
    Eagain = 2
    Nets <- MCNets
    NoNet = NoNet
INVARIANTS
    MdigAccounts
    IpsetIsExact
    
PROPERTY
    ListIsMade
