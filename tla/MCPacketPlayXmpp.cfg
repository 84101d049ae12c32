CONSTANTS
    SeqMod = 16
    ReasmMaxNeg = 6
    Scales = {0}
    HelloStart = 1
    HelloLen = 3
    StreamLen = 5
    MaxLen = 2
    SzMax = 4
    InitialLen = 2
    Windows = {5}
    ISN = 13
    MaxPackets = 4
SPECIFICATION PlaySpec
INVARIANT NoLuaDuringAssembly
CHECK_DEADLOCK FALSE
