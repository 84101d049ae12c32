CONSTANTS
    SeqMod = 16
    ReasmMaxNeg = 6
    Scales = {0}
    HelloStart = 0
    HelloLen = 3
    StreamLen = 4
    MaxLen = 2
    SzMax = 4
    InitialLen = 2
    Windows = {2, 4}
    ISN = 13
    MaxPackets = 4
SPECIFICATION PlaySpec
INVARIANTS HeldImpliesSession SessionIsWaiting DataLeavesInOrder EveryPacketOnce
    ClientCanFinish NoLuaDuringAssembly
PROPERTY ImplementsDelayLine
CHECK_DEADLOCK FALSE
