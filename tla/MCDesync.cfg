SPECIFICATION MCSpec
CONSTANTS
    NoHost = NoHost
    NoList = NoList
    Bad = Bad
    NoName = NoName
    IPCACHE_LIFETIME = 1
    CommandLines <- MCCommandLines
    FileContents <- MCFileContents
    Addrs = {"a", "b"}
    Target = "a"
    Ifaces = {"wan"}
    Hosts <- MCHosts
    LuaReturns <- MCLuaReturns
    MaxPackets = 4
    MaxOthers = 1
    MaxTime = 2
    RECONSTRUCT_MAX_SIZE = 16384
    V4Options = {0, 1, 10}
    Chains <- MCChains
    TcpOptions <- MCTcpOptions
    PayloadSizes = {0, 1, 3, 8}
    FragPositions = {2, 4, 6, 8, 10, 12}
    Names <- MCNames
    SidLens = {0, 2}
    HttpHosts = {16}
    Shifts <- MCShifts
    Payloads <- MCPayloads
    Frames <- MCFrames
    MAX_DEFRAG_PIECES = 3
    DefragRoom = 8
INVARIANTS
    RebuildIsExact
    FragmentsReassemble
    MarkersAreStable
    ModKeepsHello
    DefragIsExact
    NothingMissed
    ProfileIsCurrent
    CacheIsFresh
 
CHECK_DEADLOCK FALSE
