CONSTANTS
    SeqMod = 8
    Scales = {0, 1}
    e1 = e1
    e2 = e2
    Conns <- MCConns
    Segments <- MCSegments
    TimeoutSyn = 2
    TimeoutEst = 3
    TimeoutFin = 1
    TimeoutUdp = 2
    PurgeInterval = 2
    MaxTime = 4
    MaxCount = 2
SPECIFICATION Spec
INVARIANTS TypeOK OneTrackPerConnection PurgeIsComplete
PROPERTY LiveEntryIsKept
CHECK_DEADLOCK FALSE
