CONSTANTS
    Hostlists <- MCHostlists
    Ipsets <- MCIpsets
    QueueMax = 1
    MaxPackets = 2
    MaxEdits = 1
    MaxSignals = 2
    Launches <- MCLaunches
SPECIFICATION ProgSpec
INVARIANT NextPacketReloads
