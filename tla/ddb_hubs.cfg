SPECIFICATION FairSpec
CONSTANTS
    svc = svc
    h = h
    l = l
    g = g
    Service = svc
    Server = {h, l, g}
    Hub <- HubsHub
    Peer <- HubsPeer
    Key = {k1}
    Value = {v1, v2}
    NoValue = none
    Star = star
    WriteVal = {v1, v2}
    DestMask <- ToAll
    DropMask <- ToAll
    Resident = TRUE
    BurstMax = 2
    MaxSerie = 2
    Checkpoints = TRUE
    MaxDrop = 0
    MaxLoss = 1
INVARIANTS
    TypeOK FileEndsAtSerie MemoryIsFile NoHole QuietAgreement
PROPERTIES
    Converges
CHECK_DEADLOCK FALSE
