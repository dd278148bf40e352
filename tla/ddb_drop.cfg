SPECIFICATION FairSpec
CONSTANTS
    svc = svc
    h = h
    l = l
    g = g
    Service = svc
    Server = {h, g}
    Hub <- StarHub
    Peer <- StarPeer
    Key = {k1}
    Value = {v1, v2}
    NoValue = none
    Star = star
    WriteVal = {v1, v2}
    DestMask <- ToAll
    DropMask <- ToAll
    Resident = TRUE
    BurstMax = 2
    MaxSerie = 3
    Checkpoints = FALSE
    MaxDrop = 1
    MaxLoss = 0
PROPERTIES
    Converges
CHECK_DEADLOCK FALSE
