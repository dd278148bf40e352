SPECIFICATION Spec
CONSTANTS
    svc = svc
    h = h
    l = l
    g = g
    Service = svc
    Server = {h, l}
    Hub <- ChainHub
    Peer <- ChainPeer
    Key = {k1}
    Value = {v1, v2}
    NoValue = none
    Star = star
    WriteVal = {v1, none}
    DestMask <- ToAll
    DropMask <- ToAll
    Resident = TRUE
    BurstMax = 2
    MaxSerie = 3
    Checkpoints = TRUE
    MaxDrop = 0
    MaxLoss = 1
INVARIANTS
    QuietAgreement

CHECK_DEADLOCK FALSE
