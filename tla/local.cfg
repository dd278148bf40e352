SPECIFICATION Spec
CONSTANTS
    l1 = l1
    l2 = l2
    r1 = r1
    wide = wide
    slim = slim
    Locals = {l1, l2}
    Others = {r1}
    Chan = {c1, c2}
    Mode = {"s", "p", "i", "O", "R", "M"}
    Ban = {wide, slim}
    Covers <- MCCovers
    Hit <- MCHit
    Nicks = {1, 2}
    ChanOpers = {l2}
    Hidden = {r1}
    MaxJoined = 1
    MaxBans = 1
    MaxKey = 1
    MaxLimit = 1
    Must = {"s"}
    Forbid = {"p"}
    ChanPlans <- MCChanPlans
    MaxChanTurns = 6
    Local = {l1, l2}
    Remote = {r1}
    Name = {na, nb}
    Guest = {g1, g2, g3}
    Vip = {nb}
    Lines = {"o", "O"}
    AutoModes = {"i"}
    Autos <- MCAutos
    MaxWatch = 1
    Hist = 2
    Plans <- MCPlans
    MaxTurn = 6
INVARIANTS Mirrored Lifetime BanCache Discreet WatchTold HistoryLists Entitled
CHECK_DEADLOCK FALSE
