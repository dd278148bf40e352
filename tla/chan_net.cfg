SPECIFICATION Spec
CONSTANTS
    sa = sa
    sb = sb
    sc = sc
    x = x
    y = y
    z = z
    wide = wide
    narrow = narrow
    Server = {sa, sb, sc}
    User = {x, y}
    Mode = {"t"}
    Ban = {wide, narrow}
    Covers <- WideCovers
    Topic = {"empty", "hello"}
    NoTopic = notopic
    Empty = "empty"
    MaxKey = 2
    Home <- HomeXYZ
    Hop <- ChainHop
    Dials <- ChainDials
    Magic = 1
    Lag = 1
    Plans = {{"join", "part", "kick", "o"}, {"join", "k"}, {"join", "b"}, {"join", "m", "topic"}, {"join", "part", "v"}}
    Titles = {"hello"}
    MaxNow = 3
    MaxTurn = 4
    MaxLoss = 1
INVARIANTS
    NoDouble QuietMembers QuietStatus QuietZombies
CHECK_DEADLOCK FALSE
SYMMETRY Mirror
