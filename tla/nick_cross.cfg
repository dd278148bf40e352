SPECIFICATION Spec
CONSTANTS
    sa = sa
    sb = sb
    sc = sc
    x = x
    y = y
    z = z
    n1 = n1
    n2 = n2
    Server = {sa, sb, sc}
    User = {x, y, z}
    Nick = {n1, n2}
    NoNick = nonick
    Home <- HomeXYZ
    HostOf <- AllDiffer
    Hop <- ChainHop
    Dials <- ChainDials
    Oper = {}
    Owner <- NoOwner
    MaxNow = 2
    MaxTurn = 2
    MaxLoss = 0
INVARIANTS
    CollisionsSettled SignOnAgreement
CHECK_DEADLOCK FALSE
SYMMETRY NickSymmetry
