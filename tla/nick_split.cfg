SPECIFICATION Spec
CONSTANTS
    sa = sa
    sb = sb
    sc = sc
    x = x
    y = y
    z = z
    n1 = n1
    n2 = n2
    Server = {sa, sb, sc}
    User = {x, y}
    Nick = {n1, n2}
    NoNick = nonick
    Home <- HomeXY
    HostOf <- XIsY
    Hop <- ChainHop
    Dials <- ChainDials
    Oper = {x}
    Owner <- XOwns
    MaxNow = 2
    MaxTurn = 1
    MaxLoss = 1
INVARIANTS
    CollisionsSettled SignOnAgreement
CHECK_DEADLOCK FALSE
