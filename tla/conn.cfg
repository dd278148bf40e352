CONSTANTS
    c1 = c1
    c2 = c2
    k1 = k1
    a1 = a1
    a2 = a2
    Caller = {c1, c2}
    Link = {k1}
    Addr = {a1, a2}
    Home <- MCHome
    MaxFd = 8
    MaxClients = 4
    MaxCached = 1
    Ident = TRUE
    MaxLines = 1
    MaxOpen = 2
    MaxOps = 1
SPECIFICATION Spec
INVARIANTS FdTable NothingFreed NrOf NoneGlined Settles
CHECK_DEADLOCK FALSE
