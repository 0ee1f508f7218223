CONSTANTS
    Tunnels = {t1, t2}
    Conns = {c1, c2}
    Fds = {f1, f2}
    Routes <- MCRoutes
    c1 = c1
    t1 = t1
    NoConn = NoConn
    NoFd = NoFd
SPECIFICATION Spec
INVARIANTS
    SetIsTheThreads
    NoneLeftOpen

    
CHECK_DEADLOCK FALSE
