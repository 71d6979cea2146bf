SPECIFICATION FairSpec
CONSTANTS
    c1 = c1  c2 = c2  c3 = c3
    k1 = k1  k2 = k2
    f1 = f1  f2 = f2  f3 = f3
    NoFd = NoFd  Closed = Closed  Unconnected = Unconnected
    Calls <- ThreeCalls
    Faulty <- NoCalls
    Keys <- OneKey
    Fds <- TwoFds
    MaxConnections = 2
    MaxIdleTime = 1
CHECK_DEADLOCK FALSE
INVARIANTS NoLostWakeup
PROPERTIES EveryCallReturns IdleReclaimed DestructorEnds
