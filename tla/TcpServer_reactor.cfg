SPECIFICATION FairSpec
CONSTANTS
    f1 = f1  f2 = f2
    NoFd = NoFd
    Fds <- TwoFds
    Timers <- TwoTimers
    TIMESLOT = 1
    OtherThreads = TRUE
CHECK_DEADLOCK FALSE
INVARIANTS TimerCoverage NoLostEdge
PROPERTIES SilentClosed ShutdownCompletes
