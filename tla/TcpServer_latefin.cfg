SPECIFICATION Spec
CONSTANTS
    f1 = f1  f2 = f2
    NoFd = NoFd
    Fds <- OneFd
    Timers <- ThreeTimers
    TIMESLOT = 1
    OtherThreads = FALSE
CHECK_DEADLOCK FALSE
INVARIANTS NoEarlyKick
