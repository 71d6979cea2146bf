CONSTANTS
    t1 = t1
    t2 = t2
    t3 = t3
    t4 = t4
    t5 = t5
    t6 = t6
    idle = idle
    Timers <- MCTimers
    Times <- MCTimes
    Idle = idle
    InitialCapacity = 2
SPECIFICATION Spec
SYMMETRY Symmetry
CHECK_DEADLOCK FALSE
INVARIANT HoldsEachOnce
INVARIANT HeapOrdered
PROPERTY ImplementsQueue
