SPECIFICATION FairSpec
CONSTANTS
    w1 = w1  w2 = w2  w3 = w3
    NoTask = NoTask
    Workers <- ThreeWorkers
    Total = 5
CHECK_DEADLOCK FALSE
INVARIANTS NobodySleepsOnWork ResultsComplete
PROPERTY MainReturns
