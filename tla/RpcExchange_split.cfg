SPECIFICATION FairSpec
CONSTANTS
    c1 = c1  c2 = c2  c3 = c3
    n1 = n1  n2 = n2
    NoConn = NoConn
    Zero = Zero
    InitialSize = 3
    Byte <- ResponseBytes
    Calls <- ThreeCalls
    Refused <- OneRefused
    Conns <- TwoConns
    Split = TRUE
CHECK_DEADLOCK FALSE
INVARIANTS StreamKept OwnAnswer
PROPERTIES EveryCallEnds ImplementsCall
