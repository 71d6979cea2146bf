SPECIFICATION Spec
CONSTANTS
    w1 = w1  w2 = w2
    NoLine = NoLine
    Writers <- TwoWriters
    LinesEach = 3
    MaxQueue = 2
    SplitLines = 2
    MaxDay = 2
    MaxFailures = 1
CHECK_DEADLOCK FALSE
INVARIANTS LineInOnePlace NullOnlyByFailure
PROPERTIES QueueKeepsOrder QueuedGetsWritten
