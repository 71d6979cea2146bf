SPECIFICATION Spec
CONSTANTS
    BufSize  = 6
    Files    <- SmallFiles
    PortKey  <- PKey
    Digits   <- Eight
    Requests <- SmallRequests
    Targets  <- TwoTargets
    Service  <- S
    Login    <- M
    Verdicts <- SmallVerdicts
    MaxCalls = 2
INVARIANTS
    ConfigAsWritten
    RequestKept
    ResponseKept
    SizeIsLength
    ReadTogetherMerges
CHECK_DEADLOCK FALSE
