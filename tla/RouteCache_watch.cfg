SPECIFICATION FairSpec
CONSTANTS
    c1 = c1  c2 = c2  c3 = c3
    h1 = h1  h2 = h2  h3 = h3
    NoRing = NoRing
    NoHost = NoHost
    Calls <- TwoCalls
    Hosts <- ThreeHosts
    VirtualNodes = 2
    Hash <- SixPlaces
    Keys <- KeysAround
    MaxChanges = 3
    FetchMayFail = TRUE
CHECK_DEADLOCK FALSE
INVARIANTS WatchKept RoutesAgree
PROPERTIES NewsArrives
